--------------------------- MODULE HandoverProofs ---------------------------
(***************************************************************************)
(* Proofs about Handover for any number of processes, versions, targets,   *)
(* relics and inodes, and any supply of commands, faults and edits.        *)
(***************************************************************************)
EXTENDS Handover, TLAPS

USE DEF Ended, Working, Leaving

(* Steps only a migration takes; steps that need its plan; steps an init   *)
(* takes once it has seen no legacy configuration; steps that write.       *)
Migrating == {"detect", "survey", "draft", "recall", "current", "check", "recheck", "intent",
              "targets", "verify", "relics", "weigh", "unlink"}
Planning == (Migrating \ {"detect"}) \union
            {"make", "acquire", "stage", "config", "catalog", "lock"}
Scaffolding == {"make", "acquire", "scan", "stage", "config", "catalog", "lock"}
Committing == {"recheck", "intent", "targets", "config", "catalog", "verify", "lock", "relics",
               "weigh", "unlink"}
USE DEF Migrating, Planning, Scaffolding, Committing

(* What a process at step l with plan m relies on. *)
Relies(p, l, m) ==
  /\ l \in Migrating => job[p] = "migrate"
  /\ l \in {"look", "scan"} => job[p] = "init"
  /\ l \in Working => job[p] \in {"init", "migrate"}
  /\ job[p] = "migrate" /\ l \in Planning => m \in Plans /\ m.of \in offered
  /\ job[p] = "init" /\ l \in Scaffolding => None \in offered
  /\ l \in {"scan", "check", "stage"} => held[p] # None
  /\ l \in Committing => /\ held[p] = dir /\ dir # None
                         /\ p \in staged \/ Present # {}
  /\ job[p] = "migrate" =>
       /\ l \in {"targets", "config", "catalog", "verify", "lock"} =>
            control["intent"] # None \/ control["lock"] # None
       /\ l \in {"catalog", "verify", "lock"} => control["config"] # None
       /\ l \in {"verify", "lock"} => control["catalog"] # None

(* The one process that may remove the directory made this very one; a     *)
(* directory is locked once.                                               *)
Sole(p) ==
  /\ made[p] # None => made[p] = dir /\ \A q \in Procs : made[q] # None => q = p
  /\ held[p] # None => \A q \in Procs : held[q] = held[p] => q = p

(* The order of the control files beside an unchanged configuration. *)
Steady == offered = {authority} /\ authority # None
InOrder ==
  /\ control["lock"] # None => control["catalog"] # None /\ control["intent"] = None
  /\ control["catalog"] # None => control["config"] # None
  /\ control["config"] # None => control["intent"] # None \/ control["lock"] # None
OfAuthority ==
  \A f \in Files : control[f] # None => control[f] = Text(f, authority, control[f].created)

Inductive ==
  /\ TypeOK
  /\ authority \in offered
  /\ \A p \in Procs : Relies(p, pc[p], plan[p]) /\ Sole(p)
  /\ Steady => InOrder /\ OfAuthority

-----------------------------------------------------------------------------
(* Sanctioned prefixes, said name by name.                                 *)

LEMMA PrefixOrder ==
  ASSUME InOrder
  PROVE  Present \in SanctionedPrefixes
  <1>1. CASE control["lock"] # None
    <2>1. Present = {"config", "catalog", "lock"}
      BY <1>1 DEF InOrder, Present, Files
    <2> QED BY <2>1 DEF SanctionedPrefixes
  <1>2. CASE control["lock"] = None /\ control["catalog"] # None
    <2>1. Present = {"intent", "config", "catalog"}
      BY <1>2 DEF InOrder, Present, Files
    <2> QED BY <2>1 DEF SanctionedPrefixes
  <1>3. CASE control["lock"] = None /\ control["catalog"] = None /\ control["config"] # None
    <2>1. Present = {"intent", "config"}
      BY <1>3 DEF InOrder, Present, Files
    <2> QED BY <2>1 DEF SanctionedPrefixes
  <1>4. CASE control["lock"] = None /\ control["catalog"] = None /\ control["config"] = None
             /\ control["intent"] # None
    <2>1. Present = {"intent"}
      BY <1>4 DEF Present, Files
    <2> QED BY <2>1 DEF SanctionedPrefixes
  <1>5. CASE \A f \in Files : control[f] = None
    <2>1. Present = {}
      BY <1>5 DEF Present
    <2> QED BY <2>1 DEF SanctionedPrefixes
  <1> QED BY <1>1, <1>2, <1>3, <1>4, <1>5 DEF Files

LEMMA TextIsText ==
  ASSUME NEW f, NEW of \in Versions \union {Neutral}, NEW created \in SUBSET Targets
  PROVE  Text(f, of, created) \in Texts /\ Text(f, of, created) # None
  BY DistinctAssumption DEF Text, Texts

-----------------------------------------------------------------------------
(* The induction step, once for all steps of a process.                    *)

Alone(p) ==
  \A q \in Procs : q # p =>
    /\ pc'[q] = pc[q] /\ job'[q] = job[q] /\ plan'[q] = plan[q]
    /\ held'[q] = held[q] /\ made'[q] = made[q] /\ (q \in staged => q \in staged')

LEMMA ProcessStep ==
  ASSUME Inductive, TypeOK', NEW p \in Procs, Alone(p), offered \subseteq offered',
         (control' = control /\ dir' = dir) \/ \A q \in Procs : q # p => pc[q] \notin Committing,
         dir' = dir \/ \A q \in Procs : q # p => made[q] = None,
         made'[p] # None => made'[p] = dir' /\ \A q \in Procs : q # p => made[q] = None,
         held'[p] # None => \A q \in Procs : q # p => held[q] # held'[p],
         Relies(p, pc[p], plan[p])',
         authority' \in offered', Steady' => InOrder' /\ OfAuthority'
  PROVE  Inductive'
  <1>1. ASSUME NEW q \in Procs, q # p PROVE Relies(q, pc[q], plan[q])'
    <2>1. /\ pc'[q] = pc[q] /\ job'[q] = job[q] /\ plan'[q] = plan[q]
          /\ held'[q] = held[q] /\ (q \in staged => q \in staged')
          /\ Relies(q, pc[q], plan[q])
      BY <1>1 DEF Alone, Inductive
    <2>2. CASE control' = control /\ dir' = dir
      BY <2>1, <2>2 DEF Relies, Present
    <2>3. CASE pc[q] \notin Committing
      BY <2>1, <2>3 DEF Relies
    <2> QED BY <2>2, <2>3, <1>1
  <1>2. ASSUME NEW q \in Procs PROVE Sole(q)'
    <2>1. \A r \in Procs : Sole(r)
      BY DEF Inductive
    <2>2. \A r \in Procs : r # p => held'[r] = held[r] /\ made'[r] = made[r]
      BY DEF Alone
    <2> QED BY <1>2, <2>1, <2>2 DEF Sole
  <1> QED BY <1>1, <1>2 DEF Inductive

(* A step that changes nothing but where p is and what it planned. *)
LEMMA ReadStep ==
  ASSUME Inductive, NEW p \in Procs, NEW l \in Ended \union Working, NEW m \in Plans \union {None},
         pc' = [pc EXCEPT ![p] = l], plan' = [plan EXCEPT ![p] = m], ReadsOnly(p),
         Relies(p, l, m)
  PROVE  Inductive'
  <1>0. TypeOK
    BY DEF Inductive
  <1>1. TypeOK'
    BY <1>0 DEF TypeOK, ReadsOnly, repo, history
  <1>2. Alone(p)
    BY <1>0 DEF TypeOK, Alone, ReadsOnly
  <1>3. pc'[p] = l /\ plan'[p] = m
    BY <1>0 DEF TypeOK
  <1>4. Relies(p, pc[p], plan[p])'
    BY <1>3 DEF Relies, ReadsOnly, repo, history, Present
  <1>5. Sole(p)
    BY DEF Inductive
  <1>6. (Steady => InOrder /\ OfAuthority)' /\ authority' \in offered'
    BY DEF Inductive, ReadsOnly, repo, history, Steady, InOrder, OfAuthority
  <1>7. /\ made'[p] # None => made'[p] = dir' /\ \A q \in Procs : q # p => made[q] = None
        /\ held'[p] # None => \A q \in Procs : q # p => held[q] # held'[p]
        /\ control' = control /\ dir' = dir /\ offered' = offered
    BY <1>5 DEF Sole, ReadsOnly, repo, history
  <1> QED BY <1>1, <1>2, <1>4, <1>6, <1>7, ProcessStep


-----------------------------------------------------------------------------
(* Steps that only read. *)

LEMMA PlannedType ==
  ASSUME TypeOK, NEW m \in Plans, Plannable(m.of) PROVE Planned(m.kind, m.of) \in Plans
  BY DEF TypeOK, Plans, Planned, Observed

LEMMA RecalledType ==
  ASSUME TypeOK, NEW m \in Plans PROVE Recalled(m) \in Plans /\ Recalled(m).of = m.of
  <1>1. \A f \in Files : control[f] # None => control[f].created \in SUBSET Targets
    BY DEF TypeOK, Texts
  <1> QED BY <1>1 DEF Recalled, Plans, Files

LEMMA PlanningStep ==
  ASSUME Inductive, NEW p \in Procs, Detect(p) \/ Survey(p) \/ Draft(p) \/ Recall(p) \/ Confirm(p)
  PROVE  Inductive'
  <1>0. TypeOK /\ Relies(p, pc[p], plan[p]) /\ authority \in offered
    BY DEF Inductive
  <1>1. CASE Detect(p)
    <2> DEFINE m == [kind |-> IF State = "dual" THEN "resume" ELSE "fresh", of |-> authority,
                     seen |-> [x \in Paths |-> None], created |-> {}]
    <2>1. authority # None => m \in Plans
      BY <1>0 DEF TypeOK, Plans, Bytes
    <2>2. job[p] = "migrate" /\ ReadsOnly(p)
      BY <1>0, <1>1 DEF Detect, At, Relies
    <2>3. CASE ~Readable \/ authority = None
      <3>1. plan' = [plan EXCEPT ![p] = None]
        BY <1>1, <2>3 DEF Detect
      <3>2. \E l \in {"failed", "ok"} : pc' = [pc EXCEPT ![p] = l]
        BY <1>1, <2>3 DEF Detect, Goto, State
      <3>3. Relies(p, "failed", None) /\ Relies(p, "ok", None)
        BY <2>2 DEF Relies
      <3> QED BY <2>2, <3>1, <3>2, <3>3, ReadStep
    <2>4. CASE Readable /\ authority # None
      <3>1. plan' = [plan EXCEPT ![p] = m]
        BY <1>1, <2>4 DEF Detect
      <3>2. \E l \in {"failed", "ok", "survey"} : pc' = [pc EXCEPT ![p] = l]
        BY <1>1 DEF Detect, Goto
      <3>3. Relies(p, "failed", m) /\ Relies(p, "ok", m) /\ Relies(p, "survey", m)
        BY <1>0, <2>1, <2>2, <2>4 DEF Relies
      <3> QED BY <2>1, <2>2, <2>4, <3>1, <3>2, <3>3, ReadStep
    <2> QED BY <2>3, <2>4
  <1>2. CASE Survey(p)
    <2>1. job[p] = "migrate" /\ plan[p] \in Plans /\ ReadsOnly(p)
      BY <1>0, <1>2 DEF Survey, At, Relies
    <2>2. CASE Readable /\ State = (IF plan[p].kind = "resume" THEN "dual" ELSE "legacy")
      <3>1. authority \in Versions
        BY <1>0, <2>2 DEF State, TypeOK
      <3> DEFINE m == [plan[p] EXCEPT !.of = authority]
      <3>2. m \in Plans /\ m.of = authority
        BY <2>1, <3>1 DEF Plans
      <3>3. plan' = [plan EXCEPT ![p] = m]
        BY <1>0, <1>2, <2>2 DEF Survey, TypeOK
      <3>4. pc' = [pc EXCEPT ![p] = "draft"]
        BY <1>2, <2>2 DEF Survey, Goto
      <3>5. Relies(p, "draft", m)
        BY <1>0, <2>1, <3>2 DEF Relies
      <3> QED BY <2>1, <3>2, <3>3, <3>4, <3>5, ReadStep
    <2>3. CASE pc' = [pc EXCEPT ![p] = "failed"] /\ Forget(p)
      BY <2>1, <2>3, ReadStep DEF Relies, Forget
    <2> QED BY <1>2, <2>2, <2>3 DEF Survey, Goto
  <1>3. CASE Draft(p)
    <2>1. job[p] = "migrate" /\ plan[p] \in Plans /\ plan[p].of \in offered /\ ReadsOnly(p)
      BY <1>0, <1>3 DEF Draft, At, Relies
    <2>2. CASE Plannable(plan[p].of)
      <3> DEFINE m == Planned(plan[p].kind, plan[p].of)
      <3>1. m \in Plans /\ m.of = plan[p].of
        BY <1>0, <2>1, <2>2, PlannedType DEF Planned
      <3>2. plan' = [plan EXCEPT ![p] = m] /\ pc' = [pc EXCEPT ![p] = "recall"]
        BY <1>0, <1>3, <2>2 DEF Draft, Goto, TypeOK
      <3>3. Relies(p, "recall", m)
        BY <1>0, <2>1, <3>1 DEF Relies
      <3> QED BY <2>1, <3>1, <3>2, <3>3, ReadStep
    <2>3. CASE pc' = [pc EXCEPT ![p] = "failed"] /\ Forget(p)
      BY <2>1, <2>3, ReadStep DEF Relies, Forget
    <2> QED BY <1>3, <2>2, <2>3 DEF Draft, Goto
  <1>4. CASE Recall(p)
    <2>1. job[p] = "migrate" /\ plan[p] \in Plans /\ plan[p].of \in offered /\ ReadsOnly(p)
      BY <1>0, <1>4 DEF Recall, At, Relies
    <2>2. CASE pc' = [pc EXCEPT ![p] = "current"] /\ plan' = [plan EXCEPT ![p] = Recalled(@)]
      <3> DEFINE m == Recalled(plan[p])
      <3>1. m \in Plans /\ m.of = plan[p].of
        BY <1>0, <2>1, RecalledType
      <3>2. plan' = [plan EXCEPT ![p] = m]
        BY <1>0, <2>2 DEF TypeOK
      <3>3. Relies(p, "current", m)
        BY <1>0, <2>1, <3>1 DEF Relies
      <3> QED BY <2>1, <2>2, <3>1, <3>2, <3>3, ReadStep
    <2>3. CASE pc' = [pc EXCEPT ![p] = "failed"] /\ Forget(p)
      BY <2>1, <2>3, ReadStep DEF Relies, Forget
    <2> QED BY <1>4, <2>2, <2>3 DEF Recall, Goto
  <1>5. CASE Confirm(p)
    <2>1. job[p] = "migrate" /\ plan[p] \in Plans /\ plan[p].of \in offered /\ ReadsOnly(p)
      BY <1>0, <1>5 DEF Confirm, At, Relies
    <2>2. CASE pc' = [pc EXCEPT ![p] = "make"] /\ plan' = plan
      <3>1. plan' = [plan EXCEPT ![p] = plan[p]] /\ Relies(p, "make", plan[p])
        BY <1>0, <2>1, <2>2 DEF Relies, TypeOK
      <3> QED BY <2>1, <2>2, <3>1, ReadStep
    <2>3. CASE pc' = [pc EXCEPT ![p] = "failed"] /\ Forget(p)
      BY <2>1, <2>3, ReadStep DEF Relies, Forget
    <2> QED BY <1>5, <2>2, <2>3 DEF Confirm, Goto
  <1> QED BY <1>1, <1>2, <1>3, <1>4, <1>5

(* The reads under the lock change nothing but where p is. *)
LEMMA LookStep ==
  ASSUME Inductive, NEW p \in Procs, NEW l \in Ended \union Working, Goto(p, l), UNCHANGED plan,
         ReadsOnly(p), Relies(p, l, plan[p])
  PROVE  Inductive'
  <1>1. plan' = [plan EXCEPT ![p] = plan[p]] /\ plan[p] \in Plans \union {None}
    BY DEF Inductive, TypeOK
  <1> QED BY <1>1, ReadStep DEF Goto

LEMMA LockedReadStep ==
  ASSUME Inductive, NEW p \in Procs, Look(p) \/ Scan(p) \/ Check(p) \/ Verify(p) \/ Weigh(p)
  PROVE  Inductive'
  <1>0. Relies(p, pc[p], plan[p]) /\ authority \in offered
    BY DEF Inductive
  <1>1. CASE Look(p)
    <2>1. authority = None => Relies(p, "make", plan[p])
      BY <1>0, <1>1 DEF Look, At, Relies
    <2>2. Relies(p, "failed", plan[p])
      BY <1>0, <1>1 DEF Look, At, Relies
    <2> QED BY <1>1, <2>1, <2>2, LookStep DEF Look, GotoIf
  <1>2. CASE Scan(p)
    <2>1. Relies(p, "stage", plan[p]) /\ Relies(p, "settled", plan[p])
          /\ Relies(p, "release", plan[p])
      BY <1>0, <1>2 DEF Scan, At, Relies
    <2>2. \E l \in {"stage", "settled", "release"} : Goto(p, l)
      BY <1>2 DEF Scan
    <2> QED BY <1>2, <2>1, <2>2, LookStep DEF Scan
  <1>3. CASE Check(p)
    <2>1. Relies(p, "stage", plan[p]) /\ Relies(p, "release", plan[p])
      BY <1>0, <1>3 DEF Check, At, Relies
    <2> QED BY <1>3, <2>1, LookStep DEF Check, GotoIf
  <1>4. CASE Verify(p)
    <2>1. Relies(p, "lock", plan[p]) /\ Relies(p, "release", plan[p])
      BY <1>0, <1>4 DEF Verify, At, Relies
    <2> QED BY <1>4, <2>1, LookStep DEF Verify, GotoIf
  <1>5. CASE Weigh(p)
    <2>1. Relies(p, "settled", plan[p]) /\ Relies(p, "unlink", plan[p])
          /\ Relies(p, "release", plan[p])
      BY <1>0, <1>5 DEF Weigh, At, Relies
    <2>2. \E l \in {"settled", "unlink", "release"} : Goto(p, l)
      BY <1>5 DEF Weigh
    <2> QED BY <1>5, <2>1, <2>2, LookStep DEF Weigh
  <1> QED BY <1>1, <1>2, <1>3, <1>4, <1>5

-----------------------------------------------------------------------------
(* Steps that change neither the files nor the legacy configuration.       *)

LEMMA SteadyKept ==
  ASSUME Inductive, UNCHANGED <<authority, control, offered>>
  PROVE  (Steady => InOrder /\ OfAuthority)' /\ authority' \in offered'
  BY DEF Inductive, Steady, InOrder, OfAuthority

LEMMA LocalStep ==
  ASSUME Inductive, TypeOK', NEW p \in Procs, Alone(p), UNCHANGED <<authority, control, dir, offered>>,
         made'[p] \in {made[p], None},
         held'[p] # None /\ held'[p] # held[p] => \A q \in Procs : held[q] # held'[p],
         Relies(p, pc[p], plan[p])'
  PROVE  Inductive'
  <1>1. Sole(p) /\ \A q \in Procs : Sole(q)
    BY DEF Inductive
  <1>2. /\ made'[p] # None => made'[p] = dir' /\ \A q \in Procs : q # p => made[q] = None
        /\ held'[p] # None => \A q \in Procs : q # p => held[q] # held'[p]
    BY <1>1 DEF Sole
  <1> QED BY <1>2, SteadyKept, ProcessStep

LEMMA SpendType == ASSUME TypeOK, NEW k \in Kinds, Spend(k) PROVE left' \in [Kinds -> Nat]
  BY DEF TypeOK, Spend

LEMMA MakeStep ==
  ASSUME Inductive, NEW p \in Procs, Make(p) PROVE Inductive'
  <1>0. TypeOK /\ Relies(p, pc[p], plan[p]) /\ \A q \in Procs : Sole(q) /\ Relies(q, pc[q], plan[q])
    BY DEF Inductive
  <1>1. TypeOK'
    BY <1>0 DEF Make, Goto, TypeOK, history
  <1>2. Alone(p)
    BY <1>0 DEF Make, Goto, TypeOK, Alone
  <1>3. pc'[p] = "acquire"
    BY <1>0 DEF Make, Goto, TypeOK
  <1>4. Relies(p, pc[p], plan[p])'
    BY <1>0, <1>3 DEF Make, At, Relies, history
  <1>5. CASE dir # None
    BY <1>0, <1>1, <1>2, <1>4, <1>5, LocalStep DEF Make, history
  <1>6. CASE dir = None
    <2>1. /\ \A q \in Procs : pc[q] \notin Committing /\ made[q] = None
          /\ made'[p] = dir' /\ held'[p] = held[p]
      BY <1>0, <1>6 DEF Make, Relies, Sole, TypeOK
    <2>2. held'[p] # None => \A q \in Procs : q # p => held[q] # held'[p]
      BY <1>0, <2>1 DEF Sole
    <2> QED BY <1>1, <1>2, <1>4, <2>1, <2>2, SteadyKept, ProcessStep DEF Make, history
  <1> QED BY <1>5, <1>6

LEMMA AcquireStep ==
  ASSUME Inductive, NEW p \in Procs, Acquire(p) PROVE Inductive'
  <1>0. TypeOK /\ Relies(p, pc[p], plan[p])
    BY DEF Inductive
  <1>1. TypeOK'
    BY <1>0 DEF Acquire, Goto, TypeOK, history, repo
  <1>2. Alone(p)
    BY <1>0 DEF Acquire, Goto, TypeOK, Alone
  <1>3. pc'[p] \in {IF job[p] = "init" THEN "scan" ELSE "check", "release"}
    BY <1>0 DEF Acquire, Goto, TypeOK
  <1>4. pc'[p] # "release" => held'[p] # None
    BY <1>0 DEF Acquire, Goto, TypeOK
  <1>5. Relies(p, pc[p], plan[p])'
    BY <1>0, <1>3, <1>4 DEF Acquire, At, Relies, history
  <1>6. held'[p] # None /\ held'[p] # held[p] => \A q \in Procs : held[q] # held'[p]
    BY <1>0 DEF Acquire, Readable, TypeOK
  <1> QED BY <1>1, <1>2, <1>5, <1>6, LocalStep DEF Acquire, repo, history

LEMMA StageStep ==
  ASSUME Inductive, NEW p \in Procs, Stage(p) PROVE Inductive'
  <1>0. TypeOK /\ Relies(p, pc[p], plan[p])
    BY DEF Inductive
  <1>1. TypeOK'
    BY <1>0 DEF Stage, Goto, TypeOK, history, repo
  <1>2. Alone(p)
    BY <1>0 DEF Stage, Goto, TypeOK, Alone
  <1>3. CASE pc'[p] = "release"
    <2>1. Relies(p, pc[p], plan[p])'
      BY <1>0, <1>3 DEF Stage, At, Relies, history
    <2> QED BY <1>1, <1>2, <2>1, LocalStep DEF Stage, repo, history
  <1>4. CASE pc'[p] # "release"
    <2>1. held[p] = dir /\ pc'[p] = IF job[p] = "init" THEN "config" ELSE "recheck"
      BY <1>0, <1>4 DEF Stage, Goto, TypeOK
    <2>2. p \in staged' \/ Present # {}
      BY <1>0, <1>4 DEF Stage, Goto, TypeOK
    <2>3. Present' = Present
      BY DEF Stage, repo, Present
    <2>4. held[p] # None
      BY <1>0 DEF Stage, At, Relies
    <2>5. Relies(p, pc[p], plan[p])'
      BY <1>0, <2>1, <2>2, <2>3, <2>4 DEF Stage, At, Relies, history, repo
    <2> QED BY <1>1, <1>2, <2>5, LocalStep DEF Stage, repo, history
  <1> QED BY <1>3, <1>4

LEMMA RecheckStep ==
  ASSUME Inductive, NEW p \in Procs, Recheck(p) PROVE Inductive'
  <1>0. TypeOK /\ Relies(p, pc[p], plan[p])
    BY DEF Inductive
  <1>1. Then(p, "recheck") = "intent"
    BY DEF Then, Order
  <1>2. TypeOK'
    BY <1>0, <1>1 DEF Recheck, Goto, GotoIf, TypeOK, history, repo
  <1>3. Alone(p)
    BY <1>0 DEF Recheck, Goto, GotoIf, TypeOK, Alone
  <1>4. pc'[p] \in {"intent", "release"}
    BY <1>0, <1>1 DEF Recheck, Goto, GotoIf, TypeOK
  <1>5. Relies(p, pc[p], plan[p])'
    BY <1>0, <1>4 DEF Recheck, At, Relies, history, repo, Present
  <1> QED BY <1>2, <1>3, <1>5, LocalStep DEF Recheck, repo, history

-----------------------------------------------------------------------------
(* Steps that write: they hold the lock on the directory that .standards   *)
(* names, so that no other process is committing.                          *)

LEMMA DoneType ==
  ASSUME TypeOK, NEW p \in Procs, NEW l \in Working, Done(p, l)
  PROVE  /\ left' \in [Kinds -> Nat] /\ pc' \in [Procs -> Ended \union Working]
         /\ pc'[p] \in {l, "release"}
         /\ \A q \in Procs : q # p => pc'[q] = pc[q]
  <1>1. "fault" \in Kinds
    BY DEF Kinds
  <1>2. left' \in [Kinds -> Nat]
    BY <1>1, SpendType DEF Done, TypeOK
  <1> QED BY <1>2 DEF Done, Goto, TypeOK

LEMMA AloneCommitting ==
  ASSUME Inductive, NEW p \in Procs, pc[p] \in Committing
  PROVE  /\ held[p] = dir /\ dir # None
         /\ \A q \in Procs : q # p => pc[q] \notin Committing
         /\ made[p] # None => made[p] = dir /\ \A q \in Procs : q # p => made[q] = None
         /\ \A q \in Procs : q # p => held[q] # held[p]
  BY DEF Inductive, Relies, Sole

(* A committing step leaves held, job, plan and dir alone. *)
LEMMA CommitStep ==
  ASSUME Inductive, TypeOK', NEW p \in Procs, pc[p] \in Committing,
         \A q \in Procs : q # p => pc'[q] = pc[q],
         UNCHANGED <<dir, job, plan, held, staged>>, offered \subseteq offered',
         made' = made \/ made' = [made EXCEPT ![p] = None],
         Relies(p, pc[p], plan[p])',
         authority' \in offered', Steady' => InOrder' /\ OfAuthority'
  PROVE  Inductive'
  <1>1. TypeOK
    BY DEF Inductive
  <1>2. Alone(p) /\ made'[p] \in {made[p], None}
    BY <1>1 DEF Alone, TypeOK
  <1> QED BY <1>2, AloneCommitting, ProcessStep

LEMMA TextFixed ==
  ASSUME NEW f, NEW of, NEW created
  PROVE  LET t == Text(f, of, created) IN t = Text(f, of, t.created) /\ t.of = IF f = "catalog" THEN Neutral ELSE of
  BY DEF Text

(* One control file becomes what was proposed, in its turn. *)
LEMMA PublishStep ==
  ASSUME Inductive, NEW p \in Procs, NEW f \in {"intent", "config", "catalog", "lock"},
         NEW of \in Versions \union {Neutral}, NEW created \in SUBSET Targets,
         NEW l \in Working, Publish(p, f, Text(f, of, created)), Then(p, f) = l,
         Steady => /\ of = authority
                   /\ f = "intent" => control["lock"] = None
                   /\ f = "config" => control["intent"] # None \/ control["lock"] # None
                   /\ f = "catalog" => control["config"] # None
                   /\ f = "lock" => FALSE,
         Relies(p, l, plan[p])', Relies(p, "release", plan[p])'
  PROVE  Inductive'
  <1>0. TypeOK
    BY DEF Inductive
  <1> DEFINE t == Text(f, of, created)
  <1>1. t \in Texts /\ t # None
    BY TextIsText
  <1>2. /\ left' \in [Kinds -> Nat] /\ pc' \in [Procs -> Ended \union Working]
        /\ pc'[p] \in {l, "release"}
        /\ \A q \in Procs : q # p => pc'[q] = pc[q]
    BY <1>0, DoneType DEF Publish
  <1>3. control' \in [Files -> Texts \union {None}] /\ control'[f] = t
        /\ \A g \in Files : g # f => control'[g] = control[g]
    BY <1>0, <1>1 DEF Publish, TypeOK, Files
  <1>4. TypeOK'
    BY <1>0, <1>2, <1>3 DEF Publish, TypeOK, history
  <1>5. pc[p] \in Committing
    BY DEF Publish, At
  <1>6. ASSUME Steady' PROVE InOrder' /\ OfAuthority'
    <2>1. Steady /\ InOrder /\ OfAuthority /\ authority' = authority
      BY <1>6 DEF Inductive, Publish, Steady, history
    <2>2. InOrder'
      BY <1>1, <1>3, <2>1 DEF InOrder, Files
    <2>3. OfAuthority'
      <3>1. t = Text(f, authority, t.created)
        BY <2>1, TextFixed
      <3> QED BY <1>3, <2>1, <3>1 DEF OfAuthority
    <2> QED BY <2>2, <2>3
  <1>7. Relies(p, pc[p], plan[p])'
    BY <1>2
  <1>8. authority' \in offered'
    BY DEF Inductive, Publish, history
  <1> QED BY <1>4, <1>2, <1>5, <1>6, <1>7, <1>8, CommitStep DEF Publish, history

LEMMA SkipStep ==
  ASSUME Inductive, NEW p \in Procs, NEW f \in {"intent", "config", "catalog", "lock"}, Skip(p, f),
         f # "intent" => control[f] # None,
         f = "intent" => control["intent"] # None \/ control["lock"] # None
  PROVE  Inductive'
  <1>1. Relies(p, f, plan[p]) /\ job[p] = "migrate"
    BY DEF Inductive, Skip, At
  <1>2. Then(p, f) \in Working /\ Relies(p, Then(p, f), plan[p])
    BY <1>1 DEF Then, Order, Relies
  <1> QED BY <1>2, LookStep DEF Skip

LEMMA ScaffoldStep ==
  ASSUME Inductive, NEW p \in Procs, Scaffold(p) PROVE Inductive'
  <1>0. PICK f \in {"config", "catalog", "lock"} : job[p] = "init" /\ Publish(p, f, Blank(f))
    BY DEF Scaffold
  <1>1. Relies(p, f, plan[p]) /\ f \in Scaffolding /\ f \in Committing
    BY <1>0 DEF Inductive, Publish, At
  <1>2. ~Steady
    BY <1>0, <1>1 DEF Relies, Steady
  <1>3. PICK l \in {"catalog", "lock", "settled"} : Then(p, f) = l
    BY <1>0 DEF Then, Order
  <1>4. Present' # {}
    <2>1. Blank(f) # None
      BY TextIsText DEF Blank
    <2> QED BY <1>0, <2>1 DEF Publish, Inductive, TypeOK, Files, Present
  <1>5. Relies(p, l, plan[p])' /\ Relies(p, "release", plan[p])'
    BY <1>0, <1>1, <1>4 DEF Relies, Publish, history
  <1>6. Publish(p, f, Text(f, Neutral, {})) /\ Neutral \in Versions \union {Neutral}
        /\ {} \in SUBSET Targets /\ l \in Working
    BY <1>0 DEF Blank
  <1> QED BY <1>2, <1>3, <1>5, <1>6, PublishStep

LEMMA MigratingPlan ==
  ASSUME Inductive, NEW p \in Procs, pc[p] \in Planning, job[p] = "migrate"
  PROVE  /\ plan[p] \in Plans /\ plan[p].of \in offered
         /\ Steady => plan[p].of = authority
  BY DEF Inductive, Relies, Steady

LEMMA IntendStep ==
  ASSUME Inductive, NEW p \in Procs, Intend(p) PROVE Inductive'
  <1>1. pc[p] = "intent"
    BY DEF Intend, Publish, Skip, At
  <1>2. Relies(p, "intent", plan[p]) /\ job[p] = "migrate" /\ plan[p] \in Plans
    BY <1>1, MigratingPlan DEF Inductive, Relies
  <1>3. CASE control["lock"] = None /\ control["intent"] = None
    <2>1. Publish(p, "intent", Text("intent", plan[p].of, plan[p].created))
          /\ plan[p].of \in Versions /\ plan[p].created \in SUBSET Targets
      BY <1>2, <1>3 DEF Intend, Mine, Plans
    <2>2. Then(p, "intent") = "targets"
      BY DEF Then, Order
    <2>3. control'["intent"] # None /\ Present' # {}
      BY <2>1, <1>3, TextIsText DEF Publish, Inductive, TypeOK, Files, Present
    <2>4. Relies(p, "targets", plan[p])' /\ Relies(p, "release", plan[p])'
      BY <1>2, <2>1, <2>3 DEF Relies, Publish, history
    <2> QED BY <1>1, <1>2, <1>3, <2>1, <2>2, <2>4, MigratingPlan, PublishStep
  <1>4. CASE ~(control["lock"] = None /\ control["intent"] = None)
    BY <1>4, SkipStep DEF Intend
  <1> QED BY <1>3, <1>4

LEMMA PublishControlStep ==
  ASSUME Inductive, NEW p \in Procs, PublishControl(p) PROVE Inductive'
  <1>0. PICK f \in {"config", "catalog"} :
          /\ job[p] = "migrate"
          /\ IF control[f] = None THEN Publish(p, f, Mine(p, f)) ELSE Skip(p, f)
    BY DEF PublishControl
  <1>1. pc[p] = f
    BY <1>0 DEF Publish, Skip, At
  <1>2. Relies(p, f, plan[p]) /\ plan[p] \in Plans
    BY <1>0, <1>1, MigratingPlan DEF Inductive
  <1>3. CASE control[f] = None
    <2>1. Publish(p, f, Text(f, plan[p].of, plan[p].created))
          /\ plan[p].of \in Versions /\ plan[p].created \in SUBSET Targets
      BY <1>0, <1>2, <1>3 DEF Mine, Plans
    <2>2. PICK l \in {"catalog", "verify"} : Then(p, f) = l /\ (l = "catalog" <=> f = "config")
      BY <1>0 DEF Then, Order
    <2>3. control'[f] # None /\ Present' # {}
          /\ control'["intent"] = control["intent"] /\ control'["lock"] = control["lock"]
          /\ (f = "catalog" => control'["config"] = control["config"])
      BY <2>1, <1>3, TextIsText DEF Publish, Inductive, TypeOK, Files, Present
    <2>4. Relies(p, l, plan[p])' /\ Relies(p, "release", plan[p])'
      BY <1>0, <1>2, <2>1, <2>2, <2>3 DEF Relies, Publish, history
    <2>5. Steady => /\ plan[p].of = authority
                    /\ f = "config" => control["intent"] # None \/ control["lock"] # None
                    /\ f = "catalog" => control["config"] # None
      BY <1>0, <1>1, <1>2, MigratingPlan DEF Relies
    <2> QED BY <2>1, <2>2, <2>4, <2>5, PublishStep
  <1>4. CASE control[f] # None
    BY <1>0, <1>4, SkipStep
  <1> QED BY <1>3, <1>4

LEMMA PublishTargetStep ==
  ASSUME Inductive, NEW p \in Procs, PublishTarget(p) PROVE Inductive'
  <1>0. TypeOK /\ pc[p] = "targets" /\ Relies(p, "targets", plan[p])
    BY DEF Inductive, PublishTarget, At
  <1>1. job[p] = "migrate" /\ plan[p] \in Plans /\ Then(p, "targets") = "config"
    BY <1>0, MigratingPlan DEF Relies, Then, Order
  <1>2. /\ left' \in [Kinds -> Nat] /\ pc' \in [Procs -> Ended \union Working]
        /\ pc'[p] \in {"targets", "config", "release"}
        /\ \A q \in Procs : q # p => pc'[q] = pc[q]
    BY <1>0, <1>1, DoneType DEF PublishTarget, Goto, TypeOK
  <1>3. /\ todo' \in [Procs -> SUBSET Targets]
        /\ disk' \in [Paths -> Bytes] /\ born' \subseteq Targets
    BY <1>0, <1>1 DEF PublishTarget, TypeOK, Plans, Paths, Bytes
  <1>4. TypeOK'
    BY <1>0, <1>2, <1>3 DEF PublishTarget, TypeOK
  <1>5. Relies(p, pc[p], plan[p])'
    BY <1>0, <1>2 DEF PublishTarget, Relies, Present
  <1> QED BY <1>0, <1>2, <1>4, <1>5, SteadyKept, CommitStep DEF PublishTarget

LEMMA EnthroneStep ==
  ASSUME Inductive, NEW p \in Procs, Enthrone(p) PROVE Inductive'
  <1>0. TypeOK /\ pc[p] = "lock" /\ job[p] = "migrate" /\ Relies(p, "lock", plan[p])
    BY DEF Inductive, Enthrone, At
  <1>1. CASE control["lock"] # None
    BY <1>1, SkipStep DEF Enthrone
  <1>2. CASE control["lock"] = None
    <2>1. Then(p, "lock") = "relics"
      BY <1>0 DEF Then, Order
    <2>2. /\ left' \in [Kinds -> Nat] /\ pc' \in [Procs -> Ended \union Working]
          /\ pc'[p] \in {"relics", "release"}
          /\ \A q \in Procs : q # p => pc'[q] = pc[q]
      BY <1>0, <1>2, <2>1, DoneType DEF Enthrone
    <2>3. /\ control["intent"] # None /\ control["config"] # None /\ control["catalog"] # None
          /\ control' \in [Files -> Texts \union {None}]
          /\ control'["lock"] = control["intent"] /\ control'["intent"] = None
          /\ control'["config"] = control["config"] /\ control'["catalog"] = control["catalog"]
      BY <1>0, <1>2 DEF Enthrone, Relies, TypeOK, Files
    <2>4. TypeOK'
      BY <1>0, <1>2, <2>2, <2>3 DEF Enthrone, TypeOK, history
    <2>5. Present' # {}
      BY <2>3 DEF Present, Files
    <2>6. Relies(p, pc[p], plan[p])'
      BY <1>0, <1>2, <2>2, <2>5 DEF Enthrone, Relies, history
    <2>7. ASSUME Steady' PROVE InOrder' /\ OfAuthority'
      <3>1. InOrder'
        BY <2>3 DEF InOrder
      <3>2. OfAuthority /\ authority' = authority
        BY <1>2, <2>7 DEF Inductive, Enthrone, Steady, history
      <3>3. control'["lock"] = Text("lock", authority, control'["lock"].created)
        BY <2>3, <3>2 DEF OfAuthority, Files, Text
      <3> QED BY <2>3, <3>1, <3>2, <3>3 DEF OfAuthority, Files
    <2> QED BY <1>0, <1>2, <2>2, <2>4, <2>6, <2>7, CommitStep DEF Enthrone, history, Inductive
  <1> QED BY <1>1, <1>2

LEMMA RemoveRelicStep ==
  ASSUME Inductive, NEW p \in Procs, RemoveRelic(p) PROVE Inductive'
  <1>0. TypeOK /\ pc[p] = "relics" /\ Relies(p, "relics", plan[p])
    BY DEF Inductive, RemoveRelic, At
  <1>1. /\ left' \in [Kinds -> Nat] /\ pc' \in [Procs -> Ended \union Working]
        /\ pc'[p] \in {"relics", "weigh", "release"}
        /\ \A q \in Procs : q # p => pc'[q] = pc[q]
    BY <1>0, DoneType DEF RemoveRelic, Goto, TypeOK
  <1>2. disk' \in [Paths -> Bytes]
    BY <1>0 DEF RemoveRelic, TypeOK, Paths, Bytes
  <1>3. TypeOK'
    BY <1>0, <1>1, <1>2 DEF RemoveRelic, TypeOK, history
  <1>4. Relies(p, pc[p], plan[p])'
    BY <1>0, <1>1 DEF RemoveRelic, Relies, history, Present
  <1> QED BY <1>0, <1>1, <1>3, <1>4, SteadyKept, CommitStep DEF RemoveRelic, history

LEMMA UnlinkStep ==
  ASSUME Inductive, NEW p \in Procs, Unlink(p) PROVE Inductive'
  <1>0. TypeOK /\ pc[p] = "unlink" /\ Relies(p, "unlink", plan[p])
    BY DEF Inductive, Unlink, At
  <1>1. /\ left' \in [Kinds -> Nat] /\ pc' \in [Procs -> Ended \union Working]
        /\ pc'[p] \in {"settled", "release"}
        /\ \A q \in Procs : q # p => pc'[q] = pc[q]
    BY <1>0, DoneType DEF Unlink, Goto, TypeOK
  <1>2. TypeOK'
    BY <1>0, <1>1 DEF Unlink, TypeOK
  <1>3. Relies(p, pc[p], plan[p])' /\ ~Steady' /\ authority' \in offered'
    BY <1>0, <1>1 DEF Unlink, Relies, Steady
  <1> QED BY <1>0, <1>1, <1>2, <1>3, CommitStep DEF Unlink

-----------------------------------------------------------------------------
(* The way out, failures, and the consumer. *)

LEMMA ReleaseStep ==
  ASSUME Inductive, NEW p \in Procs, Release(p) PROVE Inductive'
  <1>0. TypeOK /\ Relies(p, pc[p], plan[p])
    BY DEF Inductive
  <1>1. TypeOK' /\ Alone(p) /\ pc'[p] = "sweep" /\ held'[p] = None
    BY <1>0 DEF Release, Goto, TypeOK, Alone, repo, history
  <1>2. Relies(p, pc[p], plan[p])'
    BY <1>0, <1>1 DEF Release, Relies
  <1> QED BY <1>1, <1>2, LocalStep DEF Release, repo, history

LEMMA SweepStep ==
  ASSUME Inductive, NEW p \in Procs, Sweep(p) PROVE Inductive'
  <1>0. TypeOK /\ Relies(p, pc[p], plan[p])
    BY DEF Inductive
  <1>1. TypeOK' /\ Alone(p) /\ pc'[p] = "rmdir"
    BY <1>0 DEF Sweep, Goto, TypeOK, Alone, repo, history
  <1>2. Relies(p, pc[p], plan[p])'
    BY <1>0, <1>1 DEF Sweep, At, Relies
  <1> QED BY <1>1, <1>2, LocalStep DEF Sweep, repo, history

LEMMA RmdirStep ==
  ASSUME Inductive, NEW p \in Procs, Rmdir(p) PROVE Inductive'
  <1>0. TypeOK /\ \A q \in Procs : Sole(q) /\ Relies(q, pc[q], plan[q])
    BY DEF Inductive
  <1>1. TypeOK' /\ Alone(p) /\ pc'[p] \in {"ok", "failed"} /\ made'[p] = None /\ held' = held
    BY <1>0 DEF Rmdir, Goto, Forget, TypeOK, Alone, history
  <1>2. Relies(p, pc[p], plan[p])'
    BY <1>0, <1>1 DEF Rmdir, At, Relies
  <1>3. CASE ~Removable(p)
    <2>1. UNCHANGED <<authority, control, dir, offered>>
      BY <1>3 DEF Rmdir, history
    <2> QED BY <1>1, <1>2, <2>1, LocalStep
  <1>4. CASE Removable(p)
    <2>1. \A q \in Procs : pc[q] \notin Committing
      BY <1>0, <1>4 DEF Removable, Empty, Relies
    <2>2. \A q \in Procs : q # p => made[q] = None
      BY <1>0, <1>4 DEF Removable, Sole
    <2>3. held'[p] # None => \A q \in Procs : q # p => held[q] # held'[p]
      BY <1>0, <1>1 DEF Sole
    <2>4. offered \subseteq offered' /\ UNCHANGED <<authority, control, offered>>
      BY DEF Rmdir, history
    <2> QED BY <1>1, <1>2, <2>1, <2>2, <2>3, <2>4, SteadyKept, ProcessStep
  <1> QED BY <1>3, <1>4

LEMMA FailStep ==
  ASSUME Inductive, NEW p \in Procs, Fail(p) PROVE Inductive'
  <1>0. TypeOK /\ Relies(p, pc[p], plan[p]) /\ "fault" \in Kinds
    BY DEF Inductive, Kinds
  <1>1. left' \in [Kinds -> Nat]
    BY <1>0, SpendType DEF Fail
  <1>2. TypeOK' /\ Alone(p) /\ pc'[p] = "release"
    BY <1>0, <1>1 DEF Fail, Goto, TypeOK, Alone, repo, history
  <1>3. Relies(p, pc[p], plan[p])'
    BY <1>0, <1>2 DEF Fail, Relies
  <1> QED BY <1>2, <1>3, LocalStep DEF Fail, repo, history

LEMMA CrashStep ==
  ASSUME Inductive, NEW p \in Procs, Crash(p) PROVE Inductive'
  <1>0. TypeOK /\ "fault" \in Kinds
    BY DEF Inductive, Kinds
  <1>1. left' \in [Kinds -> Nat]
    BY <1>0, SpendType DEF Crash
  <1>2. litter' \in BOOLEAN
    BY DEF Crash
  <1>3. TypeOK' /\ Alone(p) /\ pc'[p] = "failed" /\ held'[p] = None /\ made'[p] = None
    BY <1>0, <1>1, <1>2 DEF Crash, Goto, Forget, TypeOK, Alone, history
  <1>4. Relies(p, pc[p], plan[p])'
    BY <1>0, <1>3 DEF Crash, Relies
  <1> QED BY <1>3, <1>4, LocalStep DEF Crash, history

LEMMA StartStep ==
  ASSUME Inductive, NEW p \in Procs, Start(p) PROVE Inductive'
  <1>0. TypeOK /\ "command" \in Kinds
    BY DEF Inductive, Kinds
  <1>1. PICK j \in Jobs : Begin(p, j) /\ Spend("command")
    BY DEF Start
  <1>2. left' \in [Kinds -> Nat]
    BY <1>0, <1>1, SpendType
  <1>3. TypeOK' /\ Alone(p) /\ job'[p] = j /\ pc'[p] = IF j = "init" THEN "look" ELSE "detect"
    BY <1>0, <1>1, <1>2 DEF Begin, Goto, TypeOK, Alone, repo, history
  <1>4. Relies(p, pc[p], plan[p])'
    BY <1>0, <1>3, JobAssumption DEF Relies
  <1> QED BY <1>1, <1>3, <1>4, LocalStep DEF Begin, repo, history

LEMMA ConsumerStep ==
  ASSUME Inductive, Edit \/ Amend PROVE Inductive'
  <1>0. TypeOK /\ "edit" \in Kinds /\ "restore" \in Kinds
    BY DEF Inductive, Kinds
  <1>1. left' \in [Kinds -> Nat]
    BY <1>0, SpendType DEF Edit, Amend
  <1>2. disk' \in [Paths -> Bytes]
    BY <1>0 DEF Edit, Amend, TypeOK, Bytes
  <1>3. /\ authority' \in Versions \union {None} /\ offered' \subseteq Versions \union {None}
        /\ authority' \in offered' /\ offered \subseteq offered'
        /\ moved' \in BOOLEAN /\ edited' \in BOOLEAN
    BY <1>0 DEF Edit, Amend, TypeOK, Inductive
  <1>4. TypeOK'
    BY <1>0, <1>1, <1>2, <1>3 DEF Edit, Amend, TypeOK, local
  <1>5. \A p \in Procs : Relies(p, pc[p], plan[p])' /\ Sole(p)'
    BY <1>3 DEF Edit, Amend, Inductive, Relies, Sole, local, Present
  <1>6. ASSUME Steady' PROVE InOrder' /\ OfAuthority'
    <2>1. ~Amend
      BY <1>6 DEF Amend, Steady, Inductive
    <2> QED BY <1>6, <2>1 DEF Edit, Steady, InOrder, OfAuthority, Inductive
  <1> QED BY <1>3, <1>4, <1>5, <1>6 DEF Inductive

LEMMA ProceedStep ==
  ASSUME Inductive, NEW p \in Procs, Proceed(p) PROVE Inductive'
  <1>1. CASE Detect(p) \/ Survey(p) \/ Draft(p) \/ Recall(p) \/ Confirm(p)
    BY <1>1, PlanningStep
  <1>2. CASE Look(p) \/ Scan(p) \/ Check(p) \/ Verify(p) \/ Weigh(p)
    BY <1>2, LockedReadStep
  <1>3. CASE Make(p) \/ Acquire(p) \/ Stage(p) \/ Recheck(p)
    BY <1>3, MakeStep, AcquireStep, StageStep, RecheckStep
  <1>4. CASE Scaffold(p) \/ Intend(p) \/ PublishTarget(p) \/ PublishControl(p)
    BY <1>4, ScaffoldStep, IntendStep, PublishTargetStep, PublishControlStep
  <1>5. CASE Enthrone(p) \/ RemoveRelic(p) \/ Unlink(p)
    BY <1>5, EnthroneStep, RemoveRelicStep, UnlinkStep
  <1>6. CASE Release(p) \/ Sweep(p) \/ Rmdir(p)
    BY <1>6, ReleaseStep, SweepStep, RmdirStep
  <1> QED BY <1>1, <1>2, <1>3, <1>4, <1>5, <1>6 DEF Proceed

LEMMA InductiveStep == Inductive /\ [Next]_vars => Inductive'
  <1> SUFFICES ASSUME Inductive, [Next]_vars PROVE Inductive'
    OBVIOUS
  <1>1. CASE UNCHANGED vars
    BY <1>1 DEF vars, repo, local, history, Inductive, TypeOK, Relies, Sole, Steady, InOrder,
                OfAuthority, Present
  <1>2. CASE \E p \in Procs : Start(p) \/ Proceed(p) \/ Fail(p) \/ Crash(p)
    BY <1>2, StartStep, ProceedStep, FailStep, CrashStep
  <1>3. CASE Edit \/ Amend
    BY <1>3, ConsumerStep
  <1> QED BY <1>1, <1>2, <1>3 DEF Next

LEMMA InitInductive == Init => Inductive
  <1> SUFFICES ASSUME Init PROVE Inductive
    OBVIOUS
  <1>1. TypeOK
    BY SupplyAssumption DEF Init, TypeOK, Bytes
  <1>2. \A p \in Procs : Relies(p, pc[p], plan[p]) /\ Sole(p)
    BY DEF Init, Relies, Sole
  <1>3. Steady => InOrder /\ OfAuthority
    BY DEF Init, InOrder, OfAuthority, Files
  <1> QED BY <1>1, <1>2, <1>3 DEF Inductive, Init

-----------------------------------------------------------------------------
(* The theorems. *)

(* The inductive invariant holds in every reachable state. *)
THEOREM InductiveHolds == Spec => []Inductive
  BY InitInductive, InductiveStep, PTL DEF Spec

(* Every variable keeps its type. *)
THEOREM TypeCorrect == Spec => []TypeOK
  <1>1. Inductive => TypeOK
    BY DEF Inductive
  <1> QED BY <1>1, InductiveHolds, PTL

(* However many commands start, fail, die and overtake one another: beside *)
(* an unchanged legacy configuration lie only files of its own migration,  *)
(* and exactly those that apply_legacy_migration resumes from.             *)
THEOREM PrefixHolds == Spec => []ResumablePrefix
  <1>1. Inductive => ResumablePrefix
    <2> SUFFICES ASSUME Inductive, offered = {authority}, authority # None
                 PROVE  /\ Present \in SanctionedPrefixes
                        /\ \A f \in Present : control[f] = Text(f, authority, control[f].created)
      BY DEF ResumablePrefix
    <2>1. InOrder /\ OfAuthority
      BY DEF Inductive, Steady
    <2> QED BY <2>1, PrefixOrder DEF OfAuthority, Present
  <1> QED BY <1>1, InductiveHolds, PTL

(* The rmdir by path after the lock was released removes no directory but  *)
(* the one its process created.                                            *)
THEOREM DirectoryOwned == Spec => OwnDirectory
  <1> DEFINE A == dir # None /\ dir' = None => \E p \in Procs : made[p] = dir
  <1>1. Inductive /\ [Next]_vars => A
    <2> SUFFICES ASSUME Inductive, [Next]_vars, dir # None, dir' = None
                 PROVE  \E p \in Procs : made[p] = dir
      OBVIOUS
    <2>1. \A p \in Procs : Rmdir(p) => made[p] = dir
      BY DEF Rmdir, Removable, Inductive, Sole
    <2>2. \A p \in Procs : Make(p) => FALSE
      BY DEF Make
    <2>3. PICK p \in Procs : Proceed(p)
      BY DEF Next, vars, repo, Start, Begin, Fail, Crash, Edit, Amend
    <2>4. CASE Detect(p) \/ Survey(p) \/ Draft(p) \/ Recall(p) \/ Confirm(p) \/ Look(p)
               \/ Acquire(p) \/ Scan(p) \/ Check(p) \/ Stage(p) \/ Recheck(p) \/ Verify(p)
               \/ Weigh(p) \/ Release(p) \/ Sweep(p)
      BY <2>4 DEF Detect, Survey, Draft, Recall, Confirm, Look, Acquire, Scan, Check, Stage,
                  Recheck, Verify, Weigh, Release, Sweep, ReadsOnly, repo
    <2>5. CASE Scaffold(p) \/ Intend(p) \/ PublishControl(p) \/ PublishTarget(p) \/ Enthrone(p)
               \/ RemoveRelic(p) \/ Unlink(p)
      BY <2>5 DEF Scaffold, Intend, PublishControl, PublishTarget, Enthrone, RemoveRelic, Unlink,
                  Publish, Skip, ReadsOnly, repo
    <2> QED BY <2>1, <2>2, <2>3, <2>4, <2>5 DEF Proceed
  <1> QED BY <1>1, InductiveHolds, PTL DEF OwnDirectory, Spec

=============================================================================
