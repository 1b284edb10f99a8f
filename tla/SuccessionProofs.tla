-------------------------- MODULE SuccessionProofs --------------------------
(***************************************************************************)
(* Proofs about what Handover leaves behind: that its authorities succeed  *)
(* one another as Succession says, and, while the consumer changes         *)
(* nothing, what the central lock, the retirement and the answers say.     *)
(***************************************************************************)
EXTENDS HandoverProofs

USE DEF Ended, Working, Leaving, Migrating, Planning, Scaffolding, Committing

-----------------------------------------------------------------------------
(* What one step of a command changes.                                     *)

Step(p) == Start(p) \/ Proceed(p) \/ Fail(p) \/ Crash(p)

(* The commands of the others, and what the consumer did. *)
Apart(p) ==
  /\ \A q \in Procs : q # p =>
       /\ pc'[q] = pc[q] /\ job'[q] = job[q] /\ plan'[q] = plan[q]
       /\ held'[q] = held[q] /\ made'[q] = made[q] /\ answer'[q] = answer[q]
  /\ UNCHANGED <<edited, moved>>

LEMMA StepApart ==
  ASSUME TypeOK, NEW p \in Procs, Step(p)
  PROVE  Apart(p)
  <1> USE DEF TypeOK, Apart, Goto, GotoIf, Forget, ReadsOnly, Done, repo, history
  <1>1. CASE Start(p) BY <1>1 DEF Start, Begin
  <1>2. CASE Fail(p) \/ Crash(p) BY <1>2 DEF Fail, Crash
  <1>3. CASE Detect(p) \/ Survey(p) \/ Draft(p)
    BY <1>3 DEF Detect, Survey, Draft
  <1>4. CASE Recall(p) \/ Confirm(p) \/ Look(p)
    BY <1>4 DEF Recall, Confirm, Look
  <1>5. CASE Make(p) \/ Acquire(p) \/ Scan(p) \/ Check(p)
    BY <1>5 DEF Make, Acquire, Scan, Check
  <1>6. CASE Stage(p) \/ Recheck(p) \/ Verify(p) \/ Weigh(p)
    BY <1>6 DEF Stage, Recheck, Verify, Weigh
  <1>7. ASSUME NEW f \in Files, NEW text, Publish(p, f, text) PROVE Apart(p)
    BY <1>7 DEF Publish
  <1>8. ASSUME NEW f \in Files, Skip(p, f) PROVE Apart(p)
    BY <1>8 DEF Skip
  <1>9. CASE Scaffold(p) \/ Intend(p) \/ PublishControl(p)
    <2> HIDE DEF Apart
    <2> QED BY <1>7, <1>8, <1>9 DEF Scaffold, Intend, PublishControl, Files
  <1>10. CASE Enthrone(p)
    BY <1>8, <1>10 DEF Enthrone, Files
  <1>11. CASE PublishTarget(p) BY <1>11 DEF PublishTarget
  <1>12. CASE RemoveRelic(p) \/ Unlink(p) BY <1>12 DEF RemoveRelic, Unlink
  <1>13. CASE Release(p) \/ Sweep(p) \/ Rmdir(p) BY <1>13 DEF Release, Sweep, Rmdir
  <1> QED BY <1>1, <1>2, <1>3, <1>4, <1>5, <1>6, <1>9, <1>10, <1>11, <1>12, <1>13
          DEF Step, Proceed

(* The control files: an init writes its own, a migration those that are   *)
(* missing, and its intent becomes the lock.                               *)
Scaffolded(p) ==
  /\ job[p] = "init" /\ pc[p] \in {"config", "catalog", "lock"}
  /\ control' = [control EXCEPT ![pc[p]] = Blank(pc[p])]
Proposed(p) ==
  /\ job[p] = "migrate" /\ pc[p] \in {"intent", "config", "catalog"}
  /\ control[pc[p]] = None
  /\ pc[p] = "intent" => control["lock"] = None
  /\ control' = [control EXCEPT ![pc[p]] = Mine(p, pc[p])]
Enthroned(p) ==
  /\ job[p] = "migrate" /\ pc[p] = "lock" /\ control["lock"] = None
  /\ control' = [control EXCEPT !["lock"] = control["intent"], !["intent"] = None]
Written(p) == Scaffolded(p) \/ Proposed(p) \/ Enthroned(p)

(* Actions that write no control file. *)
Reads(p) ==
  \/ Start(p) \/ Fail(p) \/ Crash(p)
  \/ Detect(p) \/ Survey(p) \/ Draft(p) \/ Recall(p) \/ Confirm(p) \/ Look(p)
  \/ Make(p) \/ Acquire(p) \/ Scan(p) \/ Check(p) \/ Stage(p) \/ Recheck(p)
  \/ PublishTarget(p) \/ Verify(p) \/ RemoveRelic(p) \/ Weigh(p) \/ Unlink(p)
  \/ Release(p) \/ Sweep(p) \/ Rmdir(p)

LEMMA ReadsControl ==
  ASSUME NEW p \in Procs, Reads(p) PROVE control' = control
  <1> USE DEF ReadsOnly, repo
  <1>1. CASE Start(p) \/ Fail(p) \/ Crash(p) BY <1>1 DEF Start, Begin, Fail, Crash
  <1>2. CASE Detect(p) \/ Survey(p) \/ Draft(p) \/ Recall(p) \/ Confirm(p) \/ Look(p)
    BY <1>2 DEF Detect, Survey, Draft, Recall, Confirm, Look
  <1>3. CASE Make(p) \/ Acquire(p) \/ Scan(p) \/ Check(p) \/ Stage(p) \/ Recheck(p)
    BY <1>3 DEF Make, Acquire, Scan, Check, Stage, Recheck
  <1>4. CASE PublishTarget(p) \/ Verify(p) \/ RemoveRelic(p) \/ Weigh(p) \/ Unlink(p)
    BY <1>4 DEF PublishTarget, Verify, RemoveRelic, Weigh, Unlink
  <1>5. CASE Release(p) \/ Sweep(p) \/ Rmdir(p) BY <1>5 DEF Release, Sweep, Rmdir
  <1> QED BY <1>1, <1>2, <1>3, <1>4, <1>5 DEF Reads

LEMMA ControlStep ==
  ASSUME Inductive, NEW p \in Procs, Step(p) PROVE control' = control \/ Written(p)
  <1>1. CASE Scaffold(p) BY <1>1 DEF Scaffold, Publish, At, Written, Scaffolded
  <1>2. CASE Intend(p)
    <2>1. CASE control["lock"] = None /\ control["intent"] = None
      <3>1. Publish(p, "intent", Mine(p, "intent")) BY <1>2, <2>1 DEF Intend
      <3>2. job[p] = "migrate" BY <3>1 DEF Inductive, Relies, Publish, At
      <3> QED BY <2>1, <3>1, <3>2 DEF Publish, At, Written, Proposed
    <2>2. CASE Skip(p, "intent") BY <2>2 DEF Skip, ReadsOnly, repo
    <2> QED BY <1>2, <2>1, <2>2 DEF Intend
  <1>3. CASE PublishControl(p)
    <2>1. PICK f \in {"config", "catalog"} :
            /\ job[p] = "migrate"
            /\ IF control[f] = None THEN Publish(p, f, Mine(p, f)) ELSE Skip(p, f)
      BY <1>3 DEF PublishControl
    <2>2. CASE control[f] = None
      BY <2>1, <2>2 DEF Publish, At, Written, Proposed
    <2>3. CASE control[f] # None
      BY <2>1, <2>3 DEF Skip, ReadsOnly, repo
    <2> QED BY <2>2, <2>3
  <1>4. CASE Enthrone(p)
    BY <1>4 DEF Enthrone, Skip, ReadsOnly, repo, At, Written, Enthroned
  <1>5. CASE Reads(p) BY <1>5, ReadsControl
  <1> QED BY <1>1, <1>2, <1>3, <1>4, <1>5 DEF Step, Proceed, Reads

(* The legacy configuration: only the last step of a migration removes it. *)
LEMMA AuthorityStep ==
  ASSUME NEW p \in Procs, Step(p)
  PROVE  \/ UNCHANGED <<authority, offered>>
         \/ /\ pc[p] = "unlink" /\ authority' = None /\ offered' = offered \union {None}
            /\ UNCHANGED <<control, disk, born>>
  <1> USE DEF ReadsOnly, repo, history
  <1>1. CASE Start(p) \/ Fail(p) \/ Crash(p) BY <1>1 DEF Start, Begin, Fail, Crash
  <1>2. CASE Detect(p) \/ Survey(p) \/ Draft(p) \/ Recall(p) \/ Confirm(p) \/ Look(p)
    BY <1>2 DEF Detect, Survey, Draft, Recall, Confirm, Look
  <1>3. CASE Make(p) \/ Acquire(p) \/ Scan(p) \/ Check(p) \/ Stage(p) \/ Recheck(p)
    BY <1>3 DEF Make, Acquire, Scan, Check, Stage, Recheck
  <1>4. CASE Scaffold(p) \/ Intend(p) \/ PublishControl(p) \/ Enthrone(p)
    BY <1>4 DEF Scaffold, Intend, PublishControl, Enthrone, Publish, Skip
  <1>5. CASE PublishTarget(p) \/ Verify(p) \/ RemoveRelic(p) \/ Weigh(p)
    BY <1>5 DEF PublishTarget, Verify, RemoveRelic, Weigh
  <1>6. CASE Release(p) \/ Sweep(p) \/ Rmdir(p) BY <1>6 DEF Release, Sweep, Rmdir
  <1>7. CASE Unlink(p) BY <1>7 DEF Unlink, At
  <1> QED BY <1>1, <1>2, <1>3, <1>4, <1>5, <1>6, <1>7 DEF Step, Proceed

(* The tree: a migration writes a target, or removes a relic. *)
LEMMA DiskStep ==
  ASSUME NEW p \in Procs, Step(p)
  PROVE  \/ UNCHANGED <<disk, born>>
         \/ /\ pc[p] = "targets" /\ control' = control
            /\ \E t \in todo[p] :
                 /\ disk' = [disk EXCEPT ![t] = plan[p].of]
                 /\ born' = IF disk[t] = None THEN born \union {t} ELSE born
         \/ /\ pc[p] = "relics" /\ control' = control /\ born' = born
            /\ \E r \in Relics : disk' = [disk EXCEPT ![r] = None]
  <1> USE DEF ReadsOnly, repo, history
  <1>1. CASE Start(p) \/ Fail(p) \/ Crash(p) BY <1>1 DEF Start, Begin, Fail, Crash
  <1>2. CASE Detect(p) \/ Survey(p) \/ Draft(p) \/ Recall(p) \/ Confirm(p) \/ Look(p)
    BY <1>2 DEF Detect, Survey, Draft, Recall, Confirm, Look
  <1>3. CASE Make(p) \/ Acquire(p) \/ Scan(p) \/ Check(p) \/ Stage(p) \/ Recheck(p)
    BY <1>3 DEF Make, Acquire, Scan, Check, Stage, Recheck
  <1>4. CASE Scaffold(p) \/ Intend(p) \/ PublishControl(p) \/ Enthrone(p)
    BY <1>4 DEF Scaffold, Intend, PublishControl, Enthrone, Publish, Skip
  <1>5. CASE Verify(p) \/ Weigh(p) \/ Unlink(p)
    BY <1>5 DEF Verify, Weigh, Unlink
  <1>6. CASE Release(p) \/ Sweep(p) \/ Rmdir(p) BY <1>6 DEF Release, Sweep, Rmdir
  <1>7. CASE PublishTarget(p)
    <2>1. pc[p] = "targets" /\ control' = control BY <1>7 DEF PublishTarget, At
    <2>2. CASE UNCHANGED <<disk, born>> BY <2>2
    <2>3. CASE ~UNCHANGED <<disk, born>>
      <3>1. PICK t \in todo[p] :
              /\ disk' = [disk EXCEPT ![t] = plan[p].of]
              /\ born' = IF disk[t] = None THEN born \union {t} ELSE born
        BY <1>7, <2>3 DEF PublishTarget
      <3> QED BY <2>1, <3>1
    <2> QED BY <2>2, <2>3
  <1>8. CASE RemoveRelic(p) BY <1>8 DEF RemoveRelic, At
  <1> QED BY <1>1, <1>2, <1>3, <1>4, <1>5, <1>6, <1>7, <1>8 DEF Step, Proceed

(* The directory: made when there is none, removed when it is empty. *)
LEMMA DirStep ==
  ASSUME NEW p \in Procs, Step(p)
  PROVE  \/ dir' = dir
         \/ /\ pc[p] = "make" /\ dir = None /\ held' = held /\ control' = control
            /\ \A q \in Procs : held[q] # dir'
         \/ /\ pc[p] = "rmdir" /\ made[p] # None /\ Present = {} /\ dir' = None
            /\ control' = control
  <1> USE DEF ReadsOnly, repo, history
  <1>1. CASE Start(p) \/ Fail(p) \/ Crash(p) BY <1>1 DEF Start, Begin, Fail, Crash
  <1>2. CASE Detect(p) \/ Survey(p) \/ Draft(p) \/ Recall(p) \/ Confirm(p) \/ Look(p)
    BY <1>2 DEF Detect, Survey, Draft, Recall, Confirm, Look
  <1>3. CASE Acquire(p) \/ Scan(p) \/ Check(p) \/ Stage(p) \/ Recheck(p)
    BY <1>3 DEF Acquire, Scan, Check, Stage, Recheck
  <1>4. CASE Scaffold(p) \/ Intend(p) \/ PublishControl(p) \/ Enthrone(p)
    BY <1>4 DEF Scaffold, Intend, PublishControl, Enthrone, Publish, Skip
  <1>5. CASE PublishTarget(p) \/ Verify(p) \/ RemoveRelic(p) \/ Weigh(p) \/ Unlink(p)
    BY <1>5 DEF PublishTarget, Verify, RemoveRelic, Weigh, Unlink
  <1>6. CASE Release(p) \/ Sweep(p) BY <1>6 DEF Release, Sweep
  <1>7. CASE Make(p) BY <1>7 DEF Make, At
  <1>8. CASE Rmdir(p) BY <1>8 DEF Rmdir, At, Removable, Empty
  <1> QED BY <1>1, <1>2, <1>3, <1>4, <1>5, <1>6, <1>7, <1>8 DEF Step, Proceed

(* A file of the control plane, once there, stays there under every step;  *)
(* only an intent goes, when it has become the lock.                       *)
LEMMA ControlStays ==
  ASSUME Inductive, NEW p \in Procs, Step(p)
  PROVE  /\ \A f \in {"config", "catalog", "lock"} : control[f] # None => control'[f] # None
         /\ Present # {} => Present' # {}
         /\ control' = control \/ pc[p] \in Committing
  <1>1. TypeOK BY DEF Inductive
  <1>2. CASE control' = control BY <1>2 DEF Present
  <1>3. CASE Scaffolded(p)
    BY <1>1, <1>3, DistinctAssumption DEF Scaffolded, TypeOK, Files, Blank, Text, Texts, Present
  <1>4. CASE Proposed(p)
    <2>1. plan[p] \in Plans BY <1>1, <1>4 DEF Proposed, Inductive, Relies
    <2>2. Mine(p, pc[p]) # None
      BY <2>1, TextIsText DEF Mine, Plans
    <2> QED BY <1>1, <1>4, <2>2 DEF Proposed, TypeOK, Files, Present
  <1>5. CASE Enthroned(p)
    <2>1. control["intent"] # None
      BY <1>5 DEF Enthroned, Inductive, Relies
    <2> QED BY <1>1, <1>5, <2>1 DEF Enthroned, TypeOK, Files, Present
  <1> QED BY <1>2, <1>3, <1>4, <1>5, ControlStep DEF Written

-----------------------------------------------------------------------------
(* What a position in a command says of the control files.                 *)

Early == Ended \union {"look", "detect", "survey", "draft", "recall", "current", "make"}
Binding == {"stage"} \union Committing

(* A migration goes on only beside its own intent or lock. *)
Matched(p) ==
  /\ control["lock"] \in {None, Mine(p, "lock")}
  /\ control["intent"] \in {None, Mine(p, "intent")}

Stands(p) ==
  /\ pc[p] \in Early => made[p] = None
  /\ job[p] = "init" =>
       /\ pc[p] \in {"catalog", "lock"} => control["config"] # None
       /\ pc[p] = "lock" => control["catalog"] # None
  /\ pc[p] \in {"relics", "weigh", "unlink"} => control["lock"] # None
  /\ job[p] = "migrate" /\ pc[p] \in Binding /\ held[p] = dir => Matched(p)
  /\ pc[p] = "unlink" => moved \/ authority \in {None, plan[p].of}

Whole == control["lock"] # None => control["config"] # None /\ control["catalog"] # None
Housed == Present # {} => dir # None
Intended == control["intent"] # None => control["intent"].of \in offered \ {None}

Standing == Inductive /\ Whole /\ Housed /\ Intended /\ \A p \in Procs : Stands(p)

USE DEF Early, Binding

LEMMA CentralLock ==
  ASSUME Inductive, Whole
  PROVE  /\ control["lock"] # None => Complete /\ Central = control["lock"].of /\ Central # None
         /\ control["lock"] = None => ~Complete /\ Central = None
  <1>1. control["lock"] # None => control["lock"].of # None
    BY DistinctAssumption DEF Inductive, TypeOK, Files, Texts
  <1> QED BY <1>1 DEF Whole, Complete, Present, Files, Central

(* The files themselves. *)
LEMMA WholeStep ==
  ASSUME Standing, NEW p \in Procs, Step(p)
  PROVE  Whole' /\ Housed' /\ Intended'
  <1>1. TypeOK /\ Relies(p, pc[p], plan[p]) /\ Sole(p) BY DEF Standing, Inductive
  <1>2. offered \subseteq offered' BY AuthorityStep
  <1>3. CASE control' = control
    <2>1. Whole' /\ Intended' BY <1>2, <1>3 DEF Standing, Whole, Intended
    <2>2. Housed' BY <1>3, DirStep DEF Standing, Housed, Present
    <2> QED BY <2>1, <2>2
  <1>4. CASE Written(p)
    <2>1. pc[p] \in Committing /\ held[p] = dir /\ dir # None /\ dir' = dir
      BY <1>1, <1>4, DirStep DEF Written, Scaffolded, Proposed, Enthroned, Relies
    <2>2. Housed' BY <2>1 DEF Housed
    <2>3. CASE Scaffolded(p)
      <3>1. Whole'
        BY <1>1, <2>3, ControlStays DEF Standing, Whole, Stands, Scaffolded, TypeOK, Files
      <3>2. control'["intent"] = control["intent"]
        BY <1>1, <2>3 DEF Scaffolded, TypeOK
      <3> QED BY <1>2, <2>2, <3>1, <3>2 DEF Standing, Intended
    <2>4. CASE Proposed(p)
      <3>1. plan[p] \in Plans /\ plan[p].of \in offered /\ plan[p].of # None
        BY <1>1, <2>4, DistinctAssumption DEF Proposed, Relies, Plans
      <3>2. control'["lock"] = control["lock"]
            /\ control'["intent"] \in {control["intent"], Mine(p, "intent")}
        BY <1>1, <2>4 DEF Proposed, TypeOK, Files
      <3>3. Whole' BY <3>2, ControlStays DEF Standing, Whole
      <3>4. Intended' BY <1>2, <3>1, <3>2 DEF Standing, Intended, Mine, Text
      <3> QED BY <2>2, <3>3, <3>4
    <2>5. CASE Enthroned(p)
      <3>1. control["config"] # None /\ control["catalog"] # None
        BY <1>1, <2>5 DEF Enthroned, Relies
      <3>2. Whole' BY <3>1, ControlStays DEF Standing, Whole
      <3>3. control'["intent"] = None BY <1>1, <2>5 DEF Enthroned, TypeOK, Files
      <3> QED BY <2>2, <3>2, <3>3 DEF Intended
    <2> QED BY <1>4, <2>3, <2>4, <2>5 DEF Written
  <1> QED BY <1>3, <1>4, ControlStep DEF Standing

(* What a step means for the others: whoever writes has the directory to   *)
(* itself.                                                                 *)
LEMMA OthersStand ==
  ASSUME Standing, NEW p \in Procs, Step(p), NEW q \in Procs, q # p
  PROVE  Stands(q)'
  <1>1. TypeOK /\ (\A r \in Procs : Relies(r, pc[r], plan[r]) /\ Sole(r)) /\ Stands(q)
    BY DEF Standing, Inductive
  <1>2. /\ pc'[q] = pc[q] /\ job'[q] = job[q] /\ plan'[q] = plan[q]
        /\ held'[q] = held[q] /\ made'[q] = made[q] /\ moved' = moved
    BY <1>1, StepApart DEF Apart
  <1>3. \A f \in {"config", "catalog", "lock"} : control[f] # None => control'[f] # None
    BY ControlStays DEF Standing
  <1>4. authority' \in {authority, None} BY AuthorityStep
  <1>5. ASSUME job'[q] = "migrate", pc'[q] \in Binding, held'[q] = dir' PROVE Matched(q)'
    <2>1. held[q] # None BY <1>1, <1>2, <1>5 DEF Relies
    <2>2. dir' = dir BY <1>2, <1>5, <2>1, DirStep
    <2>3. control' = control
      <3>1. pc[p] \in Committing => held[p] = held[q]
        BY <1>1, <1>2, <1>5, <2>2 DEF Relies
      <3> QED BY <1>1, <2>1, <3>1, ControlStays DEF Sole, Standing
    <2> QED BY <1>1, <1>2, <1>5, <2>2, <2>3 DEF Stands, Matched, Mine
  <1> QED BY <1>1, <1>2, <1>3, <1>4, <1>5 DEF Stands

(* Mine speaks of the plan alone. *)
LEMMA MineKept ==
  ASSUME NEW p \in Procs, plan'[p] = plan[p], Matched(p),
         control'["lock"] = control["lock"], control'["intent"] = control["intent"]
  PROVE  Matched(p)'
  BY DEF Matched, Mine

LEMMA PlanningStands ==
  ASSUME Standing, NEW p \in Procs,
         \/ Start(p) \/ Fail(p) \/ Crash(p)
         \/ Detect(p) \/ Survey(p) \/ Draft(p) \/ Recall(p) \/ Confirm(p) \/ Look(p)
         \/ Make(p) \/ Acquire(p)
  PROVE  Stands(p)'
  <1>1. TypeOK /\ Relies(p, pc[p], plan[p]) /\ Stands(p) BY DEF Standing, Inductive
  <1> USE <1>1 DEF TypeOK, Stands, Goto, GotoIf, Forget, ReadsOnly, repo, history, At
  <1>2. CASE Start(p) BY <1>2 DEF Start, Begin
  <1>3. CASE Fail(p) BY <1>3 DEF Fail
  <1>4. CASE Crash(p) BY <1>4 DEF Crash
  <1>5. CASE Detect(p) BY <1>5 DEF Detect
  <1>6. CASE Survey(p) BY <1>6 DEF Survey
  <1>7. CASE Draft(p) BY <1>7 DEF Draft
  <1>8. CASE Recall(p) BY <1>8 DEF Recall
  <1>9. CASE Confirm(p) BY <1>9 DEF Confirm
  <1>10. CASE Look(p) BY <1>10 DEF Look
  <1>11. CASE Make(p) BY <1>11 DEF Make
  <1>12. CASE Acquire(p) BY <1>12 DEF Acquire
  <1> QED BY <1>2, <1>3, <1>4, <1>5, <1>6, <1>7, <1>8, <1>9, <1>10, <1>11, <1>12

LEMMA LockedStands ==
  ASSUME Standing, NEW p \in Procs,
         \/ Scan(p) \/ Check(p) \/ Stage(p) \/ Recheck(p) \/ PublishTarget(p) \/ Verify(p)
         \/ RemoveRelic(p) \/ Weigh(p) \/ Unlink(p) \/ Release(p) \/ Sweep(p) \/ Rmdir(p)
  PROVE  Stands(p)'
  <1>1. TypeOK /\ Relies(p, pc[p], plan[p]) /\ Stands(p) BY DEF Standing, Inductive
  <1>2. UNCHANGED control BY ReadsControl DEF Reads
  <1>3. Matched(p) /\ plan'[p] = plan[p] => Matched(p)' BY <1>2, MineKept
  <1> USE <1>1, <1>2, <1>3
          DEF TypeOK, Stands, Relies, Goto, GotoIf, Done, ReadsOnly, repo, history, At
  <1>4. CASE Scan(p) BY <1>4 DEF Scan
  <1>5. CASE Check(p)
    <2>1. pc'[p] = "stage" /\ held[p] = dir => Matched(p)'
      BY <1>5 DEF Check, Seen, Matched, Mine
    <2> QED BY <1>5, <2>1 DEF Check
  <1>6. CASE Stage(p) BY <1>6 DEF Stage
  <1>7. CASE Recheck(p) BY <1>7 DEF Recheck, Then, Order
  <1>8. CASE PublishTarget(p) BY <1>8 DEF PublishTarget, Then, Order
  <1>9. CASE Verify(p) BY <1>9 DEF Verify
  <1>10. CASE RemoveRelic(p) BY <1>10 DEF RemoveRelic
  <1>11. CASE Weigh(p) BY <1>11 DEF Weigh
  <1>12. CASE Unlink(p) BY <1>12 DEF Unlink
  <1>13. CASE Release(p) BY <1>13 DEF Release
  <1>14. CASE Sweep(p) BY <1>14 DEF Sweep
  <1>15. CASE Rmdir(p) BY <1>15 DEF Rmdir, Forget
  <1> QED BY <1>4, <1>5, <1>6, <1>7, <1>8, <1>9, <1>10, <1>11, <1>12, <1>13, <1>14, <1>15

LEMMA PublishStands ==
  ASSUME Standing, NEW p \in Procs,
         Scaffold(p) \/ Intend(p) \/ PublishControl(p) \/ Enthrone(p)
  PROVE  Stands(p)'
  <1>1. TypeOK /\ Relies(p, pc[p], plan[p]) /\ Stands(p) BY DEF Standing, Inductive
  <1>2. Step(p) BY DEF Step, Proceed
  <1>3. \A f \in {"config", "catalog", "lock"} : control[f] # None => control'[f] # None
    BY <1>2, ControlStays DEF Standing
  <1> USE DEF At
  <1>4. ASSUME NEW f \in {"intent", "config", "catalog", "lock"}, Skip(p, f),
               f # "lock" \/ control["lock"] # None
        PROVE  Stands(p)'
    <2>1. /\ UNCHANGED <<control, dir, job, plan, held, made>> /\ job[p] = "migrate" /\ pc[p] = f
          /\ pc'[p] \in {"targets", "catalog", "verify", "relics"}
          /\ pc'[p] = "relics" => f = "lock"
      BY <1>1, <1>4 DEF Skip, ReadsOnly, repo, Goto, TypeOK, Then, Order
    <2>2. Matched(p)' <=> Matched(p) BY <2>1 DEF Matched, Mine
    <2> QED BY <1>1, <1>4, <2>1, <2>2 DEF Stands, Relies
  <1>5. ASSUME NEW f \in {"intent", "config", "catalog", "lock"}, NEW text, Publish(p, f, text)
        PROVE  /\ pc[p] = f /\ pc'[p] \in {Then(p, f), "release"} /\ control'[f] = text
               /\ \A g \in Files : g # f => control'[g] = control[g]
               /\ UNCHANGED <<dir, job, plan, held>> /\ made'[p] = None
    BY <1>1, <1>5 DEF Publish, Done, Goto, TypeOK, Files
  <1>6. CASE Scaffold(p)
    <2>1. PICK f \in {"config", "catalog", "lock"} : job[p] = "init" /\ Publish(p, f, Blank(f))
      BY <1>6 DEF Scaffold
    <2>2. /\ f = "config" => Then(p, f) = "catalog"
          /\ f = "catalog" => Then(p, f) = "lock"
          /\ f = "lock" => Then(p, f) = "settled"
      BY <2>1 DEF Then, Order
    <2>3. Blank(f) # None BY DistinctAssumption DEF Blank, Text, Texts
    <2> QED BY <1>1, <1>3, <1>5, <2>1, <2>2, <2>3 DEF Stands
  <1>7. CASE Intend(p)
    <2>1. CASE Skip(p, "intent") BY <1>4, <2>1
    <2>2. CASE ~Skip(p, "intent")
      <3>1. Publish(p, "intent", Mine(p, "intent")) /\ control["lock"] = None
        BY <1>7, <2>2 DEF Intend
      <3>2. /\ pc[p] = "intent" /\ pc'[p] \in {"targets", "release"} /\ made'[p] = None
            /\ control'["intent"] = Mine(p, "intent") /\ control'["lock"] = control["lock"]
            /\ UNCHANGED <<dir, job, plan, held>>
        BY <1>5, <3>1 DEF Then, Order, Files
      <3>3. Matched(p)' BY <3>1, <3>2 DEF Matched, Mine
      <3> QED BY <1>1, <3>2, <3>3 DEF Stands
    <2> QED BY <2>1, <2>2
  <1>8. CASE PublishControl(p)
    <2>1. PICK f \in {"config", "catalog"} :
            /\ job[p] = "migrate"
            /\ IF control[f] = None THEN Publish(p, f, Mine(p, f)) ELSE Skip(p, f)
      BY <1>8 DEF PublishControl
    <2>2. CASE Skip(p, f) BY <1>4, <2>2
    <2>3. CASE Publish(p, f, Mine(p, f))
      <3>1. pc[p] = f /\ pc'[p] \in {"catalog", "verify", "release"} /\ made'[p] = None
            /\ control'["intent"] = control["intent"] /\ control'["lock"] = control["lock"]
            /\ UNCHANGED <<dir, job, plan, held>>
        BY <1>5, <2>1, <2>3 DEF Then, Order, Files
      <3>2. Matched(p) /\ held[p] = dir BY <1>1, <2>1, <3>1 DEF Stands, Relies
      <3>3. Matched(p)' BY <3>1, <3>2, MineKept
      <3> QED BY <1>1, <2>1, <3>1, <3>3 DEF Stands
    <2> QED BY <2>1, <2>2, <2>3
  <1>9. CASE Enthrone(p)
    <2>1. CASE control["lock"] # None
      BY <1>4, <1>9, <2>1 DEF Enthrone
    <2>2. CASE control["lock"] = None
      <3>1. /\ pc[p] = "lock" /\ pc'[p] \in {"relics", "release"} /\ job[p] = "migrate"
            /\ control'["lock"] = control["intent"] /\ control'["intent"] = None
            /\ UNCHANGED <<dir, job, plan, held, made>>
        BY <1>1, <1>9, <2>2 DEF Enthrone, Done, Goto, TypeOK, Files, Then, Order
      <3>2. Matched(p) /\ control["intent"] # None
        BY <1>1, <2>2, <3>1 DEF Stands, Relies
      <3>3. Matched(p)' BY <3>1, <3>2 DEF Matched, Mine, Text
      <3> QED BY <1>1, <3>1, <3>2, <3>3 DEF Stands
    <2> QED BY <2>1, <2>2
  <1> QED BY <1>6, <1>7, <1>8, <1>9

LEMMA StandingStep == Standing /\ [Next]_vars => Standing'
  <1> SUFFICES ASSUME Standing, [Next]_vars PROVE Standing'
    OBVIOUS
  <1>1. Inductive' BY InductiveStep DEF Standing
  <1>2. ASSUME NEW p \in Procs, Step(p) PROVE Standing'
    <2>1. Whole' /\ Housed' /\ Intended' BY <1>2, WholeStep
    <2>2. Stands(p)'
      BY <1>2, PlanningStands, LockedStands, PublishStands DEF Step, Proceed
    <2>3. \A q \in Procs : q # p => Stands(q)' BY <1>2, OthersStand
    <2> QED BY <1>1, <2>1, <2>2, <2>3 DEF Standing
  <1>3. CASE Edit \/ Amend
    <2>1. UNCHANGED <<control, dir, local>> /\ offered \subseteq offered'
      BY <1>3 DEF Edit, Amend
    <2>2. Whole' /\ Housed' /\ Intended'
      BY <2>1 DEF Standing, Whole, Housed, Intended, Present
    <2>3. ASSUME NEW p \in Procs PROVE Stands(p)'
      <3>1. UNCHANGED <<pc, job, plan, held, made>> /\ Stands(p)
        BY <2>1 DEF local, Standing
      <3>2. Matched(p)' <=> Matched(p) BY <2>1, <3>1 DEF Matched, Mine
      <3>3. pc[p] = "unlink" => Central # None
        BY <3>1, CentralLock DEF Standing, Stands
      <3>4. pc[p] = "unlink" => moved' \/ authority' \in {None, plan[p].of}
        BY <1>3, <3>1, <3>3 DEF Stands, Edit, Amend
      <3> QED BY <2>1, <3>1, <3>2, <3>4 DEF Stands
    <2> QED BY <1>1, <2>2, <2>3 DEF Standing
  <1>4. CASE UNCHANGED vars
    <2>1. UNCHANGED <<control, dir, authority, offered, moved, pc, job, plan, held, made>>
      BY <1>4 DEF vars, repo, local, history
    <2>2. \A p \in Procs : Stands(p)'
      BY <2>1 DEF Standing, Stands, Matched, Mine
    <2> QED BY <1>1, <2>1, <2>2 DEF Standing, Whole, Housed, Intended, Present
  <1> QED BY <1>2, <1>3, <1>4 DEF Next, Step

LEMMA StandingInit == Init => Standing
  <1> SUFFICES ASSUME Init PROVE Standing
    OBVIOUS
  <1>1. Inductive BY InitInductive
  <1>2. Present = {} /\ control["lock"] = None /\ control["intent"] = None
    BY DEF Init, Present, Files
  <1>3. \A p \in Procs : Stands(p) BY DEF Init, Stands
  <1> QED BY <1>1, <1>2, <1>3 DEF Standing, Whole, Housed, Intended

LEMMA StandingHolds == Spec => []Standing
  BY StandingInit, StandingStep, PTL DEF Spec

-----------------------------------------------------------------------------
(* While nobody restores a legacy configuration beside an init.            *)

(* An init past its look writes into a directory in which nothing is, and  *)
(* in which no migration is about to write.                                *)
Scaffolds(q) ==
  job[q] = "init" /\ pc[q] \in Scaffolding =>
    /\ authority = None
    /\ pc[q] \in {"acquire", "scan", "stage", "config"} /\ made[q] # None =>
         /\ Present = {}
         /\ \A p \in Procs : job[p] = "migrate" /\ pc[p] \in Binding => held[p] # dir
    /\ pc[q] \in {"stage", "config"} => made[q] # None
    /\ pc[q] \in {"catalog", "lock"} => control["lock"] = None
    /\ pc[q] = "catalog" => control["catalog"] = None

Orderly ==
  /\ Standing
  /\ left["restore"] = 0 \/ "init" \notin Jobs
  /\ \A q \in Procs : Scaffolds(q)

(* No command spends a restoration. *)
LEMMA RestoreKept ==
  ASSUME TypeOK, NEW p \in Procs, Step(p)
  PROVE  left'["restore"] = left["restore"]
  <1> USE DEF TypeOK, Kinds, Spend, Done, ReadsOnly
  <1>1. CASE Start(p) \/ Fail(p) \/ Crash(p) BY <1>1 DEF Start, Fail, Crash
  <1>2. CASE Detect(p) \/ Survey(p) \/ Draft(p) \/ Recall(p) \/ Confirm(p) \/ Look(p)
    BY <1>2 DEF Detect, Survey, Draft, Recall, Confirm, Look
  <1>3. CASE Make(p) \/ Acquire(p) \/ Scan(p) \/ Check(p) \/ Stage(p) \/ Recheck(p)
    BY <1>3 DEF Make, Acquire, Scan, Check, Stage, Recheck
  <1>4. CASE Scaffold(p) \/ Intend(p) \/ PublishControl(p) \/ Enthrone(p)
    BY <1>4 DEF Scaffold, Intend, PublishControl, Enthrone, Publish, Skip
  <1>5. CASE PublishTarget(p) \/ Verify(p) \/ RemoveRelic(p) \/ Weigh(p) \/ Unlink(p)
    BY <1>5 DEF PublishTarget, Verify, RemoveRelic, Weigh, Unlink
  <1>6. CASE Release(p) \/ Sweep(p) \/ Rmdir(p) BY <1>6 DEF Release, Sweep, Rmdir
  <1> QED BY <1>1, <1>2, <1>3, <1>4, <1>5, <1>6 DEF Step, Proceed

(* A migration comes to write in a directory only from a check in it, and  *)
(* the check of one with no lock has read the legacy configuration.        *)
LEMMA BindingStep ==
  ASSUME Standing, NEW p \in Procs, Step(p), job'[p] = "migrate", pc'[p] \in Binding, dir' = dir,
         held'[p] = dir, Present = {}, authority = None
  PROVE  job[p] = "migrate" /\ pc[p] \in Binding /\ held[p] = dir
  <1>1. TypeOK /\ Relies(p, pc[p], plan[p]) BY DEF Standing, Inductive
  <1>2. control["lock"] = None BY DEF Present, Files
  <1> USE <1>1 DEF TypeOK, Relies, Goto, GotoIf, ReadsOnly, repo, Done, At
  <1>3. CASE Check(p)
    <2>1. plan[p].of # None BY <1>3, DistinctAssumption DEF Check, Plans
    <2> QED BY <1>2, <1>3, <2>1 DEF Check, Seen, Untouched
  <1>4. CASE Start(p) \/ Fail(p) \/ Crash(p) BY <1>4 DEF Start, Begin, Fail, Crash
  <1>5. CASE Detect(p) \/ Survey(p) \/ Draft(p) \/ Recall(p) \/ Confirm(p) \/ Look(p)
    BY <1>5 DEF Detect, Survey, Draft, Recall, Confirm, Look
  <1>6. CASE Make(p) \/ Acquire(p) \/ Scan(p) BY <1>6 DEF Make, Acquire, Scan
  <1>7. CASE Stage(p) \/ Recheck(p) BY <1>7 DEF Stage, Recheck
  <1>8. CASE Scaffold(p) \/ Intend(p) \/ PublishControl(p) \/ Enthrone(p)
    BY <1>8 DEF Scaffold, Intend, PublishControl, Enthrone, Publish, Skip
  <1>9. CASE PublishTarget(p) \/ Verify(p) \/ RemoveRelic(p)
    BY <1>9 DEF PublishTarget, Verify, RemoveRelic
  <1>10. CASE Weigh(p) \/ Unlink(p) BY <1>10 DEF Weigh, Unlink
  <1>11. CASE Release(p) \/ Sweep(p) \/ Rmdir(p) BY <1>11 DEF Release, Sweep, Rmdir
  <1> QED BY <1>3, <1>4, <1>5, <1>6, <1>7, <1>8, <1>9, <1>10, <1>11 DEF Step, Proceed

LEMMA OthersScaffold ==
  ASSUME Orderly, NEW p \in Procs, Step(p), NEW q \in Procs, q # p
  PROVE  Scaffolds(q)'
  <1> SUFFICES ASSUME job[q] = "init", pc[q] \in Scaffolding PROVE Scaffolds(q)'
    BY StepApart DEF Orderly, Standing, Inductive, Apart, Scaffolds
  <1>1. /\ TypeOK /\ Standing /\ Scaffolds(q) /\ Inductive
        /\ \A r \in Procs : Relies(r, pc[r], plan[r]) /\ Sole(r) /\ Stands(r) /\ Scaffolds(r)
    BY DEF Orderly, Standing, Inductive
  <1>2. /\ \A r \in Procs : r # p => /\ pc'[r] = pc[r] /\ job'[r] = job[r]
                                     /\ held'[r] = held[r] /\ made'[r] = made[r]
        /\ authority = None /\ authority' = None
    BY <1>1, StepApart, AuthorityStep DEF Apart, Scaffolds
  <1>3. ASSUME pc[q] \in {"acquire", "scan", "stage", "config"}, made[q] # None
        PROVE  /\ Present' = {}
               /\ \A r \in Procs : job'[r] = "migrate" /\ pc'[r] \in Binding => held'[r] # dir'
    <2>1. /\ Present = {} /\ made[q] = dir /\ made[p] = None /\ dir # None
          /\ \A r \in Procs : job[r] = "migrate" /\ pc[r] \in Binding => held[r] # dir
      BY <1>1, <1>3 DEF Scaffolds, Sole
    <2>2. dir' = dir BY <2>1, DirStep
    <2>3. control' = control
      <3>1. ~Scaffolded(p)
        <4>1. CASE pc[p] = "config" BY <1>1, <2>1, <4>1 DEF Scaffolded, Scaffolds
        <4>2. CASE pc[p] # "config" BY <1>1, <2>1, <4>2 DEF Scaffolded, Stands, Present, Files
        <4> QED BY <4>1, <4>2
      <3>2. ~Proposed(p) /\ ~Enthroned(p)
        BY <1>1, <2>1 DEF Proposed, Enthroned, Relies
      <3> QED BY <1>1, <3>1, <3>2, ControlStep DEF Written
    <2>4. job'[p] = "migrate" /\ pc'[p] \in Binding => held'[p] # dir'
      BY <1>1, <1>2, <2>1, <2>2, BindingStep
    <2>5. \A r \in Procs : r # p /\ job'[r] = "migrate" /\ pc'[r] \in Binding => held'[r] # dir'
      BY <1>2, <2>1, <2>2
    <2> QED BY <2>1, <2>3, <2>4, <2>5 DEF Present
  <1>4. pc[q] \in {"catalog", "lock"} => control' = control
    <2>1. pc[q] \in Committing => pc[p] \notin Committing
      BY <1>1, AloneCommitting
    <2> QED BY <1>1, <2>1, ControlStays
  <1> QED BY <1>1, <1>2, <1>3, <1>4 DEF Scaffolds

LEMMA OwnScaffold ==
  ASSUME Orderly, NEW p \in Procs, Step(p)
  PROVE  Scaffolds(p)'
  <1>1. /\ TypeOK /\ Standing /\ Scaffolds(p) /\ Inductive /\ Relies(p, pc[p], plan[p])
        /\ Sole(p) /\ Stands(p)
    BY DEF Orderly, Standing, Inductive
  <1> USE <1>1 DEF TypeOK, Relies, Goto, GotoIf, ReadsOnly, repo, Done, At
  <1>2. CASE Start(p) BY <1>2 DEF Start, Begin, Scaffolds
  <1>3. CASE Fail(p) \/ Crash(p) BY <1>3 DEF Fail, Crash, Scaffolds
  <1>4. CASE Detect(p) \/ Survey(p) \/ Draft(p) \/ Recall(p) \/ Confirm(p)
    BY <1>4 DEF Detect, Survey, Draft, Recall, Confirm, Scaffolds
  <1>5. CASE Look(p) BY <1>5 DEF Look, Scaffolds, Stands
  <1>6. CASE Make(p)
    <2>1. /\ pc[p] = "make" /\ pc'[p] = "acquire" /\ job' = job /\ held' = held
          /\ UNCHANGED <<authority, control>> /\ made[p] = None
          /\ \A q \in Procs : q # p => pc'[q] = pc[q]
      BY <1>6 DEF Make, Stands
    <2>2. CASE dir # None BY <1>6, <2>1, <2>2 DEF Make, Scaffolds
    <2>3. CASE dir = None
      <3>1. Present' = {} BY <2>1, <2>3 DEF Standing, Housed, Present
      <3>2. \A q \in Procs : held'[q] # dir' BY <1>6, <2>1, <2>3 DEF Make
      <3> QED BY <2>1, <3>1, <3>2 DEF Scaffolds
    <2> QED BY <2>2, <2>3
  <1>7. CASE Acquire(p) \/ Scan(p) \/ Stage(p)
    <2>1. /\ UNCHANGED <<authority, control, dir, made, job>> /\ Present' = Present
          /\ \A q \in Procs : q # p => pc'[q] = pc[q] /\ held'[q] = held[q]
      BY <1>7 DEF Acquire, Scan, Stage, Present
    <2>2. CASE Acquire(p) BY <2>1, <2>2 DEF Acquire, Scaffolds
    <2>3. CASE Scan(p) BY <2>1, <2>3 DEF Scan, Scaffolds
    <2>4. CASE Stage(p) BY <2>1, <2>4 DEF Stage, Scaffolds
    <2> QED BY <1>7, <2>2, <2>3, <2>4
  <1>8. CASE Check(p) \/ Recheck(p) BY <1>8 DEF Check, Recheck, Scaffolds, Then, Order
  <1>9. CASE PublishTarget(p) \/ Verify(p) \/ RemoveRelic(p) \/ Weigh(p) \/ Unlink(p)
    BY <1>9 DEF PublishTarget, Verify, RemoveRelic, Weigh, Unlink, Scaffolds
  <1>10. CASE Intend(p) \/ PublishControl(p) \/ Enthrone(p)
    BY <1>10 DEF Intend, PublishControl, Enthrone, Publish, Skip, Scaffolds
  <1>11. CASE Scaffold(p)
    <2>1. PICK f \in {"config", "catalog", "lock"} : job[p] = "init" /\ Publish(p, f, Blank(f))
      BY <1>11 DEF Scaffold
    <2>2. /\ pc[p] = f /\ pc'[p] \in {Then(p, f), "release"} /\ made'[p] = None
          /\ \A g \in Files : g # f => control'[g] = control[g]
          /\ UNCHANGED <<authority, job>>
      BY <2>1 DEF Publish, Files
    <2>3. /\ f = "config" => Then(p, f) = "catalog"
          /\ f = "catalog" => Then(p, f) = "lock"
          /\ f = "lock" => Then(p, f) = "settled"
      BY <2>1 DEF Then, Order
    <2>4. f = "config" => control["lock"] = None /\ control["catalog"] = None
      BY <2>1, <2>2 DEF Scaffolds, Present, Files
    <2> QED BY <2>1, <2>2, <2>3, <2>4 DEF Scaffolds, Files
  <1>12. CASE Release(p) \/ Sweep(p) \/ Rmdir(p)
    BY <1>12 DEF Release, Sweep, Rmdir, Scaffolds
  <1> QED BY <1>2, <1>3, <1>4, <1>5, <1>6, <1>7, <1>8, <1>9, <1>10, <1>11, <1>12
          DEF Step, Proceed

LEMMA OrderlyStep == Orderly /\ [Next]_vars => Orderly'
  <1> SUFFICES ASSUME Orderly, [Next]_vars PROVE Orderly'
    OBVIOUS
  <1>1. Standing' /\ TypeOK BY StandingStep DEF Orderly, Standing, Inductive
  <1>2. ASSUME NEW p \in Procs, Step(p) PROVE Orderly'
    BY <1>1, <1>2, RestoreKept, OthersScaffold, OwnScaffold DEF Orderly
  <1>3. CASE Edit \/ Amend
    <2>1. UNCHANGED <<control, dir, local>> BY <1>3 DEF Edit, Amend
    <2>2. CASE left["restore"] = 0
      <3>1. left'["restore"] = 0
        BY <1>1, <1>3, <2>2 DEF Edit, Amend, Spend, TypeOK, Kinds
      <3>2. authority = None => authority' = None
        BY <1>1, <1>3, <2>2 DEF Edit, Amend, Spend
      <3>3. \A q \in Procs : Scaffolds(q)'
        BY <2>1, <3>2 DEF Orderly, Scaffolds, local, Present
      <3> QED BY <1>1, <3>1, <3>3 DEF Orderly
    <2>3. CASE "init" \notin Jobs
      <3>1. \A q \in Procs : job'[q] # "init"
        BY <1>1, <2>1, <2>3, DistinctAssumption DEF TypeOK, local
      <3> QED BY <1>1, <2>3, <3>1 DEF Orderly, Scaffolds
    <2> QED BY <2>2, <2>3 DEF Orderly
  <1>4. CASE UNCHANGED vars
    BY <1>1, <1>4 DEF vars, repo, local, Orderly, Scaffolds, Present
  <1> QED BY <1>2, <1>3, <1>4 DEF Next, Step

LEMMA OrderlyInit ==
  ASSUME Supply["restore"] = 0 \/ "init" \notin Jobs, Init PROVE Orderly
  <1>1. Standing BY StandingInit
  <1>2. left = Supply /\ \A q \in Procs : Scaffolds(q) BY DEF Init, Scaffolds
  <1> QED BY <1>1, <1>2 DEF Orderly

LEMMA OrderlyHolds ==
  ASSUME Supply["restore"] = 0 \/ "init" \notin Jobs PROVE Spec => []Orderly
  <1>1. Init => Orderly BY OrderlyInit
  <1> QED BY <1>1, OrderlyStep, PTL DEF Spec

-----------------------------------------------------------------------------
(* Handover implements Succession: the last file of the control plane      *)
(* establishes the central authority, the unlink retires the legacy one.   *)

(* What a write to a control file means for the central authority. *)
LEMMA CentralStep ==
  ASSUME Orderly, NEW p \in Procs, Step(p)
  PROVE  \/ Central' = Central
         \/ /\ Central = None
            /\ Central' \in (offered \ {None}) \union (IF None \in offered THEN {Neutral} ELSE {})
            /\ UNCHANGED <<authority, offered>>
  <1>1. /\ TypeOK /\ Inductive /\ Whole /\ Intended /\ Relies(p, pc[p], plan[p])
        /\ Stands(p) /\ Scaffolds(p) /\ Standing
    BY DEF Orderly, Standing, Inductive
  <1>2. control["lock"] = None => Central = None BY <1>1, CentralLock
  <1>3. control'["lock"] = None => Central' = None BY DEF Central, Complete, Present
  <1>4. CASE control' = control BY <1>4 DEF Central, Complete, Present
  <1>5. CASE Scaffolded(p)
    <2>1. CASE pc[p] = "lock"
      <3>1. /\ control["lock"] = None /\ control["config"] # None /\ control["catalog"] # None
            /\ None \in offered /\ job[p] = "init"
        BY <1>1, <1>5, <2>1 DEF Scaffolded, Scaffolds, Stands, Relies
      <3>2. /\ control'["lock"] = Blank("lock") /\ control'["config"] = control["config"]
            /\ control'["catalog"] = control["catalog"]
        BY <1>1, <1>5, <2>1 DEF Scaffolded, TypeOK, Files
      <3>3. Blank("lock") # None /\ Blank("lock").of = Neutral
        BY DistinctAssumption DEF Blank, Text, Texts
      <3>4. Central' = Neutral
        BY <3>1, <3>2, <3>3 DEF Central, Complete, Present, Files
      <3> QED BY <1>2, <2>1, <3>1, <3>4, AuthorityStep
    <2>2. CASE pc[p] \in {"config", "catalog"}
      <3>1. control["lock"] = None
        BY <1>1, <1>5, <2>2 DEF Scaffolded, Scaffolds, Present, Files
      <3>2. control'["lock"] = None BY <1>1, <1>5, <2>2, <3>1 DEF Scaffolded, TypeOK, Files
      <3> QED BY <1>2, <1>3, <3>1, <3>2
    <2> QED BY <1>5, <2>1, <2>2 DEF Scaffolded
  <1>6. CASE Proposed(p)
    <2>1. control["lock"] = None BY <1>1, <1>6 DEF Proposed, Whole
    <2>2. control'["lock"] = None BY <1>1, <1>6, <2>1 DEF Proposed, TypeOK, Files
    <2> QED BY <1>2, <1>3, <2>1, <2>2
  <1>7. CASE Enthroned(p)
    <2>1. /\ control["lock"] = None /\ control["config"] # None /\ control["catalog"] # None
          /\ control["intent"] # None
      BY <1>1, <1>7 DEF Enthroned, Relies
    <2>2. /\ control'["lock"] = control["intent"] /\ control'["config"] = control["config"]
          /\ control'["catalog"] = control["catalog"]
      BY <1>1, <1>7 DEF Enthroned, TypeOK, Files
    <2>3. Central' = control["intent"].of
      BY <2>1, <2>2 DEF Central, Complete, Present, Files
    <2>4. Central' \in offered \ {None} BY <1>1, <2>1, <2>3 DEF Intended
    <2> QED BY <1>2, <1>7, <2>1, <2>4, AuthorityStep DEF Enthroned
  <1> QED BY <1>1, <1>4, <1>5, <1>6, <1>7, ControlStep DEF Written

LEMMA SuccessionStep == Orderly /\ [Next]_vars => [S!Next]_(S!vars)
  <1> SUFFICES ASSUME Orderly, [Next]_vars PROVE [S!Next]_(S!vars)
    OBVIOUS
  <1>1. Standing /\ TypeOK /\ Inductive BY DEF Orderly, Standing, Inductive
  <1>2. ASSUME NEW p \in Procs, Step(p) PROVE [S!Next]_(S!vars)
    <2>1. moved' = moved BY <1>1, <1>2, StepApart DEF Apart
    <2>2. CASE UNCHANGED <<authority, offered>>
      BY <1>2, <2>1, <2>2, CentralStep DEF S!Next, S!Establish, S!vars
    <2>3. CASE /\ pc[p] = "unlink" /\ authority' = None /\ offered' = offered \union {None}
               /\ control' = control
      <3>1. Central' = Central BY <2>3 DEF Central, Complete, Present
      <3>2. CASE authority = None
        <4>1. offered' = offered BY <1>1, <2>3, <3>2 DEF Inductive
        <4> QED BY <2>1, <2>3, <3>1, <3>2, <4>1 DEF S!vars
      <3>3. CASE authority # None
        <4>1. Stands(p) /\ Relies(p, pc[p], plan[p]) BY <1>1 DEF Standing, Inductive
        <4>2. Matched(p) /\ control["lock"] # None /\ plan[p] \in Plans
          BY <2>3, <4>1 DEF Stands, Relies
        <4>3. Central = plan[p].of
          BY <1>1, <4>2, CentralLock DEF Matched, Mine, Text, Standing
        <4>4. Central \in Versions BY <4>2, <4>3 DEF Plans
        <4>5. moved \/ authority = Central BY <2>3, <3>3, <4>1, <4>3 DEF Stands
        <4> QED BY <2>1, <2>3, <3>1, <3>3, <4>4, <4>5 DEF S!Next, S!Retire
      <3> QED BY <3>2, <3>3
    <2> QED BY <1>2, <2>2, <2>3, AuthorityStep
  <1>3. CASE Edit
    BY <1>3 DEF Edit, S!vars, Central, Complete, Present
  <1>4. CASE Amend
    <2>1. Central' = Central BY <1>4 DEF Amend, Central, Complete, Present
    <2> QED BY <1>4, <2>1 DEF Amend, S!Next, S!Amend
  <1>5. CASE UNCHANGED vars
    BY <1>5 DEF vars, repo, history, S!vars, Central, Complete, Present
  <1> QED BY <1>2, <1>3, <1>4, <1>5 DEF Next, Step

LEMMA SuccessionInit == Init => S!Init
  <1> SUFFICES ASSUME Init PROVE S!Init
    OBVIOUS
  <1>1. Central = None BY DEF Init, Central, Complete, Present, Files
  <1> QED BY <1>1 DEF Init, S!Init

(* Unless the consumer puts a legacy configuration where there was none    *)
(* and somebody runs a plain init, then whatever commands run at once,     *)
(* fail or die, the authorities succeed one another as Succession says:    *)
(* one central authority, made out of what the consumer offered, never     *)
(* replaced, and the legacy one retired only under it.  (With one          *)
(* restoration beside an init it fails: MCTrample.)                        *)
THEOREM SuccessionImplemented ==
  ASSUME Supply["restore"] = 0 \/ "init" \notin Jobs PROVE Spec => Succeeds
  <1>1. Spec => []Orderly BY OrderlyHolds
  <1> QED BY <1>1, SuccessionInit, SuccessionStep, PTL DEF Spec, Succeeds, S!Spec

(* Under the same condition no command replaces a file of a control plane  *)
(* that exists: the scaffold of an init that has looked away for long, the *)
(* prefix of a migration and its last write all fall on free names.        *)
THEOREM NeverReplaced ==
  ASSUME Supply["restore"] = 0 \/ "init" \notin Jobs PROVE Spec => NothingReplaced
  <1>1. ASSUME Orderly, [Next]_vars,
               NEW f \in Files \ {"intent"}, control[f] # None
        PROVE  control'[f] = control[f]
    <2>1. CASE control' = control BY <2>1
    <2>2. ASSUME NEW p \in Procs, Written(p) PROVE control'[f] = control[f]
      <3>1. TypeOK /\ Scaffolds(p) BY <1>1 DEF Orderly, Standing, Inductive
      <3>2. CASE Scaffolded(p)
        <4>1. control[pc[p]] = None
          BY <1>1, <3>1, <3>2 DEF Scaffolded, Scaffolds, Present, Files
        <4> QED BY <1>1, <3>1, <3>2, <4>1 DEF Scaffolded, TypeOK, Files
      <3>3. CASE Proposed(p)
        BY <1>1, <3>1, <3>3 DEF Proposed, TypeOK, Files
      <3>4. CASE Enthroned(p)
        BY <1>1, <3>1, <3>4 DEF Enthroned, TypeOK, Files
      <3> QED BY <2>2, <3>2, <3>3, <3>4 DEF Written
    <2>3. CASE Edit \/ Amend BY <2>3, <2>1 DEF Edit, Amend
    <2>4. CASE UNCHANGED vars BY <2>4, <2>1 DEF vars, repo
    <2>5. Inductive BY <1>1 DEF Orderly, Standing
    <2> QED BY <1>1, <2>1, <2>2, <2>3, <2>4, <2>5, ControlStep DEF Next, Step
  <1>2. Orderly /\ [Next]_vars
          => (\A f \in Files \ {"intent"} : control[f] # None => control'[f] = control[f])
    BY <1>1
  <1>3. Spec => []Orderly BY OrderlyHolds
  <1> QED BY <1>2, <1>3, PTL DEF Spec, NothingReplaced

=============================================================================
