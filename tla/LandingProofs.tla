--------------------------- MODULE LandingProofs ---------------------------
(***************************************************************************)
(* Proofs about Landing for every set of operators, logins, heads, roles   *)
(* and jobs, and every supply of commands, faults and interference.        *)
(***************************************************************************)
EXTENDS Landing, TLAPS

Labels == Ended \union Loading \union Working

USE DEF Ended, Loading, Working, Holding, Closing, Crossing, Converging, Admitting

-----------------------------------------------------------------------------
(* Where commands go. *)

LEMMA ReadyLabel ==
  ASSUME NEW j, NEW g
  PROVE  /\ EnterReady(j, g) \in {"observe", "sync", "mark", "pull", "ok"}
         /\ AfterObserve(j, g) \in {"sync", "mark", "pull", "ok"}
         /\ AfterSync(j, g) \in {"mark", "pull", "ok"}
  BY DEF EnterReady, AfterObserve, AfterSync, Crossed

LEMMA AdmitLabel ==
  ASSUME NEW j, NEW ph, NEW g
  PROVE  /\ ph = "structural" => Admit(j, ph, g) \in {"list", "refused"}
         /\ ph # "structural" => Admit(j, ph, g) \in Crossing \union {"pull", "ok", "refused"}
         /\ ph = "merge" => Admit(j, ph, g) \in {"terminal", "arm", "merge", "refused"}
         /\ ph \notin {"structural", "merge"} => Admit(j, ph, g) \notin {"arm", "merge"}
         /\ ph = "merge" /\ Findings(ph, g) # {} => Admit(j, ph, g) = "refused"
  <1>1. EnterReady(j, g) \in {"observe", "sync", "mark", "pull", "ok"}
    BY ReadyLabel
  <1>2. EnterMerge(j, g) \in {"terminal", "arm", "merge"}
    BY DEF EnterMerge
  <1>3. ph # "ready" => ~Advances(j, ph, g)
    BY DEF Advances
  <1> QED BY <1>1, <1>2, <1>3 DEF Admit

LEMMA CloseLabel ==
  ASSUME NEW j, NEW g
  PROVE  /\ AfterClose(j, g) \in {"fetch", "ok", "settle"}
         /\ AfterRecord(j, g) \in {"fetch", "ok", "settle", "shut"}
  BY DEF AfterClose, AfterRecord

LEMMA ListLabel ==
  ASSUME NEW p, AfterList(p) # "record", AfterList(p) # "refused"
  PROVE  /\ AfterList(p) = AfterRecord(job[p], gate[p])
         /\ <<Login[p], job[p].to>> \in records
  <1>1. Recorded(p) = {job[p].to} /\ AfterList(p) = AfterRecord(job[p], gate[p])
    BY DEF AfterList
  <1>2. job[p].to \in Recorded(p)
    BY <1>1
  <1> QED BY <1>1, <1>2 DEF Recorded

-----------------------------------------------------------------------------
(* The induction step, once for all actions.                               *)

(* GitHub moves on without losing what the invariant remembers.            *)
Onward ==
  /\ issue' \in Issues /\ pr' \in Pulls
  /\ pr'.armed # None => pr'.state = "open" /\ pr'.armed \in vetted'
  /\ pr'.state = "merged" => pr'.head \in vetted'
  /\ pr.state = "merged" => pr'.state = "merged"
  /\ records \subseteq records' /\ records' \subseteq Logins \X Outcomes
  /\ role' = role /\ clean' \subseteq Phases /\ green' \subseteq Heads
  /\ vetted \subseteq vetted' /\ vetted' \subseteq Heads
  /\ alone' \subseteq Operators /\ left' \in [Kinds -> Nat]

(* Actions of people and of GitHub leave the commands where they are.      *)
LEMMA OthersStep ==
  ASSUME Inductive, Onward, UNCHANGED local
  PROVE  Inductive'
  <1>1. TypeOK'
    BY DEF Inductive, TypeOK, Onward, local
  <1>2. \A p \in Operators : Errand(p)' /\ Earned(p)'
    BY DEF Inductive, Errand, Earned, Onward, local
  <1> QED BY <1>1, <1>2 DEF Inductive, Onward

(* A command that goes on to l.                                            *)
LEMMA CommandStep ==
  ASSUME Inductive, Onward, NEW p \in Operators, NEW l \in Labels, NEW g \in Gates \union {None},
         Go(p, l, g), pc[p] \notin Ended, l # "set",
         l \in Holding => g \in Gates,
         l \in Closing => job[p].verb = "closepr",
         l \in Crossing => job[p].verb \in Admitting,
         l \in Loading => (IF l = "pull" THEN job[p].verb \in Admitting ELSE pc[p] \in Loading),
         l = "evidence" => phase[p] = "merge",
         l \in {"merge", "arm"} => g.pr.head \in vetted',
         l = "shut" => <<Login[p], job[p].to>> \in records',
         l \in Converging /\ job[p].verb \in Admitting => pr'.state = "merged"
  PROVE  Inductive'
  <1>0. TypeOK /\ Errand(p) /\ job' = job
    BY DEF Inductive, Go
  <1>1. /\ pc' \in [Operators -> Labels]
        /\ gate' \in [Operators -> Gates \union {None}]
        /\ phase' \in [Operators -> {"structural", "ready", "again", "merge"}]
        /\ job' \in [Operators -> Jobs \union {None}]
    BY <1>0 DEF TypeOK, Go, Labels
  <1>2. \A q \in Operators : pc'[q] \in Holding => gate'[q] \in Gates
    BY <1>0 DEF TypeOK, Go
  <1>3. TypeOK'
    BY <1>0, <1>1, <1>2 DEF TypeOK, Onward, Labels
  <1>4. ASSUME NEW q \in Operators, q # p PROVE Errand(q)' /\ Earned(q)'
    <2>1. pc'[q] = pc[q] /\ gate'[q] = gate[q] /\ phase'[q] = phase[q] /\ job'[q] = job[q]
      BY <1>4, <1>0 DEF Go, TypeOK
    <2> QED BY <2>1 DEF Inductive, Errand, Earned, Onward
  <1>5. pc'[p] = l /\ job'[p] = job[p] /\ (l \notin Ended => gate'[p] = g)
    BY <1>0 DEF Go, TypeOK
  <1>6. l \in Loading => IF l = "pull" THEN phase'[p] \in {"again", "merge"} ELSE phase'[p] = phase[p]
    BY <1>0 DEF Go, TypeOK
  <1>7. Errand(p)'
    BY <1>0, <1>5, <1>6 DEF Errand
  <1>8. Earned(p)'
    BY <1>5 DEF Earned
  <1> QED BY <1>3, <1>4, <1>7, <1>8 DEF Inductive, Onward

(* A command that goes on loading the gate it has begun to load. *)
LEMMA LoadStep ==
  ASSUME Inductive, Onward, NEW p \in Operators, NEW l \in {"issue", "evidence"},
         NEW g \in Gates, Go(p, l, g), pc[p] \in Loading,
         l = "evidence" => phase[p] = "merge"
  PROVE  Inductive'
  <1>1. l \in Labels /\ g \in Gates \union {None} /\ pc[p] \notin Ended
    BY DEF Labels
  <1> QED BY <1>1, CommandStep

-----------------------------------------------------------------------------
(* What the calls of a command do to GitHub.                               *)

LEMMA ReadOnward ==
  ASSUME Inductive, UNCHANGED <<github, facts, alone, left>>,
         vetted \subseteq vetted', vetted' \subseteq Heads
  PROVE  Onward
  BY DEF Inductive, TypeOK, Onward, github, facts

(* A command that only looks and goes on. *)
LEMMA LookStep ==
  ASSUME Inductive, NEW p \in Operators, NEW l \in Labels, Look(p, l),
         pc[p] \in Working, l # "set", l \in Holding => gate[p] \in Gates,
         l \in Closing => job[p].verb = "closepr",
         l \in Crossing \union Loading => job[p].verb \in Admitting,
         l \notin {"merge", "arm", "issue", "evidence"},
         l = "shut" => <<Login[p], job[p].to>> \in records,
         l \in Converging /\ job[p].verb \in Admitting => pr.state = "merged"
  PROVE  Inductive'
  <1>1. Onward /\ UNCHANGED <<github, vetted>>
    BY ReadOnward DEF Look, Read, Inductive, TypeOK
  <1>2. Go(p, l, gate[p]) /\ gate[p] \in Gates \union {None}
    BY DEF Look, Read, Inductive, TypeOK
  <1> QED BY <1>1, <1>2, CommandStep DEF github

LEMMA WriteStep ==
  ASSUME Inductive, NEW p \in Operators, NEW l \in Labels,
         NEW i \in Issues, NEW q \in Pulls, NEW c \in SUBSET (Logins \X Outcomes),
         Write(p, i, q, c, l), pc[p] \in Working, records \subseteq c,
         q.armed # None => q.state = "open" /\ q.armed \in vetted,
         q.state = "merged" => q.head \in vetted,
         pr.state = "merged" => q.state = "merged",
         l # "set", l \in Holding => gate[p] \in Gates,
         l \in Closing => job[p].verb = "closepr",
         l \in Crossing \union Loading => job[p].verb \in Admitting,
         l \notin {"merge", "arm", "issue", "evidence"},
         l = "shut" => <<Login[p], job[p].to>> \in c,
         l \in Converging /\ job[p].verb \in Admitting => q.state = "merged"
  PROVE  Inductive'
  <1>1. Onward /\ pr' = q /\ records' = c /\ vetted' = vetted
    BY DEF Write, Inductive, TypeOK, Onward, facts
  <1>2. Go(p, l, gate[p]) /\ gate[p] \in Gates \union {None}
    BY DEF Write, Inductive, TypeOK
  <1> QED BY <1>1, <1>2, CommandStep

(* A write to the issue only. *)
LEMMA IssueStep ==
  ASSUME Inductive, NEW p \in Operators, NEW l \in Labels, NEW i \in Issues,
         WriteIssue(p, i, l), pc[p] \in Working,
         l \notin {"set", "merge", "arm", "issue", "evidence", "shut"},
         l \in Holding => gate[p] \in Gates,
         l \in Closing => job[p].verb = "closepr",
         l \in Crossing \union Loading => job[p].verb \in Admitting,
         l \in Converging /\ job[p].verb \in Admitting => pr.state = "merged"
  PROVE  Inductive'
  <1>1. pr \in Pulls /\ records \in SUBSET (Logins \X Outcomes)
    BY DEF Inductive, TypeOK
  <1>2. Write(p, i, pr, records, l)
    BY DEF WriteIssue
  <1>3. pr.armed # None => pr.state = "open" /\ pr.armed \in vetted
    BY DEF Inductive, TypeOK
  <1>4. pr.state = "merged" => pr.head \in vetted
    BY DEF Inductive
  <1> QED BY <1>1, <1>2, <1>3, <1>4, WriteStep

LEMMA SetTypes ==
  ASSUME NEW i \in Issues
  PROVE  /\ \A w \in Workflows : SetWorkflow(i, w) \in Issues
         /\ \A s \in {"open", "closed"}, r \in {"reopened", "completed", "not_planned"} :
              SetState(i, s, r) \in Issues
         /\ MayClose(i) \subseteq Issues
  BY DEF Issues, SetWorkflow, SetState, MayClose

LEMMA MergedType ==
  ASSUME pr \in Pulls
  PROVE  Merged \in Pulls /\ Merged.state = "merged" /\ Merged.armed = None /\ Merged.head = pr.head
  BY DEF Pulls, Merged

LEMMA JobTypes ==
  ASSUME NEW j \in Jobs
  PROVE  /\ j.verb \in Verbs /\ j.to \in Workflows
         /\ j.verb = "closepr" => j.to \in Outcomes
  BY JobAssumption

LEMMA MoveTypes ==
  ASSUME NEW p, NEW j \in Jobs, job[p] = j
  PROVE  /\ Move(p).state \in {"open", "closed"}
         /\ Move(p).reason \in {"reopened", "completed", "not_planned"}
  BY DEF Move

-----------------------------------------------------------------------------
(* Each action.                                                            *)

LEMMA InitInductive == Init => Inductive
  <1> SUFFICES ASSUME Init PROVE Inductive
    OBVIOUS
  <1>1. issue \in Issues /\ pr \in Pulls /\ pr.armed = None /\ pr.state = "open"
    BY HeadAssumption DEF Init, Issues, Pulls, Workflows, Nonterminal, Coherent
  <1>2. TypeOK
    BY <1>1, SupplyAssumption DEF Init, TypeOK, Labels, Phases
  <1> QED BY <1>1, <1>2 DEF Init, Inductive, Errand, Earned

(* What the invariant says of a command that is under way. *)
LEMMA UnderWay ==
  ASSUME Inductive, NEW p \in Operators, pc[p] \notin Ended
  PROVE  /\ job[p] \in Jobs /\ Errand(p) /\ Earned(p)
         /\ pc[p] \in Holding => gate[p] \in Gates
         /\ issue \in Issues /\ pr \in Pulls
         /\ gate[p] \in Gates \union {None}
  BY DEF Inductive, TypeOK, Errand

LEMMA BeginStep ==
  ASSUME Inductive, NEW p \in Operators, NEW j \in Jobs, Begin(p, j), left' \in [Kinds -> Nat]
  PROVE  Inductive'
  <1>0. /\ pc' \in [Operators -> Labels] /\ job' \in [Operators -> Jobs \union {None}]
        /\ phase' \in [Operators -> {"structural", "ready", "again", "merge"}]
        /\ gate' = gate /\ alone' \subseteq Operators
    BY DEF Inductive, TypeOK, Begin, Labels
  <1>1. j.verb \in Verbs
    BY JobTypes
  <1>2. /\ job'[p] = j /\ pc'[p] \in {"fetch", "set", "pull"}
        /\ pc'[p] = "set" => j.verb = "set"
        /\ pc'[p] = "fetch" => j.verb \in {"close", "reopen"}
        /\ pc'[p] = "pull" => j.verb \in {"closepr"} \union Admitting
        /\ pc'[p] = "pull" /\ j.verb = "closepr" => phase'[p] = "structural"
        /\ pc'[p] = "pull" /\ j.verb \in Admitting => phase'[p] # "structural"
    <2>1. /\ pc'[p] = CASE j.verb \in {"close", "reopen"} -> "fetch"
                         [] j.verb = "set" -> "set" [] OTHER -> "pull"
          /\ phase'[p] = CASE j.verb \in {"ready", "land"} -> "ready"
                            [] j.verb \in {"merge", "auto"} -> "merge" [] OTHER -> "structural"
      BY DEF Begin, Inductive, TypeOK
    <2> QED BY <2>1, <1>1 DEF Begin, Inductive, TypeOK, Verbs
  <1>3. \A q \in Operators \ {p} :
          pc'[q] = pc[q] /\ job'[q] = job[q] /\ phase'[q] = phase[q]
    BY DEF Begin, Inductive, TypeOK
  <1>4. UNCHANGED <<github, facts, vetted>>
    BY DEF Begin
  <1>5. \A q \in Operators : pc'[q] \in Holding => gate'[q] \in Gates
    BY <1>0, <1>2, <1>3 DEF Inductive, TypeOK
  <1>6. TypeOK'
    BY <1>0, <1>4, <1>5 DEF Inductive, TypeOK, github, facts, Labels
  <1>7. Errand(p)' /\ Earned(p)'
    BY <1>2 DEF Errand, Earned
  <1>8. \A q \in Operators \ {p} : Errand(q)' /\ Earned(q)'
    BY <1>0, <1>3, <1>4 DEF Inductive, Errand, Earned, github
  <1> QED BY <1>4, <1>6, <1>7, <1>8 DEF Inductive, github

LEMMA SpendType ==
  ASSUME Inductive, NEW kind \in Kinds, Spend(kind)
  PROVE  left' \in [Kinds -> Nat]
  BY DEF Inductive, TypeOK, Spend

LEMMA ReadPullStep ==
  ASSUME Inductive, NEW p \in Operators, ReadPull(p) PROVE Inductive'
  <1> DEFINE g == [pr |-> pr, issue |-> None, clean |-> {}, green |-> {}]
  <1>1. Onward
    BY ReadOnward DEF ReadPull, Read, Inductive, TypeOK
  <1>2. g \in Gates
    BY DEF Inductive, TypeOK, Gates
  <1>3. Go(p, "issue", g) /\ pc[p] = "pull" /\ UNCHANGED github
    BY DEF ReadPull, Read
  <1> HIDE DEF g
  <1> QED BY <1>1, <1>2, <1>3, LoadStep

LEMMA ReadIssueStep ==
  ASSUME Inductive, NEW p \in Operators, ReadIssue(p) PROVE Inductive'
  <1> DEFINE g == [gate[p] EXCEPT !.issue = issue, !.clean = clean]
             l == IF phase[p] = "merge" THEN "evidence" ELSE Admit(job[p], phase[p], g)
  <1>1. Onward
    BY ReadOnward DEF ReadIssue, Read, Inductive, TypeOK
  <1>2. pc[p] = "issue" /\ Go(p, l, g) /\ UNCHANGED github
    BY DEF ReadIssue, Read
  <1>3. g \in Gates
    BY <1>2, UnderWay DEF Inductive, TypeOK, Gates
  <1>4. phase[p] \in {"structural", "ready", "again", "merge"} /\ Errand(p)
    BY DEF Inductive, TypeOK
  <1>5. CASE phase[p] = "merge"
    <2>1. l = "evidence"
      BY <1>5
    <2> HIDE DEF l, g
    <2> QED BY <1>1, <1>2, <1>3, <1>5, <2>1, LoadStep
  <1>6. CASE phase[p] = "structural"
    <2>1. l \in {"list", "refused"}
      BY <1>6, AdmitLabel
    <2>2. job[p].verb = "closepr"
      BY <1>2, <1>4, <1>6 DEF Errand
    <2>3. l \in Labels /\ pc[p] \notin Ended
      BY <1>2, <2>1 DEF Labels
    <2> HIDE DEF l, g
    <2> QED BY <1>1, <1>2, <1>3, <2>1, <2>2, <2>3, CommandStep
  <1>7. CASE phase[p] \in {"ready", "again"}
    <2>1. l \in (Crossing \union {"pull", "ok", "refused"}) \ {"arm", "merge"}
      BY <1>7, AdmitLabel
    <2>2. job[p].verb \in Admitting
      BY <1>2, <1>4, <1>7 DEF Errand
    <2>3. l \in Labels /\ l # "set" /\ l \notin Converging /\ l # "shut" /\ l \notin Closing
      BY <2>1 DEF Labels
    <2> HIDE DEF l, g
    <2> QED BY <1>1, <1>2, <1>3, <2>1, <2>2, <2>3, CommandStep
  <1> QED BY <1>4, <1>5, <1>6, <1>7

LEMMA ReadEvidenceStep ==
  ASSUME Inductive, NEW p \in Operators, ReadEvidence(p) PROVE Inductive'
  <1> DEFINE g == [gate[p] EXCEPT !.green = green \intersect {gate[p].pr.head}]
             l == Admit(job[p], "merge", g)
  <1>1. pc[p] = "evidence" /\ Go(p, l, g) /\ UNCHANGED <<github, facts, alone, left>>
    BY DEF ReadEvidence, Read
  <1>2. g \in Gates /\ g.pr \in Pulls /\ g.pr.head \in Heads
    <2>1. gate[p] \in Gates
      BY <1>1, UnderWay
    <2>2. gate[p].pr \in Pulls /\ gate[p].pr.head \in Heads
      BY <2>1 DEF Gates, Pulls
    <2>3. g \in Gates /\ g.pr = gate[p].pr
      BY <2>1 DEF Gates, Inductive, TypeOK
    <2> QED BY <2>2, <2>3
  <1>3. vetted' = IF Findings("merge", g) = {} THEN vetted \union {g.pr.head} ELSE vetted
    BY DEF ReadEvidence
  <1>4. vetted \subseteq vetted' /\ vetted' \subseteq Heads
    BY <1>2, <1>3 DEF Inductive, TypeOK
  <1>5. Onward
    BY <1>1, <1>4, ReadOnward
  <1>6. l \in {"terminal", "arm", "merge", "refused"}
    BY AdmitLabel
  <1>7. l \in {"arm", "merge"} => g.pr.head \in vetted'
    BY <1>3, AdmitLabel
  <1>8. CASE l = "refused"
    BY <1>1, <1>2, <1>5, <1>8, CommandStep DEF Labels
  <1>9. CASE l # "refused"
    <2>1. job[p].verb \in Admitting
      BY <1>1, UnderWay DEF Errand
    <2> HIDE DEF l, g
    <2> QED BY <1>1, <1>2, <1>5, <1>6, <1>7, <1>9, <2>1, CommandStep DEF Labels
  <1> QED BY <1>8, <1>9

LEMMA AdvanceStep ==
  ASSUME Inductive, NEW p \in Operators, Advance(p) PROVE Inductive'
  <1>1. SetWorkflow(issue, "In progress") \in Issues
    BY UnderWay, SetTypes DEF Advance, Workflows, Nonterminal, Coherent
  <1>2. job[p].verb \in Admitting
    BY UnderWay DEF Advance, Errand
  <1> QED BY <1>1, <1>2, IssueStep DEF Advance, Labels

LEMMA ObserveStep ==
  ASSUME Inductive, NEW p \in Operators, Observe(p) PROVE Inductive'
  <1>1. job[p].verb \in Admitting /\ gate[p] \in Gates
    BY UnderWay DEF Observe, Errand
  <1>2. PICK l \in {"sync", "mark", "pull", "ok", "refused"} : Look(p, l)
    BY ReadyLabel DEF Observe
  <1> QED BY <1>1, <1>2, LookStep DEF Observe, Labels

LEMMA SyncStep ==
  ASSUME Inductive, NEW p \in Operators, Sync(p) PROVE Inductive'
  <1>1. job[p].verb \in Admitting /\ gate[p] \in Gates
    BY UnderWay DEF Sync, Errand
  <1>2. SetWorkflow(issue, "In review") \in Issues
    BY UnderWay, SetTypes DEF Sync, Workflows, Nonterminal, Coherent
  <1>3. PICK l \in {"mark", "pull", "ok"} : WriteIssue(p, SetWorkflow(issue, "In review"), l)
    BY ReadyLabel DEF Sync
  <1> QED BY <1>1, <1>2, <1>3, IssueStep DEF Sync, Labels

LEMMA MarkReadyStep ==
  ASSUME Inductive, NEW p \in Operators, MarkReady(p) PROVE Inductive'
  <1> DEFINE q == [pr EXCEPT !.draft = FALSE]
  <1>1. job[p].verb \in Admitting /\ gate[p] \in Gates /\ issue \in Issues /\ pr \in Pulls
    BY UnderWay DEF MarkReady, Errand
  <1>2. CASE pr.state = "open"
    <2>1. Write(p, issue, q, records, "confirm") /\ pc[p] = "mark"
      BY <1>2 DEF MarkReady, WritePull
    <2>2. q \in Pulls /\ q.state = "open" /\ q.armed = pr.armed /\ q.head = pr.head
      BY <1>1, <1>2 DEF Pulls
    <2>3. records \in SUBSET (Logins \X Outcomes) /\ (q.armed # None => q.armed \in vetted)
      BY <2>2 DEF Inductive, TypeOK
    <2> HIDE DEF q
    <2> QED BY <1>1, <1>2, <2>1, <2>2, <2>3, WriteStep DEF Labels
  <1>3. CASE pr.state # "open"
    BY <1>3, LookStep DEF MarkReady, Labels
  <1> QED BY <1>2, <1>3

LEMMA ConfirmStep ==
  ASSUME Inductive, NEW p \in Operators, Confirm(p) PROVE Inductive'
  <1>1. job[p].verb \in Admitting /\ gate[p] \in Gates
    BY UnderWay DEF Confirm, Errand
  <1>2. PICK l \in {"pull", "ok", "refused"} : Look(p, l)
    BY DEF Confirm, Crossed
  <1> QED BY <1>1, <1>2, LookStep DEF Confirm, Labels

LEMMA ArmStep ==
  ASSUME Inductive, NEW p \in Operators, Arm(p) PROVE Inductive'
  <1> DEFINE q == [pr EXCEPT !.armed = gate[p].pr.head]
  <1>1. /\ job[p].verb \in Admitting /\ gate[p] \in Gates /\ issue \in Issues /\ pr \in Pulls
        /\ gate[p].pr.head \in vetted
    BY UnderWay DEF Arm, Errand, Earned
  <1>2. CASE Mergeable(gate[p].pr.head)
    <2>1. Write(p, issue, q, records, "terminal") /\ pc[p] = "arm"
      BY <1>2 DEF Arm, WritePull
    <2>2. q \in Pulls /\ q.state = "open" /\ q.armed \in vetted
      BY <1>1, <1>2 DEF Pulls, Mergeable, Inductive, TypeOK
    <2>3. records \in SUBSET (Logins \X Outcomes) /\ pr.state = "open"
      BY <1>2 DEF Inductive, TypeOK, Mergeable
    <2> HIDE DEF q
    <2> QED BY <1>1, <2>1, <2>2, <2>3, WriteStep DEF Labels
  <1>3. CASE ~Mergeable(gate[p].pr.head)
    BY <1>3, LookStep DEF Arm, Labels
  <1> QED BY <1>2, <1>3

LEMMA MergeStep ==
  ASSUME Inductive, NEW p \in Operators, Merge(p) PROVE Inductive'
  <1>1. /\ job[p].verb \in Admitting /\ gate[p] \in Gates /\ issue \in Issues /\ pr \in Pulls
        /\ gate[p].pr.head \in vetted
    BY UnderWay DEF Merge, Errand, Earned
  <1>2. CASE Mergeable(gate[p].pr.head)
    <2>1. PICK i \in MayClose(issue) : Write(p, i, Merged, records, "terminal") /\ pc[p] = "merge"
      BY <1>2 DEF Merge
    <2>2. i \in Issues
      BY <1>1, SetTypes
    <2>3. Merged \in Pulls /\ Merged.state = "merged" /\ Merged.armed = None /\ Merged.head \in vetted
      BY <1>1, <1>2, MergedType DEF Mergeable
    <2>4. records \in SUBSET (Logins \X Outcomes)
      BY DEF Inductive, TypeOK
    <2> QED BY <1>1, <2>1, <2>2, <2>3, <2>4, WriteStep DEF Labels
  <1>3. CASE ~Mergeable(gate[p].pr.head)
    BY <1>3, LookStep DEF Merge, Labels
  <1> QED BY <1>2, <1>3

LEMMA ObserveTerminalStep ==
  ASSUME Inductive, NEW p \in Operators, ObserveTerminal(p) PROVE Inductive'
  <1>1. job[p].verb \in Admitting
    BY UnderWay DEF ObserveTerminal, Errand
  <1>2. PICK l \in {"refused", "fetch", "ok"} :
          Look(p, l) /\ (l = "fetch" => pr.state = "merged")
    BY DEF ObserveTerminal
  <1> QED BY <1>1, <1>2, LookStep DEF ObserveTerminal, Labels

LEMMA FetchStep ==
  ASSUME Inductive, NEW p \in Operators, Fetch(p) PROVE Inductive'
  <1>1. job[p].verb \in Admitting => pr.state = "merged"
    BY UnderWay DEF Fetch, Earned
  <1>2. PICK l \in {"ok", "reopen", "native"} : Look(p, l)
    BY DEF Fetch
  <1> QED BY <1>1, <1>2, LookStep DEF Fetch, Labels

LEMMA ReopenStep ==
  ASSUME Inductive, NEW p \in Operators, Reopen(p) PROVE Inductive'
  <1>1. job[p].verb \in Admitting => pr.state = "merged"
    BY UnderWay DEF Reopen, Earned
  <1>2. SetState(issue, "open", "reopened") \in Issues
    BY UnderWay, SetTypes DEF Reopen
  <1> QED BY <1>1, <1>2, IssueStep DEF Reopen, Labels

LEMMA NativeStateStep ==
  ASSUME Inductive, NEW p \in Operators, NativeState(p) PROVE Inductive'
  <1>1. job[p].verb \in Admitting => pr.state = "merged"
    BY UnderWay DEF NativeState, Earned
  <1>2. SetState(issue, Move(p).state, Move(p).reason) \in Issues
    <2>1. job[p] \in Jobs /\ issue \in Issues
      BY UnderWay DEF NativeState
    <2> QED BY <2>1, SetTypes, MoveTypes
  <1>3. PICK l \in {"field", "failed"} :
          WriteIssue(p, SetState(issue, Move(p).state, Move(p).reason), l)
    BY DEF NativeState
  <1> QED BY <1>1, <1>2, <1>3, IssueStep DEF NativeState, Labels

(* The three writes of the field that end a command. *)
LEMMA FieldSteps ==
  ASSUME Inductive, NEW p \in Operators, WorkflowField(p) \/ Settle(p) \/ SetField(p)
  PROVE  Inductive'
  <1>1. pc[p] \in {"field", "settle", "set"} /\ WriteIssue(p, SetWorkflow(issue, job[p].to), "ok")
    BY DEF WorkflowField, Settle, SetField
  <1>2. SetWorkflow(issue, job[p].to) \in Issues
    BY <1>1, UnderWay, SetTypes, JobTypes
  <1> QED BY <1>1, <1>2, IssueStep DEF Labels

LEMMA ListRecordsStep ==
  ASSUME Inductive, NEW p \in Operators, ListRecords(p) PROVE Inductive'
  <1>1. job[p].verb = "closepr" /\ gate[p] \in Gates
    BY UnderWay DEF ListRecords, Errand
  <1>2. AfterList(p) \in {"record", "refused", "fetch", "ok", "settle", "shut"}
    BY ListLabel, CloseLabel
  <1>3. AfterList(p) = "shut" => <<Login[p], job[p].to>> \in records
    BY ListLabel
  <1>4. Look(p, AfterList(p)) /\ pc[p] = "list"
    BY DEF ListRecords
  <1> QED BY <1>1, <1>2, <1>3, <1>4, LookStep DEF Labels

LEMMA RecordStep ==
  ASSUME Inductive, NEW p \in Operators, Record(p) PROVE Inductive'
  <1> DEFINE c == records \union {<<Login[p], job[p].to>>}
  <1>1. job[p].verb = "closepr" /\ gate[p] \in Gates /\ job[p] \in Jobs /\ issue \in Issues /\ pr \in Pulls
    BY UnderWay DEF Record, Errand
  <1>2. PICK l \in {"fetch", "ok", "settle", "shut"} : Write(p, issue, pr, c, l) /\ pc[p] = "record"
    BY CloseLabel DEF Record
  <1>3. c \in SUBSET (Logins \X Outcomes) /\ records \subseteq c /\ <<Login[p], job[p].to>> \in c
    BY <1>1, JobTypes DEF Inductive, TypeOK, Logins
  <1>4. /\ pr.armed # None => pr.state = "open" /\ pr.armed \in vetted
        /\ pr.state = "merged" => pr.head \in vetted
    BY DEF Inductive, TypeOK
  <1> HIDE DEF c
  <1> QED BY <1>1, <1>2, <1>3, <1>4, WriteStep DEF Labels

LEMMA ShutStep ==
  ASSUME Inductive, NEW p \in Operators, Shut(p) PROVE Inductive'
  <1> DEFINE q == IF pr.state = "open" THEN [pr EXCEPT !.state = "closed", !.armed = None] ELSE pr
  <1>1. job[p].verb = "closepr" /\ gate[p] \in Gates /\ issue \in Issues /\ pr \in Pulls
    BY UnderWay DEF Shut, Errand
  <1>2. PICK l \in {"fetch", "ok", "settle"} : Write(p, issue, q, records, l) /\ pc[p] = "shut"
    BY CloseLabel DEF Shut, WritePull
  <1>3. q \in Pulls /\ (q.armed # None => q = pr) /\ (q.state = "merged" => q = pr)
        /\ (pr.state = "merged" => q = pr)
    BY <1>1 DEF Pulls
  <1>4. /\ pr.armed # None => pr.state = "open" /\ pr.armed \in vetted
        /\ pr.state = "merged" => pr.head \in vetted
        /\ records \in SUBSET (Logins \X Outcomes)
    BY DEF Inductive, TypeOK
  <1> HIDE DEF q
  <1> QED BY <1>1, <1>2, <1>3, <1>4, WriteStep DEF Labels

LEMMA StopStep ==
  ASSUME Inductive, NEW p \in Operators, Stop(p) PROVE Inductive'
  <1>1. left' \in [Kinds -> Nat]
    BY SpendType DEF Stop, Kinds
  <1>2. Onward
    BY <1>1 DEF Stop, Inductive, TypeOK, Onward, github, facts
  <1> QED BY <1>2, CommandStep DEF Stop, Labels

LEMMA PushStep ==
  ASSUME Inductive, Push PROVE Inductive'
  <1>1. left' \in [Kinds -> Nat]
    BY SpendType DEF Push, Kinds
  <1>2. PICK h \in Heads : pr' = [pr EXCEPT !.head = h]
    BY DEF Push
  <1>3. pr' \in Pulls /\ pr'.state = "open" /\ pr'.armed = pr.armed
    BY <1>2 DEF Push, Inductive, TypeOK, Pulls
  <1>4. Onward
    BY <1>1, <1>3 DEF Push, Inductive, TypeOK, Onward, facts
  <1> QED BY <1>4, OthersStep DEF Push

LEMMA EvidenceStep ==
  ASSUME Inductive, Evidence PROVE Inductive'
  <1>1. left' \in [Kinds -> Nat]
    BY SpendType DEF Evidence, Kinds
  <1>2. green' \subseteq Heads /\ clean' \subseteq Phases
    BY DEF Evidence, Inductive, TypeOK
  <1>3. Onward
    BY <1>1, <1>2 DEF Evidence, Inductive, TypeOK, Onward, github
  <1> QED BY <1>3, OthersStep DEF Evidence

LEMMA AutoMergeStep ==
  ASSUME Inductive, AutoMerge PROVE Inductive'
  <1>1. issue \in Issues /\ pr \in Pulls /\ pr.head \in vetted
    BY DEF AutoMerge, Inductive, TypeOK, Mergeable
  <1>2. /\ pr' \in Pulls /\ pr'.state = "merged" /\ pr'.armed = None /\ pr'.head = pr.head
        /\ issue' \in Issues
    BY <1>1, MergedType, SetTypes DEF AutoMerge
  <1>3. Onward
    BY <1>1, <1>2 DEF AutoMerge, Inductive, TypeOK, Onward, facts
  <1> QED BY <1>3, OthersStep DEF AutoMerge

LEMMA ByHandStep ==
  ASSUME Inductive, ByHand PROVE Inductive'
  <1>1. left' \in [Kinds -> Nat]
    BY SpendType DEF ByHand, Kinds
  <1>2. issue \in Issues /\ pr \in Pulls /\ pr.head \in Heads
    BY DEF Inductive, TypeOK, Pulls
  <1>3. issue' \in Issues
    BY <1>2, SetTypes DEF ByHand
  <1>4. CASE pr' \in {pr, [pr EXCEPT !.draft = ~@], [pr EXCEPT !.armed = None],
                      [pr EXCEPT !.state = "closed", !.armed = None]}
             /\ vetted' = vetted /\ (pr' = pr \/ pr.state = "open")
    <2>1. pr' \in Pulls /\ pr'.armed \in {None, pr.armed} /\ pr'.head = pr.head
          /\ (pr'.armed # None => pr'.state = pr.state)
          /\ (pr'.state = "merged" => pr.state = "merged")
          /\ (pr.state = "merged" => pr' = pr)
      BY <1>2, <1>4 DEF Pulls
    <2>2. Onward
      BY <1>1, <1>3, <1>4, <2>1 DEF ByHand, Inductive, TypeOK, Onward, facts
    <2> QED BY <2>2, OthersStep DEF ByHand
  <1>5. CASE pr' = Merged /\ vetted' = vetted \union {pr.head}
    <2>1. pr' \in Pulls /\ pr'.state = "merged" /\ pr'.armed = None /\ pr'.head = pr.head
      BY <1>2, <1>5, MergedType
    <2>2. Onward
      BY <1>1, <1>2, <1>3, <1>5, <2>1 DEF ByHand, Inductive, TypeOK, Onward, facts
    <2> QED BY <2>2, OthersStep DEF ByHand
  <1> QED BY <1>4, <1>5 DEF ByHand

LEMMA StartStep ==
  ASSUME Inductive, NEW p \in Operators, Start(p) PROVE Inductive'
  <1>1. left' \in [Kinds -> Nat]
    BY SpendType DEF Start, Kinds
  <1> QED BY <1>1, BeginStep DEF Start

LEMMA ProceedStep ==
  ASSUME Inductive, NEW p \in Operators, Proceed(p) PROVE Inductive'
  <1>1. CASE ReadPull(p) \/ ReadIssue(p) \/ ReadEvidence(p)
    BY <1>1, ReadPullStep, ReadIssueStep, ReadEvidenceStep
  <1>2. CASE Advance(p) \/ Observe(p) \/ Sync(p) \/ MarkReady(p) \/ Confirm(p)
    BY <1>2, AdvanceStep, ObserveStep, SyncStep, MarkReadyStep, ConfirmStep
  <1>3. CASE Arm(p) \/ Merge(p) \/ ObserveTerminal(p)
    BY <1>3, ArmStep, MergeStep, ObserveTerminalStep
  <1>4. CASE Fetch(p) \/ Reopen(p) \/ NativeState(p) \/ WorkflowField(p)
    BY <1>4, FetchStep, ReopenStep, NativeStateStep, FieldSteps
  <1>5. CASE ListRecords(p) \/ Record(p) \/ Shut(p) \/ Settle(p) \/ SetField(p)
    BY <1>5, ListRecordsStep, RecordStep, ShutStep, FieldSteps
  <1> QED BY <1>1, <1>2, <1>3, <1>4, <1>5 DEF Proceed

LEMMA InductiveStep == Inductive /\ [Next]_vars => Inductive'
  <1> SUFFICES ASSUME Inductive, [Next]_vars PROVE Inductive'
    OBVIOUS
  <1>1. CASE UNCHANGED vars
    BY <1>1 DEF vars, github, facts, local, Inductive, TypeOK, Errand, Earned
  <1>2. CASE \E p \in Operators : Start(p) \/ Proceed(p) \/ Stop(p)
    BY <1>2, StartStep, ProceedStep, StopStep
  <1>3. CASE Push \/ Evidence \/ AutoMerge \/ ByHand
    BY <1>3, PushStep, EvidenceStep, AutoMergeStep, ByHandStep
  <1> QED BY <1>1, <1>2, <1>3 DEF Next

-----------------------------------------------------------------------------
(* The theorems. *)

(* The inductive invariant holds in every reachable state. *)
THEOREM InductiveHolds == Spec => []Inductive
  BY InitInductive, InductiveStep, PTL DEF Spec

(* Every variable keeps its type, and only an open pull request is armed.  *)
THEOREM TypeCorrect == Spec => []TypeOK
  <1>1. Inductive => TypeOK
    BY DEF Inductive
  <1> QED BY <1>1, InductiveHolds, PTL

(* Whatever operators, pushes and people do between the gate and the merge *)
(* request, or while auto-merge is armed, the head that was merged is one  *)
(* that a Merge gate found clear or a person merged.                       *)
THEOREM MergesAreVetted == Spec => []MergedWasVetted
  <1>1. Inductive => MergedWasVetted
    BY DEF Inductive, MergedWasVetted
  <1> QED BY <1>1, InductiveHolds, PTL

(* What a step that completes the issue tells of the command that took it. *)
LEMMA CompletingStep ==
  ASSUME Inductive, NEW p \in Operators, Proceed(p), job[p].verb \in Admitting,
         \/ issue'.workflow = "Done" /\ issue.workflow # "Done"
         \/ issue'.state = "closed" /\ issue.state = "open"
  PROVE  pr'.state = "merged"
  <1>1. issue \in Issues
    BY DEF Inductive, TypeOK
  <1>2. ~(ReadPull(p) \/ ReadIssue(p) \/ ReadEvidence(p) \/ Observe(p) \/ Confirm(p)
            \/ ObserveTerminal(p) \/ Fetch(p) \/ ListRecords(p))
    BY DEF ReadPull, ReadIssue, ReadEvidence, Observe, Confirm, ObserveTerminal, Fetch,
           ListRecords, Look, Read, github
  <1>3. ~(MarkReady(p) \/ Arm(p))
    BY DEF MarkReady, Arm, WritePull, Write, Look, Read, github
  <1>4. ~(Record(p) \/ Shut(p) \/ Settle(p) \/ SetField(p))
    BY UnderWay DEF Record, Shut, Settle, SetField, Errand
  <1>5. ~(Advance(p) \/ Sync(p))
    BY <1>1 DEF Advance, Sync, WriteIssue, Write, SetWorkflow, Issues
  <1>6. CASE Merge(p)
    <2>1. Mergeable(gate[p].pr.head) /\ pr' = Merged
      BY <1>6 DEF Merge, Write, Look, Read, github
    <2> QED BY <2>1, MergedType DEF Inductive, TypeOK
  <1>7. CASE Reopen(p) \/ NativeState(p) \/ WorkflowField(p)
    <2>1. pc[p] \in Converging /\ pr' = pr
      BY <1>7 DEF Reopen, NativeState, WorkflowField, WriteIssue, Write
    <2> QED BY <2>1, UnderWay DEF Earned
  <1> QED BY <1>2, <1>3, <1>4, <1>5, <1>6, <1>7 DEF Proceed

(* merge and land complete an issue only behind a merged pull request.     *)
THEOREM CompletionEarned == Spec => CompletionIsEarned
  <1> DEFINE A == \A p \in Operators :
        (job[p] # None /\ job[p].verb \in Admitting /\ Proceed(p)
           /\ \/ issue'.workflow = "Done" /\ issue.workflow # "Done"
              \/ issue'.state = "closed" /\ issue.state = "open")
        => pr'.state = "merged"
  <1>1. Inductive => A
    BY CompletingStep
  <1> QED BY <1>1, InductiveHolds, PTL DEF CompletionIsEarned

(* Only the closing step closes a pull request. *)
LEMMA ClosingStep ==
  ASSUME Inductive, NEW p \in Operators, Proceed(p), pr.state = "open", pr'.state = "closed"
  PROVE  Shut(p)
  <1>1. pr \in Pulls
    BY DEF Inductive, TypeOK
  <1>2. ~(ReadPull(p) \/ ReadIssue(p) \/ ReadEvidence(p) \/ Observe(p) \/ Confirm(p)
            \/ ObserveTerminal(p) \/ Fetch(p) \/ ListRecords(p))
    BY DEF ReadPull, ReadIssue, ReadEvidence, Observe, Confirm, ObserveTerminal, Fetch,
           ListRecords, Look, Read, github
  <1>3. ~(Advance(p) \/ Sync(p) \/ Reopen(p) \/ NativeState(p) \/ WorkflowField(p)
            \/ Record(p) \/ Settle(p) \/ SetField(p))
    BY DEF Advance, Sync, Reopen, NativeState, WorkflowField, Record, Settle, SetField,
           WriteIssue, Write
  <1>4. ~(MarkReady(p) \/ Arm(p))
    BY <1>1 DEF MarkReady, Arm, WritePull, Write, Look, Read, github, Pulls
  <1>5. ~Merge(p)
    BY <1>1, MergedType DEF Merge, Write, Look, Read, github
  <1> QED BY <1>2, <1>3, <1>4, <1>5 DEF Proceed

(* A pull request that `close --pr` closed carries the record, whichever   *)
(* command of the same account wrote it.                                   *)
THEOREM AbandonmentRecorded == Spec => AbandonedOnRecord
  <1> DEFINE A == \A p \in Operators :
        (Proceed(p) /\ pr.state = "open" /\ pr'.state = "closed")
        => <<Login[p], job[p].to>> \in records
  <1>1. Inductive => A
    <2> SUFFICES ASSUME Inductive, NEW p \in Operators, Proceed(p),
                        pr.state = "open", pr'.state = "closed"
                 PROVE  <<Login[p], job[p].to>> \in records
      OBVIOUS
    <2>1. pc[p] = "shut"
      BY ClosingStep DEF Shut
    <2> QED BY <2>1, UnderWay DEF Earned
  <1> QED BY <1>1, InductiveHolds, PTL DEF AbandonedOnRecord
=============================================================================
