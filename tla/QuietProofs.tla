---------------------------- MODULE QuietProofs ----------------------------
(***************************************************************************)
(* Proofs about Handover in a repository whose consumer changes nothing    *)
(* while the commands run, fail and die: what the central lock records,    *)
(* what the retirement of the legacy configuration leaves, and what an     *)
(* answer means.                                                           *)
(***************************************************************************)
EXTENDS SuccessionProofs

USE DEF Ended, Working, Leaving, Migrating, Planning, Scaffolding, Committing, Early, Binding

(* The targets that were absent at first: a migration that creates one     *)
(* moves it from the first set to the second. *)
Origin == Observed \union born

(* Steps of a migration that has captured the tree. *)
Drafted == Planning \ {"survey", "draft"}

(* What holds of a process beside the legacy configuration v. *)
Grows(p, v) ==
  /\ job[p] = "init" /\ pc[p] \in Scaffolding =>
       pc[p] \in {"make", "acquire", "scan"} /\ made[p] = None
  /\ job[p] = "migrate" /\ pc[p] \in Drafted =>
       /\ born = {} => plan[p].created = Origin
       /\ \A r \in Relics : plan[p].seen[r] = None => disk[r] = None
       /\ pc[p] = "lock" => \A t \in Targets : disk[t] = v
       /\ pc[p] \in {"weigh", "unlink"} => \A r \in Relics : disk[r] = None

(* The control plane that grows out of the legacy configuration v. *)
Rooted(v) ==
  /\ \A f \in Files : control[f] # None => control[f] = Text(f, v, Origin)
  /\ InOrder
  /\ control["lock"] # None => \A t \in Targets : disk[t] = v
Grown(v) ==
  /\ offered \subseteq {v, None}
  /\ None \in offered => authority = None
  /\ Rooted(v)
  /\ authority = None => control["lock"] # None /\ \A r \in Relics : disk[r] = None
  /\ born # {} => control["intent"] # None \/ control["lock"] # None
  /\ \A p \in Procs : Grows(p, v)

(* The one that grows out of nothing. *)
Neutrally ==
  /\ authority = None /\ control["intent"] = None
  /\ \A f \in Files : control[f] \in {None, Blank(f)}

(* A process that will answer ok, or has. *)
Content(p) == pc[p] \in {"settled", "ok"} \/ (pc[p] \in {"sweep", "rmdir"} /\ answer[p] = "ok")
Fulfilled(p) == Complete /\ authority = None /\ (job[p] = "init" => Central = Neutral)

Quiet ==
  /\ \A v \in offered \ {None} : Grown(v)
  /\ offered = {None} => Neutrally
  /\ \A p \in Procs : Content(p) => Fulfilled(p)

Kept == Standing /\ (~edited => Quiet)

-----------------------------------------------------------------------------
(* The tree under one step: what was absent at first stays known, relics   *)
(* only go, targets become what the legacy configuration said.             *)
LEMMA TreeStep ==
  ASSUME Standing, NEW p \in Procs, Step(p)
  PROVE  /\ Origin' = Origin /\ born \subseteq born'
         /\ \A r \in Relics : disk[r] = None => disk'[r] = None
         /\ \A t \in Targets : disk'[t] # disk[t] => disk'[t] \in offered \ {None}
         /\ born' # born => /\ control' = control
                            /\ control["intent"] # None \/ control["lock"] # None
  <1>1. TypeOK /\ Relies(p, pc[p], plan[p]) BY DEF Standing, Inductive
  <1>2. CASE UNCHANGED <<disk, born>> BY <1>2 DEF Origin, Observed
  <1>3. CASE /\ pc[p] = "targets" /\ control' = control
             /\ \E t \in todo[p] :
                  /\ disk' = [disk EXCEPT ![t] = plan[p].of]
                  /\ born' = IF disk[t] = None THEN born \union {t} ELSE born
    <2>1. PICK t \in todo[p] :
            /\ disk' = [disk EXCEPT ![t] = plan[p].of]
            /\ born' = IF disk[t] = None THEN born \union {t} ELSE born
      BY <1>3
    <2>2. t \in Targets /\ t \notin Relics BY <1>1, DistinctAssumption DEF TypeOK
    <2>3. plan[p].of \in offered \ {None}
      BY <1>1, <1>3, DistinctAssumption DEF Relies, Plans
    <2>4. control["intent"] # None \/ control["lock"] # None
      BY <1>1, <1>3 DEF Relies
    <2>5. \A x \in Paths : disk'[x] = IF x = t THEN plan[p].of ELSE disk[x]
      BY <1>1, <2>1 DEF TypeOK
    <2>6. Observed' = Observed \ {t} BY <2>2, <2>3, <2>5 DEF Observed, Paths
    <2>7. Origin' = Origin BY <2>1, <2>2, <2>6 DEF Origin, Observed
    <2> QED BY <1>3, <2>1, <2>2, <2>3, <2>4, <2>5, <2>7 DEF Paths
  <1>4. CASE /\ pc[p] = "relics" /\ control' = control /\ born' = born
             /\ \E r \in Relics : disk' = [disk EXCEPT ![r] = None]
    <2>1. PICK r \in Relics : disk' = [disk EXCEPT ![r] = None] BY <1>4
    <2>2. \A x \in Paths : disk'[x] = IF x = r THEN None ELSE disk[x]
      BY <1>1, <2>1 DEF TypeOK
    <2>3. \A t \in Targets : disk'[t] = disk[t] BY <2>2, DistinctAssumption DEF Paths
    <2>4. Origin' = Origin BY <1>4, <2>3 DEF Origin, Observed
    <2> QED BY <1>4, <2>2, <2>3, <2>4 DEF Paths
  <1> QED BY <1>2, <1>3, <1>4, DiskStep

-----------------------------------------------------------------------------
(* Beside a legacy configuration.                                          *)

LEMMA PlanOfVersion ==
  ASSUME Standing, NEW v \in offered \ {None}, offered \subseteq {v, None}, NEW p \in Procs,
         job[p] = "migrate", pc[p] \in Planning
  PROVE  plan[p] \in Plans /\ plan[p].of = v /\ v \in Versions
  BY DistinctAssumption DEF Standing, Inductive, Relies, Plans

LEMMA RootedStep ==
  ASSUME Standing, NEW v \in offered \ {None}, Grown(v), NEW p \in Procs, Step(p)
  PROVE  Rooted(v)'
  <1>1. /\ TypeOK /\ Relies(p, pc[p], plan[p]) /\ Grows(p, v) /\ Rooted(v)
        /\ offered \subseteq {v, None} /\ v \in Versions
        /\ born # {} => control["intent"] # None \/ control["lock"] # None
    BY DEF Standing, Inductive, TypeOK, Grown
  <1>2. Origin' = Origin BY TreeStep
  <1>3. (\A t \in Targets : disk[t] = v) => \A t \in Targets : disk'[t] = v
    BY <1>1, TreeStep
  <1>4. CASE control' = control BY <1>1, <1>2, <1>3, <1>4 DEF Rooted, InOrder
  <1>5. ~Scaffolded(p) BY <1>1 DEF Grows, Scaffolded
  <1>6. CASE Proposed(p)
    <2>1. pc[p] \in {"intent", "config", "catalog"} /\ plan[p].of = v /\ plan[p] \in Plans
      BY <1>1, <1>6, PlanOfVersion DEF Proposed
    <2>2. Mine(p, pc[p]) = Text(pc[p], v, Origin)
      <3>1. CASE pc[p] = "intent"
        <4>1. control["lock"] = None /\ control["intent"] = None BY <1>6, <3>1 DEF Proposed
        <4>2. plan[p].created = Origin
          BY <1>1, <1>6, <3>1, <4>1 DEF Grows, Drafted, Proposed
        <4> QED BY <2>1, <4>2 DEF Mine
      <3>2. CASE pc[p] \in {"config", "catalog"} BY <2>1, <3>2 DEF Mine, Text
      <3> QED BY <2>1, <3>1, <3>2
    <2>3. Text(pc[p], v, Origin) # None
      BY <2>1, <2>2, TextIsText DEF Mine, Plans
    <2>4. /\ control'[pc[p]] = Text(pc[p], v, Origin)
          /\ \A f \in Files : f # pc[p] => control'[f] = control[f]
      BY <1>1, <1>6, <2>1, <2>2 DEF Proposed, TypeOK, Files
    <2>5. \A f \in Files : control'[f] # None => control'[f] = Text(f, v, Origin)'
      BY <1>1, <1>2, <2>4 DEF Rooted, Text
    <2>6. control'["lock"] = control["lock"] BY <2>1, <2>4 DEF Files
    <2>7. InOrder'
      BY <1>1, <1>6, <2>1, <2>3, <2>4 DEF Rooted, InOrder, Relies, Proposed, Files
    <2> QED BY <1>1, <1>3, <2>5, <2>6, <2>7 DEF Rooted
  <1>7. CASE Enthroned(p)
    <2>1. /\ control'["lock"] = control["intent"] /\ control'["intent"] = None
          /\ control'["config"] = control["config"] /\ control'["catalog"] = control["catalog"]
      BY <1>1, <1>7 DEF Enthroned, TypeOK, Files
    <2>2. Text("intent", v, Origin) = Text("lock", v, Origin) BY DEF Text
    <2>3. \A f \in Files : control'[f] # None => control'[f] = Text(f, v, Origin)'
      BY <1>1, <1>2, <2>1, <2>2 DEF Rooted, Text, Files
    <2>4. InOrder' BY <1>1, <1>7, <2>1 DEF Rooted, InOrder, Relies, Enthroned
    <2>5. \A t \in Targets : disk[t] = v
      BY <1>1, <1>7 DEF Grows, Drafted, Enthroned
    <2> QED BY <1>3, <2>3, <2>4, <2>5 DEF Rooted
  <1> QED BY <1>4, <1>5, <1>6, <1>7, ControlStep DEF Written, Standing

LEMMA OthersGrow ==
  ASSUME Standing, NEW v \in offered \ {None}, Grown(v), NEW p \in Procs, Step(p),
         NEW q \in Procs, q # p
  PROVE  Grows(q, v)'
  <1>1. TypeOK /\ Grows(q, v) /\ offered \subseteq {v, None}
    BY DEF Standing, Inductive, Grown
  <1>2. pc'[q] = pc[q] /\ job'[q] = job[q] /\ plan'[q] = plan[q] /\ made'[q] = made[q]
    BY <1>1, StepApart DEF Apart
  <1>3. Origin' = Origin /\ (born' = {} => born = {}) BY TreeStep
  <1>4. /\ \A r \in Relics : disk[r] = None => disk'[r] = None
        /\ \A t \in Targets : disk[t] = v => disk'[t] = v
    BY <1>1, TreeStep
  <1> QED BY <1>1, <1>2, <1>3, <1>4 DEF Grows


(* A plan that has not changed and whose process goes on. *)
LEMMA PlanKept ==
  ASSUME Standing, NEW v \in offered \ {None}, Grown(v), NEW p \in Procs, Step(p),
         job'[p] = job[p], job[p] = "migrate", pc[p] \in Drafted, plan'[p] = plan[p],
         pc'[p] = "lock" => \A t \in Targets : disk'[t] = v,
         pc'[p] \in {"weigh", "unlink"} => \A r \in Relics : disk'[r] = None
  PROVE  Grows(p, v)'
  <1>1. Origin' = Origin /\ (born' = {} => born = {}) BY TreeStep
  <1>2. \A r \in Relics : disk[r] = None => disk'[r] = None BY TreeStep
  <1> QED BY <1>1, <1>2 DEF Grown, Grows

LEMMA PlanningGrows ==
  ASSUME Standing, NEW v \in offered \ {None}, Grown(v), NEW p \in Procs,
         \/ Start(p) \/ Fail(p) \/ Crash(p)
         \/ Detect(p) \/ Survey(p) \/ Draft(p) \/ Recall(p) \/ Confirm(p) \/ Look(p)
         \/ Make(p) \/ Acquire(p) \/ Scan(p) \/ Check(p)
  PROVE  Grows(p, v)'
  <1>1. /\ TypeOK /\ Relies(p, pc[p], plan[p]) /\ Grows(p, v) /\ Rooted(v) /\ Stands(p)
        /\ authority = None => control["lock"] # None
        /\ None \in offered => authority = None
    BY DEF Standing, Inductive, Grown
  <1>2. Step(p) BY DEF Step, Proceed
  <1>3. Origin' = Origin BY <1>2, TreeStep
  <1> USE <1>1, <1>3 DEF TypeOK, Grows, Drafted, Goto, GotoIf, Forget, ReadsOnly, repo, history, At
  <1>4. CASE Start(p) BY <1>4 DEF Start, Begin
  <1>5. CASE Fail(p) \/ Crash(p) BY <1>5 DEF Fail, Crash
  <1>6. CASE Detect(p) \/ Survey(p) BY <1>6 DEF Detect, Survey, Relies
  <1>7. CASE Draft(p)
    <2>1. CASE ~Plannable(plan[p].of) BY <1>7, <2>1 DEF Draft
    <2>2. CASE Plannable(plan[p].of)
      <3>1. /\ plan'[p] = Planned(plan[p].kind, plan[p].of) /\ pc'[p] = "recall"
            /\ UNCHANGED <<disk, born, job>> /\ job[p] = "migrate"
        BY <1>7, <2>2 DEF Draft, Relies
      <3>2. plan'[p].seen = disk /\ plan'[p].created = Observed
        BY <3>1 DEF Planned
      <3> QED BY <3>1, <3>2 DEF Origin
    <2> QED BY <2>1, <2>2
  <1>8. CASE Recall(p)
    <2>1. CASE pc'[p] = "failed" BY <2>1
    <2>2. CASE pc'[p] # "failed"
      <3>1. /\ plan'[p] = Recalled(plan[p]) /\ pc'[p] = "current" /\ pc[p] = "recall"
            /\ UNCHANGED <<disk, born, job>> /\ job[p] = "migrate" /\ plan[p] \in Plans
        BY <1>8, <2>2 DEF Recall, Relies
      <3>2. \A f \in {"intent", "lock"} : control[f] # None => control[f].created = Origin
        BY DEF Rooted, Text, Files
      <3>3. plan'[p].created \in {plan[p].created, Origin} /\ plan'[p].seen = plan[p].seen
        BY <3>1, <3>2 DEF Recalled, Plans
      <3> QED BY <3>1, <3>3
    <2> QED BY <2>1, <2>2
  <1>9. CASE Confirm(p) BY <1>9 DEF Confirm, Relies
  <1>10. CASE Look(p) BY <1>10 DEF Look, Relies, Stands
  <1>11. CASE Make(p)
    <2>1. CASE job[p] = "init"
      <3>1. control["lock"] # None BY <1>11, <2>1 DEF Make, Relies
      <3>2. dir # None BY <3>1 DEF Standing, Housed, Present, Files
      <3> QED BY <1>11, <2>1, <3>2 DEF Make
    <2>2. CASE job[p] # "init" BY <1>11, <2>2 DEF Make
    <2> QED BY <2>1, <2>2
  <1>12. CASE Acquire(p) BY <1>12 DEF Acquire
  <1>13. CASE Scan(p) BY <1>13 DEF Scan, Relies
  <1>14. CASE Check(p) BY <1>14 DEF Check, Relies
  <1> QED BY <1>4, <1>5, <1>6, <1>7, <1>8, <1>9, <1>10, <1>11, <1>12, <1>13, <1>14

LEMMA CommittingGrows ==
  ASSUME Standing, NEW v \in offered \ {None}, Grown(v), NEW p \in Procs,
         \/ Stage(p) \/ Recheck(p) \/ Scaffold(p) \/ Intend(p) \/ PublishTarget(p)
         \/ PublishControl(p) \/ Verify(p) \/ Enthrone(p) \/ RemoveRelic(p) \/ Weigh(p)
         \/ Unlink(p) \/ Release(p) \/ Sweep(p) \/ Rmdir(p)
  PROVE  Grows(p, v)'
  <1>1. /\ TypeOK /\ Relies(p, pc[p], plan[p]) /\ Grows(p, v) /\ offered \subseteq {v, None}
    BY DEF Standing, Inductive, Grown
  <1>2. Step(p) BY DEF Step, Proceed
  <1> USE <1>1 DEF TypeOK, Goto, GotoIf, Done, ReadsOnly, repo, history, At
  <1>3. ~Scaffold(p) BY DEF Scaffold, Publish, Grows
  <1>4. CASE Stage(p)
    <2>1. /\ pc[p] = "stage" /\ job' = job /\ plan' = plan
          /\ pc'[p] \in {"config", "recheck", "release"}
      BY <1>4 DEF Stage
    <2> QED BY <1>2, <2>1, PlanKept DEF Drafted, Relies, Grows
  <1>5. CASE Recheck(p) \/ Intend(p)
    <2>1. /\ pc[p] \in {"recheck", "intent"} /\ job' = job /\ plan' = plan
          /\ pc'[p] \in {"intent", "targets", "release"} /\ job[p] = "migrate"
      BY <1>5 DEF Recheck, Intend, Publish, Skip, Then, Order, Relies
    <2> QED BY <1>2, <2>1, PlanKept DEF Drafted
  <1>6. CASE PublishTarget(p)
    <2>1. /\ pc[p] = "targets" /\ job' = job /\ plan' = plan
          /\ pc'[p] \in {"targets", "config", "release"} /\ job[p] = "migrate"
      BY <1>6 DEF PublishTarget, Then, Order, Relies
    <2> QED BY <1>2, <2>1, PlanKept DEF Drafted
  <1>7. CASE PublishControl(p)
    <2>1. /\ pc[p] \in {"config", "catalog"} /\ job' = job /\ plan' = plan
          /\ pc'[p] \in {"catalog", "verify", "release"} /\ job[p] = "migrate"
      BY <1>7 DEF PublishControl, Publish, Skip, Then, Order
    <2> QED BY <1>2, <2>1, PlanKept DEF Drafted
  <1>8. CASE Verify(p)
    <2>1. /\ pc[p] = "verify" /\ job' = job /\ plan' = plan /\ job[p] = "migrate" /\ disk' = disk
          /\ pc'[p] = "lock" => \A t \in Targets : disk[t] = plan[p].of
          /\ pc'[p] \in {"lock", "release"}
      BY <1>8 DEF Verify, Relies
    <2>2. plan[p].of = v BY <2>1, PlanOfVersion
    <2> QED BY <1>2, <2>1, <2>2, PlanKept DEF Drafted
  <1>9. CASE Enthrone(p)
    <2>1. /\ pc[p] = "lock" /\ job' = job /\ plan' = plan /\ job[p] = "migrate"
          /\ pc'[p] \in {"relics", "release"}
      BY <1>9 DEF Enthrone, Skip, Then, Order
    <2> QED BY <1>2, <2>1, PlanKept DEF Drafted
  <1>10. CASE RemoveRelic(p)
    <2>1. /\ pc[p] = "relics" /\ job' = job /\ plan' = plan /\ job[p] = "migrate"
          /\ pc'[p] \in {"relics", "weigh", "release"}
      BY <1>10 DEF RemoveRelic, Relies
    <2>2. pc'[p] = "weigh" => /\ disk' = disk
                              /\ \A r \in Relics : plan[p].seen[r] = None \/ disk[r] = None
      BY <1>10 DEF RemoveRelic
    <2>3. pc'[p] = "weigh" => \A r \in Relics : disk'[r] = None
      BY <2>1, <2>2 DEF Grows, Drafted
    <2> QED BY <1>2, <2>1, <2>3, PlanKept DEF Drafted
  <1>11. CASE Weigh(p) \/ Unlink(p)
    <2>1. /\ pc[p] \in {"weigh", "unlink"} /\ job' = job /\ plan' = plan /\ job[p] = "migrate"
          /\ pc'[p] \in {"unlink", "release", "settled"} /\ disk' = disk
      BY <1>11 DEF Weigh, Unlink, Relies
    <2> QED BY <1>2, <2>1, PlanKept DEF Drafted, Grows
  <1>12. CASE Release(p) \/ Sweep(p) \/ Rmdir(p)
    BY <1>12 DEF Release, Sweep, Rmdir, Grows, Drafted
  <1> QED BY <1>3, <1>4, <1>5, <1>6, <1>7, <1>8, <1>9, <1>10, <1>11, <1>12

LEMMA GrownStep ==
  ASSUME Standing, NEW v \in offered \ {None}, Grown(v), NEW p \in Procs, Step(p)
  PROVE  Grown(v)'
  <1>1. /\ TypeOK /\ Relies(p, pc[p], plan[p]) /\ Stands(p) /\ Grows(p, v)
        /\ offered \subseteq {v, None} /\ authority \in offered
    BY DEF Standing, Inductive, Grown
  <1>2. Rooted(v)' BY RootedStep
  <1>3. \A q \in Procs : Grows(q, v)'
    BY OthersGrow, PlanningGrows, CommittingGrows DEF Step, Proceed
  <1>4. /\ control["lock"] # None => control'["lock"] # None
        /\ \A r \in Relics : disk[r] = None => disk'[r] = None
    BY ControlStays, TreeStep DEF Standing
  <1>5. /\ offered' \subseteq {v, None}
        /\ None \in offered' => authority' = None
        /\ authority' = None => control'["lock"] # None /\ \A r \in Relics : disk'[r] = None
    <2>1. CASE UNCHANGED <<authority, offered>> BY <1>1, <1>4, <2>1 DEF Grown
    <2>2. CASE /\ pc[p] = "unlink" /\ authority' = None /\ offered' = offered \union {None}
      <3>1. control["lock"] # None /\ \A r \in Relics : disk[r] = None
        BY <1>1, <2>2 DEF Stands, Grows, Drafted, Relies
      <3> QED BY <1>1, <1>4, <2>2, <3>1
    <2> QED BY <2>1, <2>2, AuthorityStep
  <1>6. born' # {} => control'["intent"] # None \/ control'["lock"] # None
    <2>1. CASE born' # born BY <2>1, TreeStep
    <2>2. CASE born' = born
      <3>1. control["intent"] # None => control'["intent"] # None \/ control'["lock"] # None
        <4>1. CASE control' = control BY <4>1
        <4>2. CASE Scaffolded(p) BY <1>1, <4>2 DEF Scaffolded, TypeOK
        <4>3. CASE Proposed(p)
          BY <1>1, <4>3 DEF Proposed, TypeOK
        <4>4. CASE Enthroned(p) BY <1>1, <4>4 DEF Enthroned, TypeOK, Files
        <4> QED BY <4>1, <4>2, <4>3, <4>4, ControlStep DEF Written, Standing
      <3> QED BY <1>4, <2>2, <3>1 DEF Grown
    <2> QED BY <2>1, <2>2
  <1> QED BY <1>2, <1>3, <1>5, <1>6 DEF Grown

-----------------------------------------------------------------------------
(* Where there never was one.                                              *)

LEMMA NeutrallyStep ==
  ASSUME Standing, offered = {None}, Neutrally, NEW p \in Procs, Step(p)
  PROVE  Neutrally'
  <1>1. TypeOK /\ Relies(p, pc[p], plan[p]) BY DEF Standing, Inductive
  <1>2. authority' = None BY AuthorityStep DEF Neutrally
  <1>3. ~(job[p] = "migrate" /\ pc[p] \in Planning)
    BY <1>1, DistinctAssumption DEF Relies, Plans
  <1>4. ~Proposed(p) /\ ~Enthroned(p) BY <1>3 DEF Proposed, Enthroned
  <1>5. CASE control' = control BY <1>2, <1>5 DEF Neutrally, Blank, Text
  <1>6. CASE Scaffolded(p)
    <2>1. \A f \in Files : control'[f] = IF f = pc[p] THEN Blank(f) ELSE control[f]
      BY <1>1, <1>6 DEF Scaffolded, TypeOK
    <2>2. control'["intent"] = control["intent"] BY <1>6, <2>1 DEF Scaffolded, Files
    <2>3. \A f \in Files : Blank(f)' = Blank(f) BY DEF Blank, Text
    <2> QED BY <1>2, <2>1, <2>2, <2>3 DEF Neutrally
  <1> QED BY <1>4, <1>5, <1>6, ControlStep DEF Written, Standing

-----------------------------------------------------------------------------
(* An answer, once it is certain, stays true.                              *)

LEMMA FulfilledStays ==
  ASSUME Standing, NEW p \in Procs, Step(p), NEW q \in Procs, Fulfilled(q), job'[q] = job[q]
  PROVE  Fulfilled(q)'
  <1>1. TypeOK /\ Inductive /\ Whole BY DEF Standing, Inductive
  <1>2. /\ control["config"] # None /\ control["catalog"] # None /\ control["lock"] # None
        /\ authority = None
    BY DEF Fulfilled, Complete, Present
  <1>3. /\ control'["config"] # None /\ control'["catalog"] # None /\ control'["lock"] # None
    BY <1>1, <1>2, ControlStays
  <1>4. Complete' BY <1>3 DEF Complete, Present, Files
  <1>5. authority' = None BY <1>2, AuthorityStep
  <1>6. ASSUME job[q] = "init" PROVE Central' = Neutral
    <2>1. control["lock"].of = Neutral BY <1>6 DEF Fulfilled, Central
    <2>2. control'["lock"] \in {control["lock"], Blank("lock")}
      BY <1>1, <1>2, ControlStep DEF Written, Scaffolded, Proposed, Enthroned, TypeOK, Files
    <2>3. Blank("lock").of = Neutral BY DEF Blank, Text
    <2> QED BY <1>4, <2>1, <2>2, <2>3 DEF Central
  <1> QED BY <1>4, <1>5, <1>6 DEF Fulfilled

(* It becomes certain in five places. *)
LEMMA OwnContent ==
  ASSUME Standing, \A v \in offered \ {None} : Grown(v), offered = {None} => Neutrally,
         NEW p \in Procs, Content(p) => Fulfilled(p), Step(p), Content(p)'
  PROVE  Fulfilled(p)'
  <1>1. TypeOK /\ Relies(p, pc[p], plan[p]) /\ Stands(p) /\ authority \in offered /\ Inductive
    BY DEF Standing, Inductive
  <1>2. Content(p) /\ job'[p] = job[p] => Fulfilled(p)' BY FulfilledStays
  <1> USE <1>1 DEF TypeOK, Content, Goto, GotoIf, ReadsOnly, repo, history, At, Done
  <1>3. CASE Start(p) BY <1>3 DEF Start, Begin
  <1>4. CASE Fail(p) \/ Crash(p) BY <1>4 DEF Fail, Crash
  <1>5. CASE Detect(p)
    <2>1. State = "initialized" /\ job' = job /\ job[p] = "migrate"
          /\ UNCHANGED <<control, authority>>
      BY <1>5 DEF Detect, Relies
    <2>2. Complete /\ authority = None BY <2>1 DEF State
    <2> QED BY <2>1, <2>2 DEF Fulfilled, Complete, Present
  <1>6. CASE Survey(p) \/ Draft(p) \/ Recall(p) \/ Confirm(p) \/ Look(p)
    BY <1>6 DEF Survey, Draft, Recall, Confirm, Look
  <1>7. CASE Make(p) \/ Acquire(p) \/ Check(p) \/ Stage(p)
    BY <1>7 DEF Make, Acquire, Check, Stage
  <1>8. CASE Recheck(p) \/ PublishTarget(p) \/ Verify(p) \/ RemoveRelic(p)
    BY <1>8 DEF Recheck, PublishTarget, Verify, RemoveRelic, Then, Order
  <1>9. CASE Scan(p)
    <2>1. /\ authority = None /\ UNCHANGED <<control, authority>>
          /\ \A f \in Files \ {"intent"} : control[f] = Blank(f)
      BY <1>9 DEF Scan
    <2>2. \A f \in Files : Blank(f) # None /\ Blank("lock").of = Neutral
      BY DistinctAssumption DEF Blank, Text, Texts
    <2>3. Complete /\ control["lock"].of = Neutral
      BY <2>1, <2>2 DEF Complete, Present, Files
    <2> QED BY <2>1, <2>3 DEF Fulfilled, Complete, Present, Central
  <1>10. CASE Scaffold(p)
    <2>1. PICK f \in {"config", "catalog", "lock"} : job[p] = "init" /\ Publish(p, f, Blank(f))
      BY <1>10 DEF Scaffold
    <2>2. /\ f = "config" => Then(p, f) = "catalog"
          /\ f = "catalog" => Then(p, f) = "lock"
      BY <2>1 DEF Then, Order
    <2>3. /\ f = "lock" /\ pc[p] = "lock" /\ job' = job /\ authority' = authority
          /\ control' = [control EXCEPT !["lock"] = Blank("lock")]
      BY <2>1, <2>2 DEF Publish
    <2>4. /\ control'["lock"] = Blank("lock") /\ control'["config"] = control["config"]
          /\ control'["catalog"] = control["catalog"]
      BY <2>3 DEF Files
    <2>5. control["config"] # None /\ control["catalog"] # None
      BY <2>1, <2>3 DEF Stands
    <2>6. Blank("lock") # None /\ Blank("lock").of = Neutral
      BY DistinctAssumption DEF Blank, Text, Texts
    <2>7. Complete' /\ Central' = Neutral
      BY <2>4, <2>5, <2>6 DEF Complete, Present, Central, Files
    <2>8. None \in offered BY <2>1, <2>3 DEF Relies
    <2>9. authority = None
      BY <2>8 DEF Neutrally, Grown
    <2> QED BY <2>3, <2>7, <2>9 DEF Fulfilled
  <1>11. CASE Intend(p) \/ PublishControl(p) \/ Enthrone(p)
    BY <1>11 DEF Intend, PublishControl, Enthrone, Publish, Skip, Then, Order
  <1>12. CASE Weigh(p) \/ Unlink(p)
    <2>1. /\ pc[p] \in {"weigh", "unlink"} /\ job' = job /\ control' = control
          /\ authority' = None /\ job[p] = "migrate"
      BY <1>12 DEF Weigh, Unlink, Relies
    <2>2. Complete BY <2>1, CentralLock DEF Standing, Stands
    <2> QED BY <2>1, <2>2 DEF Fulfilled, Complete, Present
  <1>13. CASE Release(p) \/ Sweep(p) \/ Rmdir(p)
    <2>1. Content(p) /\ job'[p] = job[p] BY <1>13 DEF Release, Sweep, Rmdir
    <2> QED BY <1>2, <2>1
  <1> QED BY <1>3, <1>4, <1>5, <1>6, <1>7, <1>8, <1>9, <1>10, <1>11, <1>12, <1>13
          DEF Step, Proceed

LEMMA QuietStep ==
  ASSUME Standing, Quiet, NEW p \in Procs, Step(p)
  PROVE  Quiet'
  <1>1. TypeOK /\ authority \in offered BY DEF Standing, Inductive
  <1>2. offered \subseteq offered' /\ offered' \subseteq offered \union {None}
    BY AuthorityStep
  <1>3. \A v \in (offered \ {None})' : Grown(v)' BY <1>2, GrownStep DEF Quiet
  <1>4. offered' = {None} => Neutrally' BY <1>1, <1>2, NeutrallyStep DEF Quiet
  <1>5. ASSUME NEW q \in Procs, Content(q)' PROVE Fulfilled(q)'
    <2>1. CASE q = p BY <1>5, <2>1, OwnContent DEF Quiet
    <2>2. CASE q # p
      <3>1. pc'[q] = pc[q] /\ answer'[q] = answer[q] /\ job'[q] = job[q]
        BY <1>1, <2>2, StepApart DEF Apart
      <3>2. Fulfilled(q) BY <1>5, <3>1 DEF Content, Quiet
      <3> QED BY <3>1, <3>2, FulfilledStays
    <2> QED BY <2>1, <2>2
  <1> QED BY <1>3, <1>4, <1>5 DEF Quiet

LEMMA KeptStep == Kept /\ [Next]_vars => Kept'
  <1> SUFFICES ASSUME Kept, [Next]_vars PROVE Kept'
    OBVIOUS
  <1>1. Standing' /\ Standing /\ TypeOK BY StandingStep DEF Kept, Standing, Inductive
  <1> SUFFICES ASSUME ~edited' PROVE Quiet'
    BY <1>1 DEF Kept
  <1>2. ASSUME NEW p \in Procs, Step(p) PROVE Quiet'
    <2>1. ~edited BY <1>1, <1>2, StepApart DEF Apart
    <2> QED BY <1>1, <1>2, <2>1, QuietStep DEF Kept
  <1>3. ~Edit /\ ~Amend BY DEF Edit, Amend
  <1>4. CASE UNCHANGED vars
    <2>1. Quiet BY <1>4 DEF vars, history, Kept
    <2> QED BY <1>4, <2>1 DEF vars, repo, local, history, Quiet, Grown, Rooted, Grows, Origin, Observed,
               InOrder, Text, Blank, Neutrally, Content, Fulfilled, Complete, Present, Central
  <1> QED BY <1>2, <1>3, <1>4 DEF Next, Step

LEMMA KeptInit == Init => Kept
  <1> SUFFICES ASSUME Init PROVE Kept
    OBVIOUS
  <1>1. Standing BY StandingInit
  <1>2. ASSUME NEW v \in offered \ {None} PROVE Grown(v)
    <2>1. offered = {v} /\ authority = v /\ v # None BY <1>2 DEF Init
    <2>2. \A f \in Files : control[f] = None BY DEF Init
    <2>3. Rooted(v) BY <2>2 DEF Rooted, InOrder, Files
    <2>4. \A p \in Procs : Grows(p, v) BY DEF Init, Grows, Drafted
    <2> QED BY <2>1, <2>3, <2>4 DEF Grown, Init
  <1>3. offered = {None} => Neutrally BY DEF Init, Neutrally, Files
  <1>4. \A p \in Procs : ~Content(p) BY DEF Init, Content
  <1> QED BY <1>1, <1>2, <1>3, <1>4 DEF Kept, Quiet

LEMMA KeptHolds == Spec => []Kept
  BY KeptInit, KeptStep, PTL DEF Spec

-----------------------------------------------------------------------------
(* The three properties.                                                   *)

(* A central authority that is not neutral grew out of the one legacy      *)
(* configuration there was. *)
LEMMA CentralGrown ==
  ASSUME Standing, Quiet, Central \in Versions
  PROVE  /\ Grown(Central) /\ control["lock"] # None
         /\ control["lock"] = Text("lock", Central, Origin)
         /\ \A t \in Targets : disk[t] = Central
  <1>1. TypeOK /\ authority \in offered BY DEF Standing, Inductive
  <1>2. Complete /\ control["lock"].of = Central /\ control["lock"] # None
    BY DistinctAssumption DEF Central, Complete, Present
  <1>3. offered # {None}
    <2>1. Blank("lock").of = Neutral BY DEF Blank, Text
    <2> QED BY <1>2, <2>1, DistinctAssumption DEF Quiet, Neutrally, Files
  <1>4. PICK v \in offered \ {None} : Grown(v) BY <1>1, <1>3 DEF Quiet
  <1>5. control["lock"] = Text("lock", v, Origin) /\ \A t \in Targets : disk[t] = v
    BY <1>2, <1>4 DEF Grown, Rooted, Files
  <1>6. v = Central BY <1>2, <1>5 DEF Text
  <1> QED BY <1>2, <1>4, <1>5, <1>6

(* In a repository its consumer leaves alone the lock of a migration names *)
(* exactly the files a migration created, whether one run made it or       *)
(* several, each resuming what the one before had left.                    *)
THEOREM LockOrigin == Spec => []LockTellsOrigin
  <1>1. ASSUME Kept PROVE LockTellsOrigin
    <2> SUFFICES ASSUME Central \in Versions, ~edited PROVE control["lock"].created = born
      BY DEF LockTellsOrigin
    <2>1. /\ control["lock"] = Text("lock", Central, Origin)
          /\ \A t \in Targets : disk[t] = Central
      BY <1>1, CentralGrown DEF Kept
    <2>2. control["lock"].created = Origin BY <2>1 DEF Text
    <2>3. Observed = {} BY <2>1, DistinctAssumption DEF Observed
    <2> QED BY <2>2, <2>3 DEF Origin
  <1> QED BY <1>1, KeptHolds, PTL

(* There, the legacy configuration is retired only after every package     *)
(* lock, and after every target holds what the new authority wants.        *)
THEOREM RetirementLast == Spec => []RetiredLast
  <1>1. ASSUME Kept PROVE RetiredLast
    <2> SUFFICES ASSUME authority = None, Central \in Versions, ~edited
                 PROVE  (\A r \in Relics : disk[r] = None) /\ (\A t \in Targets : disk[t] = Central)
      BY DEF RetiredLast
    <2> QED BY <1>1, CentralGrown DEF Kept, Grown
  <1> QED BY <1>1, KeptHolds, PTL

(* There, a command that has answered ok left one complete authority, and  *)
(* an init the neutral one, however many others ran, failed or died.       *)
THEOREM AnswersHold == Spec => []AnswerHolds
  <1>1. ASSUME Kept PROVE AnswerHolds
    BY <1>1 DEF Kept, Quiet, Content, Fulfilled, AnswerHolds
  <1> QED BY <1>1, KeptHolds, PTL

=============================================================================
