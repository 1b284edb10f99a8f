-------------------------- MODULE ReconcileProofs --------------------------
(***************************************************************************)
(* Proofs about Reconcile for every set of processes, releases,            *)
(* configurations and targets, every rendering function and every budget.  *)
(***************************************************************************)
EXTENDS Reconcile, TLAPS

(* Positions and the lock modes they stand for. *)
Labels == Unlocked \union Reading \union Owning

USE DEF Unlocked, Reading, Owning, Publishing, Mending

-----------------------------------------------------------------------------
(* Types. *)

(* The lock an apply publishes is a well-formed lock. *)
LEMMA NextLockType ==
  ASSUME NEW p \in Procs, plan[p] \in Plans
  PROVE  NextLock(p) \in Locks /\ NextLock(p).release = Tool[p] /\ NextLock(p) # None
  BY ReleaseAssumption, NoneAssumption DEF NextLock, Locks, Plans

(* A snapshot of a well-formed tree is one. *)
LEMMA SnapshotType ==
  ASSUME NEW request, NEW tree \in [Targets -> Contents], NEW r
  PROVE  Snapshot(request, tree, r) \in [Targets -> Contents]
  BY DEF Snapshot, Contents, ConsumerBytes

(* A frozen request is a well-formed plan. *)
LEMMA RequestType ==
  ASSUME TypeOK, NEW kind \in Kinds
  PROVE  Request(kind) \in Plans /\ Request(kind) # None /\ Request(kind).kind = kind
  BY NoneAssumption DEF TypeOK, Request, Plans, NothingSeen, Contents, ConsumerBytes

(* What an apply renders are contents of a path. *)
LEMMA BytesType ==
  ASSUME NEW p \in Procs, plan[p] \in Plans, NEW t \in Targets
  PROVE  Bytes(t, Want(p)) \in Contents
  <1>1. Tool[p] \in Releases /\ plan[p].config \in Configs
    BY ReleaseAssumption DEF Plans
  <1>2. Render[t][Tool[p]][plan[p].config] \in Contents
    BY <1>1 DEF Contents
  <1> QED BY <1>2 DEF Bytes, Want

LEMMA RecoveryKindType ==
  ASSUME NEW p, RecoveryKind(p) # "refused"
  PROVE  RecoveryKind(p) \in Kinds \ {"reconcile"}
  BY DEF RecoveryKind, Kinds

(* The lemma every step of the type proof uses for the fields an exit resets. *)
LEMMA ExitType ==
  ASSUME TypeOK, PlanHeld, NEW p \in Procs, Exit(p)
  PROVE  /\ pc' \in [Procs -> Labels]
         /\ plan' \in [Procs -> Plans \union {None}]
         /\ due' \in [Procs -> SUBSET Items]
         /\ saved' \in [Procs -> BOOLEAN]
         /\ PlanHeld'
  BY DEF TypeOK, Exit, PlanHeld, Planned, Labels

(* Moving between two positions that hold a plan keeps the command's types. *)
LEMMA MoveType ==
  ASSUME TypeOK, PlanHeld, NEW p \in Procs, NEW label \in Labels, Move(p, label),
         pc[p] \in Planned <=> label \in Planned
  PROVE  /\ pc' \in [Procs -> Labels]
         /\ plan' \in [Procs -> Plans \union {None}]
         /\ due' \in [Procs -> SUBSET Items]
         /\ saved' \in [Procs -> BOOLEAN]
         /\ PlanHeld'
  BY DEF TypeOK, Move, PlanHeld, Planned, Labels

LEMMA SpendType ==
  ASSUME TypeOK, NEW e \in Events, Spend(e)
  PROVE  left' \in [Events -> Nat]
  BY DEF TypeOK, Spend

(* A step of one command touches the position of that command only, and    *)
(* every step keeps the types and the pairing of positions with plans.     *)
TypeInv == TypeOK /\ PlanHeld

LEMMA TypeStep == TypeInv /\ [Next]_vars => TypeInv'
  <1> SUFFICES ASSUME TypeInv, [Next]_vars PROVE TypeInv'
    OBVIOUS
  <1> TypeOK /\ PlanHeld
    BY DEF TypeInv
  <1> USE DEF TypeInv, TypeOK, world, control, Labels, Planned
  <1>1. ASSUME NEW p \in Procs, Command(p) PROVE TypeInv'
    <2>1. CASE StartReconcile(p)
      <3>1. Move(p, "inspect") /\ pc[p] = "idle" BY <2>1 DEF StartReconcile
      <3> QED BY <2>1, <3>1, MoveType DEF StartReconcile
    <2>2. CASE StartRepair(p)
      <3>1. Move(p, "diagnose") /\ pc[p] = "idle" BY <2>2 DEF StartRepair
      <3> QED BY <2>2, <3>1, MoveType DEF StartRepair
    <2>3. CASE StartEdit(p)
      <3>1. Move(p, "edit") /\ pc[p] = "idle" BY <2>3 DEF StartEdit
      <3> QED BY <2>3, <3>1, MoveType DEF StartEdit
    <2> QED BY <1>1, <2>1, <2>2, <2>3 DEF Command
  <1>2. ASSUME NEW p \in Procs, Proceed(p) PROVE TypeInv'
    <2>1. CASE Inspect(p)
      <3>1. CASE Exit(p) BY <2>1, <3>1, ExitType DEF Inspect
      <3>2. CASE Verdict(p) = "initialized"
        <4>1. Request("reconcile") \in Plans /\ Request("reconcile") # None
          BY RequestType DEF Kinds
        <4> QED BY <2>1, <3>2, <4>1 DEF Inspect, PlanHeld
      <3> QED BY <2>1, <3>1, <3>2 DEF Inspect
    <2>2. CASE PlanTargets(p)
      <3>1. CASE Exit(p) BY <2>2, <3>1, ExitType DEF PlanTargets
      <3>2. CASE ~(Refreshes(p) /\ catalog # plan[p].catalog)
        <4>1. plan[p] \in Plans BY <2>2 DEF PlanTargets, PlanHeld
        <4>2. Snapshot(plan[p], disk, Tool[p]) \in [Targets -> Contents] BY SnapshotType
        <4>3. [plan[p] EXCEPT !.seen = Snapshot(plan[p], disk, Tool[p])] \in Plans
          BY <4>1, <4>2 DEF Plans
        <4>4. plan' = [plan EXCEPT ![p] = [plan[p] EXCEPT !.seen = Snapshot(plan[p], disk, Tool[p])]]
          BY <2>2, <3>2 DEF PlanTargets
        <4> QED BY <2>2, <3>2, <4>3, <4>4, NoneAssumption DEF PlanTargets, PlanHeld
      <3> QED BY <2>2, <3>1, <3>2 DEF PlanTargets
    <2>3. CASE Diagnose(p)
      <3>1. CASE Exit(p) BY <2>3, <3>1, ExitType DEF Diagnose
      <3>2. CASE Move(p, "assess") BY <2>3, <3>2, MoveType DEF Diagnose
      <3> QED BY <2>3, <3>1, <3>2 DEF Diagnose
    <2>4. CASE Assess(p)
      <3>1. CASE Exit(p) BY <2>4, <3>1, ExitType DEF Assess
      <3>2. CASE CanShare(p) /\ RecoveryKind(p) # "refused"
        <4> DEFINE request == Request(RecoveryKind(p))
                   frozen == IF request.kind = "relock"
                               THEN [request EXCEPT !.seen = Snapshot(request, disk, Tool[p])]
                               ELSE request
        <4>1. request \in Plans BY <3>2, RecoveryKindType, RequestType
        <4>2. Snapshot(request, disk, Tool[p]) \in [Targets -> Contents] BY SnapshotType
        <4>3. frozen \in Plans BY <4>1, <4>2 DEF Plans
        <4>4. frozen # None BY <4>3, NoneAssumption
        <4>5. plan' = [plan EXCEPT ![p] = frozen] BY <2>4, <3>2 DEF Assess
        <4> HIDE DEF frozen
        <4> QED BY <2>4, <3>2, <4>3, <4>4, <4>5 DEF Assess, PlanHeld
      <3> QED BY <2>4, <3>1, <3>2 DEF Assess
    <2>5. CASE Acquire(p)
      <3>1. CASE Exit(p) BY <2>5, <3>1, ExitType DEF Acquire
      <3>2. CASE ~Exit(p)
        <4>1. plan[p] \in Plans BY <2>5 DEF Acquire, PlanHeld
        <4>2. PICK label \in {"recheck", "regrow", "mend"} : Move(p, label)
          BY <2>5, <3>2, <4>1 DEF Acquire, Plans, Kinds
        <4> QED BY <2>5, <4>2, MoveType DEF Acquire
      <3> QED BY <3>1, <3>2
    <2>6. CASE Recheck(p)
      <3>1. CASE Exit(p) BY <2>6, <3>1, ExitType DEF Recheck
      <3>2. CASE PlanCurrent(p) /\ ~(Refreshes(p) /\ backup # None)
        <4>1. Mutating(p) \subseteq Items BY DEF Mutating, Writes, Removes, Items
        <4> QED BY <2>6, <3>2, <4>1 DEF Recheck, PlanHeld
      <3> QED BY <2>6, <3>1, <3>2 DEF Recheck
    <2>7. CASE SaveBackup(p)
      <3> QED BY <2>7 DEF SaveBackup, PlanHeld
    <2>8. CASE CheckTarget(p)
      <3>1. PICK label \in {"swap", "unwind"} : Move(p, label) BY <2>8 DEF CheckTarget
      <3> QED BY <2>8, <3>1, MoveType DEF CheckTarget
    <2>9. CASE CheckDone(p)
      <3> QED BY <2>9, MoveType DEF CheckDone
    <2>10. CASE SwapTarget(p)
      <3>1. plan[p] \in Plans BY <2>10 DEF SwapTarget, PlanHeld
      <3>2. PICK i \in due[p] : Publish(p, i) /\ due' = [due EXCEPT ![p] = @ \ {i}]
        BY <2>10 DEF SwapTarget
      <3>3. catalog' \in Releases \union {None} /\ disk' \in [Targets -> Contents]
        <4>1. CASE i = Catalog BY <3>2, <4>1, ReleaseAssumption DEF Publish
        <4>2. CASE i # Catalog
          <5>1. i \in Targets BY <4>2 DEF Items
          <5>2. Bytes(i, Want(p)) \in Contents BY <3>1, <5>1, BytesType
          <5> QED BY <3>2, <4>2, <5>2 DEF Publish
        <4> QED BY <4>1, <4>2
      <3> QED BY <2>10, <3>2, <3>3 DEF SwapTarget, PlanHeld
    <2>11. CASE Verify(p)
      <3>1. CASE Exit(p) BY <2>11, <3>1, ExitType DEF Verify
      <3>2. CASE ~Exit(p)
        <4>1. PICK label \in {"publish", "unwind"} : Move(p, label) BY <2>11, <3>2 DEF Verify
        <4> QED BY <2>11, <4>1, MoveType DEF Verify
      <3> QED BY <3>1, <3>2
    <2>12. CASE PublishLock(p)
      <3>1. PICK label \in {"settle", "unwind"} : Move(p, label) BY <2>12 DEF PublishLock
      <3>2. plan[p] \in Plans BY <2>12 DEF PublishLock, PlanHeld
      <3>3. lock' \in Locks \union {None} BY <2>12, <3>2, NextLockType DEF PublishLock
      <3> QED BY <2>12, <3>1, <3>3, MoveType DEF PublishLock
    <2>13. CASE Settle(p)
      <3> QED BY <2>13, ExitType DEF Settle
    <2>14. CASE Unwind(p)
      <3> QED BY <2>14, ExitType DEF Unwind
    <2>15. CASE Mend(p)
      <3>1. CASE Exit(p) BY <2>15, <3>1, ExitType DEF Mend
      <3>2. CASE Move(p, "sweep") BY <2>15, <3>2, MoveType DEF Mend
      <3> QED BY <2>15, <3>1, <3>2 DEF Mend
    <2>16. CASE Sweep(p)
      <3> QED BY <2>16 DEF Sweep, PlanHeld, command
    <2>17. CASE SweepDone(p)
      <3> QED BY <2>17, MoveType DEF SweepDone
    <2>18. CASE Prune(p)
      <3> QED BY <2>18, ExitType DEF Prune
    <2>19. CASE Regrow(p)
      <3> QED BY <2>19, ExitType, ReleaseAssumption DEF Regrow
    <2>20. CASE \E c \in Configs : WriteConfig(p, c)
      <3> QED BY <2>20, ExitType, SpendType DEF WriteConfig, Events
    <2> QED BY <1>2, <2>1, <2>2, <2>3, <2>4, <2>5, <2>6, <2>7, <2>8, <2>9, <2>10, <2>11, <2>12, <2>13, <2>14, <2>15, <2>16, <2>17, <2>18, <2>19, <2>20 DEF Proceed
  <1>3. ASSUME NEW p \in Procs, Fault(p) PROVE TypeInv'
    <2>1. CASE Fail(p)
      <3>1. CASE Exit(p) BY <2>1, <3>1, ExitType, SpendType DEF Fail, Events
      <3>2. CASE Move(p, "unwind") /\ pc[p] \in Publishing
        BY <2>1, <3>2, MoveType, SpendType DEF Fail, Events
      <3> QED BY <2>1, <3>1, <3>2 DEF Fail
    <2>2. CASE Slip(p)
      <3>1. Move(p, "unwind") /\ pc[p] \in Slippery
        BY <2>2, FaultAssumption DEF Slip
      <3>2. plan[p] \in Plans BY <3>1 DEF PlanHeld, Slippery
      <3>3. /\ catalog' \in Releases \union {None} /\ disk' \in [Targets -> Contents]
            /\ lock' \in Locks \union {None} /\ backup' \in Releases \union {None}
        <4>1. CASE pc[p] = "save" BY <2>2, <4>1 DEF Slip
        <4>2. CASE pc[p] = "swap"
          <5>1. PICK i \in due[p] : Publish(p, i) BY <2>2, <4>2 DEF Slip
          <5> QED BY <2>2, <3>2, <4>2, <5>1, BytesType, ReleaseAssumption DEF Slip, Publish, Items
        <4>3. CASE pc[p] = "publish" BY <2>2, <3>2, <4>3, NextLockType DEF Slip
        <4> QED BY <3>1, <4>1, <4>2, <4>3 DEF Slippery
      <3>4. left' \in [Events -> Nat] /\ UNCHANGED <<config, litter, unseen>>
        BY <2>2, SpendType DEF Slip, Events
      <3> QED BY <3>1, <3>3, <3>4, MoveType DEF Slippery
    <2>3. CASE LeaveBackup(p)
      <3> QED BY <2>3, ExitType, SpendType DEF LeaveBackup, Events
    <2>4. CASE Crash(p)
      <3>1. litter' \subseteq Procs BY <2>4 DEF Crash
      <3> QED BY <2>4, <3>1, ExitType, SpendType DEF Crash, Events
    <2> QED BY <1>3, <2>1, <2>2, <2>3, <2>4 DEF Fault
  <1>4. ASSUME NEW t \in Targets, Tamper(t) PROVE TypeInv'
    BY <1>4, SpendType DEF Tamper, Events, PlanHeld, command, Contents, ConsumerBytes
  <1>5. CASE LoseFile
    BY <1>5, SpendType DEF LoseFile, Events, PlanHeld, command
  <1>6. CASE UNCHANGED vars
    BY <1>6 DEF vars, command, PlanHeld
  <1> QED BY <1>1, <1>2, <1>3, <1>4, <1>5, <1>6 DEF Next, Consumer

(* The repository `init` leaves is well formed. *)
LEMMA TypeInit == Init => TypeInv
  BY ReleaseAssumption, ConfigAssumption, InitialAssumption, NoneAssumption, FaultAssumption
     DEF Init, TypeInv, TypeOK, PlanHeld, Planned, Locks

(* Every reachable state is well formed, and a command holds a plan        *)
(* exactly where the code does.                                            *)
THEOREM TypeCorrect == Spec => [](TypeOK /\ PlanHeld)
  <1>1. Init => TypeInv BY TypeInit
  <1>2. TypeInv /\ [Next]_vars => TypeInv' BY TypeStep
  <1> QED BY <1>1, <1>2, PTL DEF Spec, TypeInv

-----------------------------------------------------------------------------
(* The inductive invariant. *)

Step(p) == Command(p) \/ Proceed(p) \/ Fault(p)

(* What a step of p leaves alone: the commands of the others. *)
Local(p) ==
  \A q \in Procs \ {p} : /\ pc'[q] = pc[q] /\ plan'[q] = plan[q]
                         /\ due'[q] = due[q] /\ saved'[q] = saved[q]

(* The only ways to a position with a lock: to be granted it, or to keep it. *)
Granted(p) ==
  \/ pc'[p] \in Unlocked
  \/ pc'[p] \in Reading /\ CanShare(p)
  \/ pc'[p] \in Owning /\ CanOwn(p)
  \/ pc'[p] \in Owning /\ pc[p] \in Owning

LEMMA MoveLocal ==
  ASSUME TypeOK, NEW p \in Procs, NEW label, Move(p, label)
  PROVE  /\ Local(p) /\ pc'[p] = label /\ plan'[p] = plan[p]
         /\ due'[p] = due[p] /\ saved'[p] = saved[p]
  BY DEF TypeOK, Move, Local

LEMMA ExitLocal ==
  ASSUME TypeOK, NEW p \in Procs, Exit(p)
  PROVE  /\ Local(p) /\ pc'[p] = "idle" /\ plan'[p] = None
         /\ due'[p] = {} /\ saved'[p] = FALSE
  BY DEF TypeOK, Exit, Local

(* Every step of a command is local, respects the flock, and changes a     *)
(* control file only while the process owns it.                            *)
LEMMA StepLocal ==
  ASSUME TypeInv, NEW p \in Procs, Step(p)
  PROVE  Local(p) /\ Granted(p) /\ (UNCHANGED control \/ pc[p] \in Owning)
  <1> TypeOK BY DEF TypeInv
  <1> USE DEF Granted, world, control
  <1>1. CASE Command(p)
    <2>1. CASE StartReconcile(p) BY <2>1, MoveLocal DEF StartReconcile
    <2>2. CASE StartRepair(p) BY <2>2, MoveLocal DEF StartRepair
    <2>3. CASE StartEdit(p) BY <2>3, MoveLocal DEF StartEdit
    <2> QED BY <1>1, <2>1, <2>2, <2>3 DEF Command
  <1>2. CASE Proceed(p)
    <2>1. CASE Inspect(p)
      BY <2>1, ExitLocal DEF Inspect, Local, TypeOK
    <2>2. CASE PlanTargets(p)
      BY <2>2, ExitLocal DEF PlanTargets, Local, TypeOK
    <2>3. CASE Diagnose(p)
      BY <2>3, ExitLocal, MoveLocal DEF Diagnose
    <2>4. CASE Assess(p)
      <3>1. CASE Exit(p) BY <2>4, <3>1, ExitLocal DEF Assess
      <3>2. CASE CanShare(p) /\ RecoveryKind(p) # "refused" BY <2>4, <3>2 DEF Assess, Local, TypeOK
      <3> QED BY <2>4, <3>1, <3>2 DEF Assess
    <2>5. CASE Acquire(p)
      <3>1. CASE Exit(p) BY <2>5, <3>1, ExitLocal DEF Acquire
      <3>2. CASE ~Exit(p)
        <4>1. plan[p] \in Plans BY <2>5 DEF Acquire, TypeInv, TypeOK, PlanHeld, Planned
        <4>2. PICK label \in {"recheck", "regrow", "mend"} : Move(p, label) /\ CanOwn(p)
          BY <2>5, <3>2, <4>1 DEF Acquire, Plans, Kinds
        <4> QED BY <2>5, <4>2, MoveLocal DEF Acquire
      <3> QED BY <3>1, <3>2
    <2>6. CASE Recheck(p)
      BY <2>6, ExitLocal DEF Recheck, Local, TypeOK
    <2>7. CASE SaveBackup(p)
      BY <2>7 DEF SaveBackup, Local, TypeOK
    <2>8. CASE CheckTarget(p)
      BY <2>8, MoveLocal DEF CheckTarget
    <2>9. CASE CheckDone(p)
      BY <2>9, MoveLocal DEF CheckDone
    <2>10. CASE SwapTarget(p)
      BY <2>10 DEF SwapTarget, Local, TypeOK
    <2>11. CASE Verify(p)
      BY <2>11, ExitLocal, MoveLocal DEF Verify
    <2>12. CASE PublishLock(p)
      BY <2>12, MoveLocal DEF PublishLock
    <2>13. CASE Settle(p)
      BY <2>13, ExitLocal DEF Settle
    <2>14. CASE Unwind(p)
      BY <2>14, ExitLocal DEF Unwind
    <2>15. CASE Mend(p)
      BY <2>15, ExitLocal, MoveLocal DEF Mend
    <2>16. CASE Sweep(p)
      BY <2>16 DEF Sweep, command, Local
    <2>17. CASE SweepDone(p)
      BY <2>17, MoveLocal DEF SweepDone
    <2>18. CASE Prune(p)
      BY <2>18, ExitLocal DEF Prune
    <2>19. CASE Regrow(p)
      BY <2>19, ExitLocal DEF Regrow
    <2>20. CASE \E c \in Configs : WriteConfig(p, c)
      BY <2>20, ExitLocal DEF WriteConfig
    <2> QED BY <1>2, <2>1, <2>2, <2>3, <2>4, <2>5, <2>6, <2>7, <2>8, <2>9, <2>10, <2>11, <2>12,
               <2>13, <2>14, <2>15, <2>16, <2>17, <2>18, <2>19, <2>20 DEF Proceed
  <1>3. CASE Fault(p)
    <2>1. CASE Fail(p) BY <2>1, ExitLocal, MoveLocal DEF Fail
    <2>2. CASE Slip(p) BY <2>2, MoveLocal, FaultAssumption DEF Slip, Slippery
    <2>3. CASE LeaveBackup(p) BY <2>3, ExitLocal DEF LeaveBackup
    <2>4. CASE Crash(p) BY <2>4, ExitLocal DEF Crash
    <2> QED BY <1>3, <2>1, <2>2, <2>3, <2>4 DEF Fault
  <1> QED BY <1>1, <1>2, <1>3 DEF Step

(* flock keeps one writer apart from every other holder. *)
LEMMA ExclusionStep == TypeInv /\ Exclusion /\ [Next]_vars => Exclusion'
  <1> SUFFICES ASSUME TypeInv, Exclusion, [Next]_vars PROVE Exclusion'
    OBVIOUS
  <1>1. ASSUME NEW p \in Procs, Step(p) PROVE Exclusion'
    <2>1. Local(p) /\ Granted(p) BY <1>1, StepLocal
    <2> QED BY <2>1 DEF Exclusion, Local, Granted, CanShare, CanOwn
  <1>2. CASE Consumer \/ UNCHANGED vars
    BY <1>2 DEF Consumer, Tamper, LoseFile, vars, command, Exclusion
  <1> QED BY <1>1, <1>2 DEF Next, Step

(* What one process contributes to the invariant. *)
Own(p) ==
  /\ plan[p] # None => PlanSound(p)
  /\ Progress(p)
  /\ EvidenceKept

LEMMA OwnHolds ==
  ASSUME Inductive, NEW p \in Procs
  PROVE  Own(p) /\ TypeOK /\ (pc[p] \in Planned => plan[p] \in Plans /\ PlanSound(p))
                /\ (pc[p] \notin Planned => plan[p] = None)
  BY DEF Inductive, Own, PlansSound, PlanHeld, TypeOK

(* Leaving a command leaves nothing to show about it but the evidence. *)
LEMMA ExitOwn ==
  ASSUME TypeOK, NEW p \in Procs, Exit(p), EvidenceKept'
  PROVE  Own(p)'
  BY ExitLocal DEF Own, Progress, Unpublished

(* Leaving without touching a control file. *)
LEMMA ExitUnchanged ==
  ASSUME Inductive, NEW p \in Procs, Exit(p), UNCHANGED control
  PROVE  Own(p)'
  BY ExitOwn DEF Inductive, EvidenceKept, control

(* Planning. *)
LEMMA PlanningOwn ==
  ASSUME Inductive, NEW p \in Procs,
         Command(p) \/ Inspect(p) \/ PlanTargets(p) \/ Diagnose(p) \/ Assess(p) \/ Acquire(p)
  PROVE  Own(p)'
  <1>1. TypeOK /\ Own(p) /\ EvidenceKept BY OwnHolds DEF Own
  <1> USE DEF world, control, Own, Progress, Unpublished, Planned
  <1>2. CASE Command(p)
    BY <1>1, <1>2, OwnHolds, MoveLocal DEF Command, StartReconcile, StartRepair, StartEdit, EvidenceKept
  <1>3. CASE Inspect(p)
    <2>1. CASE Exit(p) BY <1>3, <2>1, ExitUnchanged DEF Inspect
    <2>2. CASE Verdict(p) = "initialized"
      <3>1. plan'[p] = Request("reconcile") /\ pc'[p] = "plan" /\ UNCHANGED <<due, saved>>
        BY <1>1, <1>3, <2>2 DEF Inspect, TypeOK
      <3>2. lock # None /\ catalog = lock.release /\ lock.release <= Tool[p]
        <4>1. /\ lock # None /\ catalog = lock.release
              /\ ~\E r \in {catalog, lock.release, backup} \ {None} : r > Tool[p]
          BY <2>2 DEF Verdict
        <4>2. lock \in Locks BY <1>1, <4>1 DEF TypeOK
        <4>3. lock.release \in Nat /\ Tool[p] \in Nat /\ lock.release # None
          BY <4>2, ReleaseAssumption, NoneAssumption DEF Locks
        <4>4. ~(lock.release > Tool[p]) BY <4>1, <4>3
        <4> QED BY <4>1, <4>3, <4>4
      <3>3. PlanSound(p)' BY <3>1, <3>2 DEF PlanSound, Request, KindAt
      <3>4. due[p] = due'[p] /\ Catalog \notin due[p] /\ ~saved[p]
        BY <1>1, <1>3, <3>1, OwnHolds DEF Inspect
      <3> QED BY <1>1, <1>3, <3>1, <3>3, <3>4 DEF Inspect, EvidenceKept
    <2> QED BY <1>3, <2>1, <2>2 DEF Inspect
  <1>4. CASE PlanTargets(p)
    <2>1. CASE Exit(p) BY <1>4, <2>1, ExitUnchanged DEF PlanTargets
    <2>2. CASE ~(Refreshes(p) /\ catalog # plan[p].catalog)
      <3>1. plan[p] \in Plans /\ PlanSound(p) BY <1>4, OwnHolds DEF PlanTargets
      <3>2. plan'[p] = [plan[p] EXCEPT !.seen = Snapshot(plan[p], disk, Tool[p])]
            /\ pc'[p] = "ready" /\ UNCHANGED <<due, saved>>
        BY <1>1, <1>4, <2>2 DEF PlanTargets, TypeOK
      <3>3. /\ plan'[p].kind = plan[p].kind /\ plan'[p].lock = plan[p].lock
            /\ plan'[p].catalog = plan[p].catalog /\ plan'[p].backup = plan[p].backup
        BY <3>1, <3>2 DEF Plans
      <3>4. PlanSound(p)' BY <3>1, <3>2, <3>3 DEF PlanSound, KindAt, Plans
      <3>5. plan[p] # None /\ plan'[p] # None 
        <4>1. Snapshot(plan[p], disk, Tool[p]) \in [Targets -> Contents]
          BY <1>1, SnapshotType DEF TypeOK
        <4>2. plan'[p] \in Plans BY <3>1, <3>2, <4>1 DEF Plans
        <4> QED BY <3>1, <4>2, NoneAssumption
      <3>6. Refreshes(p)' <=> Refreshes(p) BY <3>3 DEF Refreshes
      <3>7. Progress(p)' BY <1>1, <1>4, <3>2, <3>5, <3>6 DEF PlanTargets
      <3>8. EvidenceKept' BY <1>1, <1>4 DEF PlanTargets, EvidenceKept
      <3> QED BY <3>4, <3>7, <3>8
    <2> QED BY <1>4, <2>1, <2>2 DEF PlanTargets
  <1>5. CASE Diagnose(p)
    <2>1. CASE Exit(p) BY <1>5, <2>1, ExitUnchanged DEF Diagnose
    <2>2. CASE Move(p, "assess")
      BY <1>1, <1>5, <2>2, MoveLocal, OwnHolds DEF Diagnose, EvidenceKept
    <2> QED BY <1>5, <2>1, <2>2 DEF Diagnose
  <1>6. CASE Assess(p)
    <2>1. CASE Exit(p) BY <1>6, <2>1, ExitUnchanged DEF Assess
    <2>2. CASE CanShare(p) /\ RecoveryKind(p) # "refused"
      <3> DEFINE kind == RecoveryKind(p)
      <3>1. kind \in Kinds \ {"reconcile"} BY <2>2, RecoveryKindType
      <3>2. /\ plan'[p].kind = kind /\ plan'[p].lock = lock
            /\ plan'[p].catalog = catalog /\ plan'[p].backup = backup
            /\ pc'[p] = "ready" /\ UNCHANGED <<due, saved>>
        BY <1>1, <1>6, <2>2 DEF Assess, Request, TypeOK
      <3>3. PlanSound(p)'
        BY <1>1, <2>2, <3>1, <3>2, NoneAssumption DEF PlanSound, KindAt, RecoveryKind, TypeOK
      <3>4. due[p] = due'[p] /\ Catalog \notin due[p] /\ ~saved[p]
        BY <1>1, <1>6, <3>2, OwnHolds DEF Assess
      <3> QED BY <1>1, <1>6, <3>2, <3>3, <3>4 DEF Assess, EvidenceKept
    <2> QED BY <1>6, <2>1, <2>2 DEF Assess
  <1>7. CASE Acquire(p)
    <2>1. CASE Exit(p) BY <1>7, <2>1, ExitUnchanged DEF Acquire
    <2>2. CASE ~Exit(p)
      <3>1. plan[p] \in Plans /\ PlanSound(p) BY <1>7, OwnHolds DEF Acquire
      <3>2. PICK label \in {"recheck", "regrow", "mend"} :
              Move(p, label) /\ plan[p].kind \in KindAt(label)
        BY <1>7, <2>2, <3>1 DEF Acquire, Plans, Kinds, KindAt
      <3>3. Local(p) /\ pc'[p] = label /\ plan'[p] = plan[p] /\ due'[p] = due[p] /\ saved'[p] = saved[p]
        BY <1>1, <3>2, MoveLocal
      <3>4. PlanSound(p)' BY <3>1, <3>2, <3>3 DEF PlanSound
      <3> QED BY <1>1, <1>7, <3>3, <3>4 DEF Acquire, EvidenceKept, Refreshes
    <2> QED BY <2>1, <2>2
  <1> QED BY <1>2, <1>3, <1>4, <1>5, <1>6, <1>7

(* Rechecking a plan and publishing its targets. *)
LEMMA PublishingOwn ==
  ASSUME Inductive, NEW p \in Procs,
         Recheck(p) \/ SaveBackup(p) \/ CheckTarget(p) \/ CheckDone(p) \/ SwapTarget(p) \/ Verify(p)
  PROVE  Own(p)'
  <1>1. TypeOK /\ Own(p) /\ EvidenceKept BY OwnHolds DEF Own
  <1>2. plan[p] \in Plans /\ PlanSound(p) /\ pc[p] \in Publishing \union {"recheck"}
    BY OwnHolds DEF Planned, Recheck, SaveBackup, CheckTarget, CheckDone, SwapTarget, Verify
  <1>3. plan[p].kind \in {"reconcile", "relock"} BY <1>2 DEF PlanSound, KindAt
  <1>4. plan[p].lock # None => plan[p].lock \in Locks BY <1>2 DEF Plans
  <1> USE DEF world, control, Own, Unpublished
  <1>5. ASSUME NEW label \in Publishing \union {"unwind"}, Move(p, label)
        PROVE  PlanSound(p)'
    BY <1>1, <1>2, <1>3, <1>5, MoveLocal DEF PlanSound, KindAt
  <1>6. CASE Recheck(p)
    <2>1. CASE Exit(p) BY <1>6, <2>1, ExitUnchanged DEF Recheck
    <2>2. CASE PlanCurrent(p) /\ ~(Refreshes(p) /\ backup # None)
      <3>1. /\ pc'[p] = IF Refreshes(p) THEN "save" ELSE "check"
            /\ plan' = plan /\ saved' = saved /\ due'[p] = Mutating(p)
            /\ UNCHANGED control /\ lock = plan[p].lock
            /\ plan[p].kind = "relock" => catalog = plan[p].catalog
            /\ Refreshes(p) => catalog = plan[p].catalog /\ backup = None
        BY <1>1, <1>6, <2>2 DEF Recheck, PlanCurrent, TypeOK
      <3>2. Catalog \in Mutating(p) => Refreshes(p)
        BY TargetAssumption DEF Mutating, Writes, Removes
      <3>3. Refreshes(p)' <=> Refreshes(p) BY <3>1 DEF Refreshes
      <3>4. ~saved[p] BY <1>1, <1>6 DEF Progress, Recheck
      <3>5. PlanSound(p)' BY <1>2, <1>3, <3>1 DEF PlanSound, KindAt
      <3>6. plan[p].kind = "relock" => catalog = Tool[p] BY <1>2, <3>1 DEF PlanSound
      <3>7. Progress(p)' BY <1>2, <3>1, <3>2, <3>3, <3>4, <3>6, NoneAssumption DEF Progress
      <3> QED BY <1>1, <3>1, <3>5, <3>7 DEF EvidenceKept
    <2> QED BY <1>6, <2>1, <2>2 DEF Recheck
  <1>7. CASE SaveBackup(p)
    <2>1. /\ pc'[p] = "check" /\ plan' = plan /\ due' = due /\ saved'[p] = TRUE
          /\ UNCHANGED <<catalog, lock>> /\ backup' = catalog /\ pc[p] = "save"
      BY <1>1, <1>7 DEF SaveBackup, TypeOK
    <2>2. Refreshes(p) /\ catalog = plan[p].catalog /\ lock = plan[p].lock
      BY <1>1, <2>1 DEF Progress
    <2>3. Refreshes(p)' <=> Refreshes(p) BY <2>1 DEF Refreshes
    <2>4. plan[p].kind = "reconcile" BY <2>2 DEF Refreshes
    <2>5. catalog = lock.release BY <1>2, <2>2, <2>4 DEF PlanSound
    <2>6. PlanSound(p)' BY <1>2, <2>1, <2>4 DEF PlanSound, KindAt
    <2>7. Progress(p)' BY <1>1, <1>2, <2>1, <2>2, <2>3, <2>4 DEF Progress
    <2>8. EvidenceKept' BY <2>1, <2>5 DEF EvidenceKept
    <2> QED BY <2>6, <2>7, <2>8
  <1>8. CASE CheckTarget(p)
    <2>1. PICK label \in {"swap", "unwind"} : Move(p, label) /\ pc[p] = "check" /\ UNCHANGED world
      BY <1>8 DEF CheckTarget
    <2>2. Refreshes(p)' <=> Refreshes(p) BY <1>1, <2>1, MoveLocal DEF Refreshes
    <2>3. Progress(p)' BY <1>1, <2>1, <2>2, MoveLocal DEF Progress
    <2> QED BY <1>1, <1>5, <2>1, <2>3 DEF EvidenceKept
  <1>9. CASE CheckDone(p)
    <2>1. Move(p, "verify") /\ pc[p] = "check" /\ UNCHANGED world BY <1>9 DEF CheckDone
    <2>2. Refreshes(p)' <=> Refreshes(p) BY <1>1, <2>1, MoveLocal DEF Refreshes
    <2>3. Progress(p)' BY <1>1, <2>1, <2>2, MoveLocal DEF Progress
    <2> QED BY <1>1, <1>5, <2>1, <2>3 DEF EvidenceKept
  <1>10. CASE SwapTarget(p)
    <2>1. PICK i \in due[p] : /\ IsNext(p, i) /\ Publish(p, i)
                              /\ due' = [due EXCEPT ![p] = @ \ {i}]
      BY <1>10 DEF SwapTarget
    <2>2. /\ pc[p] = "swap" /\ pc'[p] = "check" /\ plan' = plan /\ saved' = saved
          /\ due'[p] \subseteq due[p] /\ UNCHANGED <<lock, backup>>
      BY <1>1, <1>10, <2>1 DEF SwapTarget, TypeOK
    <2>3. Refreshes(p)' <=> Refreshes(p) BY <2>2 DEF Refreshes
    <2>4. PlanSound(p)' BY <1>2, <1>3, <2>2 DEF PlanSound, KindAt
    <2>5. catalog' = catalog \/ (Refreshes(p) /\ catalog' = Tool[p])
      BY <1>1, <2>1 DEF Publish, Progress
    <2>6. plan[p].kind = "relock" => catalog' = catalog BY <2>5 DEF Refreshes
    <2>7. Progress(p)' BY <1>1, <1>2, <2>2, <2>3, <2>6 DEF Progress
    <2>8. Refreshes(p) => backup = lock.release
      BY <1>1, <1>2, <2>2 DEF Progress, PlanSound, Refreshes
    <2>9. EvidenceKept'
      <3>1. CASE catalog' = catalog BY <1>1, <2>2, <3>1 DEF EvidenceKept
      <3>2. CASE Refreshes(p) /\ catalog' = Tool[p]
        <4>1. lock # None /\ lock = plan[p].lock BY <1>1, <1>2, <2>2, <3>2 DEF Progress, PlanSound, Refreshes
        <4>2. backup # None BY <1>4, <2>8, <3>2, <4>1, NoneAssumption DEF Locks
        <4> QED BY <2>2, <2>8, <3>2, <4>2 DEF EvidenceKept
      <3> QED BY <2>5, <3>1, <3>2
    <2> QED BY <2>4, <2>7, <2>9
  <1>11. CASE Verify(p)
    <2>1. CASE Exit(p) BY <1>11, <2>1, ExitUnchanged DEF Verify
    <2>2. CASE ~Exit(p)
      <3>1. PICK label \in {"publish", "unwind"} :
              /\ Move(p, label) /\ pc[p] = "verify" /\ UNCHANGED world
              /\ label = "publish" /\ Refreshes(p) => catalog = Tool[p]
        BY <1>11, <2>2 DEF Verify
      <3>2. Refreshes(p)' <=> Refreshes(p) BY <1>1, <3>1, MoveLocal DEF Refreshes
      <3>3. Progress(p)' BY <1>1, <3>1, <3>2, MoveLocal DEF Progress
      <3> QED BY <1>1, <1>5, <3>1, <3>3 DEF EvidenceKept
    <2> QED BY <2>1, <2>2
  <1> QED BY <1>6, <1>7, <1>8, <1>9, <1>10, <1>11

(* What the new lock says of the catalog, at the moment it is published. *)
LEMMA PublishedLock ==
  ASSUME Inductive, NEW p \in Procs, pc[p] = "publish"
  PROVE  /\ NextLock(p) \in Locks /\ NextLock(p) # None /\ NextLock(p).release = Tool[p]
         /\ lock = plan[p].lock
         /\ Refreshes(p) => catalog = Tool[p] /\ saved[p]
         /\ ~Refreshes(p) /\ lock # None => lock.release = Tool[p]
         /\ lock = None => catalog = Tool[p] /\ ~Refreshes(p)
         /\ lock # None => lock \in Locks /\ lock.release <= Tool[p]
  <1>1. TypeOK /\ Progress(p) BY OwnHolds DEF Own
  <1>2. plan[p] \in Plans /\ PlanSound(p) BY OwnHolds DEF Planned
  <1>3. plan[p].kind \in {"reconcile", "relock"} BY <1>2 DEF PlanSound, KindAt
  <1>4. lock = plan[p].lock BY <1>1 DEF Progress, Unpublished
  <1>5. Refreshes(p) => catalog = Tool[p] /\ saved[p] BY <1>1 DEF Progress
  <1>6. CASE plan[p].kind = "reconcile"
    BY <1>1, <1>2, <1>4, <1>5, <1>6, NextLockType DEF PlanSound, Refreshes, TypeOK
  <1>7. CASE plan[p].kind = "relock"
    <2>1. lock = None /\ ~Refreshes(p) BY <1>2, <1>4, <1>7 DEF PlanSound, Refreshes
    <2>2. catalog = Tool[p] BY <1>1, <1>7 DEF Progress, Unpublished
    <2> QED BY <1>2, <1>4, <2>1, <2>2, NextLockType
  <1> QED BY <1>3, <1>6, <1>7

(* Publishing the lock keeps the evidence. *)
LEMMA PublishedEvidence ==
  ASSUME Inductive, NEW p \in Procs, pc[p] = "publish", lock' = NextLock(p),
         UNCHANGED <<catalog, backup>>
  PROVE  EvidenceKept' /\ (saved[p] => catalog = lock'.release)
  <1>1. EvidenceKept /\ Progress(p) /\ TypeOK BY OwnHolds DEF Own
  <1>2. CASE Refreshes(p)
    <2>1. catalog = lock'.release /\ saved[p] BY <1>2, PublishedLock
    <2>2. backup = plan[p].catalog BY <1>1, <2>1 DEF Progress, Unpublished
    <2>3. plan[p] \in Plans /\ PlanSound(p) BY OwnHolds DEF Planned
    <2>4. plan[p].lock # None /\ plan[p].catalog = plan[p].lock.release
      BY <1>2, <2>3 DEF Refreshes, PlanSound
    <2>5. backup # None BY <2>2, <2>3, <2>4, NoneAssumption DEF Plans, Locks
    <2> QED BY <2>1, <2>5 DEF EvidenceKept
  <1>3. CASE ~Refreshes(p)
    <2>1. ~saved[p] BY <1>1, <1>3 DEF Progress
    <2>2. CASE lock = None
      <3>1. catalog = lock'.release BY <2>2, PublishedLock
      <3>2. plan[p] \in Plans /\ PlanSound(p) BY OwnHolds DEF Planned
      <3> QED BY <2>1, <3>1 DEF EvidenceKept
    <2>3. CASE lock # None
      <3>1. lock'.release = lock.release /\ lock' # None BY <1>3, <2>3, PublishedLock
      <3> QED BY <1>1, <2>1, <2>3, <3>1 DEF EvidenceKept
    <2> QED BY <2>2, <2>3
  <1> QED BY <1>2, <1>3

(* Publishing the lock, finishing, and undoing a refresh. *)
LEMMA FinishingOwn ==
  ASSUME Inductive, NEW p \in Procs, PublishLock(p) \/ Settle(p) \/ Unwind(p)
  PROVE  Own(p)'
  <1>1. TypeOK /\ Own(p) /\ EvidenceKept /\ Progress(p) BY OwnHolds DEF Own
  <1>2. plan[p] \in Plans /\ PlanSound(p)
    BY OwnHolds DEF Planned, PublishLock, Settle, Unwind
  <1>3. CASE PublishLock(p)
    <2>1. PICK label \in {"settle", "unwind"} :
            /\ Move(p, label) /\ pc[p] = "publish" /\ UNCHANGED <<catalog, backup>>
            /\ IF label = "settle" THEN lock' = NextLock(p) ELSE lock' = lock
      BY <1>3 DEF PublishLock
    <2>2. /\ pc'[p] = label /\ plan'[p] = plan[p] /\ due'[p] = due[p] /\ saved'[p] = saved[p]
      BY <1>1, <2>1, MoveLocal
    <2>3. Refreshes(p)' <=> Refreshes(p) BY <2>2 DEF Refreshes
    <2>4. plan[p].kind \in {"reconcile", "relock"} BY <1>2, <2>1 DEF PlanSound, KindAt
    <2>5. PlanSound(p)' BY <1>2, <2>2, <2>4 DEF PlanSound, KindAt
    <2>6. CASE label = "settle"
      <3>1. EvidenceKept' /\ (saved[p] => catalog = lock'.release) /\ lock' # None
        BY <2>1, <2>6, PublishedEvidence, PublishedLock
      <3>2. Progress(p)' BY <1>1, <2>1, <2>2, <2>3, <2>6, <3>1 DEF Progress, Unpublished
      <3> QED BY <2>5, <3>1, <3>2 DEF Own
    <2>7. CASE label = "unwind"
      <3>1. EvidenceKept' BY <1>1, <2>1, <2>7 DEF EvidenceKept
      <3>2. Progress(p)' BY <1>1, <2>1, <2>2, <2>3, <2>7 DEF Progress, Unpublished
      <3> QED BY <2>5, <3>1, <3>2 DEF Own
    <2> QED BY <2>6, <2>7
  <1>4. CASE Settle(p)
    <2>1. saved[p] => lock # None /\ catalog = lock.release BY <1>1, <1>4 DEF Progress, Settle
    <2>2. EvidenceKept' BY <1>1, <1>4, <2>1 DEF Settle, EvidenceKept
    <2> QED BY <1>1, <1>4, <2>2, ExitOwn DEF Settle
  <1>5. CASE Unwind(p)
    <2>1. CASE saved[p]
      <3>1. Refreshes(p) /\ backup = plan[p].catalog /\ lock = plan[p].lock
        BY <1>1, <1>5, <2>1 DEF Progress, Unwind, Unpublished
      <3>2. plan[p].lock # None /\ plan[p].catalog = lock.release
        BY <1>2, <3>1 DEF PlanSound, Refreshes
      <3>3. catalog' = plan[p].catalog /\ backup' = None /\ lock' = lock
        BY <1>5, <2>1, <3>1 DEF Unwind
      <3> QED BY <1>1, <1>5, <3>2, <3>3, ExitOwn DEF Unwind, EvidenceKept
    <2>2. CASE ~saved[p] BY <1>1, <1>5, <2>2, ExitUnchanged DEF Unwind, control
    <2> QED BY <2>1, <2>2
  <1> QED BY <1>3, <1>4, <1>5

(* Recovery and config edits. *)
LEMMA MendingOwn ==
  ASSUME Inductive, NEW p \in Procs,
         \/ Mend(p) \/ Sweep(p) \/ SweepDone(p) \/ Prune(p) \/ Regrow(p)
         \/ \E c \in Configs : WriteConfig(p, c)
  PROVE  Own(p)'
  <1>1. TypeOK /\ Own(p) /\ EvidenceKept /\ Progress(p) BY OwnHolds DEF Own
  <1> USE DEF world, control
  <1>2. CASE Mend(p)
    <2>1. CASE ~EvidenceCurrent(p) BY <1>2, <2>1, ExitUnchanged DEF Mend
    <2>2. CASE EvidenceCurrent(p)
      <3>1. plan[p] \in Plans /\ PlanSound(p) BY <1>2, OwnHolds DEF Planned, Mend
      <3>2. plan[p].kind = "refresh" BY <1>2, <3>1 DEF Mend, PlanSound, KindAt
      <3>3. lock # None /\ lock.release \in {catalog, backup}
        BY <2>2, <3>1, <3>2 DEF PlanSound, EvidenceCurrent
      <3>4. catalog' = lock.release /\ lock' = lock /\ backup' = backup
        BY <1>2, <2>2, <3>3 DEF Mend
      <3> Move(p, "sweep") BY <1>2, <2>2 DEF Mend
      <3>5. /\ pc'[p] = "sweep" /\ plan'[p] = plan[p] /\ due'[p] = due[p] /\ saved'[p] = saved[p]
        BY <1>1, MoveLocal
      <3>6. PlanSound(p)' BY <3>1, <3>2, <3>5 DEF PlanSound, KindAt
      <3>7. Refreshes(p)' <=> Refreshes(p) BY <3>5 DEF Refreshes
      <3>8. ~saved[p] BY <1>1, <1>2 DEF Progress, Mend, Unpublished
      <3>9. Progress(p)' BY <1>1, <3>3, <3>4, <3>5, <3>7, <3>8 DEF Progress, Unpublished
      <3>10. EvidenceKept' BY <3>3, <3>4 DEF EvidenceKept
      <3> QED BY <3>6, <3>9, <3>10 DEF Own
    <2> QED BY <1>2, <2>1, <2>2 DEF Mend
  <1>3. CASE Sweep(p)
    BY <1>1, <1>3 DEF Sweep, command, Own, PlanSound, Progress, EvidenceKept, Refreshes
  <1>4. CASE SweepDone(p)
    <2>1. plan[p] \in Plans /\ PlanSound(p) BY <1>4, OwnHolds DEF Planned, SweepDone
    <2>2. Move(p, "prune") /\ pc[p] = "sweep" /\ UNCHANGED control BY <1>4 DEF SweepDone
    <2>3. /\ pc'[p] = "prune" /\ plan'[p] = plan[p] /\ due'[p] = due[p] /\ saved'[p] = saved[p]
      BY <1>1, <2>2, MoveLocal
    <2>4. PlanSound(p)' BY <2>1, <2>2, <2>3 DEF PlanSound, KindAt
    <2>5. Refreshes(p)' <=> Refreshes(p) BY <2>3 DEF Refreshes
    <2>6. Progress(p)' BY <1>1, <2>2, <2>3, <2>5 DEF Progress, Unpublished
    <2> QED BY <1>1, <2>2, <2>4, <2>6 DEF Own, EvidenceKept
  <1>5. CASE Prune(p)
    <2>1. lock # None /\ catalog = lock.release BY <1>1, <1>5 DEF Prune, Progress
    <2> QED BY <1>1, <1>5, <2>1, ExitOwn DEF Prune, EvidenceKept
  <1>6. CASE Regrow(p)
    <2>1. plan[p] \in Plans /\ PlanSound(p) BY <1>6, OwnHolds DEF Planned, Regrow
    <2>2. plan[p].lock # None /\ plan[p].lock.release = Tool[p]
      BY <1>6, <2>1 DEF Regrow, PlanSound, KindAt
    <2>3. EvidenceKept' BY <1>1, <1>6, <2>2 DEF Regrow, EvidenceKept
    <2> QED BY <1>1, <1>6, <2>3, ExitOwn DEF Regrow
  <1>7. CASE \E c \in Configs : WriteConfig(p, c)
    BY <1>7, ExitUnchanged DEF WriteConfig
  <1> QED BY <1>2, <1>3, <1>4, <1>5, <1>6, <1>7

(***************************************************************************)
(* Faults.  The fsync after the lock's rename is excluded: when it raises, *)
(* the handler takes a published lock for an unpublished one.              *)
(***************************************************************************)
LEMMA FaultOwn ==
  ASSUME Inductive, "publish" \notin Slips, NEW p \in Procs, Fault(p)
  PROVE  Own(p)'
  <1>1. TypeOK /\ Own(p) /\ EvidenceKept /\ Progress(p) BY OwnHolds DEF Own
  <1> USE DEF world, control
  <1>2. CASE Fail(p)
    <2>1. CASE pc[p] \in Publishing
      <3>1. plan[p] \in Plans /\ PlanSound(p) BY <2>1, OwnHolds DEF Planned
      <3>2. Move(p, "unwind") /\ UNCHANGED control BY <1>2, <2>1 DEF Fail
      <3>3. /\ pc'[p] = "unwind" /\ plan'[p] = plan[p] /\ due'[p] = due[p] /\ saved'[p] = saved[p]
        BY <1>1, <3>2, MoveLocal
      <3>4. PlanSound(p)' BY <2>1, <3>1, <3>3 DEF PlanSound, KindAt
      <3>5. Refreshes(p)' <=> Refreshes(p) BY <3>3 DEF Refreshes
      <3>6. Progress(p)' BY <1>1, <2>1, <3>2, <3>3, <3>5 DEF Progress, Unpublished
      <3> QED BY <1>1, <3>2, <3>4, <3>6 DEF Own, EvidenceKept
    <2>2. CASE pc[p] \notin Publishing BY <1>2, <2>2, ExitUnchanged DEF Fail
    <2> QED BY <2>1, <2>2
  <1>3. CASE Slip(p)
    <2>1. pc[p] \in {"save", "swap"} BY <1>3, FaultAssumption DEF Slip, Slippery
    <2>2. plan[p] \in Plans /\ PlanSound(p) BY <2>1, OwnHolds DEF Planned
    <2>3. Move(p, "unwind") /\ lock' = lock BY <1>3, <2>1 DEF Slip
    <2>4. /\ pc'[p] = "unwind" /\ plan'[p] = plan[p] /\ due'[p] = due[p] /\ saved'[p] = saved[p]
      BY <1>1, <2>3, MoveLocal
    <2>5. PlanSound(p)' BY <2>1, <2>2, <2>4 DEF PlanSound, KindAt
    <2>6. Refreshes(p)' <=> Refreshes(p) BY <2>4 DEF Refreshes
    <2>7. CASE pc[p] = "save"
      <3>1. backup' = catalog /\ catalog' = catalog BY <1>3, <2>7 DEF Slip
      <3>2. ~saved[p] /\ lock = plan[p].lock /\ catalog = plan[p].catalog /\ Refreshes(p)
        BY <1>1, <2>7 DEF Progress, Unpublished
      <3>3. catalog = lock.release /\ plan[p].kind = "reconcile" BY <2>2, <3>2 DEF PlanSound, Refreshes
      <3>4. EvidenceKept' BY <2>3, <3>1, <3>3 DEF EvidenceKept
      <3>5. Progress(p)' BY <1>1, <2>3, <2>4, <2>6, <2>7, <3>1, <3>2, <3>3 DEF Progress, Unpublished
      <3> QED BY <2>5, <3>4, <3>5 DEF Own
    <2>8. CASE pc[p] = "swap"
      <3>1. PICK i \in due[p] : Publish(p, i) BY <1>3, <2>8 DEF Slip
      <3>2. backup' = backup BY <1>3, <2>8 DEF Slip
      <3>3. catalog' = catalog \/ (Refreshes(p) /\ catalog' = Tool[p])
        BY <1>1, <3>1 DEF Publish, Progress
      <3>4. plan[p].kind = "relock" => catalog' = catalog BY <3>3 DEF Refreshes
      <3>5. Progress(p)' BY <1>1, <2>3, <2>4, <2>6, <2>8, <3>2, <3>4 DEF Progress, Unpublished
      <3>6. EvidenceKept'
        <4>1. CASE catalog' = catalog BY <1>1, <2>3, <3>2, <4>1 DEF EvidenceKept
        <4>2. CASE Refreshes(p) /\ catalog' = Tool[p]
          <5>1. lock # None /\ lock \in Locks /\ backup = lock.release
            BY <1>1, <2>2, <2>8, <4>2 DEF Progress, PlanSound, Refreshes, TypeOK, Unpublished
          <5>2. backup # None BY <5>1, NoneAssumption DEF Locks
          <5> QED BY <2>3, <3>2, <4>2, <5>1, <5>2 DEF EvidenceKept
        <4> QED BY <3>3, <4>1, <4>2
      <3> QED BY <2>5, <3>5, <3>6 DEF Own
    <2> QED BY <2>1, <2>7, <2>8
  <1>4. CASE LeaveBackup(p) BY <1>4, ExitUnchanged DEF LeaveBackup
  <1>5. CASE Crash(p) BY <1>5, ExitUnchanged DEF Crash
  <1> QED BY <1>2, <1>3, <1>4, <1>5 DEF Fault

(* The commands that hold no exclusive lock lose nothing when its owner    *)
(* changes the control files.                                              *)
LEMMA OthersOwn ==
  ASSUME Inductive, NEW p \in Procs, Step(p), NEW q \in Procs \ {p}
  PROVE  (plan'[q] # None => PlanSound(q)') /\ Progress(q)'
  <1>1. Local(p) /\ (UNCHANGED control \/ pc[p] \in Owning)
    BY StepLocal DEF Inductive, TypeInv
  <1>2. /\ pc'[q] = pc[q] /\ plan'[q] = plan[q] /\ due'[q] = due[q] /\ saved'[q] = saved[q]
    BY <1>1 DEF Local
  <1>3. Own(q) BY OwnHolds
  <1>4. Refreshes(q)' <=> Refreshes(q) BY <1>2 DEF Refreshes
  <1>5. plan'[q] # None => PlanSound(q)' BY <1>2, <1>3 DEF Own, PlanSound
  <1>6. CASE UNCHANGED control
    BY <1>2, <1>3, <1>4, <1>5, <1>6 DEF Own, Progress, control
  <1>7. CASE pc[q] \in Unlocked
    BY <1>2, <1>3, <1>4, <1>5, <1>7 DEF Own, Progress, Unpublished
  <1> QED BY <1>1, <1>6, <1>7 DEF Inductive, Exclusion

LEMMA InductiveStep ==
  ASSUME "publish" \notin Slips
  PROVE  Inductive /\ [Next]_vars => Inductive'
  <1> SUFFICES ASSUME Inductive, [Next]_vars PROVE Inductive'
    OBVIOUS
  <1>1. TypeOK' /\ PlanHeld' /\ Exclusion'
    BY TypeStep, ExclusionStep DEF Inductive, TypeInv
  <1>2. ASSUME NEW p \in Procs, Step(p)
        PROVE  PlansSound' /\ EvidenceKept' /\ \A q \in Procs : Progress(q)'
    <2>1. Own(p)'
      BY <1>2, PlanningOwn, PublishingOwn, FinishingOwn, MendingOwn, FaultOwn DEF Step, Proceed
    <2>2. \A q \in Procs \ {p} : (plan'[q] # None => PlanSound(q)') /\ Progress(q)'
      BY <1>2, OthersOwn
    <2> QED BY <2>1, <2>2 DEF Own, PlansSound
  <1>3. ASSUME NEW t \in Targets, Tamper(t)
        PROVE  PlansSound' /\ EvidenceKept' /\ \A q \in Procs : Progress(q)'
    BY <1>3 DEF Tamper, control, command, Inductive, PlansSound, PlanSound, EvidenceKept,
                Progress, Refreshes
  <1>4. CASE LoseFile
    <2>1. \A q \in Procs : pc[q] \in Unlocked /\ UNCHANGED command
      BY <1>4 DEF LoseFile, AtRest
    <2>2. EvidenceKept' BY <1>4 DEF LoseFile, EvidenceKept
    <2>3. PlansSound' BY <2>1 DEF Inductive, PlansSound, PlanSound, command
    <2>4. \A q \in Procs : Progress(q)'
      BY <2>1 DEF Inductive, Progress, Refreshes, command, Unpublished
    <2> QED BY <1>1, <2>2, <2>3, <2>4 DEF Inductive
  <1>5. CASE UNCHANGED vars
    <2>1. UNCHANGED <<catalog, backup, lock, pc, plan, due, saved>>
      BY <1>5 DEF vars, world, command
    <2>2. PlansSound' BY <2>1 DEF Inductive, PlansSound, PlanSound
    <2>3. EvidenceKept' BY <2>1 DEF Inductive, EvidenceKept
    <2>4. \A q \in Procs : Progress(q)' BY <2>1 DEF Inductive, Progress, Refreshes
    <2> QED BY <1>1, <2>2, <2>3, <2>4 DEF Inductive
  <1> QED BY <1>1, <1>2, <1>3, <1>4, <1>5 DEF Next, Consumer, Step, Inductive

LEMMA InductiveInit == Init => Inductive
  <1> SUFFICES ASSUME Init PROVE Inductive
    OBVIOUS
  <1>1. TypeOK /\ PlanHeld BY TypeInit DEF TypeInv
  <1> QED BY <1>1, NoneAssumption, ReleaseAssumption
          DEF Init, Inductive, Exclusion, PlansSound, EvidenceKept, Progress, Unpublished

(* The inductive invariant holds in every reachable state, provided the    *)
(* fsync after the lock's rename never raises.                             *)
THEOREM InductiveHolds ==
  ASSUME "publish" \notin Slips
  PROVE  Spec => []Inductive
  <1>1. Init => Inductive BY InductiveInit
  <1>2. Inductive /\ [Next]_vars => Inductive' BY InductiveStep
  <1> QED BY <1>1, <1>2, PTL DEF Spec

(* The evidence invariant rules out the INCONSISTENT verdict for a tool of *)
(* any release.                                                            *)
LEMMA EvidenceMeansNoVerdict == Inductive => EvidenceSurvives
  BY NoneAssumption DEF Inductive, EvidenceSurvives, EvidenceKept, Verdict

(* Whatever fails or dies, wherever, no tool ever finds catalog, backup    *)
(* and lock inconsistent: the previous lock and a catalog it names survive *)
(* (_load_initialized_state, _apply_locked, recovery.py).                  *)
THEOREM EvidenceAlwaysSurvives ==
  ASSUME "publish" \notin Slips
  PROVE  Spec => []EvidenceSurvives
  <1>1. Spec => []Inductive BY InductiveHolds
  <1>2. Inductive => EvidenceSurvives BY EvidenceMeansNoVerdict
  <1> QED BY <1>1, <1>2, PTL

-----------------------------------------------------------------------------
(* The authority the files implement. *)

Base == [q \in Procs |-> IF plan[q] = None THEN {} ELSE {plan[q].lock}]

(* A reader resolves the release the lock names, unless catalog.toml is lost. *)
LEMMA LineageNamed ==
  ASSUME Inductive, lock # None, catalog # None
  PROVE  Lineage = lock.release
  BY DEF Inductive, EvidenceKept, Lineage

(* A local step that keeps lock and lineage begins, drops, or is invisible. *)
LEMMA QuietStep ==
  ASSUME NEW p \in Procs, Local(p), lock' = lock, Lineage' = Lineage,
         \/ plan'[p] = None
         \/ plan[p] # None /\ plan'[p] # None /\ plan'[p].lock = plan[p].lock
         \/ plan[p] = None /\ plan'[p] # None /\ plan'[p].lock = lock
  PROVE  [Promise!Next]_(Promise!vars)
  <1> DEFINE held == IF plan'[p] = None THEN {} ELSE {plan'[p].lock}
  <1>1. Base' = [Base EXCEPT ![p] = held] BY DEF Base, Local
  <1>2. Base[p] = IF plan[p] = None THEN {} ELSE {plan[p].lock} BY DEF Base
  <1>3. CASE held = Base[p]
    <2>1. Base' = Base BY <1>1, <1>3 DEF Base
    <2> QED BY <2>1 DEF Promise!vars, Base
  <1>4. CASE plan'[p] = None /\ plan[p] # None
    <2>1. Base[p] # {} /\ Base' = [Base EXCEPT ![p] = {}] BY <1>1, <1>2, <1>4
    <2>2. Promise!Drop(p) BY <2>1 DEF Promise!Drop, Base
    <2> QED BY <2>2 DEF Promise!Next
  <1>5. CASE plan'[p] # None /\ plan[p] = None
    <2>1. Base[p] = {} /\ Base' = [Base EXCEPT ![p] = {lock}] BY <1>1, <1>2, <1>5
    <2>2. Promise!Begin(p) BY <2>1 DEF Promise!Begin, Base
    <2> QED BY <2>2 DEF Promise!Next
  <1> QED BY <1>2, <1>3, <1>4, <1>5

(* Steps that touch no control file are quiet, *)
LEMMA ControlKept ==
  ASSUME Inductive, NEW p \in Procs, Step(p), UNCHANGED control,
         plan'[p] # None /\ plan[p] # None => plan'[p].lock = plan[p].lock,
         plan'[p] # None /\ plan[p] = None => plan'[p].lock = lock
  PROVE  [Promise!Next]_(Promise!vars)
  <1>1. Local(p) BY StepLocal DEF Inductive, TypeInv
  <1>2. lock' = lock /\ Lineage' = Lineage BY DEF control, Lineage
  <1> QED BY <1>1, <1>2, QuietStep

(* and so is every exit that keeps lock and lineage. *)
LEMMA QuietExit ==
  ASSUME Inductive, NEW p \in Procs, Exit(p), lock' = lock, Lineage' = Lineage
  PROVE  [Promise!Next]_(Promise!vars)
  BY ExitLocal, QuietStep DEF Inductive

(* Publishing the lock is the commit. *)
LEMMA PublishCommits ==
  ASSUME Inductive, NEW p \in Procs, pc[p] = "publish",
         lock' = NextLock(p), UNCHANGED <<catalog, backup, plan>>
  PROVE  Promise!Commit(p)
  <1>1. /\ lock' \in Locks /\ lock' # None /\ lock'.release = Tool[p] /\ lock = plan[p].lock
        /\ (Refreshes(p) => catalog = Tool[p])
        /\ (~Refreshes(p) /\ lock # None => lock.release = Tool[p])
        /\ (lock = None => catalog = Tool[p] /\ ~Refreshes(p))
        /\ (lock # None => lock \in Locks /\ lock.release <= Tool[p])
    BY PublishedLock
  <1>2. plan[p] # None BY OwnHolds, NoneAssumption DEF Planned
  <1>3. Base[p] = {lock} /\ Base' = Base BY <1>1, <1>2 DEF Base
  <1>4. EvidenceKept' BY PublishedEvidence
  <1>5. catalog # None => Lineage' = lock'.release
    BY <1>1, <1>4 DEF EvidenceKept, Lineage
  <1>6. Tool[p] \in Nat /\ Tool[p] # None BY ReleaseAssumption, NoneAssumption
  <1>7. CASE catalog # None
    <2>1. lock = None => lock'.release = Lineage BY <1>1, <1>7 DEF Lineage
    <2>2. lock # None => lock'.release >= lock.release
      BY <1>1, <1>6, ReleaseAssumption DEF Locks
    <2>3. Lineage # None
      <3>1. CASE lock = None BY <1>7, <3>1 DEF Lineage
      <3>2. CASE lock # None BY <1>1, <1>7, <3>2, LineageNamed, NoneAssumption DEF Locks
      <3> QED BY <3>1, <3>2
    <2> QED BY <1>1, <1>3, <1>5, <1>7, <2>1, <2>2, <2>3 DEF Promise!Commit, Base
  <1>8. CASE catalog = None
    <2>1. lock # None /\ lock.release = Tool[p] BY <1>1, <1>6, <1>8
    <2>2. lock'.release = lock.release /\ lock'.release >= lock.release BY <1>1, <1>6, <2>1
    <2>3. Lineage' = Lineage BY <1>1, <1>8, <2>1 DEF Lineage
    <2>4. Lineage # None => Lineage = lock.release BY <1>8 DEF Lineage
    <2> QED BY <1>1, <1>3, <2>1, <2>2, <2>3, <2>4 DEF Promise!Commit, Base
  <1> QED BY <1>7, <1>8

(* Regenerating a lost catalog is the abstract regrowth, unless a backup   *)
(* still names the lineage.                                                *)
LEMMA RegrowRegrows ==
  ASSUME Inductive, NEW p \in Procs, Regrow(p)
  PROVE  [Promise!Next]_(Promise!vars)
  <1>1. TypeOK /\ Exit(p) /\ lock' = lock /\ backup' = backup BY DEF Regrow, Inductive
  <1>2. plan[p] \in Plans /\ PlanSound(p) BY OwnHolds DEF Planned, Regrow
  <1>3. plan[p].lock # None /\ plan[p].lock.release = Tool[p]
    BY <1>2 DEF Regrow, PlanSound, KindAt
  <1>4. CASE catalog' = catalog BY <1>1, <1>4, QuietExit DEF Lineage
  <1>5. CASE catalog' # catalog
    <2>1. catalog = None /\ lock = plan[p].lock /\ catalog' = Tool[p] BY <1>5 DEF Regrow
    <2>2. Lineage' = lock.release BY <1>1, <1>3, <2>1 DEF Lineage
    <2>3. CASE Lineage = lock.release BY <1>1, <2>2, <2>3, QuietExit
    <2>4. CASE Lineage # lock.release
      <3>1. Lineage = None BY <2>1, <2>4 DEF Lineage
      <3>2. Base[p] = {lock} BY <1>2, <2>1, NoneAssumption DEF Base
      <3>3. Base' = [Base EXCEPT ![p] = {}] BY <1>1, ExitLocal DEF Base, Local
      <3>4. Promise!Regrow(p) BY <1>1, <1>3, <2>1, <2>2, <3>1, <3>2, <3>3 DEF Promise!Regrow, Base
      <3> QED BY <3>4 DEF Promise!Next
    <2> QED BY <2>3, <2>4
  <1> QED BY <1>4, <1>5

(* Every step of a running command implements a step of the authority.     *)
LEMMA ProceedRefines ==
  ASSUME Inductive, NEW p \in Procs, Proceed(p)
  PROVE  [Promise!Next]_(Promise!vars)
  <1>1. TypeOK /\ EvidenceKept /\ Progress(p) BY OwnHolds DEF Own, Inductive
  <1>2. Step(p) BY DEF Step
  <1> USE DEF world, control
  <1>3. CASE \/ Inspect(p) \/ PlanTargets(p) \/ Diagnose(p) \/ Assess(p) \/ Acquire(p)
             \/ Recheck(p) \/ CheckTarget(p) \/ CheckDone(p) \/ Verify(p)
             \/ Sweep(p) \/ SweepDone(p) \/ \E c \in Configs : WriteConfig(p, c)
    <2>1. UNCHANGED control
      BY <1>3 DEF Inspect, PlanTargets, Diagnose, Assess, Acquire, Recheck, CheckTarget,
                  CheckDone, Verify, Sweep, SweepDone, WriteConfig, command
    <2>2. CASE Inspect(p)
      <3>1. plan'[p] = None \/ plan'[p].lock = lock
        <4>1. CASE Exit(p) BY <1>1, <4>1, ExitLocal
        <4>2. CASE Verdict(p) = "initialized"
          <5>1. plan'[p] = Request("reconcile") BY <1>1, <2>2, <4>2 DEF Inspect, TypeOK
          <5> QED BY <5>1 DEF Request
        <4> QED BY <2>2, <4>1, <4>2 DEF Inspect
      <3>2. plan[p] = None BY <2>2, OwnHolds DEF Inspect, Planned
      <3> QED BY <1>2, <2>1, <3>1, <3>2, ControlKept
    <2>3. CASE PlanTargets(p)
      <3>1. plan[p] \in Plans BY <2>3, OwnHolds DEF PlanTargets, Planned
      <3>2. plan'[p] = None \/ plan'[p].lock = plan[p].lock
        <4>1. CASE Exit(p) BY <1>1, <4>1, ExitLocal
        <4>2. CASE ~(Refreshes(p) /\ catalog # plan[p].catalog)
          <5>1. plan'[p] = [plan[p] EXCEPT !.seen = Snapshot(plan[p], disk, Tool[p])]
            BY <1>1, <2>3, <4>2 DEF PlanTargets, TypeOK
          <5> QED BY <3>1, <5>1 DEF Plans
        <4> QED BY <2>3, <4>1, <4>2 DEF PlanTargets
      <3>3. plan[p] # None BY <3>1, NoneAssumption
      <3> QED BY <1>2, <2>1, <3>2, <3>3, ControlKept
    <2>4. CASE Assess(p)
      <3>1. plan'[p] = None \/ plan'[p].lock = lock
        <4>1. CASE Exit(p) BY <1>1, <4>1, ExitLocal
        <4>2. CASE CanShare(p) /\ RecoveryKind(p) # "refused"
          BY <1>1, <2>4, <4>2 DEF Assess, Request, TypeOK
        <4> QED BY <2>4, <4>1, <4>2 DEF Assess
      <3>2. plan[p] = None BY <2>4, OwnHolds DEF Assess, Planned
      <3> QED BY <1>2, <2>1, <3>1, <3>2, ControlKept
    <2>5. CASE Exit(p) BY <2>1, <2>5, QuietExit DEF Lineage
    <2>6. CASE plan' = plan BY <1>2, <2>1, <2>6, ControlKept
    <2> QED BY <1>3, <2>2, <2>3, <2>4, <2>5, <2>6
            DEF Diagnose, Acquire, Recheck, CheckTarget, CheckDone, Verify, Sweep, SweepDone,
                WriteConfig, Move, command
  <1>4. CASE SaveBackup(p)
    <2>1. /\ plan' = plan /\ lock' = lock /\ catalog' = catalog /\ backup' = catalog
          /\ pc[p] = "save"
      BY <1>4 DEF SaveBackup
    <2>2. Lineage' = Lineage BY <1>1, <2>1 DEF Lineage, EvidenceKept, Progress
    <2> QED BY <1>2, <2>1, <2>2, StepLocal, QuietStep, OwnHolds DEF Planned, Inductive, TypeInv, PlanHeld
  <1>5. CASE SwapTarget(p)
    <2>1. /\ plan' = plan /\ lock' = lock /\ backup' = backup /\ pc[p] = "swap"
          /\ (catalog' = catalog \/ Refreshes(p))
      BY <1>1, <1>5 DEF SwapTarget, Publish, Progress
    <2>2. Lineage' = Lineage
      <3>1. CASE catalog' = catalog BY <2>1, <3>1 DEF Lineage
      <3>2. CASE Refreshes(p)
        <4>1. plan[p] \in Plans /\ PlanSound(p) BY <2>1, OwnHolds DEF Planned
        <4>2. lock # None /\ backup = lock.release
          BY <1>1, <2>1, <3>2, <4>1 DEF Progress, PlanSound, Refreshes, Unpublished
        <4> QED BY <2>1, <4>2 DEF Lineage
      <3> QED BY <2>1, <3>1, <3>2
    <2> QED BY <1>2, <2>1, <2>2, StepLocal, QuietStep, OwnHolds DEF Planned, Inductive, TypeInv, PlanHeld
  <1>6. CASE PublishLock(p)
    <2>1. pc[p] = "publish" /\ UNCHANGED <<catalog, backup, plan>>
      BY <1>6 DEF PublishLock, Move
    <2>2. CASE lock' = NextLock(p) BY <2>1, <2>2, PublishCommits DEF Promise!Next
    <2>3. CASE lock' = lock
      BY <1>2, <2>1, <2>3, ControlKept, OwnHolds DEF Planned, Inductive, PlanHeld
    <2> QED BY <1>6, <2>2, <2>3 DEF PublishLock
  <1>7. CASE Settle(p)
    <2>1. saved[p] => lock # None /\ catalog = lock.release BY <1>1, <1>7 DEF Progress, Settle
    <2>2. Lineage' = Lineage /\ lock' = lock BY <1>7, <2>1 DEF Settle, Lineage
    <2> QED BY <1>7, <2>2, QuietExit DEF Settle
  <1>8. CASE Unwind(p)
    <2>1. CASE saved[p]
      <3>1. Refreshes(p) /\ backup = plan[p].catalog /\ lock = plan[p].lock
        BY <1>1, <1>8, <2>1 DEF Progress, Unwind, Unpublished
      <3>2. PlanSound(p) BY <1>8, OwnHolds DEF Planned, Unwind
      <3>3. lock # None /\ plan[p].catalog = lock.release /\ backup = lock.release
        BY <3>1, <3>2 DEF PlanSound, Refreshes
      <3>4. catalog' = lock.release /\ backup' = None /\ lock' = lock
        BY <1>8, <2>1, <3>1, <3>3 DEF Unwind
      <3>5. Lineage' = Lineage BY <3>3, <3>4 DEF Lineage
      <3> QED BY <1>8, <3>4, <3>5, QuietExit DEF Unwind
    <2>2. CASE ~saved[p]
      <3>1. UNCHANGED control BY <1>8, <2>2 DEF Unwind
      <3> QED BY <1>8, <3>1, QuietExit DEF Unwind, Lineage
    <2> QED BY <2>1, <2>2
  <1>9. CASE Mend(p)
    <2>1. CASE ~EvidenceCurrent(p)
      <3>1. UNCHANGED control BY <1>9, <2>1 DEF Mend
      <3> QED BY <1>9, <2>1, <3>1, QuietExit DEF Mend, Lineage
    <2>2. CASE EvidenceCurrent(p)
      <3>1. plan[p] \in Plans /\ PlanSound(p) BY <1>9, OwnHolds DEF Planned, Mend
      <3>2. plan[p].kind = "refresh" BY <1>9, <3>1 DEF Mend, PlanSound, KindAt
      <3>3. lock # None /\ lock.release \in {catalog, backup}
        BY <2>2, <3>1, <3>2 DEF PlanSound, EvidenceCurrent
      <3>4. catalog' = lock.release /\ lock' = lock /\ plan' = plan
        BY <1>9, <2>2, <3>3 DEF Mend, Move
      <3>5. Lineage' = Lineage BY <3>3, <3>4 DEF Lineage
      <3> QED BY <1>2, <1>9, <3>1, <3>4, <3>5, StepLocal, QuietStep, NoneAssumption
              DEF Inductive, TypeInv
    <2> QED BY <2>1, <2>2
  <1>10. CASE Prune(p)
    <2>1. lock # None /\ catalog = lock.release BY <1>1, <1>10 DEF Prune, Progress
    <2>2. Lineage' = Lineage /\ lock' = lock BY <1>10, <2>1 DEF Prune, Lineage
    <2> QED BY <1>10, <2>2, QuietExit DEF Prune
  <1>11. CASE Regrow(p) BY <1>11, RegrowRegrows
  <1> QED BY <1>3, <1>4, <1>5, <1>6, <1>7, <1>8, <1>9, <1>10, <1>11 DEF Proceed

(* Faults are quiet: a failed or dying command commits nothing. *)
LEMMA FaultRefines ==
  ASSUME Inductive, "publish" \notin Slips, NEW p \in Procs, Fault(p)
  PROVE  [Promise!Next]_(Promise!vars)
  <1>1. TypeOK /\ EvidenceKept /\ Progress(p) BY OwnHolds DEF Own, Inductive
  <1>2. Step(p) BY DEF Step
  <1> USE DEF world, control
  <1>3. CASE Fail(p)
    <2>1. UNCHANGED control BY <1>3 DEF Fail
    <2>2. CASE Exit(p) BY <2>1, <2>2, QuietExit DEF Lineage
    <2>3. CASE Move(p, "unwind") /\ pc[p] \in Publishing
      BY <1>2, <2>1, <2>3, ControlKept, OwnHolds DEF Move, Planned, Inductive, PlanHeld
    <2> QED BY <1>3, <2>2, <2>3 DEF Fail
  <1>4. CASE Slip(p)
    <2>1. pc[p] \in {"save", "swap"} BY <1>4, FaultAssumption DEF Slip, Slippery
    <2>2. plan' = plan /\ lock' = lock BY <1>4, <2>1 DEF Slip, Move
    <2>3. plan[p] \in Plans /\ PlanSound(p) /\ plan[p] # None
      BY <2>1, OwnHolds, NoneAssumption DEF Planned
    <2>4. Lineage' = Lineage
      <3>1. CASE pc[p] = "save"
        <4>1. backup' = catalog /\ catalog' = catalog BY <1>4, <3>1 DEF Slip
        <4>2. backup = None BY <1>1, <3>1 DEF Progress
        <4> QED BY <1>1, <2>2, <4>1, <4>2 DEF Lineage, EvidenceKept
      <3>2. CASE pc[p] = "swap"
        <4>1. PICK i \in due[p] : Publish(p, i) BY <1>4, <3>2 DEF Slip
        <4>2. backup' = backup BY <1>4, <3>2 DEF Slip
        <4>3. CASE catalog' = catalog BY <2>2, <4>2, <4>3 DEF Lineage
        <4>4. CASE Refreshes(p)
          <5>1. lock # None /\ backup = lock.release
            BY <1>1, <2>3, <3>2, <4>4 DEF Progress, PlanSound, Refreshes, Unpublished
          <5> QED BY <2>2, <4>2, <5>1 DEF Lineage
        <4> QED BY <1>1, <4>1, <4>3, <4>4 DEF Publish, Progress
      <3> QED BY <2>1, <3>1, <3>2
    <2> QED BY <1>2, <2>2, <2>3, <2>4, StepLocal, QuietStep DEF Inductive, TypeInv
  <1>5. CASE LeaveBackup(p)
    <2>1. Exit(p) /\ UNCHANGED control BY <1>5 DEF LeaveBackup
    <2> QED BY <2>1, QuietExit DEF Lineage
  <1>6. CASE Crash(p)
    <2>1. Exit(p) /\ UNCHANGED control BY <1>6 DEF Crash
    <2> QED BY <2>1, QuietExit DEF Lineage
  <1> QED BY <1>3, <1>4, <1>5, <1>6 DEF Fault

LEMMA StepRefines ==
  ASSUME Inductive, "publish" \notin Slips, [Next]_vars
  PROVE  [Promise!Next]_(Promise!vars)
  <1>1. ASSUME NEW p \in Procs, Command(p) PROVE [Promise!Next]_(Promise!vars)
    <2>1. UNCHANGED control /\ plan' = plan
      BY <1>1 DEF Command, StartReconcile, StartRepair, StartEdit, Move, world, control
    <2>2. plan[p] = None
      BY <1>1, OwnHolds DEF Command, StartReconcile, StartRepair, StartEdit, Planned
    <2> QED BY <1>1, <2>1, <2>2, ControlKept DEF Step
  <1>2. ASSUME NEW p \in Procs, Proceed(p) \/ Fault(p) PROVE [Promise!Next]_(Promise!vars)
    BY <1>2, ProceedRefines, FaultRefines
  <1>3. ASSUME NEW t \in Targets, Tamper(t) PROVE [Promise!Next]_(Promise!vars)
    BY <1>3 DEF Tamper, control, command, Lineage, Promise!vars
  <1>4. CASE LoseFile
    <2>1. /\ catalog = lock.release /\ lock # None /\ catalog # None /\ backup = None
          /\ backup' = None /\ plan' = plan
          /\ (catalog' = None /\ lock' = lock) \/ (lock' = None /\ catalog' = catalog)
      BY <1>4 DEF LoseFile, Inductive, EvidenceKept, command
    <2>2. Lineage = lock.release BY <2>1 DEF Lineage
    <2>3. Promise!Lose
      <3>1. CASE catalog' = None /\ lock' = lock
        BY <2>1, <2>2, <3>1 DEF Promise!Lose, Lineage
      <3>2. CASE lock' = None /\ catalog' = catalog
        BY <2>1, <2>2, <3>2 DEF Promise!Lose, Lineage
      <3> QED BY <2>1, <3>1, <3>2
    <2> QED BY <2>3 DEF Promise!Next
  <1>5. CASE UNCHANGED vars
    BY <1>5 DEF vars, world, command, Lineage, Promise!vars
  <1> QED BY <1>1, <1>2, <1>3, <1>4, <1>5 DEF Next, Consumer

LEMMA InitRefines == Init => Promise!Init
  BY NoneAssumption, ReleaseAssumption DEF Init, Promise!Init, Lineage

(* Files renamed one by one by commands that fail, die and race implement  *)
(* an atomic authority: lock and lineage move together, only forward, and  *)
(* only for a command that planned against the lock it replaces.           *)
THEOREM AuthorityImplemented ==
  ASSUME "publish" \notin Slips
  PROVE  Spec => ImplementsAuthority
  <1>1. Init => Promise!Init BY InitRefines
  <1>2. Inductive /\ [Next]_vars => [Promise!Next]_(Promise!vars) BY StepRefines
  <1>3. Spec => []Inductive BY InductiveHolds
  <1> QED BY <1>1, <1>2, <1>3, PTL DEF Spec, ImplementsAuthority, Promise!Spec

=============================================================================
