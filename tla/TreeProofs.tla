----------------------------- MODULE TreeProofs -----------------------------
(***************************************************************************)
(* Proofs about the files Reconcile publishes: consumer bytes, the tree a  *)
(* lock names, and the release it names.  None assumes anything of Slips.  *)
(***************************************************************************)
EXTENDS ReconcileProofs

USE DEF Unlocked, Reading, Owning, Publishing, Mending

-----------------------------------------------------------------------------
(* The planner's operators. *)

(* What a plan decides depends on the plan alone. *)
LEMMA SamePlan ==
  ASSUME NEW p \in Procs, plan'[p] = plan[p]
  PROVE  /\ \A t \in Targets : Wanted(p, t)' = Wanted(p, t) /\ Owned(p, t)' = Owned(p, t)
         /\ Want(p)' = Want(p)
         /\ Writes(p)' = Writes(p) /\ Removes(p)' = Removes(p)
         /\ Mutating(p)' = Mutating(p)
         /\ Applicable(p)' = Applicable(p)
         /\ Refreshes(p)' = Refreshes(p)
         /\ Replaces(p)' = Replaces(p)
         /\ NextLock(p)' = NextLock(p)
  <1> USE DEF Want, Wanted, Owned, Bytes, Created
  <1>1. Writes(p)' = Writes(p) BY DEF Writes
  <1>2. Removes(p)' = Removes(p) BY DEF Removes
  <1>3. Refreshes(p)' = Refreshes(p) BY DEF Refreshes
  <1>4. Mutating(p)' = Mutating(p) BY <1>1, <1>2, <1>3 DEF Mutating
  <1>5. Applicable(p)' = Applicable(p) BY DEF Applicable, WantedConflict, RemovedConflict
  <1>6. Replaces(p)' = Replaces(p) BY DEF Replaces
  <1>7. NextLock(p)' = NextLock(p) BY DEF NextLock
  <1> QED BY <1>1, <1>2, <1>3, <1>4, <1>5, <1>6, <1>7

(* No release renders the bytes of a consumer, so an absent path is not    *)
(* an edited one.                                                          *)
LEMMA EditedRendered ==
  ASSUME NEW t \in Targets, NEW r \in Releases, NEW c \in Configs
  PROVE  Render[t][r][c] # Edited /\ Absent # Edited
  <1>1. Render[t][FirstRelease][FirstConfig] # Edited
    BY RenderAssumption, ReleaseAssumption, ConfigAssumption
  <1> QED BY <1>1, RenderAssumption, InitialAssumption

(* An applicable plan writes and removes no path it saw edited. *)
LEMMA ApplicableSpares ==
  ASSUME NEW p \in Procs, plan[p] \in Plans, Applicable(p),
         NEW t \in Targets, t \in Mutating(p)
  PROVE  plan[p].seen[t] # Edited
  <1> SUFFICES ASSUME plan[p].seen[t] = Edited PROVE FALSE
    OBVIOUS
  <1>1. Bytes(t, Want(p)) # Edited /\ Absent # Edited
    BY EditedRendered, ReleaseAssumption DEF Bytes, Want, Plans
  <1>2. Owned(p, t) => Bytes(t, plan[p].lock) # Edited
    <2> SUFFICES ASSUME Owned(p, t) PROVE Bytes(t, plan[p].lock) # Edited
      OBVIOUS
    <2>1. plan[p].lock \in Locks BY DEF Owned, Plans
    <2> QED BY <2>1, EditedRendered DEF Bytes, Locks
  <1>3. t \in Writes(p) \/ t \in Removes(p)
    BY TargetAssumption DEF Mutating
  <1>4. CASE t \in Writes(p)
    BY <1>1, <1>2, <1>4 DEF Applicable, WantedConflict, Writes
  <1>5. CASE t \in Removes(p)
    BY <1>1, <1>2, <1>5 DEF Applicable, RemovedConflict, Removes
  <1> QED BY <1>3, <1>4, <1>5

(* The publication order leaves no choice of the next action. *)
LEMMA NextUnique ==
  ASSUME TypeOK, NEW p \in Procs, NEW i, NEW j, IsNext(p, i), IsNext(p, j)
  PROVE  i = j
  <1>1. i \in Items /\ j \in Items BY DEF TypeOK, IsNext
  <1>2. Rank[i] <= Rank[j] /\ Rank[j] <= Rank[i] BY DEF IsNext
  <1>3. Rank[i] \in Nat /\ Rank[j] \in Nat BY <1>1, TargetAssumption
  <1>4. Rank[i] = Rank[j] BY <1>2, <1>3
  <1> QED BY <1>1, <1>4, TargetAssumption

(* A lock an apply publishes records containers of what it renders. *)
LEMMA NextLockGrounded ==
  ASSUME NEW p \in Procs, NEW t \in NextLock(p).created
  PROVE  t \in Targets /\ Bytes(t, NextLock(p)) # Absent
  BY DEF NextLock, Wanted, Want, Bytes

-----------------------------------------------------------------------------
(* Who changes the lock and the tree. *)

(* A command changes the tree, the lock, or its record of what it looked   *)
(* at only under the exclusive lock.                                       *)
LEMMA TreeOwned ==
  ASSUME TypeInv, NEW p \in Procs, Step(p)
  PROVE  UNCHANGED <<disk, unseen>> \/ pc[p] \in Owning
  <1> USE DEF world
  <1>1. CASE Command(p)
    BY <1>1 DEF Command, StartReconcile, StartRepair, StartEdit
  <1>2. CASE Fault(p)
    BY <1>2, FaultAssumption DEF Fault, Fail, Slip, LeaveBackup, Crash, Slippery
  <1>3. CASE Inspect(p) \/ PlanTargets(p) \/ Diagnose(p) \/ Assess(p) \/ Acquire(p)
    BY <1>3 DEF Inspect, PlanTargets, Diagnose, Assess, Acquire
  <1>4. CASE Recheck(p) \/ SaveBackup(p) \/ CheckTarget(p) \/ CheckDone(p) \/ SwapTarget(p)
    BY <1>4 DEF Recheck, SaveBackup, CheckTarget, CheckDone, SwapTarget
  <1>5. CASE Verify(p) \/ PublishLock(p) \/ Settle(p) \/ Unwind(p)
    BY <1>5 DEF Verify, PublishLock, Settle, Unwind
  <1>6. CASE Mend(p) \/ Sweep(p) \/ SweepDone(p) \/ Prune(p) \/ Regrow(p)
    BY <1>6 DEF Mend, Sweep, SweepDone, Prune, Regrow
  <1>7. CASE \E c \in Configs : WriteConfig(p, c)
    BY <1>7 DEF WriteConfig
  <1> QED BY <1>1, <1>2, <1>3, <1>4, <1>5, <1>6, <1>7 DEF Step, Proceed

(* The one way to a new lock: the process at "publish" renames the lock of *)
(* its plan over the one it planned against.                               *)
Published(p) ==
  /\ pc[p] = "publish" /\ pc'[p] # "publish"
  /\ lock = plan[p].lock /\ lock' = NextLock(p)
  /\ UNCHANGED disk

LEMMA LockStep ==
  ASSUME TypeInv, [Next]_vars
  PROVE  lock' = lock \/ lock' = None \/ \E p \in Procs : Published(p)
  <1> TypeOK BY DEF TypeInv
  <1> USE DEF world
  <1>1. ASSUME NEW p \in Procs, PublishLock(p) PROVE lock' = lock \/ Published(p)
    BY <1>1, MoveLocal DEF PublishLock, Published
  <1>2. ASSUME NEW p \in Procs, Slip(p) PROVE lock' = lock \/ Published(p)
    BY <1>2, MoveLocal DEF Slip, Published
  <1>3. ASSUME NEW p \in Procs, Command(p) \/ Fail(p) \/ LeaveBackup(p) \/ Crash(p)
        PROVE  lock' = lock
    BY <1>3 DEF Command, StartReconcile, StartRepair, StartEdit, Fail, LeaveBackup, Crash
  <1>4. ASSUME NEW p \in Procs,
               Inspect(p) \/ PlanTargets(p) \/ Diagnose(p) \/ Assess(p) \/ Acquire(p)
        PROVE  lock' = lock
    BY <1>4 DEF Inspect, PlanTargets, Diagnose, Assess, Acquire
  <1>5. ASSUME NEW p \in Procs,
               Recheck(p) \/ SaveBackup(p) \/ CheckTarget(p) \/ CheckDone(p) \/ SwapTarget(p)
        PROVE  lock' = lock
    BY <1>5 DEF Recheck, SaveBackup, CheckTarget, CheckDone, SwapTarget
  <1>6. ASSUME NEW p \in Procs, Verify(p) \/ Settle(p) \/ Unwind(p) \/ Mend(p)
        PROVE  lock' = lock
    BY <1>6 DEF Verify, Settle, Unwind, Mend
  <1>7. ASSUME NEW p \in Procs,
               \/ Sweep(p) \/ SweepDone(p) \/ Prune(p) \/ Regrow(p)
               \/ \E c \in Configs : WriteConfig(p, c)
        PROVE  lock' = lock
    BY <1>7 DEF Sweep, SweepDone, Prune, Regrow, WriteConfig
  <1>8. CASE Consumer
    BY <1>8 DEF Consumer, LoseFile, Tamper, control
  <1>9. CASE UNCHANGED vars
    BY <1>9 DEF vars
  <1> QED BY <1>1, <1>2, <1>3, <1>4, <1>5, <1>6, <1>7, <1>8, <1>9 DEF Next, Proceed, Fault

(* The one way a command changes the tree: the process at "swap" renames   *)
(* its next file into place.                                               *)
LEMMA DiskStep ==
  ASSUME TypeInv, [Next]_vars
  PROVE  \/ disk' = disk
         \/ left'["tamper"] # left["tamper"]
         \/ \E p \in Procs : pc[p] = "swap" /\ \E i \in due[p] : IsNext(p, i) /\ Publish(p, i)
  <1> TypeOK BY DEF TypeInv
  <1> USE DEF world
  <1>1. ASSUME NEW p \in Procs, SwapTarget(p) \/ Slip(p)
        PROVE  \/ disk' = disk
               \/ pc[p] = "swap" /\ \E i \in due[p] : IsNext(p, i) /\ Publish(p, i)
    BY <1>1 DEF SwapTarget, Slip
  <1>2. ASSUME NEW p \in Procs, Command(p) \/ Fail(p) \/ LeaveBackup(p) \/ Crash(p)
        PROVE  disk' = disk
    BY <1>2 DEF Command, StartReconcile, StartRepair, StartEdit, Fail, LeaveBackup, Crash
  <1>3. ASSUME NEW p \in Procs,
               Inspect(p) \/ PlanTargets(p) \/ Diagnose(p) \/ Assess(p) \/ Acquire(p)
        PROVE  disk' = disk
    BY <1>3 DEF Inspect, PlanTargets, Diagnose, Assess, Acquire
  <1>4. ASSUME NEW p \in Procs, Recheck(p) \/ SaveBackup(p) \/ CheckTarget(p) \/ CheckDone(p)
        PROVE  disk' = disk
    BY <1>4 DEF Recheck, SaveBackup, CheckTarget, CheckDone
  <1>5. ASSUME NEW p \in Procs, Verify(p) \/ PublishLock(p) \/ Settle(p) \/ Unwind(p) \/ Mend(p)
        PROVE  disk' = disk
    BY <1>5 DEF Verify, PublishLock, Settle, Unwind, Mend
  <1>6. ASSUME NEW p \in Procs,
               \/ Sweep(p) \/ SweepDone(p) \/ Prune(p) \/ Regrow(p)
               \/ \E c \in Configs : WriteConfig(p, c)
        PROVE  disk' = disk
    BY <1>6 DEF Sweep, SweepDone, Prune, Regrow, WriteConfig
  <1>7. ASSUME NEW t \in Targets, Tamper(t) PROVE left'["tamper"] # left["tamper"]
    BY <1>7 DEF Tamper, Spend, TypeOK, Events
  <1>8. CASE LoseFile \/ UNCHANGED vars
    BY <1>8 DEF LoseFile, vars
  <1> QED BY <1>1, <1>2, <1>3, <1>4, <1>5, <1>6, <1>7, <1>8
          DEF Next, Consumer, Proceed, Fault

-----------------------------------------------------------------------------
(* The inductive invariant. *)

Sound == TypeInv /\ Exclusion /\ TreeInductive

(* What an applying process knows survives every step that leaves its      *)
(* command alone, and every path it is answerable for.                     *)
LEMMA ApplyKept ==
  ASSUME TypeInv, NEW p \in Procs, ApplySound(p),
         pc'[p] = pc[p], plan'[p] = plan[p], due'[p] = due[p],
         \A t \in Targets \ unseen' : t \notin unseen /\ disk'[t] = disk[t]
  PROVE  ApplySound(p)'
  <1>1. Applicable(p)' /\ Mutating(p)' = Mutating(p) /\ Want(p)' = Want(p)
        /\ Removes(p)' = Removes(p)
    BY SamePlan DEF ApplySound
  <1>2. pc'[p] \in Publishing => due'[p] \subseteq Mutating(p)'
    BY <1>1 DEF ApplySound
  <1>3. ASSUME pc'[p] = "swap", NEW t \in Targets \ unseen', IsNext(p, t)'
        PROVE  Precondition(p, t)'
    <2>1. IsNext(p, t) BY <1>3 DEF IsNext
    <2>2. Precondition(p, t) BY <1>3, <2>1 DEF ApplySound
    <2> QED BY <1>3, <2>2, TargetAssumption DEF Precondition
  <1>4. ASSUME pc'[p] = "publish", NEW t \in Targets \ unseen'
        PROVE  Verified(p, t)'
    <2>1. Verified(p, t) /\ disk'[t] = disk[t] BY <1>4 DEF ApplySound
    <2>2. Wanted(p, t)' = Wanted(p, t) /\ Owned(p, t)' = Owned(p, t) BY SamePlan
    <2> QED BY <1>1, <2>1, <2>2 DEF Verified, Bytes
  <1> QED BY <1>1, <1>2, <1>3, <1>4 DEF ApplySound

(* The steps of one command say nothing false about another. *)
LEMMA OthersSound ==
  ASSUME Sound, NEW p \in Procs, Step(p), NEW q \in Procs \ {p}
  PROVE  (plan'[q] # None => Replaces(q)') /\ (pc'[q] \in Applying => ApplySound(q)')
  <1>1. Local(p) /\ (UNCHANGED <<disk, unseen>> \/ pc[p] \in Owning)
    BY StepLocal, TreeOwned DEF Sound
  <1>2. pc'[q] = pc[q] /\ plan'[q] = plan[q] /\ due'[q] = due[q]
    BY <1>1 DEF Local
  <1>3. plan'[q] # None => Replaces(q)'
    BY <1>2, SamePlan DEF Sound, TreeInductive
  <1>4. ASSUME pc'[q] \in Applying PROVE ApplySound(q)'
    <2>1. pc[q] \in Owning BY <1>2, <1>4 DEF Applying
    <2>2. UNCHANGED <<disk, unseen>> BY <1>1, <2>1 DEF Sound, Exclusion
    <2>3. ApplySound(q) BY <1>2, <1>4 DEF Sound, TreeInductive
    <2> QED BY <1>2, <2>2, <2>3, ApplyKept DEF Sound
  <1> QED BY <1>3, <1>4

LEMMA ExitSound ==
  ASSUME Sound, NEW p \in Procs, Exit(p)
  PROVE  (plan'[p] # None => Replaces(p)') /\ (pc'[p] \in Applying => ApplySound(p)')
  BY ExitLocal DEF Sound, TypeInv, Applying

LEMMA MoveSound ==
  ASSUME Sound, NEW p \in Procs, NEW label, Move(p, label), label \notin Applying
  PROVE  (plan'[p] # None => Replaces(p)') /\ (pc'[p] \in Applying => ApplySound(p)')
  <1>1. pc'[p] = label /\ plan'[p] = plan[p] BY MoveLocal DEF Sound, TypeInv
  <1> QED BY <1>1, SamePlan DEF Sound, TreeInductive

(* A plan that is made takes the lock it found, or the lack of one. *)
LEMMA PlanningSound ==
  ASSUME Sound, NEW p \in Procs,
         Command(p) \/ Inspect(p) \/ PlanTargets(p) \/ Diagnose(p) \/ Assess(p) \/ Acquire(p)
  PROVE  (plan'[p] # None => Replaces(p)') /\ (pc'[p] \in Applying => ApplySound(p)')
  <1>1. TypeOK /\ PlanHeld /\ (plan[p] # None => Replaces(p))
    BY DEF Sound, TypeInv, TreeInductive
  <1> USE DEF Applying
  <1>2. CASE Command(p)
    BY <1>1, <1>2, MoveLocal, SamePlan DEF Command, StartReconcile, StartRepair, StartEdit
  <1>3. CASE Inspect(p)
    <2>1. CASE Exit(p) BY <1>1, <2>1, ExitLocal
    <2>2. CASE Verdict(p) = "initialized"
      <3>1. plan'[p] = Request("reconcile") /\ pc'[p] = "plan"
        BY <1>1, <1>3, <2>2 DEF Inspect, TypeOK
      <3>2. /\ lock # None
            /\ ~\E r \in {catalog, lock.release, backup} \ {None} : r > Tool[p]
        BY <2>2 DEF Verdict
      <3>3. lock.release \in Nat /\ Tool[p] \in Nat /\ lock.release # None
        BY <1>1, <3>2, ReleaseAssumption, NoneAssumption DEF TypeOK, Locks
      <3>4. ~(lock.release > Tool[p]) BY <3>2, <3>3
      <3>5. lock.release <= Tool[p] BY <3>3, <3>4
      <3> QED BY <3>1, <3>2, <3>5 DEF Replaces, Request
    <2> QED BY <1>3, <2>1, <2>2 DEF Inspect
  <1>4. CASE PlanTargets(p)
    <2>1. CASE Exit(p) BY <1>1, <2>1, ExitLocal
    <2>2. CASE ~Exit(p)
      <3>1. plan[p] \in Plans /\ plan[p] # None
        BY <1>1, <1>4 DEF PlanTargets, TypeOK, PlanHeld, Planned
      <3>2. /\ plan'[p] = [plan[p] EXCEPT !.seen = Snapshot(plan[p], disk, Tool[p])]
            /\ pc'[p] = "ready"
        BY <1>1, <1>4, <2>2 DEF PlanTargets, TypeOK
      <3>3. plan'[p].kind = plan[p].kind /\ plan'[p].lock = plan[p].lock
        BY <3>1, <3>2 DEF Plans
      <3> QED BY <1>1, <3>1, <3>2, <3>3 DEF Replaces
    <2> QED BY <2>1, <2>2
  <1>5. CASE Diagnose(p)
    BY <1>5, ExitSound, MoveSound DEF Diagnose
  <1>6. CASE Assess(p)
    <2>1. CASE Exit(p) BY <1>1, <2>1, ExitLocal
    <2>2. CASE ~Exit(p)
      <3> DEFINE request == Request(RecoveryKind(p))
      <3>1. /\ RecoveryKind(p) # "refused" /\ pc'[p] = "ready"
            /\ plan'[p] = IF request.kind = "relock"
                            THEN [request EXCEPT !.seen = Snapshot(request, disk, Tool[p])]
                            ELSE request
        BY <1>1, <1>6, <2>2 DEF Assess, TypeOK
      <3>2. request \in Plans /\ request.kind = RecoveryKind(p) /\ request.lock = lock
        BY <1>1, <3>1, RecoveryKindType, RequestType DEF Request
      <3> HIDE DEF request
      <3>3. plan'[p].kind = RecoveryKind(p) /\ plan'[p].lock = lock
        BY <3>1, <3>2 DEF Plans
      <3>4. RecoveryKind(p) # "reconcile" /\ (RecoveryKind(p) = "relock" => lock = None)
        BY DEF RecoveryKind
      <3> QED BY <3>1, <3>3, <3>4 DEF Replaces
    <2> QED BY <2>1, <2>2
  <1>7. CASE Acquire(p)
    <2>1. CASE Exit(p) BY <1>1, <2>1, ExitLocal
    <2>2. CASE ~Exit(p)
      <3>1. plan[p] \in Plans BY <1>1, <1>7 DEF Acquire, TypeOK, PlanHeld, Planned
      <3>2. PICK label \in {"recheck", "regrow", "mend"} :
              /\ Move(p, label)
              /\ label = "recheck" => plan[p].kind \in {"reconcile", "relock"} /\ Applicable(p)
        BY <1>7, <2>2, <3>1 DEF Acquire, Plans, Kinds
      <3>3. pc'[p] = label /\ plan'[p] = plan[p] BY <1>1, <3>2, MoveLocal
      <3> QED BY <1>1, <3>2, <3>3, SamePlan DEF ApplySound
    <2> QED BY <2>1, <2>2
  <1> QED BY <1>2, <1>3, <1>4, <1>5, <1>6, <1>7

(* Rechecking, publishing and verifying establish what the next step needs. *)
LEMMA PublishingSound ==
  ASSUME Sound, NEW p \in Procs,
         \/ Recheck(p) \/ SaveBackup(p) \/ CheckTarget(p) \/ CheckDone(p) \/ SwapTarget(p)
         \/ Verify(p) \/ PublishLock(p)
  PROVE  (plan'[p] # None => Replaces(p)') /\ (pc'[p] \in Applying => ApplySound(p)')
  <1>1. TypeOK /\ PlanHeld /\ (plan[p] # None => Replaces(p))
        /\ (pc[p] \in Applying => ApplySound(p))
    BY DEF Sound, TypeInv, TreeInductive
  <1> USE DEF world
  <1>2. CASE Recheck(p)
    <2>1. CASE Exit(p) BY <2>1, ExitSound
    <2>2. CASE ~Exit(p)
      <3>1. /\ pc'[p] \in {"save", "check"} /\ due'[p] = Mutating(p) /\ plan' = plan
            /\ pc[p] = "recheck"
        BY <1>1, <1>2, <2>2 DEF Recheck, TypeOK
      <3> QED BY <1>1, <3>1, SamePlan DEF ApplySound, Applying
    <2> QED BY <2>1, <2>2
  <1>3. CASE SaveBackup(p)
    <2>1. pc[p] = "save" /\ pc'[p] = "check" /\ plan' = plan /\ due' = due
      BY <1>1, <1>3 DEF SaveBackup, TypeOK
    <2> QED BY <1>1, <2>1, SamePlan DEF ApplySound, Applying
  <1>4. CASE CheckTarget(p)
    <2>1. PICK i \in due[p] :
            /\ IsNext(p, i) /\ unseen' = unseen \ {i}
            /\ Move(p, IF Precondition(p, i) THEN "swap" ELSE "unwind")
      BY <1>4 DEF CheckTarget
    <2>2. CASE ~Precondition(p, i)
      BY <2>1, <2>2, MoveSound DEF Applying
    <2>3. CASE Precondition(p, i)
      <3>1. /\ pc[p] = "check" /\ pc'[p] = "swap" /\ plan'[p] = plan[p] /\ due'[p] = due[p]
            /\ UNCHANGED disk
        BY <1>1, <1>4, <2>1, <2>3, MoveLocal DEF CheckTarget
      <3>2. ASSUME NEW t \in Targets \ unseen', IsNext(p, t)' PROVE Precondition(p, t)'
        <4>1. IsNext(p, t) BY <3>1, <3>2 DEF IsNext
        <4>2. t = i BY <1>1, <2>1, <4>1, NextUnique
        <4> QED BY <2>3, <3>1, <4>2, TargetAssumption DEF Precondition
      <3> QED BY <1>1, <3>1, <3>2, SamePlan DEF ApplySound, Applying
    <2> QED BY <2>2, <2>3
  <1>5. CASE CheckDone(p)
    <2>1. /\ pc[p] = "check" /\ pc'[p] = "verify" /\ plan'[p] = plan[p] /\ due'[p] = due[p]
      BY <1>1, <1>5, MoveLocal DEF CheckDone
    <2> QED BY <1>1, <2>1, SamePlan DEF ApplySound, Applying
  <1>6. CASE SwapTarget(p)
    <2>1. /\ pc[p] = "swap" /\ pc'[p] = "check" /\ plan' = plan /\ due'[p] \subseteq due[p]
      BY <1>1, <1>6 DEF SwapTarget, TypeOK
    <2> QED BY <1>1, <2>1, SamePlan DEF ApplySound, Applying
  <1>7. CASE Verify(p)
    <2>1. CASE Exit(p) BY <2>1, ExitSound
    <2>2. CASE Move(p, "unwind") BY <2>2, MoveSound DEF Applying
    <2>3. CASE ~Exit(p) /\ ~Move(p, "unwind")
      <3>1. (\A t \in Targets : Verified(p, t)) /\ Move(p, "publish")
        BY <1>7, <2>3 DEF Verify
      <3>2. /\ pc[p] = "verify" /\ pc'[p] = "publish" /\ plan'[p] = plan[p]
            /\ due'[p] = due[p] /\ UNCHANGED disk
        BY <1>1, <1>7, <3>1, MoveLocal DEF Verify
      <3>3. Want(p)' = Want(p) /\ Removes(p)' = Removes(p) /\ Applicable(p)' = Applicable(p)
            /\ Mutating(p)' = Mutating(p)
        BY <3>2, SamePlan
      <3>4. ASSUME NEW t \in Targets PROVE Verified(p, t)'
        <4>1. Wanted(p, t)' = Wanted(p, t) /\ Owned(p, t)' = Owned(p, t)
          BY <3>2, SamePlan
        <4> QED BY <3>1, <3>2, <3>3, <4>1 DEF Verified, Bytes
      <3> QED BY <1>1, <3>2, <3>3, <3>4, SamePlan DEF ApplySound, Applying
    <2> QED BY <2>1, <2>2, <2>3
  <1>8. CASE PublishLock(p)
    <2>1. PICK label \in {"settle", "unwind"} : Move(p, label) BY <1>8 DEF PublishLock
    <2> QED BY <2>1, MoveSound DEF Applying
  <1> QED BY <1>2, <1>3, <1>4, <1>5, <1>6, <1>7, <1>8

(* Every other step leaves the apply, or is none. *)
LEMMA LeavingSound ==
  ASSUME Sound, NEW p \in Procs,
         \/ Settle(p) \/ Unwind(p) \/ Mend(p) \/ Sweep(p) \/ SweepDone(p) \/ Prune(p)
         \/ Regrow(p) \/ (\E c \in Configs : WriteConfig(p, c)) \/ Fault(p)
  PROVE  (plan'[p] # None => Replaces(p)') /\ (pc'[p] \in Applying => ApplySound(p)')
  <1>1. CASE Sweep(p)
    <2>1. UNCHANGED command /\ pc[p] = "sweep" BY <1>1 DEF Sweep
    <2> QED BY <2>1, SamePlan DEF command, Sound, TreeInductive, Applying
  <1>2. CASE Mend(p) \/ SweepDone(p)
    BY <1>2, ExitSound, MoveSound DEF Mend, SweepDone, Applying
  <1>3. CASE Settle(p) \/ Unwind(p) \/ Prune(p) \/ Regrow(p)
    BY <1>3, ExitSound DEF Settle, Unwind, Prune, Regrow
  <1>4. CASE \E c \in Configs : WriteConfig(p, c)
    BY <1>4, ExitSound DEF WriteConfig
  <1>5. CASE Fault(p)
    <2>1. CASE Exit(p) BY <2>1, ExitSound
    <2>2. CASE Move(p, "unwind") BY <2>2, MoveSound DEF Applying
    <2> QED BY <1>5, <2>1, <2>2 DEF Fault, Fail, Slip, LeaveBackup, Crash
  <1> QED BY <1>1, <1>2, <1>3, <1>4, <1>5

LEMMA TreeStep ==
  ASSUME Sound, [Next]_vars
  PROVE  Sound'
  <1>1. TypeInv' /\ Exclusion' BY TypeStep, ExclusionStep DEF Sound
  <1>2. ContainersGrounded'
    <2>1. CASE lock' = lock
      BY <2>1 DEF Sound, TreeInductive, ContainersGrounded, Bytes
    <2>2. CASE lock' = None
      BY <2>2 DEF ContainersGrounded
    <2>3. ASSUME NEW p \in Procs, Published(p) PROVE ContainersGrounded'
      <3>1. lock' = NextLock(p) BY <2>3 DEF Published
      <3>2. \A t \in lock'.created : Bytes(t, NextLock(p)) # Absent
        BY <3>1, NextLockGrounded
      <3> QED BY <3>1, <3>2 DEF ContainersGrounded, Bytes
    <2> QED BY <2>1, <2>2, <2>3, LockStep DEF Sound
  <1>3. ASSUME NEW q \in Procs
        PROVE  (plan'[q] # None => Replaces(q)') /\ (pc'[q] \in Applying => ApplySound(q)')
    <2>1. ASSUME NEW p \in Procs, Step(p), p # q
          PROVE  (plan'[q] # None => Replaces(q)') /\ (pc'[q] \in Applying => ApplySound(q)')
      BY <2>1, OthersSound
    <2>2. CASE Step(q)
      BY <2>2, PlanningSound, PublishingSound, LeavingSound DEF Step, Proceed
    <2>3. CASE Consumer \/ UNCHANGED vars
      <3>1. /\ UNCHANGED <<pc, plan, due>>
            /\ \A t \in Targets \ unseen' : t \notin unseen /\ disk'[t] = disk[t]
        BY <2>3 DEF Consumer, Tamper, LoseFile, vars, world, command, Sound, TypeInv, TypeOK
      <3> QED BY <3>1, SamePlan, ApplyKept DEF Sound, TreeInductive
    <2> QED BY <2>1, <2>2, <2>3 DEF Next, Step
  <1> QED BY <1>1, <1>2, <1>3 DEF Sound, TreeInductive

LEMMA TreeInit == Init => Sound
  <1> SUFFICES ASSUME Init PROVE Sound
    OBVIOUS
  <1>1. TypeInv BY TypeInit
  <1>2. \A p \in Procs : pc[p] = "idle" /\ plan[p] = None
    BY DEF Init
  <1>3. lock.created = {} BY DEF Init
  <1> QED BY <1>1, <1>2, <1>3
          DEF Sound, Exclusion, TreeInductive, ContainersGrounded, Applying

LEMMA SoundHolds == Spec => []Sound
  <1>1. Init => Sound BY TreeInit
  <1>2. Sound /\ [Next]_vars => Sound' BY TreeStep
  <1> QED BY <1>1, <1>2, PTL DEF Spec

(* In every reachable state, whatever slips, fails or dies: the lock       *)
(* records containers of what it renders, a plan replaces a lock its tool  *)
(* may replace, and an apply answers for every path no consumer touched    *)
(* since it looked.                                                        *)
THEOREM TreeInductiveHolds == Spec => []TreeInductive
  <1>1. Sound => TreeInductive BY DEF Sound
  <1> QED BY <1>1, SoundHolds, PTL

-----------------------------------------------------------------------------
(* What a step of the published tree and lock may never do. *)

(* Every lock an apply publishes, even one published late, names the tree  *)
(* it verified: rendered bytes in place, relinquished files gone, on every *)
(* path no consumer touched since.                                         *)
THEOREM LocksNameVerifiedTrees == Spec => LockNamesVerifiedTree
  <1> DEFINE Names ==
        lock' # lock /\ lock' # None =>
          \A t \in Targets \ unseen :
            /\ Bytes(t, lock') # Absent => disk[t] = Bytes(t, lock')
            /\ (Bytes(t, lock') = Absent /\ lock # None /\ t \in lock.created) => disk[t] = Absent
  <1>1. ASSUME Sound, [Next]_vars PROVE Names
    <2>1. ASSUME NEW p \in Procs, Published(p), NEW t \in Targets \ unseen
          PROVE  /\ Bytes(t, lock') # Absent => disk[t] = Bytes(t, lock')
                 /\ (Bytes(t, lock') = Absent /\ lock # None /\ t \in lock.created)
                      => disk[t] = Absent
      <3>1. pc[p] = "publish" /\ lock = plan[p].lock /\ lock' = NextLock(p)
        BY <2>1 DEF Published
      <3>2. Verified(p, t)
        BY <1>1, <2>1, <3>1 DEF Sound, TreeInductive, Applying, ApplySound
      <3>3. Bytes(t, lock') = Bytes(t, Want(p))
        BY <3>1 DEF NextLock, Bytes, Want
      <3>4. CASE Wanted(p, t)
        BY <3>2, <3>3, <3>4 DEF Verified, Wanted
      <3>5. CASE ~Wanted(p, t)
        <4>1. Bytes(t, lock') = Absent BY <3>3, <3>5 DEF Wanted
        <4>2. ASSUME lock # None, t \in lock.created PROVE disk[t] = Absent
          <5>1. Bytes(t, lock) # Absent
            BY <1>1, <4>2 DEF Sound, TreeInductive, ContainersGrounded
          <5>2. Owned(p, t) /\ t \in Created(p)
            BY <3>1, <4>2, <5>1 DEF Owned, Created
          <5>3. plan[p].seen[t] # Absent BY <3>2, <3>5, <5>2 DEF Verified
          <5>4. t \in Removes(p) BY <3>5, <5>2, <5>3 DEF Removes
          <5> QED BY <3>2, <3>5, <5>2, <5>3, <5>4 DEF Verified
        <4> QED BY <4>1, <4>2
      <3> QED BY <3>4, <3>5
    <2> QED BY <1>1, <2>1, LockStep DEF Sound
  <1>2. Sound /\ [Next]_vars => [Names]_vars BY <1>1
  <1> QED BY <1>2, SoundHolds, PTL DEF Spec, LockNamesVerifiedTree

(* No command replaces or removes edited bytes it could have seen: what is *)
(* lost arrived after the command's last look at that path.                *)
THEOREM ConsumerBytesSafe == Spec => ConsumerBytesSurvive
  <1> DEFINE Survive ==
        left'["tamper"] = left["tamper"] =>
          \A t \in Targets \ unseen : disk[t] = Edited => disk'[t] = Edited
  <1>1. ASSUME Sound, [Next]_vars PROVE Survive
    <2>1. ASSUME NEW p \in Procs, pc[p] = "swap", NEW i \in due[p], IsNext(p, i), Publish(p, i),
                 NEW t \in Targets \ unseen, disk[t] = Edited
          PROVE  disk'[t] = Edited
      <3>1. CASE i # t
        BY <1>1, <2>1, <3>1 DEF Publish, Sound, TypeInv, TypeOK
      <3>2. CASE i = t
        <4>1. ApplySound(p) /\ plan[p] \in Plans
          BY <1>1, <2>1 DEF Sound, TreeInductive, Applying, TypeInv, TypeOK, PlanHeld, Planned
        <4>2. plan[p].seen[t] = Edited
          BY <2>1, <3>2, <4>1, TargetAssumption DEF ApplySound, Precondition
        <4>3. t \in Mutating(p) /\ Applicable(p)
          BY <2>1, <3>2, <4>1 DEF ApplySound
        <4> QED BY <4>1, <4>2, <4>3, ApplicableSpares
      <3> QED BY <3>1, <3>2
    <2> QED BY <1>1, <2>1, DiskStep DEF Sound
  <1>2. Sound /\ [Next]_vars => [Survive]_vars BY <1>1
  <1> QED BY <1>2, SoundHolds, PTL DEF Spec, ConsumerBytesSurvive

(* No command, of whatever release and however late it comes, takes the    *)
(* lock back to an older release, even when it lands after its apply was   *)
(* given up.                                                               *)
THEOREM NeverDowngrades == Spec => NoDowngrade
  <1> DEFINE Forward == lock # None /\ lock' # None => lock'.release >= lock.release
  <1>1. ASSUME Sound, [Next]_vars PROVE Forward
    <2>1. lock # None => lock.release \in Nat
      BY <1>1, ReleaseAssumption DEF Sound, TypeInv, TypeOK, Locks
    <2>2. CASE lock' = lock
      BY <2>1, <2>2
    <2>3. ASSUME NEW p \in Procs, Published(p), lock # None
          PROVE  lock'.release >= lock.release
      <3>1. ApplySound(p) /\ Replaces(p) /\ lock = plan[p].lock /\ lock' = NextLock(p)
            /\ plan[p] \in Plans
        BY <1>1, <2>3, NoneAssumption DEF Published, Sound, TreeInductive, Applying,
              TypeInv, TypeOK, PlanHeld, Planned
      <3>2. plan[p].lock.release <= Tool[p]
        BY <2>3, <3>1 DEF ApplySound, Replaces
      <3>3. lock'.release = Tool[p] /\ Tool[p] \in Nat
        BY <3>1, NextLockType, ReleaseAssumption
      <3> QED BY <2>1, <2>3, <3>1, <3>2, <3>3
    <2> QED BY <1>1, <2>2, <2>3, LockStep DEF Sound
  <1>2. Sound /\ [Next]_vars => [Forward]_vars BY <1>1
  <1> QED BY <1>2, SoundHolds, PTL DEF Spec, NoDowngrade

=============================================================================
