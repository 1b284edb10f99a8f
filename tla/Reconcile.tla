----------------------------- MODULE Reconcile -----------------------------
(***************************************************************************)
(* The consumer control plane of project-standards: commands that run as   *)
(* separate processes over one repository, share .standards/config.toml,   *)
(* catalog.toml and lock.toml, publish managed files one rename at a time, *)
(* and may fail or die between any two renames.                            *)
(*                                                                         *)
(* Each process slot stands for one installed release of the tool and runs *)
(* one command at a time: `reconcile --apply`, `reconcile --repair-state   *)
(* --apply`, or a desired-config edit such as `standards enable`.          *)
(***************************************************************************)
EXTENDS Integers, FiniteSets

CONSTANTS
  Procs,      \* process slots
  Tool,       \* Tool[p]: the tool release slot p has installed
  Releases,   \* tool releases; a release names its catalog lineage as well
  Configs,    \* desired configurations of config.toml
  Targets,    \* whole-file targets some package declares
  Render,     \* Render[t][r][c]: the bytes release r renders at t under config c
  Absent,     \* the content of a path with no file
  Edited,     \* bytes of a consumer that no release renders
  None,       \* a missing control file, or no plan
  Catalog,    \* the plan's own action on .standards/catalog.toml
  Rank,       \* publication order of the actions (action_sort_key)
  Prior,      \* the trees a repository may have before it is reconciled
  FirstRelease, FirstConfig,  \* what `init` recorded
  Slips,      \* publication steps after whose rename fsync (or ^C) may raise
  Budget      \* how often the environment acts, by kind of event

Items == Targets \union {Catalog}
Events == {"fault", "edit", "tamper", "loss"}
Slippery == {"save", "swap", "publish"}
ConsumerBytes == {Absent, Edited}
Contents == ConsumerBytes \union
              {Render[t][r][c] : t \in Targets, r \in Releases, c \in Configs}

Locks == [release : Releases, config : Configs, created : SUBSET Targets]
Kinds == {"reconcile", "relock", "regrow", "refresh"}
Plans == [kind    : Kinds,
          config  : Configs,
          catalog : Releases \union {None},
          lock    : Locks \union {None},
          backup  : Releases \union {None},
          litter  : SUBSET Procs,
          seen    : [Targets -> Contents]]

ASSUME ReleaseAssumption ==
  /\ Releases \subseteq Nat /\ FirstRelease \in Releases
  /\ \A r \in Releases : r >= FirstRelease
  /\ Tool \in [Procs -> Releases]
ASSUME ConfigAssumption == FirstConfig \in Configs
ASSUME TargetAssumption ==
  /\ Catalog \notin Targets
  /\ Rank \in [Items -> Nat]
  /\ \A i, j \in Items : Rank[i] = Rank[j] => i = j
ASSUME RenderAssumption ==
  \A t \in Targets, r \in Releases, c \in Configs : Render[t][r][c] # Edited
ASSUME InitialAssumption ==
  /\ Prior \subseteq [Targets -> Contents]
  /\ \A t \in Targets : Render[t][FirstRelease][FirstConfig] = Absent
ASSUME NoneAssumption == None \notin Releases \union Locks \union Plans
ASSUME FaultAssumption == Slips \subseteq Slippery /\ Budget \in [Events -> Nat]

VARIABLES
  catalog,  \* lineage of catalog.toml, or None
  backup,   \* lineage of .catalog-refresh.previous.toml, or None
  lock,     \* lock.toml: release, config and created_container facts, or None
  config,   \* config.toml
  disk,     \* disk[t]: bytes of the managed path t
  litter,   \* slots whose death left staged temporaries in .standards/
  pc,       \* pc[p]: where p stands in its command
  plan,     \* plan[p]: the frozen request and snapshot of p's plan
  due,      \* due[p]: plan actions p has not reported as applied
  saved,    \* saved[p]: catalog_backup_published
  unseen,   \* targets a consumer changed since an apply last looked at them
  left      \* what remains of Budget

control == <<catalog, backup, lock>>
world   == <<catalog, backup, lock, config, disk, litter>>
command == <<pc, plan, due, saved>>
vars    == <<world, command, unseen, left>>

(***************************************************************************)
(* Where a command stands.  control_plane_lock is a `with` block, so the   *)
(* flock a process holds on .standards/ follows from its position: shared  *)
(* while it reads, none while it plans, exclusive while it mutates.        *)
(***************************************************************************)
Reading == {"inspect", "diagnose"}
Unlocked == {"idle", "plan", "assess", "ready"}
Publishing == {"save", "check", "swap", "verify", "publish"}
Mending == {"mend", "sweep", "prune"}
Owning == {"recheck", "unwind", "settle", "regrow", "edit"} \union Publishing \union Mending

TypeOK ==
  /\ catalog \in Releases \union {None}
  /\ backup \in Releases \union {None}
  /\ lock \in Locks \union {None}
  /\ config \in Configs
  /\ disk \in [Targets -> Contents]
  /\ litter \subseteq Procs
  /\ pc \in [Procs -> Unlocked \union Reading \union Owning]
  /\ plan \in [Procs -> Plans \union {None}]
  /\ due \in [Procs -> SUBSET Items]
  /\ saved \in [Procs -> BOOLEAN]
  /\ unseen \subseteq Targets
  /\ left \in [Events -> Nat]

-----------------------------------------------------------------------------
(* What the planner decides from a frozen request and a snapshot.          *)

Bytes(t, g) == Render[t][g.release][g.config]

Want(p) == [release |-> Tool[p], config |-> plan[p].config]
Wanted(p, t) == Bytes(t, Want(p)) # Absent
Owned(p, t) == plan[p].lock # None /\ Bytes(t, plan[p].lock) # Absent
Created(p) == IF plan[p].lock = None THEN {} ELSE plan[p].lock.created

(* A desired unit: created, adopted, updated, or refused. *)
WantedConflict(p, t) ==
  LET b == plan[p].seen[t] IN
  /\ Wanted(p, t) /\ b # Bytes(t, Want(p))
  /\ IF Owned(p, t)
       THEN IF b = Absent THEN t \notin Created(p) ELSE b # Bytes(t, plan[p].lock)
       ELSE b # Absent

(* A unit the lock records and no package declares any more. *)
RemovedConflict(p, t) ==
  /\ ~Wanted(p, t) /\ Owned(p, t)
  /\ plan[p].seen[t] \notin {Absent, Bytes(t, plan[p].lock)}

Drift(p) == {t \in Targets : Owned(p, t) /\ plan[p].seen[t] # Absent
                               /\ (WantedConflict(p, t) \/ RemovedConflict(p, t))}

Writes(p) == {t \in Targets : Wanted(p, t) /\ plan[p].seen[t] # Bytes(t, Want(p))}
Removes(p) == {t \in Targets : /\ ~Wanted(p, t) /\ Owned(p, t)
                               /\ plan[p].seen[t] # Absent /\ t \in Created(p)}
Refreshes(p) == plan[p].kind = "reconcile" /\ plan[p].catalog # Tool[p]

Applicable(p) ==
  \A t \in Targets : ~WantedConflict(p, t) /\ ~RemovedConflict(p, t)

Mutating(p) ==
  Writes(p) \union Removes(p) \union (IF Refreshes(p) THEN {Catalog} ELSE {})

(* created_container: the path was missing at plan time, or already so recorded. *)
NextLock(p) ==
  [release |-> Tool[p],
   config  |-> plan[p].config,
   created |-> {t \in Targets : Wanted(p, t) /\ (plan[p].seen[t] = Absent \/ t \in Created(p))}]

-----------------------------------------------------------------------------
(* State detection, which every command runs first under the shared lock.  *)

(* Mutant: files a newer release wrote are not refused. *)
VerdictIgnoringNewer(p) ==
  IF catalog = None \/ lock = None THEN "incomplete"
  ELSE IF backup # None
    THEN IF lock.release \in {catalog, backup} THEN "interrupted" ELSE "inconsistent"
  ELSE IF catalog = lock.release THEN "initialized" ELSE "inconsistent"

Verdict(p) ==
  IF catalog = None \/ lock = None THEN "incomplete"
  ELSE IF \E r \in {catalog, lock.release, backup} \ {None} : r > Tool[p] THEN "newer"
  ELSE IF backup # None
    THEN IF lock.release \in {catalog, backup} THEN "interrupted" ELSE "inconsistent"
  ELSE IF catalog = lock.release THEN "initialized" ELSE "inconsistent"

-----------------------------------------------------------------------------
(* The advisory lock: a non-blocking flock on the .standards/ directory.   *)

CanShare(p) == \A q \in Procs \ {p} : pc[q] \notin Owning
CanOwn(p) == \A q \in Procs \ {p} : pc[q] \in Unlocked

Move(p, label) ==
  /\ pc' = [pc EXCEPT ![p] = label]
  /\ UNCHANGED <<plan, due, saved>>

(* Leave the command, and with it the lock and everything staged. *)
Exit(p) ==
  /\ pc' = [pc EXCEPT ![p] = "idle"]
  /\ plan' = [plan EXCEPT ![p] = None]
  /\ due' = [due EXCEPT ![p] = {}]
  /\ saved' = [saved EXCEPT ![p] = FALSE]

Spend(e) == left[e] > 0 /\ left' = [left EXCEPT ![e] = @ - 1]

-----------------------------------------------------------------------------
(* Reading and planning.                                                   *)

NothingSeen == [t \in Targets |-> Absent]

Request(kind) ==
  [kind |-> kind, config |-> config, catalog |-> catalog, lock |-> lock,
   backup |-> backup, litter |-> IF kind = "refresh" THEN litter ELSE {},
   seen |-> NothingSeen]

(* A CP-BUSY refusal leaves the process idle: only the grant is a step. *)
StartReconcile(p) ==
  /\ pc[p] = "idle" /\ CanShare(p)
  /\ Move(p, "inspect")
  /\ UNCHANGED <<world, unseen, left>>

StartRepair(p) ==
  /\ pc[p] = "idle" /\ CanShare(p)
  /\ Move(p, "diagnose")
  /\ UNCHANGED <<world, unseen, left>>

(* build_planner_request: freeze what was read under the shared lock. *)
Inspect(p) ==
  /\ pc[p] = "inspect"
  /\ IF Verdict(p) = "initialized"
       THEN /\ pc' = [pc EXCEPT ![p] = "plan"]
            /\ plan' = [plan EXCEPT ![p] = Request("reconcile")]
            /\ UNCHANGED <<due, saved>>
       ELSE Exit(p)
  /\ UNCHANGED <<world, unseen, left>>

Snapshot(request, tree, release) ==
  LET wants(t) == Render[t][release][request.config] # Absent
      owns(t) == request.lock # None /\ Bytes(t, request.lock) # Absent
  IN [t \in Targets |-> IF wants(t) \/ owns(t) THEN tree[t] ELSE Absent]

(* plan_reconciliation reads the tree, and the catalog it would refresh, under *)
(* no lock at all.                                                             *)
PlanTargets(p) ==
  /\ pc[p] = "plan"
  /\ IF Refreshes(p) /\ catalog # plan[p].catalog
       THEN Exit(p)
       ELSE /\ plan' = [plan EXCEPT ![p].seen = Snapshot(plan[p], disk, Tool[p])]
            /\ pc' = [pc EXCEPT ![p] = "ready"]
            /\ UNCHANGED <<due, saved>>
  /\ UNCHANGED <<world, unseen, left>>

(* Mutant: a refresh counts as interrupted only after its catalog went back. *)
RecoveryOfOldCatalogOnly(p) ==
  IF backup # None
    THEN IF None \notin {catalog, lock} /\ lock.release = catalog THEN "refresh" ELSE "refused"
  ELSE IF catalog = None
    THEN IF lock # None /\ lock.release = Tool[p] THEN "regrow" ELSE "refused"
  ELSE IF lock = None /\ catalog = Tool[p] THEN "relock" ELSE "refused"

(* Mutant: any installed release regenerates a lost catalog. *)
RecoveryByAnyTool(p) ==
  IF backup # None
    THEN IF None \notin {catalog, lock} /\ lock.release \in {catalog, backup}
           THEN "refresh" ELSE "refused"
  ELSE IF catalog = None
    THEN IF lock # None THEN "regrow" ELSE "refused"
  ELSE IF lock = None /\ catalog = Tool[p] THEN "relock" ELSE "refused"

(* Which recovery plan_recovery proposes for the files under the lock. *)
RecoveryKind(p) ==
  IF backup # None
    THEN IF None \notin {catalog, lock} /\ lock.release \in {catalog, backup}
           THEN "refresh" ELSE "refused"
  ELSE IF catalog = None
    THEN IF lock # None /\ lock.release = Tool[p] THEN "regrow" ELSE "refused"
  ELSE IF lock = None /\ catalog = Tool[p] THEN "relock" ELSE "refused"

(* The detection that routes the command, and releases the lock again. *)
Diagnose(p) ==
  /\ pc[p] = "diagnose"
  /\ IF Verdict(p) \in {"incomplete", "interrupted"} THEN Move(p, "assess") ELSE Exit(p)
  /\ UNCHANGED <<world, unseen, left>>

(* Mutant: a refused recovery is planned all the same. *)
AssessRegardless(p) ==
  /\ pc[p] = "assess"
  /\ IF CanShare(p)
       THEN /\ pc' = [pc EXCEPT ![p] = "ready"]
            /\ plan' = [plan EXCEPT ![p] = Request(RecoveryKind(p))]
            /\ UNCHANGED <<due, saved>>
       ELSE Exit(p)
  /\ UNCHANGED <<world, unseen, left>>

(* plan_recovery takes the shared lock anew and does not repeat the detection. *)
Assess(p) ==
  /\ pc[p] = "assess"
  /\ IF CanShare(p) /\ RecoveryKind(p) # "refused"
       THEN /\ pc' = [pc EXCEPT ![p] = "ready"]
            /\ LET request == Request(RecoveryKind(p)) IN
               plan' = [plan EXCEPT ![p] =
                          IF request.kind = "relock"
                            THEN [request EXCEPT !.seen = Snapshot(request, disk, Tool[p])]
                            ELSE request]
            /\ UNCHANGED <<due, saved>>
       ELSE Exit(p)
  /\ UNCHANGED <<world, unseen, left>>

(* Begin to apply: an inapplicable plan is only reported, a busy lock refused. *)
Acquire(p) ==
  /\ pc[p] = "ready"
  /\ IF CanOwn(p) /\ (plan[p].kind \in {"reconcile", "relock"} => Applicable(p))
       THEN Move(p, CASE plan[p].kind \in {"reconcile", "relock"} -> "recheck"
                      [] plan[p].kind = "regrow" -> "regrow"
                      [] plan[p].kind = "refresh" -> "mend")
       ELSE Exit(p)
  /\ UNCHANGED <<world, unseen, left>>

-----------------------------------------------------------------------------
(* Applying a reconciliation plan under the exclusive lock.                *)

(* The lock, the tree and, for a refresh, the catalog are as the plan saw them. *)
PlanCurrent(p) ==
  /\ lock = plan[p].lock
  /\ Snapshot(plan[p], disk, Tool[p]) = plan[p].seen
  /\ Refreshes(p) => catalog = plan[p].catalog
  /\ plan[p].kind = "relock" => config = plan[p].config /\ catalog = plan[p].catalog

Recheck(p) ==
  /\ pc[p] = "recheck"
  /\ unseen' = {}
  /\ IF PlanCurrent(p) /\ ~(Refreshes(p) /\ backup # None)
       THEN /\ pc' = [pc EXCEPT ![p] = IF Refreshes(p) THEN "save" ELSE "check"]
            /\ due' = [due EXCEPT ![p] = Mutating(p)]
            /\ UNCHANGED <<plan, saved>>
       ELSE Exit(p)
  /\ UNCHANGED <<world, left>>

(* Publish the committed catalog as the refresh backup. *)
SaveBackup(p) ==
  /\ pc[p] = "save"
  /\ backup' = catalog
  /\ pc' = [pc EXCEPT ![p] = "check"]
  /\ saved' = [saved EXCEPT ![p] = TRUE]
  /\ UNCHANGED <<catalog, lock, config, disk, litter, plan, due, unseen, left>>

IsNext(p, i) == i \in due[p] /\ \A j \in due[p] : Rank[i] <= Rank[j]

(* Mutant: destinations are not read again. *)
PreconditionSkipped(p, i) == i \in Items

Precondition(p, i) ==
  IF i = Catalog THEN catalog = plan[p].catalog ELSE disk[i] = plan[p].seen[i]

(* Re-read the next destination before replacing it (CP-PRECONDITION). *)
CheckTarget(p) ==
  /\ pc[p] = "check"
  /\ \E i \in due[p] :
       /\ IsNext(p, i)
       /\ Move(p, IF Precondition(p, i) THEN "swap" ELSE "unwind")
       /\ unseen' = unseen \ {i}
  /\ UNCHANGED <<world, left>>

CheckDone(p) ==
  /\ pc[p] = "check" /\ due[p] = {}
  /\ Move(p, "verify")
  /\ UNCHANGED <<world, unseen, left>>

(* One rename (or unlink) makes the planned bytes live. *)
Publish(p, i) ==
  IF i = Catalog
    THEN catalog' = Tool[p] /\ UNCHANGED disk
    ELSE disk' = [disk EXCEPT ![i] = Bytes(i, Want(p))] /\ UNCHANGED catalog

SwapTarget(p) ==
  /\ pc[p] = "swap"
  /\ \E i \in due[p] :
       /\ IsNext(p, i)
       /\ Publish(p, i)
       /\ due' = [due EXCEPT ![p] = @ \ {i}]
  /\ pc' = [pc EXCEPT ![p] = "check"]
  /\ UNCHANGED <<backup, lock, config, litter, plan, saved, unseen, left>>

(* Mutant: only the targets this apply wrote itself are read back. *)
VerifiedIfWritten(p, t) ==
  t \in Writes(p) => disk[t] = Bytes(t, Want(p))

(***************************************************************************)
(* _verify_published_targets.  A unit that no package declares any more    *)
(* must be gone if it was removed, untouched if it was preserved; if it    *)
(* was missing already the plan says NOOP with empty bytes, and the        *)
(* missing path is then reported as a mismatch.                            *)
(***************************************************************************)
Verified(p, t) ==
  CASE Wanted(p, t) -> disk[t] = Bytes(t, Want(p))
    [] ~Wanted(p, t) /\ Owned(p, t) /\ plan[p].seen[t] = Absent -> FALSE
    [] ~Wanted(p, t) /\ Owned(p, t) /\ plan[p].seen[t] # Absent ->
         disk[t] = IF t \in Removes(p) THEN Absent ELSE plan[p].seen[t]
    [] OTHER -> TRUE

Verify(p) ==
  /\ pc[p] = "verify"
  /\ unseen' = {}
  /\ IF (\A t \in Targets : Verified(p, t)) /\ (Refreshes(p) => catalog = Tool[p])
       THEN IF NextLock(p) = plan[p].lock THEN Exit(p) ELSE Move(p, "publish")
       ELSE Move(p, "unwind")
  /\ UNCHANGED <<world, left>>

(* Recheck lock.toml, then rename the staged lock over it. *)
PublishLock(p) ==
  /\ pc[p] = "publish"
  /\ IF lock = plan[p].lock
       THEN lock' = NextLock(p) /\ Move(p, "settle")
       ELSE UNCHANGED lock /\ Move(p, "unwind")
  /\ UNCHANGED <<catalog, backup, config, disk, litter, unseen, left>>

(* After the lock landed: drop the refresh backup and finish. *)
Settle(p) ==
  /\ pc[p] = "settle"
  /\ backup' = IF saved[p] THEN None ELSE backup
  /\ Exit(p)
  /\ UNCHANGED <<catalog, lock, config, disk, litter, unseen, left>>

(* Mutant: the backup goes, but the catalog stays as the apply left it. *)
UnwindWithoutRestore(p) ==
  /\ pc[p] = "unwind"
  /\ backup' = IF saved[p] THEN None ELSE backup
  /\ Exit(p)
  /\ UNCHANGED <<catalog, lock, config, disk, litter, unseen, left>>

(* _restore_catalog_before_lock, then the result reports the failure. *)
Unwind(p) ==
  /\ pc[p] = "unwind"
  /\ IF saved[p]
       THEN /\ catalog' = IF catalog = plan[p].catalog THEN catalog ELSE backup
            /\ backup' = None
       ELSE UNCHANGED <<catalog, backup>>
  /\ Exit(p)
  /\ UNCHANGED <<lock, config, disk, litter, unseen, left>>

-----------------------------------------------------------------------------
(* Applying a recovery plan under the exclusive lock.                      *)

(* Mutant: the repair trusts the plan it was shown. *)
EvidenceAssumed(p) == plan[p].litter \subseteq litter

(* Every digest the recovery plan recorded still holds. *)
EvidenceCurrent(p) ==
  /\ <<config, catalog, lock, backup>> =
       <<plan[p].config, plan[p].catalog, plan[p].lock, plan[p].backup>>
  /\ plan[p].litter \subseteq litter

(* Mutant: the repair keeps the catalog it found. *)
MendWithoutRestore(p) ==
  /\ pc[p] = "mend"
  /\ IF EvidenceCurrent(p) THEN Move(p, "sweep") ELSE Exit(p)
  /\ UNCHANGED <<world, unseen, left>>

(* Put the backed-up catalog in place when it is the one the lock names. *)
Mend(p) ==
  /\ pc[p] = "mend"
  /\ IF EvidenceCurrent(p)
       THEN /\ catalog' = IF catalog = lock.release THEN catalog ELSE backup
            /\ Move(p, "sweep")
       ELSE UNCHANGED catalog /\ Exit(p)
  /\ UNCHANGED <<backup, lock, config, disk, litter, unseen, left>>

(* Unlink the dead process's temporaries one by one, *)
Sweep(p) ==
  /\ pc[p] = "sweep"
  /\ \E q \in plan[p].litter \intersect litter : litter' = litter \ {q}
  /\ UNCHANGED <<catalog, backup, lock, config, disk, command, unseen, left>>

SweepDone(p) ==
  /\ pc[p] = "sweep" /\ plan[p].litter \intersect litter = {}
  /\ Move(p, "prune")
  /\ UNCHANGED <<world, unseen, left>>

(* and the backup last. *)
Prune(p) ==
  /\ pc[p] = "prune"
  /\ backup' = None
  /\ Exit(p)
  /\ UNCHANGED <<catalog, lock, config, disk, litter, unseen, left>>

(* Mutant: the staged catalog is checked but never renamed into place. *)
RegrowWithoutRename(p) ==
  /\ pc[p] = "regrow"
  /\ Exit(p)
  /\ UNCHANGED <<world, unseen, left>>

(* Regenerate a missing catalog from the installed distribution. *)
Regrow(p) ==
  /\ pc[p] = "regrow"
  /\ catalog' = IF catalog = None /\ config = plan[p].config /\ lock = plan[p].lock
                  THEN Tool[p] ELSE catalog
  /\ Exit(p)
  /\ UNCHANGED <<backup, lock, config, disk, litter, unseen, left>>

-----------------------------------------------------------------------------
(* Desired-config edits, which also take the exclusive lock.               *)

StartEdit(p) ==
  /\ pc[p] = "idle" /\ CanOwn(p)
  /\ left["edit"] > 0
  /\ Move(p, "edit")
  /\ UNCHANGED <<world, unseen, left>>

WriteConfig(p, c) ==
  /\ pc[p] = "edit"
  /\ config' = c
  /\ Spend("edit")
  /\ Exit(p)
  /\ UNCHANGED <<catalog, backup, lock, disk, litter, unseen>>

-----------------------------------------------------------------------------
(* Faults: I/O errors, interrupts and the death of a process.              *)

(* An error before the step's rename: nothing changes but the control flow. *)
Fail(p) ==
  /\ pc[p] \in Publishing \union Mending \union {"regrow", "edit"}
  /\ Spend("fault")
  /\ IF pc[p] \in Publishing THEN Move(p, "unwind") ELSE Exit(p)
  /\ UNCHANGED <<world, unseen>>

(* The rename took effect, but fsync raised (or ^C arrived) before the code *)
(* recorded it: the handler runs without knowing.                           *)
Slip(p) ==
  /\ pc[p] \in Slips
  /\ Spend("fault")
  /\ \/ pc[p] = "save" /\ backup' = catalog /\ UNCHANGED <<catalog, lock, disk>>
     \/ /\ pc[p] = "swap"
        /\ \E i \in due[p] : IsNext(p, i) /\ Publish(p, i)
        /\ UNCHANGED <<backup, lock>>
     \/ /\ pc[p] = "publish" /\ lock = plan[p].lock
        /\ lock' = NextLock(p)
        /\ UNCHANGED <<catalog, backup, disk>>
  /\ Move(p, "unwind")
  /\ UNCHANGED <<config, litter, unseen>>

(* CP-CATALOG-ROLLBACK, or a suppressed error of the final unlink. *)
LeaveBackup(p) ==
  /\ pc[p] \in {"unwind", "settle"} /\ saved[p]
  /\ Spend("fault")
  /\ Exit(p)
  /\ UNCHANGED <<world, unseen>>

(* The process dies: the kernel drops its flock, staged files stay behind. *)
Crash(p) ==
  /\ pc[p] \in Owning
  /\ Spend("fault")
  /\ \/ UNCHANGED litter
     \/ pc[p] \in Publishing \union {"unwind", "mend", "regrow", "edit"}
        /\ litter' = litter \union {p}
  /\ Exit(p)
  /\ UNCHANGED <<catalog, backup, lock, config, disk, unseen>>

-----------------------------------------------------------------------------
(* What happens outside the tool.                                          *)

(* A consumer edits or deletes a target at any moment. *)
Tamper(t) ==
  /\ Spend("tamper")
  /\ \E b \in ConsumerBytes \ {disk[t]} : disk' = [disk EXCEPT ![t] = b]
  /\ unseen' = unseen \union {t}
  /\ UNCHANGED <<control, config, litter, command>>

(* A merge drops one generated control file while no command runs on it. *)
AtRest == \A p \in Procs : pc[p] \in Unlocked
LoseFile ==
  /\ AtRest /\ backup = None /\ None \notin {catalog, lock}
  /\ Spend("loss")
  /\ \/ catalog' = None /\ UNCHANGED lock
     \/ lock' = None /\ UNCHANGED catalog
  /\ UNCHANGED <<backup, config, disk, litter, command, unseen>>

-----------------------------------------------------------------------------

(* The repository as `init` left it, over any tree the consumer had. *)
Init ==
  /\ catalog = FirstRelease /\ backup = None
  /\ lock = [release |-> FirstRelease, config |-> FirstConfig, created |-> {}]
  /\ config = FirstConfig
  /\ disk \in Prior
  /\ litter = {}
  /\ pc = [p \in Procs |-> "idle"]
  /\ plan = [p \in Procs |-> None]
  /\ due = [p \in Procs |-> {}]
  /\ saved = [p \in Procs |-> FALSE]
  /\ unseen = {}
  /\ left = Budget

(* What a running command does next when no fault strikes. *)
Proceed(p) ==
  \/ Inspect(p) \/ PlanTargets(p) \/ Diagnose(p) \/ Assess(p) \/ Acquire(p)
  \/ Recheck(p) \/ SaveBackup(p) \/ CheckTarget(p) \/ CheckDone(p) \/ SwapTarget(p)
  \/ Verify(p) \/ PublishLock(p) \/ Settle(p) \/ Unwind(p)
  \/ Mend(p) \/ Sweep(p) \/ SweepDone(p) \/ Prune(p) \/ Regrow(p)
  \/ \E c \in Configs : WriteConfig(p, c)

Command(p) == StartReconcile(p) \/ StartRepair(p) \/ StartEdit(p)
Fault(p) == Fail(p) \/ Slip(p) \/ LeaveBackup(p) \/ Crash(p)
Consumer == LoseFile \/ \E t \in Targets : Tamper(t)

Next == Consumer \/ \E p \in Procs : Command(p) \/ Proceed(p) \/ Fault(p)

Spec == Init /\ [][Next]_vars

-----------------------------------------------------------------------------
(* Properties.                                                             *)

(* An interrupted or failed apply never destroys the evidence a repair     *)
(* needs: no tool ever finds catalog, backup and lock inconsistent         *)
(* (_load_initialized_state, _catalog_refresh_recovery).                   *)
EvidenceSurvives == \A p \in Procs : Verdict(p) # "inconsistent"

(* The lock is published last: when it changes, every target no consumer   *)
(* touched since verification holds the bytes the new lock claims, and     *)
(* every target it relinquishes is gone (_apply_locked, _verify).          *)
LockNamesVerifiedTree ==
  [][lock' # lock /\ lock' # None =>
       \A t \in Targets \ unseen :
         /\ Bytes(t, lock') # Absent => disk[t] = Bytes(t, lock')
         /\ Bytes(t, lock') = Absent /\ lock # None /\ t \in lock.created => disk[t] = Absent
    ]_vars

(* No command overwrites or removes consumer bytes, except bytes that      *)
(* arrived after its last look at the path (_assert_precondition).         *)
ConsumerBytesSurvive ==
  [][left'["tamper"] = left["tamper"] =>
       \A t \in Targets \ unseen : disk[t] = Edited => disk'[t] = Edited]_vars

(* An older tool racing a newer one never takes the lock back to an older  *)
(* release (NEWER_RELEASE, CP-STALE-PLAN).                                 *)
NoDowngrade ==
  [][lock # None /\ lock' # None => lock'.release >= lock.release]_vars

(* The catalog release a reader of the control plane can still resolve. *)
Lineage == IF lock # None /\ lock.release \in {catalog, backup} THEN lock.release ELSE catalog

Promise == INSTANCE Authority WITH
  Commits   <- Locks,
  FirstLock <- [release |-> FirstRelease, config |-> FirstConfig, created |-> {}],
  applied   <- lock,
  lineage   <- Lineage,
  base      <- [p \in Procs |-> IF plan[p] = None THEN {} ELSE {plan[p].lock}]

(* Files renamed one by one, by processes that fail and die, implement the *)
(* atomic authority of module Authority.                                   *)
ImplementsAuthority == Promise!Spec

-----------------------------------------------------------------------------
(* The inductive invariant behind EvidenceSurvives and ImplementsAuthority. *)

(* One writer excludes every other holder of the lock. *)
Exclusion ==
  \A p, q \in Procs : p # q /\ pc[p] \in Owning => pc[q] \in Unlocked

Planned == {"plan", "ready"} \union (Owning \ {"edit"})
PlanHeld == \A p \in Procs : pc[p] \in Planned <=> plan[p] # None

(* Which kind of plan a position belongs to. *)
KindAt(label) ==
  CASE label = "plan" -> {"reconcile"}
    [] label \in Publishing \union {"recheck", "unwind", "settle"} -> {"reconcile", "relock"}
    [] label \in Mending -> {"refresh"}
    [] label = "regrow" -> {"regrow"}
    [] OTHER -> Kinds

(* What detection established about the files a plan was made from. *)
PlanSound(p) ==
  /\ plan[p].kind \in KindAt(pc[p])
  /\ plan[p].kind = "reconcile" =>
       /\ plan[p].lock # None /\ plan[p].catalog = plan[p].lock.release
       /\ plan[p].lock.release <= Tool[p]
  /\ plan[p].kind = "relock" => plan[p].lock = None /\ plan[p].catalog = Tool[p]
  /\ plan[p].kind = "regrow" => plan[p].lock # None /\ plan[p].lock.release = Tool[p]
  /\ plan[p].kind = "refresh" =>
       plan[p].lock # None /\ plan[p].lock.release \in {plan[p].catalog, plan[p].backup}
PlansSound == \A p \in Procs : plan[p] # None => PlanSound(p)

(* The evidence a reader needs, whatever release it has installed. *)
EvidenceKept ==
  None \notin {catalog, lock} =>
    IF backup = None THEN catalog = lock.release ELSE lock.release \in {catalog, backup}

(* How far the applying process has come, and what that says of the files. *)
Unpublished == Publishing \union {"unwind"}
Progress(p) ==
  /\ Catalog \in due[p] => plan[p] # None /\ Refreshes(p)
  /\ saved[p] => pc[p] \in (Unpublished \ {"save"}) \union {"settle"} /\ Refreshes(p)
  /\ saved[p] /\ pc[p] \in Unpublished => backup = plan[p].catalog
  /\ pc[p] \in Unpublished => lock = plan[p].lock
  /\ pc[p] \in Unpublished /\ plan[p].kind = "relock" => catalog = Tool[p]
  /\ pc[p] = "save" => Refreshes(p) /\ catalog = plan[p].catalog /\ backup = None
  /\ pc[p] \in Publishing \ {"save"} /\ Refreshes(p) => saved[p]
  /\ pc[p] = "publish" /\ Refreshes(p) => catalog = Tool[p]
  /\ pc[p] = "settle" /\ saved[p] => lock # None /\ catalog = lock.release
  /\ pc[p] \in {"sweep", "prune"} => lock # None /\ catalog = lock.release

Inductive ==
  /\ TypeOK /\ Exclusion /\ PlanHeld /\ PlansSound /\ EvidenceKept
  /\ \A p \in Procs : Progress(p)

(***************************************************************************)
(* The inductive invariant behind LockNamesVerifiedTree,                   *)
(* ConsumerBytesSurvive and NoDowngrade.                                   *)
(***************************************************************************)

(* A container is recorded only for a target the lock renders. *)
ContainersGrounded == lock # None => \A t \in lock.created : Bytes(t, lock) # Absent

(* A plan replaces a lock no newer than its tool, or none at all. *)
Replaces(p) ==
  /\ plan[p].kind = "reconcile" => plan[p].lock # None /\ plan[p].lock.release <= Tool[p]
  /\ plan[p].kind = "relock" => plan[p].lock = None

(* What an apply knows of its plan and of the paths it looked at last. *)
Applying == {"recheck"} \union Publishing
ApplySound(p) ==
  /\ plan[p].kind \in {"reconcile", "relock"} /\ Applicable(p)
  /\ pc[p] \in Publishing => due[p] \subseteq Mutating(p)
  /\ pc[p] = "swap" => \A t \in Targets \ unseen : IsNext(p, t) => Precondition(p, t)
  /\ pc[p] = "publish" => \A t \in Targets \ unseen : Verified(p, t)

TreeInductive ==
  /\ ContainersGrounded
  /\ \A p \in Procs : plan[p] # None => Replaces(p)
  /\ \A p \in Procs : pc[p] \in Applying => ApplySound(p)

-----------------------------------------------------------------------------
(* What the documentation and the tests say that the code does not do.     *)

(* "precondition hashes and the previous lock make the rerun safe": when   *)
(* nobody touched a target since the plan was rechecked and every action   *)
(* was published, verification succeeds.                                   *)
UntouchedApplyVerifies ==
  \A p \in Procs : pc[p] = "verify" /\ unseen = {} =>
    \A t \in Targets : Verified(p, t)

=============================================================================
