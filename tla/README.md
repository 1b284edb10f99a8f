# Formal model of project-standards

`project-standards` installs packaged standards (tool configuration, templates, workflows,
skills) into consumer repositories, and carries the tool that lands work in them. Four parts
have behaviour that is hard to test, and are modelled here:

* the **control plane** of a repository: the consumer states a desired configuration in
  `.standards/config.toml`, and `reconcile --apply` publishes managed files, refreshes
  `.standards/catalog.toml` to the installed release, and finally writes
  `.standards/lock.toml`, the authority on what has been applied;
* the **handover** to it: `init` and `init --migrate --apply`, which create that directory
  and retire the legacy configuration;
* the **runner of provider children**, through which planning and verification execute
  packaged code in a process group of its own;
* the **paired commands** of `gh-workflow`, which take a pull request and its governing issue
  through GitHub's API.

All of it is ordinary processes over files, pipes or a remote service, which may stop at any
instruction, run side by side, and share what they change with people. Source paths below are
relative to the repository root.

## 1. Inventory

| Component | State it keeps | Operations | Interacts through | What makes it correct |
| --- | --- | --- | --- | --- |
| Locking (`control_plane/locking.py`) | `flock` on the directory `.standards/` | shared / exclusive, non-blocking acquisition | every command | one writer excludes all readers and writers |
| State detection (`state.py`) | none (reads) | classify config, catalog, lock, backup | first step of every command | never sees files no repair can explain |
| Planner (`planner.py`, `catalog_refresh.py`, `diagnostics.py`) | none (pure over a snapshot) | plan creates, adopts, updates, removals, conflicts, next lock | reads tree and catalog **without** the lock | consumer bytes are never planned away |
| Executor (`executor.py`) | staged temporaries, refresh backup | recheck, back up, publish in order, verify, write lock, roll back | exclusive lock | lock last; failure leaves evidence |
| Recovery (`recovery.py`) | none | missing catalog, missing lock, interrupted refresh | shared lock to plan, exclusive to apply | finishes what a crash left, from any point |
| Config edits (`config_edit.py`) | `config.toml` | enable / disable / select / version | exclusive lock | atomic replacement |
| Command line (`cli.py`) | none | routes `reconcile`, `--apply`, `--repair-state`, `init` | calls the above in sequence | decisions survive the gaps between calls |
| Bootstrap (`bootstrap.py`) | the directory `.standards/`, three control files | `init` | exclusive lock on a directory it may have to create | never over another authority; takes back what it made for nothing |
| Legacy migration (`migration.py`, `executor.py`) | intent file, targets, control files, legacy files | detect, plan, apply, resume | exclusive lock; the consumer's own files | resumable from every prefix; the legacy authority goes last |
| Resolution, package contract (`resolution.py`, `package_contract/`) | none | resolve selectors, authorize majors, classify releases | planner, catalog refresh | deterministic, authorized results |
| Providers (`providers.py`, `provider_subprocess.py`, `provider_worker.py`) | a child process group, four pipes, bounded captures | spawn, pump, deadline, cancellation, teardown | planner and executor call it, the child runs packaged code | no pipe waits for another; a frame is whole or refused; nothing outlives it holding a stream |
| Containment, snapshots, adapters | none | symlink-safe walks, semantic units of JSONC/TOML/YAML/Markdown | planner, executor | only contained paths, only declared units |
| Standards graph, MCP server, agent handoff, specifications, validators | none or static data | read-only services and text checks | command line | input-output functions |
| GitHub workflow tool (`internal/ghworkflow`) | none of its own; GitHub's issue, pull request, comments | `ready`, `merge`, `land`, `close`, `reopen`, `set` | one API call at a time, beside other operators, people, CI and auto-merge | what merges was vetted; completion is earned; a rerun finishes |
| Session start (`internal/agenthandoff`) | none | one bounded read | none | input-output function |

The hard behaviours: in the control plane, a plan computed under no lock and applied later;
four renames (backup, catalog, lock, removal of the backup) that must look like one; a handler
that must know how far it got; repairs that can themselves be interrupted; tools of different
releases on one repository; reruns that must accept what an earlier run left. In the handover,
a lock on a directory that does not exist yet and may be removed while others wait for it, and
an order of a dozen file operations of which every prefix must be resumable. In the provider
runner, three streams and a request that can block one another, a leader that exits while
descendants keep its pipes, and signals that are not obeyed. In the workflow tool, decisions made
on a gate that was read several calls ago, and multi-call writes whose any call may be the last.
`PROJECT.json` lists the hazards at their lines.

## 2. Modules

| Component | Specification | Abstract specification | Proofs | Instances |
| --- | --- | --- | --- | --- |
| control plane | `Reconcile` | `Authority`: lock and catalog lineage change in one atomic step, never backwards, only for a command that planned against the lock it replaces | `ReconcileProofs`, `TreeProofs` | `MCReconcile`, `MCRepair` (operator who reruns the repair) |
| handover | `Handover` | `Succession`: a central authority is established once, out of what the legacy one said, never replaced, and the legacy one retired only under it | `HandoverProofs`, `SuccessionProofs`, `QuietProofs` | `MCHandover`, `MCHandoverLive` (operator who reruns the migration) |
| provider runner | `ProviderProcess` | | `ProviderProofs` | `MCProvider` |
| paired commands | `Landing` | | `LandingProofs`, `PromiseProofs` | `MCLanding`, `MCLandingLive` (operator who reruns) |

The modules compose where the code does. `Reconcile` begins where `Handover` ends, with a complete
control plane (its `Init`); a provider that fails is a `Fail` of `Verify` in both, and
`ProviderProcess` says what such a call can return; `Landing` runs in the repository's remote and
shares no state with the others.

### `Reconcile`: one repository and the commands on it

Each member of `Procs` is a process slot with an installed release `Tool[p]`, running one command
at a time.

| Variable | In the code |
| --- | --- |
| `catalog`, `backup`, `lock`, `config` | `catalog.toml`, `.catalog-refresh.previous.toml`, `lock.toml`, `config.toml`; a catalog is named by its release, a lock by the release, the configuration it applied and the targets with `created_container`. A release stands for its catalog digest: detection and recovery compare digests, and two releases in the model always have different catalogs |
| `disk` | bytes of every managed whole-file target |
| `litter` | reserved temporaries in `.standards/` left by a process that died |
| `pc` | position in a command; the `flock` a process holds follows from it, because `control_plane_lock` is a `with` block |
| `plan` | `PlannerRequest` / `RecoveryPlan` and the snapshot a plan was computed from |
| `due` | mutating actions not yet in `ApplyResult.applied_action_ids` |
| `saved` | the local `catalog_backup_published` |
| `unseen` | history variable: targets a consumer changed after an apply's last look |
| `left` | what remains of the environment's budget |

| Action | Code |
| --- | --- |
| `StartReconcile`, `Inspect` | `detect_control_plane_state` under the shared lock, `build_planner_request` |
| `PlanTargets` | `plan_reconciliation`: reads tree and catalog under no lock |
| `StartRepair`, `Diagnose`, `Assess` | detection in `cli.run`, then `plan_recovery` under a second shared lock |
| `Acquire` | `apply_reconciliation` / `apply_recovery` taking the exclusive lock, or `CP-BUSY` |
| `Recheck` | head of `_apply_locked`: lock, authority preconditions, fingerprint of a fresh plan, no backup |
| `SaveBackup` | publication of the refresh backup |
| `CheckTarget`, `SwapTarget`, `CheckDone` | `_publish_targets`, one precondition read and one rename or unlink per action, in `action_sort_key` order; the catalog is one of the actions |
| `Verify`, `PublishLock`, `Settle` | `_verify_published_targets`, the rename of the lock, the `finally` that drops the backup |
| `Unwind` | `_restore_catalog_before_lock` |
| `Mend`, `Sweep`, `SweepDone`, `Prune` | `_publish_catalog_refresh_recovery` |
| `Regrow` | `_publish_catalog` |
| `StartEdit`, `WriteConfig` | `_edit_config`, `_atomic_replace_config` |
| `Fail`, `Slip`, `LeaveBackup`, `Crash` | an error before a step's rename; an error after it, before the code records it; an error of the rollback or of the final unlink; death of the process |
| `Tamper`, `LoseFile` | a consumer writes or deletes a managed path at any moment; one generated control file is lost while no command holds the lock |

A command that finds the lock held is refused and changes nothing, so only the grant of its
first lock is a step. Targets are whole files under the `managed` policy; "off" configurations
declare none. A wanted target that a process sees wrong is created, adopted, updated or a
conflict as in `_classify_desired`, a relinquished one as in `_classify_removed`.

### `Handover`: `init` and the legacy migration

| Variable | In the code |
| --- | --- |
| `authority` | `.project-standards.yml`: one of `Versions`, or gone |
| `disk` | the targets the selected packages write, and the relics (imported package locks) the migration retires |
| `dir`, `control`, `litter` | which directory `.standards` names (an inode, because processes lock the one they opened), its config, catalog, lock and intent, and whether a dead process left a temporary in it |
| `held`, `made` | the inode a process has locked; the one it created and has published nothing in (`created_container`) |
| `plan`, `staged`, `todo`, `answer` | the `LegacyMigrationPlan` and what it saw; temporaries of a process; targets it has not published; how its command will end |
| `born`, `edited`, `offered`, `moved` | history: targets a migration created, the consumer touched something, states of the legacy configuration, the consumer rewrote it under a central authority |

| Action | Code |
| --- | --- |
| `Detect`, `Survey`, `Draft`, `Recall`, `Confirm` | `run_init` and the migration planner: two detections under shared locks, capture of the files, what a resumed plan takes from the live lock, `_migration_plan_current` |
| `Look`, `Make`, `Acquire` | the legacy check of `initialize_control_plane`, `mkdir`, the exclusive lock |
| `Scan`, `Check`, `Stage`, `Recheck` | what is confirmed under the lock; temporaries; the last look before the first rename |
| `Scaffold`; `Intend`, `PublishTarget`, `PublishControl`, `Verify`, `Enthrone` | the renames of `init`; those of the migration up to the intent's rename into `lock.toml` |
| `RemoveRelic`, `Weigh`, `Unlink` | `_remove_legacy`, the configuration last |
| `Release`, `Sweep`, `Rmdir` | the way out: the lock goes first, then temporaries, then the directory, by path |
| `Fail`, `Crash` | an operation fails (also after it took effect, in `Done`); the process dies |
| `Edit`, `Amend` | the consumer writes targets or relics, or the legacy configuration |

### `ProviderProcess`: one invocation

| Variable | In the code |
| --- | --- |
| `job` | what the caller asks for and how the children behave: command or Python worker, diligent or not, length of the frame and its readable prefixes, amount of diagnostics, who ignores SIGTERM, which ends they may close |
| `life`, `holds`, `grouped`, `doomed`, `status` | the processes, the pipe ends they hold, the process group, pending fatal signals, the leader's exit status |
| `heard`, `told`, `sent`, `late`, `chat` | how far the leader and its descendants got; `late` is history: part of the frame was written after the last empty `select` |
| `buf` | the pipes |
| `phase`, `step`, `batch`, `over` | where the runner is: pump, the three drains of `_teardown`, its decisions; select, serve or poll; ready descriptors not yet served; the phase's deadline has passed |
| `open`, `stdin`, `pending`, `kept`, `raw`, `settled`, `answer` | the fields of `_Transport` and `CapturedStream`, `raw_result`, `settled`, and what the caller gets |

| Action | Code |
| --- | --- |
| `Spawn`, `Finish` | `run_provider_subprocess` around the pump, `_validated_frame` |
| `Complete`, `TimeOut`, `Select`, `Lapse`, `Write`, `Read`, `Poll` | `_Transport.run`, one step per test or system call |
| `Terminate`, `Look`, `Decide`, `KillLeader` | `_teardown` |
| `Cancel`, `Expire` | `KeyboardInterrupt` or `SystemExit` in the pump; the clock |
| `Fork`, `Detach`, `CloseEnd`, `ReadRequest`, `Say`, `WriteFrame`, `ChatterOn`, `Exit`, `Perish` | the children, between any two steps of the runner |

### `Landing`: one pull request and its governing issue

| Variable | In the code |
| --- | --- |
| `issue`, `pr`, `records` | what GitHub holds: native state, reason and Workflow field; state, draft, head and the head auto-merge is armed for; Final-Disposition comments |
| `role`, `clean`, `green` | the declared relationship; phases in which documents raise no finding; heads with good checks |
| `pc`, `job`, `phase`, `gate` | the API call an operator's command makes next, the command, the phase whose gate it loads, the loaded gate, which is never refreshed |
| `vetted`, `alone` | history: heads a Merge gate found clear or a person merged; operators whose command nobody else's write met |

| Action | Code |
| --- | --- |
| `ReadPull`, `ReadIssue`, `ReadEvidence` | loading a gate, one API call after another; `Findings` is `Evaluate` |
| `Advance`, `Observe`, `Sync`, `MarkReady`, `Confirm` | `runReady` and the crossing of `runLand` |
| `Arm`, `Merge`, `ObserveTerminal` | `mergeSteps` |
| `Fetch`, `Reopen`, `NativeState`, `WorkflowField` | `converge`, the ordered terminal sequence |
| `ListRecords`, `Record`, `Shut`, `Settle` | `dispositionSteps`, `closePullRequest` |
| `SetField` | `set --field Workflow=...` |
| `Stop` | the next call is refused, the last answer was lost, or the process died |
| `Push`, `Evidence`, `AutoMerge`, `ByHand` | everybody else |

## 3. Runs

Budgets (`Budget`, `Supply`, `Stock`) bound the environment and how many commands are issued, never
what a command does once it runs. Times are with two workers.

| Run | Instance | Distinct states | Checks |
| --- | --- | --- | --- |
| `MCUpgrade` | two processes, an old and a new tool, 2 faults, 2 config edits, 2 losses of a control file, slips at backup and targets | 1.07 M, 35 s | `Inductive`, `EvidenceSurvives`, `ImplementsAuthority` |
| `MCConsumer` | old and new tool, 1 fault (any slip), 2 edits, 1 consumer write | 371 k | `TypeOK`, `TreeInductive`, `LockNamesVerifiedTree`, `ConsumerBytesSurvive`, `NoDowngrade` |
| `MCRepair` | old and new tool, 2 faults, 1 loss, 4 commands besides the operator's reruns | 77 k | `InterruptedRefreshEnds`, `LostCatalogRegrows` |
| `MCHandover` | two processes, two versions of the legacy configuration, one target, one relic, three inodes, 3 commands, 1 failure or death, 1 change by the consumer | 2.77 M, 80 s | `TypeOK`, `ResumablePrefix`, `LockTellsOrigin`, `RetiredLast`, `AnswerHolds`, `OwnDirectory`, `Succeeds` |
| `MCHandoverLive` | one version, an operator who reruns the migration, 1 other command, 2 faults | 1.14 M, 62 s | `HandsOver` |
| `MCProvider` | a leader and a descendant, one diagnostic stream, six kinds of leader | 657 k, 63 s | `Inductive`, `NoHolderSurvives`, `NoPartialFrame`, `FrameDelivered`, `Returns` |
| `MCLanding` | two operators with one login, two heads, three roles, 2 commands out of eleven, 1 fault, 1 push, 1 act of a person | 959 k, 44 s | `TypeOK`, `Inductive`, `MergedWasVetted`, `CompletionIsEarned`, `AbandonedOnRecord`, `SuccessMeansDone` |
| `MCLandingLive` | one operator who reruns, 1 other command, 2 faults, 1 push, 2 changes of the evidence, 1 act of a person | 260 k, 25 s | `LandsEventually`, `MergedCompletes` |

### Why the bounds are enough

*Control plane.* Releases 1 and 2, two configurations and two targets: `early`, whose bytes change
with every release and which is published *before* the catalog, and `late`, whose bytes never
change and which is published *after* it. Two processes give every interleaving of a writer with a
stale planner, and the exclusive lock leaves no third role. Two faults let a repair be interrupted
after an apply was. Two edits switch a package on and off again, which is what it takes to own a
file and relinquish it. `MCUpgrade` and `MCConsumer` check the invariants that the proofs show to be
inductive, so what lies beyond these bounds is covered by the theorems.

*Handover.* Three commands let a migration be begun, overtaken and resumed; two versions let the
configuration change between plan and apply; three inodes let a directory be removed and recreated
twice while a process still has the first one open. One target and one relic give one file on each
side of the control files, and a crash between any two of them. All safety properties are proved for
every instance, the refinement of `Succession` unless a legacy configuration is restored where an
`init` may run. Processes and inodes are symmetric; the liveness run uses no symmetry.

*Providers.* A pipe of two bytes, a request of three and up to three diagnostic bytes force both
sides to block; a stream limit of one byte and a result limit of two are passed by the jobs, one of
which writes a frame beyond the limit whose prefix at the limit can be read; one descendant is
enough to outlive the leader, to keep or close its streams and to leave the group. The safety
properties are proved for every set of descendants, capacity, limit and job.

*Paired commands.* Two commands give a reader of a gate and everything that can overtake it; the
push, the person and the auto-merge are the other writers. `MCLandingLive` leaves out the second
operator and adds faults and evidence, since it asks about reruns. All safety properties are proved
for any number of operators, heads and commands.

### Fairness

A started command keeps running (weak fairness of `Proceed(p)`); nothing is assumed about faults
except that their budget is finite. None of the locks queues, so nothing in the code stops two
people from refusing one another for ever; the liveness properties are therefore about an operator
who keeps doing what the tool's answers say (weak fairness of `Rerun`), when only finitely many
other commands are issued:

* `MCRepair`: reruns `reconcile --repair-state --apply` with the newest release while detection asks
  for it;
* `MCHandoverLive`: reruns `init --migrate --apply` until it succeeds, while an `init` or another
  migration may run beside it and the consumer leaves the files alone;
* `MCLandingLive`: reruns `land` while the pull request is open, and `close --issue --as done` once
  it merged and the issue lags. That a merged pull request is not simply rerun is a fact of the code: its
  required evidence may no longer be known, and `land` then refuses. People act only after the
  merge: closing the pull request or the issue before it is a decision not to land.

`ProviderProcess` assumes that the runner runs, that a process with a fatal signal pending ends,
that a diligent leader does its work, and that deadlines pass, *except* the invocation's deadline
while a diligent leader is served. So `Returns` shows that no two pipes wait for each other without
help from the deadline. Descendants write a bounded amount (see the divergences below).

Deadlock checking is off in the runs of `Landing`, `Handover` and `MCRepair`: once the supply is used up and
nothing is left to do, the system rightly stops. It is on everywhere else; `MCProvider` ends in a
self-loop.

### Violations: where the code and its documentation disagree

Each of these runs checks one sentence of a document, docstring or test and fails.

| Run | Sentence | What the trace shows |
| --- | --- | --- |
| `MCLateSync` | NFR-004: an interrupted apply leaves the previous lock authoritative and enough evidence to repair | `os.fsync` raises after `os.replace` of `lock.toml` and before `lock_published = True`; the handler restores the old catalog under the new lock and consumes the backup; detection then answers INCONSISTENT, which no recovery accepts |
| `MCRerun` | precondition hashes and the previous lock make the rerun safe | an apply dies after it removed a target; the rerun has nothing to do there, but verification reports the missing path and the lock is never written |
| `MCTrample` | plain `init` refuses legacy YAML, partial state or different content | `init` finds nothing and creates `.standards/`; a legacy configuration is checked out and migrated in that directory before `init` has its lock; because it created the directory it looks at no existing file, and replaces the complete control plane by the neutral one |
| `MCSurvivor` | every exit path of the runner tears down the complete process group | SIGKILL is sent only while the leader lives or a captured stream is open; a member that ignores SIGTERM and has let go of its streams is left running |

### Known divergences that no run refutes

What else was met while modelling; each is a hazard in `PROJECT.json` or a remark on one. Python files without a directory are in
`src/project_standards/control_plane/`.

* `ApplyResult` promises the exact mutation prefix; a target whose rename took effect and whose
  fsync failed is missing from it (`executor.py:883`).
* A rerun after a crash adopts the files the tool itself had written, with `created_container =
  false`; a later disable leaves them behind (`planner.py:2153`).
* A config edit between plan and apply is not noticed, and the lock names the configuration that was planned
  (`executor.py:1172`).
* `CP-MODIFIED-MANAGED` blames the consumer also when a plan read the tree of an unfinished apply
  (`planner.py:1607`).
* `init` that dies after publishing none or one of its three files leaves a state no command repairs
  (`bootstrap.py:205`).
* `ready` on a pull request that left draft under an issue still "In progress" refuses because of
  the finding whose remedy is to rerun `ready` (`internal/ghworkflow/mutate/ready.go:181`, `internal/ghworkflow/relation/evaluate.go:267`).
* `close --pr`: a pull request that merges after the gate was read is reported closed unmerged, and
  its issue dropped (`internal/ghworkflow/mutate/closepr.go:200`).
* The docstring of `_Transport.run` says a descendant that keeps the pipes after the leader's exit
  does not hold the invocation to its deadline; the poll is reached only when `select` returns
  nothing, so one that writes without pause does (`provider_subprocess.py:187`).
* The comment at `provider_subprocess.py:320` wants the leader reaped only after the last group
  signal; `poll()` at 315 and 317 reaps it before.
* A frame written between an empty `select` and the `poll` that finds the leader gone is not read;
  `NoPartialFrame` and `FrameDelivered` exclude exactly this (`late`).
* A `KeyboardInterrupt` during `_teardown` ends the teardown; a descendant that called `setsid` is
  never signalled; a command that closes its result and takes longer than the grace period to exit
  is sent SIGTERM and reported as failed.

## 4. Proofs

The theorems hold for every value of the constants that satisfies the named assumptions of the
module (TLC evaluates those in every run).

**`ReconcileProofs`**: any processes, releases, configurations, targets, rendering, publication
order, initial tree and budget.

1. `TypeCorrect`: `Spec => [](TypeOK /\ PlanHeld)`.
2. `InductiveHolds`: `Spec => []Inductive`.
3. `EvidenceAlwaysSurvives`: `Spec => []EvidenceSurvives`.
4. `AuthorityImplemented`: `Spec => ImplementsAuthority`, the refinement of `Authority`.

2 to 4 assume `"publish" \notin Slips`: that the fsync after the lock's rename does not raise.
`MCLateSync` shows that without this the claim is false of the code. Nothing else is assumed of
`Slips`.

*The argument.* `EvidenceSurvives` is not inductive: it speaks only of the files, while what
keeps it true is where the one writer stands. `Inductive` adds four parts. `Exclusion`: while one
process owns the lock no other stands where it would hold it. `PlansSound`: what detection
established about the files a plan was frozen from (a reconcile plan was made from a catalog the
lock names, a refresh from a lock that names catalog or backup). `EvidenceKept`: without a backup
the catalog is the lock's, with one the lock names one of the two. `Progress`: what the writer's
position says of the files: while it publishes, the lock is still the plan's; a saved backup is
the catalog the plan saw; at `publish` the catalog is already the tool's; at `settle` the new lock
names it. Every action is one step of the induction proof. The refinement maps the abstract
lineage to the catalog a reader can still resolve (`Lineage`): the lock's release while catalog or
backup carries it, the catalog otherwise. Every concrete step but lock publication, regeneration,
loss and the beginning and end of plans maps to a stutter.

**`TreeProofs`**: the same, for every set of slips, the late lock sync included.
`TreeInductiveHolds` (`[]TreeInductive`), `LocksNameVerifiedTrees` (`LockNamesVerifiedTree`),
`ConsumerBytesSafe` (`ConsumerBytesSurvive`), `NeverDowngrades` (`NoDowngrade`).

*The argument.* These properties are about the tree, not about the evidence, and must not rest on a
rollback going well; so they have an invariant of their own. `TreeInductive` says that a lock claims
as created only targets it renders (`ContainersGrounded`), that a plan never replaces a newer lock
(`Replaces`), and what an apply knows after its recheck (`ApplySound`): its plan is applicable, what
is still due is what the plan wanted to change, the path it is about to rename holds what its last
look found, and before it publishes the lock every path is as the plan renders it; the last two but
for the paths in `unseen`, which a consumer has changed since. Writers exclude each other, so the
tree moves under an apply only by its own hand or the consumer's, and the consumer's adds to
`unseen`. A lock that lands in a slip is the one the apply verified, hence the same lemma serves
`PublishLock` and its `Slip`.

**`HandoverProofs`**: any processes, versions, targets, relics, inodes, commands and supply.
`TypeCorrect`, `InductiveHolds`, `PrefixHolds` (`[]ResumablePrefix`), `DirectoryOwned`
(`OwnDirectory`).

*The argument.* `ResumablePrefix` speaks of a legacy configuration that never changed (`Steady`);
its inductive form also says what each position of a command relies on (`Relies`): a migration's plan
is of a version that was offered, an `init` past its first look met no legacy configuration, a
migration past its intent finds intent or lock in place, past its config the config, and whoever is
about to write still holds the lock of the directory `.standards` names, which is not empty or holds
its temporaries. `Sole`: a directory is locked by one process, and the one a process would remove is
the one `.standards` names, with no other process about to remove it. `InOrder` and `OfAuthority`
then follow the control files through each rename. So the `rmdir` by path meets the directory its
process created, and it fails on one that another process has begun to fill.

**`SuccessionProofs`**: `SuccessionImplemented` (`Spec => Succeeds`, the refinement of `Succession`)
and `NeverReplaced` (`NothingReplaced`), both for `Supply["restore"] = 0 \/ "init" \notin Jobs`: the
consumer restores no legacy configuration where an `init` may run. `MCTrample` shows that
this is needed: with one restoration and an `init`, `NothingReplaced` fails of the code. Where no
`init` runs, restorations are not restricted.

*The argument.* `Standing` adds to the inductive invariant of `HandoverProofs` what needs no
condition: a lock never stands without config and catalog (`Whole`), control files need a directory
(`Housed`), an intent is of a configuration that was offered (`Intended`), and per position
(`Stands`) that a migration past its first temporary goes on only beside an intent or a lock of its
own plan, and that it is about to unlink the configuration it planned from, unless the consumer
rewrote that under the central authority. `Orderly` adds the part that the condition buys: an `init`
past its look writes where no legacy configuration is; a directory it created holds no control file
until it writes its own, and no migration is about to write there. The abstract central authority is the lock read through config and
catalog. It changes in two steps only, the last rename of an `init` and the rename of the intent
into the lock; the abstract legacy one is retired by `Unlink` alone; every other step is a stutter
or the consumer's.

**`QuietProofs`**: `LockOrigin` (`[]LockTellsOrigin`), `RetirementLast` (`[]RetiredLast`),
`AnswersHold` (`[]AnswerHolds`). Their properties speak of repositories whose consumer has edited
nothing so far (`~edited`); beyond that the theorems assume nothing.

*The argument.* `Kept` is `Standing`, and `Quiet` until the first edit. Without edits at most one
legacy version was ever offered. If one was, the control plane grows out of it (`Grown`): every
control file has the text that the version and `Origin` determine, where `Origin`, the targets absent
now or created by a migration, is the same in every state, since creating a target only moves it from
one to the other. So an intent, the lock it becomes and a resumed plan all record the same created
targets, however often the migration died in between; the lock stands only over installed targets,
the configuration goes only after the lock and the relics, and an `init` past its look does not
exist. If none was, there are no control files but blank ones (`Neutrally`). `Content` then says
that whoever is on the way to answer ok leaves the complete authority.

**`ProviderProofs`**: any descendants, diagnostic streams, capacity, limits, request and jobs.
`TypeCorrect`, `InductiveHolds`, `StreamsReleased` (`[]NoHolderSurvives`), `FramesWhole`
(`[]NoPartialFrame`), `Delivered` (`[]FrameDelivered`).

*The argument.* One lemma per part of `Inductive`. A stream that was read to its end has no writer
and gets none, because ends are only inherited (`Sealed`). So when no captured stream is open at
the decision to kill, nobody holds one, and otherwise the whole group was signalled and a fork of a
signalled process does not happen (`Slain`). What was kept of the result is the prefix of what was
written, up to the limit (`Conserved`); the pipe is empty when the leader is polled, but for what
was written since the select (`PolledEmpty`); hence a pump that ends by itself has taken the whole
frame (`Taken`), which a diligent leader had finished (`Dutiful`).

**`LandingProofs`**: any operators, accounts, heads, commands and supply. `TypeCorrect`,
`InductiveHolds`, `MergesAreVetted` (`[]MergedWasVetted`), `CompletionEarned`
(`CompletionIsEarned`), `AbandonmentRecorded` (`AbandonedOnRecord`).

*The argument.* `MergedWasVetted` needs to know where the head of a merge or auto-merge request
came from: `Inductive` adds that an armed head was vetted, that a command about to merge or arm
holds the gate of a vetted head, that a command about to close a pull request has its record in
place, that one converging an issue has seen its pull request merged (`Earned`), and which commands
reach which calls (`Errand`). Merged pull requests stay merged and records are never removed, so steps of others
keep these facts (`OthersStep`); the steps of the command itself are one lemma each.

**`PromiseProofs`**: the same, `PromiseHolds` (`[]SuccessMeansDone`).

*The argument.* `Owing` says for every command which calls it can reach (`Clear`), and for every
command in `alone` what its position owes to the promise it is going to make (`Owed`). A gate is
still what GitHub holds (`Fresh`) while the command has written nothing; after its first write the
gate is stale by the command's own hand, and `Owed` follows the writes instead: before `mark` the
issue is in a phase that a ready pull request may have (`Reviewable`), before `shut` exactly one
outcome is on record, between the native state and the field the issue is already closed or open as
the row of the terminal table wants. Somebody else's write takes every other command out of `alone`, so
the others' steps need no more than that they leave GitHub alone.

*Only model-checked.* The liveness properties `InterruptedRefreshEnds`, `LostCatalogRegrows`,
`HandsOver`, `Returns`, `LandsEventually` and `MergedCompletes`, because liveness under fairness is
outside the prover's reach. Every safety property of a passing run is stated by a theorem.

## 5. What is not modelled, and why

Control plane:

* Content below the file: semantic units, adapters, modes, provenance and digests. Whole files
  suffice for every crash and race above; units come with the policies (plan, item 1).
* Create-only artifacts, recorded absences, symlink aliases, namespace pruning and configuration
  transforms in the planner (plan, items 1 and 3).
* Parent directories, and temporaries beside targets outside a refresh.
* Managed restore and authoring apply as processes (plan, item 3).
* Malformed, unsafe and dual-authority states in `Reconcile`: detection refuses them and nothing
  there creates them. A lost file is lost only when no backup is present; other losses are refused
  by recovery.
* Majors: every release is of one catalog major, and the tool mismatch refusal never arises.

Handover:

* The precondition of a target or relic and its rename or unlink are one step; between them the
  code has the same window as `CheckTarget` and `SwapTarget` in `Reconcile`, where it is modelled.
* Temporaries beside targets, and the removal of empty legacy directories.
* What makes a plan applicable (reports, option schemas, signatures, bounded blocks) is
  `Plannable`; a verification provider that objects is `Fail`; the plan an apply makes again to
  compare is read in one step.
* The consumer restores a legacy configuration beside a starting `init` only in `MCTrample`.
* Relics are those sorted before the legacy configuration; shipped payloads have no others.

Provider runner:

* Qualification, schemas, the check of declared paths and the materialization of command packages:
  sequential functions over data.
* Only the leader writes the result; whether bytes parse is the set `readable` of a job; a Python
  worker replaces a result that is too long, so only commands write one.
* An `OSError` of the selector itself, process identifiers, and anything children do after the
  runner returned. One diagnostic stream in the run stands for two; the theorems cover any.

Paired commands:

* Declarations, sections, issue types, target dates and the other documentary findings are the set
  `clean`; check results, mergeability and branch protection the set `green`.
* GitHub, as the code uses it: auto-merge fires only for the head it was armed for; marking ready,
  arming and merging fail on a pull request that is not open; closing disarms; a state already held
  is accepted and its reason ignored; a merge may close the issue of a Final.
* Retries inside one call, the landing proof and all output change nothing here. Read-only audits and
  summaries have no state.

Everything else: validators, text formatting, documents and distribution, semantic adapters, the
MCP services, agent handoff, the standards graph and build scripts are sequential functions over
their input, without state the checker could explore; release policy and resolution are pure
algorithms, planned below. Most of the repository's lines are the payloads of some hundred package
versions, whose providers are such functions, repeated with small changes from version to version.

## 6. Plan

Done: the control plane's core, the handover (`Handover`, `Succession`), the provider runner
(`ProviderProcess`), the paired commands (`Landing`), and the proofs of all their safety
properties (section 4). Next, in order of importance:

1. `Ownership`: the planner's decision per unit (managed and create-only policies, absences,
   relinquishment, policy flips), composed over reruns: nothing of the consumer's is ever removed,
   and planning after applying is a fixed point.
2. `Resolution`: selectors, accepted tracks and major authorization as functions, against a
   reference definition; release policy of `package_contract`.
3. `Restore` and `Authoring`: the executor's other two entry points; alias followers.
4. Several pull requests on one issue in `Landing`: a Final beside Supporting ones.
