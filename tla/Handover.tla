------------------------------ MODULE Handover ------------------------------
(***************************************************************************)
(* How a repository comes under its control plane: `init`, which scaffolds *)
(* a neutral one, and `init --migrate --apply`, which replaces a legacy    *)
(* configuration.  Both create the directory they lock, so the lock of one *)
(* command may be on a directory another has removed; either may fail or   *)
(* die between any two file operations, and the consumer edits files       *)
(* meanwhile.  A migration is resumed from whatever an earlier one left.   *)
(***************************************************************************)
EXTENDS Integers, FiniteSets

CONSTANTS
  Procs,     \* process slots
  Versions,  \* contents the legacy configuration may have
  Targets,   \* files the selected packages write
  Relics,    \* imported package locks, sorted before the legacy configuration
  Inodes,    \* identities of a control directory
  Jobs,      \* commands that are run
  Neutral,   \* the selection `init` scaffolds
  Legacy,    \* bytes an old release wrote
  Own,       \* bytes only the consumer knows
  None,
  Supply     \* how often the environment acts, by kind of event

Files == {"config", "catalog", "lock", "intent"}
Paths == Targets \union Relics
Bytes == Versions \union {Legacy, Own, None}
Texts == [of : Versions \union {Neutral}, created : SUBSET Targets]
Kinds == {"command", "fault", "edit", "restore"}

ASSUME JobAssumption == Jobs \subseteq {"init", "migrate"}
ASSUME SupplyAssumption == Supply \in [Kinds -> Nat]
ASSUME DistinctAssumption ==
  /\ None \notin Versions \union Inodes \union {Legacy, Own, Neutral} \union Texts
  /\ Neutral \notin Versions /\ Versions \intersect {Legacy, Own} = {}
  /\ None \notin {"init", "migrate"}
  /\ Legacy # Own /\ Targets \intersect Relics = {}

VARIABLES
  authority, \* .project-standards.yml: a version, or None
  disk,      \* disk[x]: what a target or relic holds
  dir,       \* the directory .standards names, or None
  control,   \* control[f]: what it holds under each control file's name, or None
  litter,    \* it holds a temporary of a process that died
  pc, job,
  answer,    \* answer[p]: how p's command will end
  plan,      \* plan[p]: the migration p planned, or None
  held,      \* held[p]: the directory p has locked, or None
  made,      \* made[p]: the directory p created and has published nothing in, or None
  staged,    \* processes with temporaries in .standards
  todo,      \* todo[p]: targets p has still to publish
  born,      \* history: targets a migration created
  edited,    \* history: the consumer touched something
  offered,   \* history: states the legacy configuration has been in
  moved,     \* history: the consumer rewrote it under a central authority
  left       \* what remains of Supply

repo == <<authority, disk, dir, control, litter>>
local == <<pc, job, answer, plan, held, made, staged, todo>>
history == <<born, edited, offered, moved>>
vars == <<repo, local, history, left>>

Plans == [kind : {"fresh", "resume"}, of : Versions, seen : [Paths -> Bytes],
          created : SUBSET Targets]
Ended == {"idle", "ok", "failed"}
Working == {"look", "detect", "survey", "draft", "recall", "current", "make", "acquire", "scan", "check",
            "stage", "recheck", "intent", "targets", "config", "catalog", "verify", "lock",
            "relics", "weigh", "unlink", "settled", "release", "sweep", "rmdir"}
Leaving == {"settled", "release", "sweep", "rmdir"}

TypeOK ==
  /\ authority \in Versions \union {None}
  /\ disk \in [Paths -> Bytes]
  /\ dir \in Inodes \union {None}
  /\ control \in [Files -> Texts \union {None}]
  /\ litter \in BOOLEAN
  /\ pc \in [Procs -> Ended \union Working]
  /\ job \in [Procs -> Jobs \union {None}] /\ answer \in [Procs -> {"ok", "failed"}]
  /\ plan \in [Procs -> Plans \union {None}]
  /\ held \in [Procs -> Inodes \union {None}]
  /\ made \in [Procs -> Inodes \union {None}]
  /\ staged \subseteq Procs
  /\ todo \in [Procs -> SUBSET Targets]
  /\ born \subseteq Targets /\ edited \in BOOLEAN /\ moved \in BOOLEAN
  /\ offered \subseteq Versions \union {None}
  /\ left \in [Kinds -> Nat]

-----------------------------------------------------------------------------
(* What a command reads.                                                   *)

Present == {f \in Files : control[f] # None}
Complete == {"config", "catalog", "lock"} \subseteq Present
Central == IF Complete THEN control["lock"].of ELSE None

(* The bytes a command writes under a name.  The catalog depends on the    *)
(* release only; a migrated lock also says which files it created.         *)
Text(f, of, created) ==
  [of |-> IF f = "catalog" THEN Neutral ELSE of,
   created |-> IF f \in {"lock", "intent"} THEN created ELSE {}]
Mine(p, f) == Text(f, plan[p].of, plan[p].created)
Blank(f) == Text(f, Neutral, {})

(* A command sees the directory it locked, removed or not. *)
Seen(p, f) == IF held[p] = dir THEN control[f] ELSE None

(* Mutant: a complete control plane hides the legacy configuration. *)
StateCentral ==
  IF dir = None THEN IF authority = None THEN "uninitialized" ELSE "legacy"
  ELSE IF Complete THEN "initialized" ELSE IF authority # None THEN "dual" ELSE "incomplete"
(* Control-plane detection, as far as it goes on the files of this model. *)
State ==
  IF dir = None THEN IF authority = None THEN "uninitialized" ELSE "legacy"
  ELSE IF authority # None THEN "dual"
  ELSE IF Complete THEN "initialized" ELSE "incomplete"

(* The names an interrupted migration may have left. *)
SanctionedPrefixes ==
  {{}, {"intent"}, {"intent", "config"}, {"intent", "config", "catalog"},
   {"config", "catalog", "lock"}}
Sanctioned(m) ==
  /\ \A f \in Present : control[f] = Text(f, m.of, m.created)
  /\ Present \in SanctionedPrefixes

(* Planning: every target absent, recognized or already as wanted. *)
Plannable(of) ==
  /\ \A t \in Targets : disk[t] \in {None, Legacy, of}
  /\ \A r \in Relics : disk[r] \in {None, Legacy}
(* Mutant: an absent package lock counts as a file to create. *)
ObservedAnywhere == {x \in Paths : disk[x] = None}
Observed == {t \in Targets : disk[t] = None}
Planned(kind, of) == [kind |-> kind, of |-> of, seen |-> disk, created |-> Observed]

(* The files found in place by a resumed plan were created by the apply it *)
(* resumes, if the live lock says so.                                      *)
RecalledNever(m) == m  \* mutant: the live lock is not asked
Recalled(m) ==
  LET f == IF control["intent"] # None THEN "intent" ELSE "lock" IN
  IF m.kind = "resume" /\ control[f] # None /\ control[f].of = m.of
    THEN [m EXCEPT !.created = control[f].created] ELSE m

(* The legacy files a plan was made from are as they were. *)
Untouched(m, removed) ==
  /\ authority = m.of \/ (removed /\ authority = None)
  /\ \A x \in Paths : m.seen[x] # None =>
       disk[x] = m.seen[x] \/ (removed /\ x \in Relics /\ disk[x] = None)

Current(m) ==
  IF dir # None THEN Sanctioned(m)
  ELSE authority = m.of /\ Plannable(m.of) /\ m = Planned(m.kind, m.of)

-----------------------------------------------------------------------------
(* The steps of a command: one file operation or one uninterrupted read.   *)

Init ==
  /\ authority \in Versions \union {None}
  /\ disk \in [Paths -> {None, Legacy}]
  /\ authority = None => \A r \in Relics : disk[r] = None
  /\ dir = None /\ control = [f \in Files |-> None] /\ litter = FALSE
  /\ pc = [p \in Procs |-> "idle"] /\ job = [p \in Procs |-> None]
  /\ answer = [p \in Procs |-> "failed"]
  /\ plan = [p \in Procs |-> None]
  /\ held = [p \in Procs |-> None] /\ made = [p \in Procs |-> None]
  /\ staged = {} /\ todo = [p \in Procs |-> {}]
  /\ born = {} /\ edited = FALSE /\ offered = {authority} /\ moved = FALSE
  /\ left = Supply

At(p, step) == pc[p] = step
Goto(p, step) == pc' = [pc EXCEPT ![p] = step]
GotoIf(p, passed, step, otherwise) == Goto(p, IF passed THEN step ELSE otherwise)
Forget(p) == plan' = [plan EXCEPT ![p] = None]
Spend(k) == left[k] > 0 /\ left' = [left EXCEPT ![k] = @ - 1]

(* After a rename or an unlink: on, or the fsync that follows it failed. *)
Done(p, step) == (Goto(p, step) /\ UNCHANGED left) \/ (Goto(p, "release") /\ Spend("fault"))

(* The order of publication; init has config, catalog and lock only. *)
Order(p, step) ==
  CASE step = "recheck" -> "intent" [] step = "intent" -> "targets" [] step = "targets" -> "config"
    [] step = "config" -> "catalog" [] step = "lock" -> IF job[p] = "init" THEN "settled" ELSE "relics"
    [] step = "catalog" -> IF job[p] = "init" THEN "lock" ELSE "verify"
(* Mutants: the intent follows the targets; the catalog precedes the       *)
(* config; package locks are left out of the removals.                     *)
ThenLateIntent(p, step) ==
  CASE step = "recheck" -> "targets" [] step = "targets" -> "intent" [] step = "intent" -> "config"
    [] OTHER -> Order(p, step)
ThenCatalog(p, step) ==
  IF job[p] = "init" THEN Order(p, step) ELSE
  CASE step = "targets" -> "catalog" [] step = "catalog" -> "config" [] step = "config" -> "verify"
    [] OTHER -> Order(p, step)
ThenNoRelics(p, step) == IF step = "lock" THEN "weigh" ELSE Order(p, step)
Then(p, step) == Order(p, step)

ReadsOnly(p) == UNCHANGED <<repo, job, answer, held, made, staged, todo, history, left>>

Begin(p, j) ==
  /\ pc[p] \in Ended
  /\ Goto(p, IF j = "init" THEN "look" ELSE "detect")
  /\ job' = [job EXCEPT ![p] = j] /\ answer' = [answer EXCEPT ![p] = "failed"]
  /\ UNCHANGED <<repo, plan, held, made, staged, todo, history>>

Start(p) == \E j \in Jobs : Begin(p, j) /\ Spend("command")

(* Nobody has locked the directory against p's shared lock. *)
Readable == dir = None \/ dir \notin {held[q] : q \in Procs}

(* run_init: what the repository is decides which plan is made. *)
Detect(p) ==
  /\ At(p, "detect")
  /\ Goto(p, IF ~Readable THEN "failed"
             ELSE IF State = "initialized" THEN "ok"
             ELSE IF State \in {"legacy", "dual"} THEN "survey" ELSE "failed")
  /\ plan' = [plan EXCEPT ![p] = IF ~Readable \/ authority = None THEN None ELSE
       [kind |-> IF State = "dual" THEN "resume" ELSE "fresh", of |-> authority,
        seen |-> [x \in Paths |-> None], created |-> {}]]
  /\ ReadsOnly(p)

(* The plan detects again, and reads the legacy configuration. *)
Survey(p) ==
  /\ At(p, "survey")
  /\ IF Readable /\ State = (IF plan[p].kind = "resume" THEN "dual" ELSE "legacy")
       THEN Goto(p, "draft") /\ plan' = [plan EXCEPT ![p].of = authority]
       ELSE Goto(p, "failed") /\ Forget(p)
  /\ ReadsOnly(p)

(* It captures targets and relics, *)
Draft(p) ==
  /\ At(p, "draft")
  /\ IF Plannable(plan[p].of)
       THEN Goto(p, "recall") /\ plan' = [plan EXCEPT ![p] = Planned(@.kind, @.of)]
       ELSE Goto(p, "failed") /\ Forget(p)
  /\ ReadsOnly(p)

(* then the live lock; a resumed plan is applicable only to a prefix of    *)
(* the very same migration.                                                *)
Recall(p) ==
  /\ At(p, "recall")
  /\ IF plan[p].kind = "resume" => Sanctioned(Recalled(plan[p]))
       THEN Goto(p, "current") /\ plan' = [plan EXCEPT ![p] = Recalled(@)]
       ELSE Goto(p, "failed") /\ Forget(p)
  /\ ReadsOnly(p)

(* apply_legacy_migration: is the plan current? *)
Confirm(p) ==
  /\ At(p, "current")
  /\ IF Current(plan[p]) THEN Goto(p, "make") /\ UNCHANGED plan ELSE Goto(p, "failed") /\ Forget(p)
  /\ ReadsOnly(p)

(* initialize_control_plane: a legacy configuration blocks it. *)
Look(p) ==
  /\ At(p, "look")
  /\ GotoIf(p, authority = None, "make", "failed")
  /\ UNCHANGED plan /\ ReadsOnly(p)

(* The inode of a directory somebody still has open is not given out. *)
Make(p) ==
  /\ At(p, "make")
  /\ IF dir # None THEN UNCHANGED <<dir, made>>
     ELSE \E i \in Inodes \ ({held[q] : q \in Procs} \union {made[q] : q \in Procs}) :
            dir' = i /\ made' = [made EXCEPT ![p] = i]
  /\ Goto(p, "acquire")
  /\ UNCHANGED <<authority, disk, control, litter, job, answer, plan, held, staged, todo, history, left>>

(* Busy if another command holds it, detection's shared lock included. *)
Acquire(p) ==
  /\ At(p, "acquire")
  /\ \/ /\ dir # None /\ Readable
        /\ held' = [held EXCEPT ![p] = dir]
        /\ Goto(p, IF job[p] = "init" THEN "scan" ELSE "check")
     \/ /\ dir = None \/ ~Readable \/ \E q \in Procs : pc[q] \in {"detect", "survey"}
        /\ Goto(p, "release")
        /\ UNCHANGED held
  /\ UNCHANGED <<repo, job, answer, plan, made, staged, todo, history, left>>

(* Under its lock init confirms a scaffold it did not create, *)
Scan(p) ==
  /\ At(p, "scan")
  /\ LET same == held[p] = dir /\ \A f \in Files \ {"intent"} : control[f] = Blank(f) IN
     Goto(p, IF authority = None /\ made[p] # None THEN "stage"
             ELSE IF authority = None /\ same THEN "settled" ELSE "release")
  /\ UNCHANGED plan /\ ReadsOnly(p)

(* and a migration that it finds its own prefix, or nothing. *)
Check(p) ==
  LET m == plan[p] locked == Seen(p, "lock") # None IN
  /\ At(p, "check")
  /\ GotoIf(p, /\ Seen(p, "lock") \in {None, Mine(p, "lock")}
               /\ Seen(p, "intent") \in {None, Mine(p, "intent")}
               /\ None \in {Seen(p, "lock"), Seen(p, "intent")}
               /\ Untouched(m, locked),
            "stage", "release")
  /\ UNCHANGED plan /\ ReadsOnly(p)

(* Temporaries for the control files that are missing; existing ones must  *)
(* be as proposed.  A directory that was removed takes no file.            *)
Stage(p) ==
  LET fit == job[p] = "init" \/ \A f \in {"config", "catalog"} : Seen(p, f) \in {None, Mine(p, f)}
      whole == /\ job[p] = "migrate" /\ {"config", "catalog"} \subseteq Present
               /\ {"lock", "intent"} \intersect Present # {} IN
  /\ At(p, "stage")
  /\ IF fit /\ held[p] = dir
       THEN /\ Goto(p, IF job[p] = "init" THEN "config" ELSE "recheck")
            /\ staged' = IF whole THEN staged ELSE staged \union {p}
       ELSE Goto(p, "release") /\ UNCHANGED staged
  /\ UNCHANGED <<repo, job, answer, plan, held, made, todo, history, left>>

(* The targets not yet as wanted are staged, and the legacy files and the  *)
(* directory read once more.                                               *)
Recheck(p) ==
  LET m == plan[p] IN
  /\ At(p, "recheck")
  /\ todo' = [todo EXCEPT ![p] = {t \in Targets : disk[t] # m.of}]
  /\ GotoIf(p, /\ \A t \in Targets : disk[t] \in {m.of, m.seen[t]}
               /\ Untouched(m, control["lock"] # None)
               /\ held[p] = dir,
            Then(p, "recheck"), "release")
  /\ UNCHANGED <<repo, job, answer, plan, held, made, staged, history, left>>

(* A temporary becomes the file, unless a migration found it there. *)
Publish(p, f, text) ==
  /\ At(p, f)
  /\ control' = [control EXCEPT ![f] = text]
  /\ made' = [made EXCEPT ![p] = None]
  /\ Done(p, Then(p, f))
  /\ UNCHANGED <<authority, disk, dir, litter, job, answer, plan, held, staged, todo, history>>
Skip(p, f) ==
  /\ At(p, f) /\ job[p] = "migrate"
  /\ Goto(p, Then(p, f))
  /\ UNCHANGED plan /\ ReadsOnly(p)

Scaffold(p) ==
  \E f \in {"config", "catalog", "lock"} : job[p] = "init" /\ Publish(p, f, Blank(f))

Intend(p) ==
  IF control["lock"] = None /\ control["intent"] = None
    THEN Publish(p, "intent", Mine(p, "intent")) ELSE Skip(p, "intent")

PublishControl(p) ==
  \E f \in {"config", "catalog"} :
    /\ job[p] = "migrate"
    /\ IF control[f] = None THEN Publish(p, f, Mine(p, f)) ELSE Skip(p, f)

PublishTarget(p) ==
  LET m == plan[p] IN
  /\ At(p, "targets")
  /\ \/ /\ todo[p] = {}
        /\ Goto(p, Then(p, "targets"))
        /\ UNCHANGED <<disk, todo, born, left>>
     \/ \E t \in todo[p] :
          /\ todo' = [todo EXCEPT ![p] = @ \ {t}]
          /\ IF disk[t] = m.seen[t]
               THEN /\ disk' = [disk EXCEPT ![t] = m.of]
                    /\ born' = IF disk[t] = None THEN born \union {t} ELSE born
                    /\ Done(p, "targets")
               ELSE Goto(p, "release") /\ UNCHANGED <<disk, born, left>>
  /\ UNCHANGED <<authority, dir, control, litter, job, answer, plan, held, made, staged,
                 edited, offered, moved>>

(* Published targets read back as planned; providers may object (Fail). *)
Verify(p) ==
  /\ At(p, "verify")
  /\ GotoIf(p, \A t \in Targets : disk[t] = plan[p].of, "lock", "release")
  /\ UNCHANGED plan /\ ReadsOnly(p)

(* The intent becomes the central lock. *)
Enthrone(p) ==
  /\ At(p, "lock") /\ job[p] = "migrate"
  /\ IF control["lock"] # None THEN Skip(p, "lock")
     ELSE /\ control' = [control EXCEPT !["lock"] = control["intent"], !["intent"] = None]
          /\ Done(p, Then(p, "lock"))
          /\ UNCHANGED <<authority, disk, dir, litter, job, answer, plan, held, made, staged,
                         todo, history>>

(* _remove_legacy: each file goes if it is still what was planned on. *)
RemoveRelic(p) ==
  LET due == {r \in Relics : plan[p].seen[r] # None /\ disk[r] # None} IN
  /\ At(p, "relics")
  /\ \/ due = {} /\ Goto(p, "weigh") /\ UNCHANGED <<disk, left>>
     \/ \E r \in due :
          IF disk[r] = plan[p].seen[r]
            THEN disk' = [disk EXCEPT ![r] = None] /\ Done(p, "relics")
            ELSE Goto(p, "release") /\ UNCHANGED <<disk, left>>
  /\ UNCHANGED <<authority, dir, control, litter, job, answer, plan, held, made, staged, todo,
                 history>>

(* The legacy configuration goes last; it is read, then unlinked. *)
WeighNot(p) ==  \* mutant: without comparing what it reads
  /\ At(p, "weigh") /\ GotoIf(p, authority = None, "settled", "unlink")
  /\ UNCHANGED plan /\ ReadsOnly(p)
Weigh(p) ==
  /\ At(p, "weigh")
  /\ Goto(p, IF authority = None THEN "settled"
             ELSE IF authority = plan[p].of THEN "unlink" ELSE "release")
  /\ UNCHANGED plan /\ ReadsOnly(p)

Unlink(p) ==
  /\ At(p, "unlink")
  /\ authority' = None /\ offered' = offered \union {None}
  /\ IF authority = None THEN Goto(p, "release") /\ UNCHANGED left ELSE Done(p, "settled")
  /\ UNCHANGED <<disk, dir, control, litter, job, answer, plan, held, made, staged, todo,
                 born, edited, moved>>

-----------------------------------------------------------------------------
(* The way out: the lock goes first, init's temporaries before it, a       *)
(* migration's after it, and then the directory p created for nothing.     *)

Release(p) ==
  /\ pc[p] \in {"settled", "release"}
  /\ answer' = [answer EXCEPT ![p] = IF pc[p] = "settled" THEN "ok" ELSE "failed"]
  /\ held' = [held EXCEPT ![p] = None]
  /\ staged' = IF job[p] = "init" THEN staged \ {p} ELSE staged
  /\ Goto(p, "sweep")
  /\ UNCHANGED <<repo, job, plan, made, todo, history, left>>

Sweep(p) ==
  /\ At(p, "sweep")
  /\ staged' = staged \ {p}
  /\ Goto(p, "rmdir")
  /\ UNCHANGED <<repo, job, answer, plan, held, made, todo, history, left>>

(* By path, whatever it names now; a directory with an entry stays. *)
Empty == Present = {} /\ staged = {} /\ ~litter
RemovableAny(p) == Empty  \* mutant: without having created it
Removable(p) == made[p] # None /\ Empty
Rmdir(p) ==
  /\ At(p, "rmdir")
  /\ dir' = IF Removable(p) THEN None ELSE dir
  /\ made' = [made EXCEPT ![p] = None]
  /\ Goto(p, answer[p]) /\ Forget(p) /\ todo' = [todo EXCEPT ![p] = {}]
  /\ UNCHANGED <<authority, disk, control, litter, job, answer, held, staged, history, left>>

Proceed(p) ==
  \/ Detect(p) \/ Survey(p) \/ Draft(p) \/ Recall(p) \/ Confirm(p) \/ Look(p)
  \/ Make(p) \/ Acquire(p) \/ Scan(p) \/ Check(p) \/ Stage(p) \/ Recheck(p)
  \/ Scaffold(p) \/ Intend(p) \/ PublishTarget(p) \/ PublishControl(p)
  \/ Verify(p) \/ Enthrone(p) \/ RemoveRelic(p) \/ Weigh(p) \/ Unlink(p)
  \/ Release(p) \/ Sweep(p) \/ Rmdir(p)

-----------------------------------------------------------------------------
(* An operation fails, or the process dies where it stands: the kernel     *)
(* drops its lock, and its temporaries stay.                               *)

Fail(p) ==
  /\ pc[p] \in Working \ Leaving /\ Spend("fault")
  /\ Goto(p, "release")
  /\ UNCHANGED <<repo, job, answer, plan, held, made, staged, todo, history>>

Crash(p) ==
  /\ pc[p] \in Working /\ Spend("fault")
  /\ Goto(p, "failed")
  /\ litter' = (litter \/ p \in staged) /\ staged' = staged \ {p}
  /\ held' = [held EXCEPT ![p] = None] /\ made' = [made EXCEPT ![p] = None]
  /\ Forget(p) /\ todo' = [todo EXCEPT ![p] = {}]
  /\ UNCHANGED <<authority, disk, dir, control, job, answer, history>>

(* The consumer edits or deletes a file, *)
Edit ==
  /\ Spend("edit")
  /\ \E x \in Paths, b \in {Own, None} : disk[x] # b /\ disk' = [disk EXCEPT ![x] = b]
  /\ edited' = TRUE
  /\ UNCHANGED <<authority, dir, control, litter, local, born, offered, moved>>

(* or changes, deletes or restores the legacy configuration. *)
Amend ==
  /\ Spend(IF authority = None THEN "restore" ELSE "edit")
  /\ authority' \in (Versions \union {None}) \ {authority}
  /\ offered' = offered \union {authority'}
  /\ moved' = (moved \/ Central # None) /\ edited' = TRUE
  /\ UNCHANGED <<disk, dir, control, litter, local, born>>

Next ==
  \/ \E p \in Procs : Start(p) \/ Proceed(p) \/ Fail(p) \/ Crash(p)
  \/ Edit \/ Amend

Spec == Init /\ [][Next]_vars

-----------------------------------------------------------------------------
(* Properties.                                                             *)

(* Whatever failed or died, and whoever else was at work: beside an        *)
(* unchanged legacy configuration lie only files of its own migration, and *)
(* exactly those a resumed run accepts.  Losing this strands a repository  *)
(* between two authorities.                                                *)
ResumablePrefix ==
  offered = {authority} /\ authority # None =>
    /\ Present \in SanctionedPrefixes
    /\ \A f \in Present : control[f] = Text(f, authority, control[f].created)

(* The central lock says which files the migration created, also if it was *)
(* written by a later run that found them all in place: a later removal    *)
(* deletes the files so marked.                                            *)
LockTellsOrigin == Central \in Versions /\ ~edited => control["lock"].created = born

(* The legacy configuration goes last: once it is gone no rerun can tell   *)
(* that anything is left to retire or to write.                            *)
RetiredLast ==
  authority = None /\ Central \in Versions /\ ~edited =>
    (\A r \in Relics : disk[r] = None) /\ (\A t \in Targets : disk[t] = Central)

(* A command that reports success left what it reports: one authority, and *)
(* for init the neutral one.                                               *)
AnswerHolds ==
  \A p \in Procs : pc[p] = "ok" /\ ~edited =>
    /\ Complete /\ authority = None
    /\ job[p] = "init" => Central = Neutral

(* rmdir is by path and after the lock was released; still it only ever    *)
(* meets the directory its own process created, though others may have     *)
(* locked that one meanwhile.                                              *)
OwnDirectory == [][dir # None /\ dir' = None => \E p \in Procs : made[p] = dir]_vars

(* No command replaces a file of a control plane that exists. *)
NothingReplaced ==
  [][\A f \in Files \ {"intent"} : control[f] # None => control'[f] = control[f]]_vars

(* The authorities succeed one another as Succession says.                 *)
S == INSTANCE Succession WITH legacy <- authority, central <- Central
Succeeds == S!Spec

=============================================================================
