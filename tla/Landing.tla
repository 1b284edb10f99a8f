------------------------------ MODULE Landing ------------------------------
(***************************************************************************)
(* The paired commands of gh-workflow over one pull request and the issue  *)
(* that governs it.  A command reads a gate through several API calls,     *)
(* then writes through several more; other operators and people at         *)
(* GitHub's own pages act between any two of them, and any call may be     *)
(* refused, lose its answer after it took effect, or never be made because *)
(* the process died.                                                       *)
(***************************************************************************)
EXTENDS Integers, FiniteSets

CONSTANTS
  Operators,  \* process slots, each running one command at a time
  Login,      \* Login[p]: the GitHub account p is authenticated as
  Heads,      \* commits the branch may point at
  FirstHead,
  Roles,      \* what the pull request's body declares
  Jobs,       \* the commands operators run
  None,       \* nothing armed, nothing read
  Supply      \* how often the environment acts, by kind of event

(* Workflow values; a Final-Disposition outcome stands for the value it names. *)
Coherent == {"In progress", "In review", "Blocked"}
Nonterminal == {"Ready"} \union Coherent
Workflows == Nonterminal \union {"Done", "Dropped"}
Outcomes == Coherent \union {"Dropped"}
Logins == {Login[p] : p \in Operators}

Issues == [state : {"open", "closed"},
           reason : {"none", "reopened", "completed", "not_planned"},
           workflow : Workflows]
Pulls == [state : {"open", "closed", "merged"}, draft : BOOLEAN,
          head : Heads, armed : Heads \union {None}]
Phases == {"structural", "ready", "merge"}
Gates == [pr : Pulls, issue : Issues \union {None}, clean : SUBSET Phases, green : SUBSET Heads]
Verbs == {"ready", "merge", "auto", "land", "closepr", "close", "reopen", "set"}
Kinds == {"command", "fault", "push", "evidence", "hand"}

ASSUME LoginAssumption == Login \in [Operators -> Logins]
ASSUME HeadAssumption == FirstHead \in Heads /\ None \notin Heads
ASSUME RoleAssumption == Roles \subseteq {"Final", "Supporting", "Standalone"}
ASSUME SupplyAssumption == Supply \in [Kinds -> Nat]
ASSUME JobAssumption ==
  /\ Jobs \subseteq [verb : Verbs, to : Workflows]
  /\ \A j \in Jobs : /\ j.verb = "closepr" => j.to \in Outcomes
                     /\ j.verb = "close" => j.to \in {"Done", "Dropped"}
                     /\ j.verb \in {"reopen", "set"} => j.to \in Nonterminal
                     /\ j.verb \in {"ready", "merge", "auto", "land"} => j.to = "Done"

VARIABLES
  issue,    \* the governing issue: native state, its reason, the Workflow field
  pr,       \* the pull request; armed is the head auto-merge was enabled for
  records,  \* Final-Disposition comments: pairs of author and outcome
  role,     \* the declared relationship
  clean,    \* phases in which the body and the issue's other facts raise no finding
  green,    \* heads with passing required checks and otherwise mergeable
  pc,       \* pc[p]: the API call p makes next, or how its command ended
  job,      \* job[p]: p's command
  phase,    \* phase[p]: the gate p is loading or holds
  gate,     \* gate[p]: the loaded gate, or None
  vetted,   \* history: heads a Merge gate found clear, or a person merged
  alone,    \* history: operators whose command nobody else's write met
  left      \* what remains of Supply

github == <<issue, pr, records>>
facts  == <<role, clean, green>>
local  == <<pc, job, phase, gate>>
vars   == <<github, facts, local, vetted, alone, left>>

Ended == {"idle", "ok", "refused", "failed"}
Loading == {"pull", "issue", "evidence"}
Working == {"advance", "observe", "sync", "mark", "confirm", "arm", "merge", "terminal",
            "fetch", "reopen", "native", "field", "list", "record", "shut", "settle", "set"}

(* Steps that use the gate a command holds. *)
Holding == {"issue", "evidence", "advance", "observe", "sync", "mark", "confirm", "arm", "merge",
            "list", "record", "shut"}

TypeOK ==
  /\ issue \in Issues /\ pr \in Pulls /\ (pr.armed # None => pr.state = "open")
  /\ records \subseteq Logins \X Outcomes
  /\ role \in Roles /\ clean \subseteq Phases /\ green \subseteq Heads
  /\ pc \in [Operators -> Ended \union Loading \union Working]
  /\ job \in [Operators -> Jobs \union {None}]
  /\ phase \in [Operators -> {"structural", "ready", "again", "merge"}]
  /\ gate \in [Operators -> Gates \union {None}]
  /\ \A p \in Operators : pc[p] \in Holding => gate[p] \in Gates
  /\ vetted \subseteq Heads /\ alone \subseteq Operators
  /\ left \in [Kinds -> Nat]

-----------------------------------------------------------------------------
(* The gates: what Evaluate finds in a loaded snapshot.                    *)

Governed == role # "Standalone"
Final == role = "Final"
Open(g) == g.pr.state = "open"

Structural(g) ==
  (IF "structural" \in g.clean THEN {} ELSE {"DECLARATION"}) \union
  (IF Governed /\ Open(g) /\ g.issue.state = "closed" THEN {"ISSUE-CLOSED"} ELSE {})

Lifecycle(g) ==
  IF ~Governed \/ ~Open(g) THEN {}
  ELSE IF g.issue.workflow \notin Coherent THEN {"LIFECYCLE-INCOHERENT"}
  ELSE IF Final /\ ~g.pr.draft /\ g.issue.workflow = "In progress" THEN {"FINAL-WORKFLOW"}
  ELSE {}

Ready(g) == (IF "ready" \in g.clean THEN {} ELSE {"CONTRACT"}) \union Lifecycle(g)

Admission(g) ==
  (IF Open(g) /\ g.pr.draft THEN {"DRAFT"} ELSE {}) \union
  (IF Final /\ g.issue.workflow = "Blocked" THEN {"FINAL-BLOCKED"} ELSE {}) \union
  (IF g.pr.head \in g.green /\ "merge" \in g.clean THEN {} ELSE {"EVIDENCE"})

Findings(ph, g) ==
  Structural(g) \union
  (IF ph = "structural" THEN {} ELSE Ready(g)) \union
  (IF ph = "merge" THEN Admission(g) ELSE {})

(* Where each command goes from a step it has passed. *)
Crossed(j) == IF j.verb = "land" THEN "pull" ELSE "ok"
AfterSync(j, g) == IF g.pr.draft THEN "mark" ELSE Crossed(j)

(* Mutant: the governing issue is not synchronized before mark-ready. *)
AfterObserveUnsynced(j, g) == AfterSync(j, g)
AfterObserve(j, g) ==
  IF Final /\ g.issue.workflow = "In progress" THEN "sync" ELSE AfterSync(j, g)
EnterReady(j, g) == IF g.pr.draft THEN "observe" ELSE AfterObserve(j, g)
Advances(j, ph, g) ==
  j.verb = "land" /\ ph = "ready" /\ Governed /\ g.issue.workflow = "Ready"
EnterMerge(j, g) ==
  IF g.pr.state = "merged" THEN "terminal" ELSE IF j.verb = "auto" THEN "arm" ELSE "merge"
Closable(g) ==
  /\ Final /\ g.pr.state # "merged" /\ g.pr.armed = None
  /\ Open(g) => Findings("structural", g) = {}

Admit(j, ph, g) ==
  IF ph = "structural" THEN IF Closable(g) THEN "list" ELSE "refused"
  ELSE IF Advances(j, ph, g) THEN "advance"
  ELSE IF Findings(ph, g) # {} THEN "refused"
  ELSE IF ph = "merge" THEN EnterMerge(j, g) ELSE EnterReady(j, g)

(* The terminal sequence a command runs, if any. *)
Move(p) ==
  LET to == job[p].to IN
  CASE to = "Done"    -> [state |-> "closed", reason |-> "completed", workflow |-> to]
    [] to = "Dropped" -> [state |-> "closed", reason |-> "not_planned", workflow |-> to]
    [] OTHER          -> [state |-> "open", reason |-> "reopened", workflow |-> to]

(* Mutant: a nonterminal outcome never reopens the issue. *)
AfterCloseIssueIgnored(j, g) ==
  IF j.to = "Dropped" THEN "fetch" ELSE IF g.issue.workflow = j.to THEN "ok" ELSE "settle"
AfterClose(j, g) ==
  IF j.to = "Dropped" \/ g.issue.state = "closed" THEN "fetch"
  ELSE IF g.issue.workflow = j.to THEN "ok" ELSE "settle"
AfterRecord(j, g) == IF g.pr.state = "closed" THEN AfterClose(j, g) ELSE "shut"
Recorded(p) == {o \in Outcomes : <<Login[p], o>> \in records}

(* Mutant: the pull request is closed without the record. *)
AfterListUnrecorded(p) == AfterRecord(job[p], gate[p])
AfterList(p) ==
  IF Recorded(p) = {} THEN "record"
  ELSE IF Recorded(p) = {job[p].to} THEN AfterRecord(job[p], gate[p]) ELSE "refused"

-----------------------------------------------------------------------------
(* What GitHub does with a request it accepts.  A native reason is applied *)
(* only when the state itself changes; a merge or an auto-merge request    *)
(* names the head it is for; a Final that carries `Closes #N` has its      *)
(* issue closed by the merge itself.                                       *)

SetState(i, s, r) == IF i.state = s THEN i ELSE [i EXCEPT !.state = s, !.reason = r]
SetWorkflow(i, w) == [i EXCEPT !.workflow = w]

(* Mutant: merge requests do not name the head. *)
MergeableAtAnyHead(h) == pr.state = "open" /\ ~pr.draft
Mergeable(h) == pr.state = "open" /\ ~pr.draft /\ pr.head = h

(* Mutant: the auto-merge request outlives the merge. *)
MergedStillArmed == [pr EXCEPT !.state = "merged"]
Merged == [pr EXCEPT !.state = "merged", !.armed = None]
MayClose(i) == {i} \union (IF Final THEN {SetState(i, "closed", "completed")} ELSE {})

-----------------------------------------------------------------------------
(* A command goes on to l with the gate g, or ends there and forgets it.   *)
Go(p, l, g) ==
  /\ pc' = [pc EXCEPT ![p] = l]
  /\ gate' = [gate EXCEPT ![p] = IF l \in Ended THEN None ELSE g]
  /\ phase' = [phase EXCEPT ![p] =
       IF l \in Ended THEN "structural"
       ELSE IF l # "pull" THEN phase[p]
       ELSE IF pc[p] = "advance" THEN "again" ELSE "merge"]
  /\ UNCHANGED job

(* One call that reads, and one that writes. *)
Read(p, l, g) == Go(p, l, g) /\ UNCHANGED <<github, facts, alone, left>>
Look(p, l) == Read(p, l, gate[p]) /\ UNCHANGED vetted
Write(p, i, q, c, l) ==
  /\ issue' = i /\ pr' = q /\ records' = c
  /\ alone' = alone \intersect {p}
  /\ Go(p, l, gate[p])
  /\ UNCHANGED <<facts, vetted, left>>
WriteIssue(p, i, l) == Write(p, i, pr, records, l)
WritePull(p, q, l) == Write(p, issue, q, records, l)

Begin(p, j) ==
  /\ pc[p] \in Ended
  /\ job' = [job EXCEPT ![p] = j]
  /\ pc' = [pc EXCEPT ![p] = CASE j.verb \in {"close", "reopen"} -> "fetch"
                               [] j.verb = "set" -> "set"
                               [] OTHER -> "pull"]
  /\ phase' = [phase EXCEPT ![p] = CASE j.verb \in {"ready", "land"} -> "ready"
                                     [] j.verb \in {"merge", "auto"} -> "merge"
                                     [] OTHER -> "structural"]
  /\ alone' = alone \union {p}
  /\ UNCHANGED <<github, facts, gate, vetted>>

Spend(kind) == left[kind] > 0 /\ left' = [left EXCEPT ![kind] = @ - 1]

Start(p) == Spend("command") /\ \E j \in Jobs : Begin(p, j)

(* Loading a gate: the pull request, then the issue, then the evidence.    *)
ReadPull(p) ==
  /\ pc[p] = "pull"
  /\ Read(p, "issue", [pr |-> pr, issue |-> None, clean |-> {}, green |-> {}])
  /\ UNCHANGED vetted

ReadIssue(p) ==
  LET g == [gate[p] EXCEPT !.issue = issue, !.clean = clean] IN
  /\ pc[p] = "issue"
  /\ Read(p, IF phase[p] = "merge" THEN "evidence" ELSE Admit(job[p], phase[p], g), g)
  /\ UNCHANGED vetted

ReadEvidence(p) ==
  LET g == [gate[p] EXCEPT !.green = green \intersect {gate[p].pr.head}]
      l == Admit(job[p], "merge", g) IN
  /\ pc[p] = "evidence"
  /\ Read(p, l, g)
  /\ vetted' = IF Findings("merge", g) = {} THEN vetted \union {g.pr.head} ELSE vetted

(* Crossing Ready. *)
Advance(p) == pc[p] = "advance" /\ WriteIssue(p, SetWorkflow(issue, "In progress"), "pull")

Observe(p) ==
  /\ pc[p] = "observe"
  /\ Look(p, IF pr.head = gate[p].pr.head THEN AfterObserve(job[p], gate[p]) ELSE "refused")

Sync(p) ==
  /\ pc[p] = "sync"
  /\ WriteIssue(p, SetWorkflow(issue, "In review"), AfterSync(job[p], gate[p]))

MarkReady(p) ==
  /\ pc[p] = "mark"
  /\ IF pr.state = "open" THEN WritePull(p, [pr EXCEPT !.draft = FALSE], "confirm")
                          ELSE Look(p, "failed")

Confirm(p) == pc[p] = "confirm" /\ Look(p, IF pr.draft THEN "refused" ELSE Crossed(job[p]))

(* Admission. *)
Arm(p) ==
  /\ pc[p] = "arm"
  /\ IF Mergeable(gate[p].pr.head)
       THEN WritePull(p, [pr EXCEPT !.armed = gate[p].pr.head], "terminal")
       ELSE Look(p, "failed")

Merge(p) ==
  /\ pc[p] = "merge"
  /\ IF Mergeable(gate[p].pr.head)
       THEN \E i \in MayClose(issue) : Write(p, i, Merged, records, "terminal")
       ELSE Look(p, "failed")

(* Mutant: an accepted request is taken for the merge. *)
ObserveRequest(p) ==
  pc[p] = "terminal" /\ Look(p, IF Final THEN "fetch" ELSE "ok")

ObserveTerminal(p) ==
  /\ pc[p] = "terminal"
  /\ Look(p, IF pr.state # "merged" THEN "refused" ELSE IF Final THEN "fetch" ELSE "ok")

(* The ordered terminal sequence of the issue. *)

(* Mutant: a closed issue is reclassified in place. *)
NeverReopens(m) == FALSE
NeedsReopen(m) == m.state = "closed" /\ issue.state = "closed" /\ issue.reason # m.reason

Fetch(p) ==
  /\ pc[p] = "fetch"
  /\ Look(p, IF issue = Move(p) THEN "ok"
             ELSE IF NeedsReopen(Move(p)) THEN "reopen" ELSE "native")

Reopen(p) == pc[p] = "reopen" /\ WriteIssue(p, SetState(issue, "open", "reopened"), "native")

NativeState(p) ==
  LET m == Move(p)
      after == SetState(issue, m.state, m.reason)
      took == after.state = m.state /\ (m.state = "closed" => after.reason = m.reason) IN
  /\ pc[p] = "native"
  /\ WriteIssue(p, after, IF took THEN "field" ELSE "failed")

WorkflowField(p) ==
  /\ pc[p] = "field"
  /\ WriteIssue(p, SetWorkflow(issue, job[p].to), "ok")

(* Closing a Final unmerged: record, close, converge. *)
ListRecords(p) == pc[p] = "list" /\ Look(p, AfterList(p))

Record(p) ==
  /\ pc[p] = "record"
  /\ Write(p, issue, pr, records \union {<<Login[p], job[p].to>>},
            AfterRecord(job[p], gate[p]))

Shut(p) ==
  /\ pc[p] = "shut"
  /\ WritePull(p, IF pr.state = "open" THEN [pr EXCEPT !.state = "closed", !.armed = None] ELSE pr,
               AfterClose(job[p], gate[p]))

Settle(p) == pc[p] = "settle" /\ WriteIssue(p, SetWorkflow(issue, job[p].to), "ok")

(* `set --field Workflow=VALUE`. *)
SetField(p) == pc[p] = "set" /\ WriteIssue(p, SetWorkflow(issue, job[p].to), "ok")

Proceed(p) ==
  \/ ReadPull(p) \/ ReadIssue(p) \/ ReadEvidence(p)
  \/ Advance(p) \/ Observe(p) \/ Sync(p) \/ MarkReady(p) \/ Confirm(p)
  \/ Arm(p) \/ Merge(p) \/ ObserveTerminal(p)
  \/ Fetch(p) \/ Reopen(p) \/ NativeState(p) \/ WorkflowField(p)
  \/ ListRecords(p) \/ Record(p) \/ Shut(p) \/ Settle(p) \/ SetField(p)

(* The next call is refused, or the process dies, or the answer of the     *)
(* call before was lost: the command stops where it stands.                *)
Stop(p) ==
  /\ pc[p] \notin Ended /\ Spend("fault")
  /\ Go(p, "failed", None)
  /\ UNCHANGED <<github, facts, vetted, alone>>

-----------------------------------------------------------------------------
(* Everybody else. *)

Push ==
  /\ Spend("push") /\ pr.state = "open"
  /\ \E h \in Heads \ {pr.head} : pr' = [pr EXCEPT !.head = h]
  /\ alone' = {}
  /\ UNCHANGED <<issue, records, facts, local, vetted>>

(* Checks start, pass and fail; documents are edited. *)
Evidence ==
  /\ Spend("evidence")
  /\ \/ (\E h \in Heads : green' = (green \union {h}) \ (green \intersect {h})) /\ UNCHANGED clean
     \/ (\E h \in Phases : clean' = (clean \union {h}) \ (clean \intersect {h})) /\ UNCHANGED green
  /\ UNCHANGED <<github, role, local, vetted, alone>>

(* GitHub carries out an armed auto-merge. *)
AutoMerge ==
  /\ pr.armed # None /\ Mergeable(pr.armed) /\ pr.armed \in green
  /\ issue' \in MayClose(issue) /\ pr' = Merged
  /\ alone' = {}
  /\ UNCHANGED <<records, facts, local, vetted, left>>

(* People use GitHub's own pages: mark ready, merge, close, disarm, close or *)
(* reopen the issue.                                                         *)
ByHand ==
  /\ Spend("hand")
  /\ \/ /\ pr.state = "open"
        /\ \/ /\ \/ pr' = [pr EXCEPT !.draft = ~@]
                 \/ pr' = [pr EXCEPT !.state = "closed", !.armed = None]
                 \/ pr' = [pr EXCEPT !.armed = None]
              /\ UNCHANGED <<issue, vetted>>
           \/ /\ ~pr.draft /\ pr' = Merged /\ issue' \in MayClose(issue)
              /\ vetted' = vetted \union {pr.head}
     \/ /\ \/ \E r \in {"completed", "not_planned"} : issue' = SetState(issue, "closed", r)
           \/ issue' = SetState(issue, "open", "reopened")
        /\ UNCHANGED <<pr, vetted>>
  /\ alone' = {}
  /\ UNCHANGED <<records, facts, local>>

Init ==
  /\ issue \in [state : {"open"}, reason : {"none"}, workflow : {"Ready", "In progress"}]
  /\ pr = [state |-> "open", draft |-> TRUE, head |-> FirstHead, armed |-> None]
  /\ records = {} /\ role \in Roles /\ clean = Phases /\ green = Heads
  /\ pc = [p \in Operators |-> "idle"]
  /\ job = [p \in Operators |-> None]
  /\ phase = [p \in Operators |-> "structural"]
  /\ gate = [p \in Operators |-> None]
  /\ vetted = {} /\ alone = {} /\ left = Supply

Next ==
  \/ \E p \in Operators : Start(p) \/ Proceed(p) \/ Stop(p)
  \/ Push \/ Evidence \/ AutoMerge \/ ByHand

Spec == Init /\ [][Next]_vars

-----------------------------------------------------------------------------
(* The inductive invariant of LandingProofs: what the position of a command *)
(* says of its job and of GitHub.                                          *)

Closing == {"list", "record", "shut", "settle"}
Crossing == {"advance", "observe", "sync", "mark", "confirm", "arm", "merge", "terminal"}
Converging == {"fetch", "reopen", "native", "field"}
Admitting == {"ready", "merge", "auto", "land"}

Errand(p) ==
  /\ pc[p] \notin Ended => job[p] \in Jobs
  /\ pc[p] \in Closing => job[p].verb = "closepr"
  /\ pc[p] \in Crossing => job[p].verb \in Admitting
  /\ pc[p] = "set" => job[p].verb = "set"
  /\ pc[p] = "evidence" => phase[p] = "merge"
  /\ pc[p] \in Loading =>
       job[p].verb \in (IF phase[p] = "structural" THEN {"closepr"} ELSE Admitting)

Earned(p) ==
  /\ pc[p] \in {"merge", "arm"} => gate[p].pr.head \in vetted
  /\ pc[p] = "shut" => <<Login[p], job[p].to>> \in records
  /\ pc[p] \in Converging /\ job[p].verb \in Admitting => pr.state = "merged"

Inductive ==
  /\ TypeOK
  /\ pr.armed # None => pr.armed \in vetted
  /\ pr.state = "merged" => pr.head \in vetted
  /\ \A p \in Operators : Errand(p) /\ Earned(p)

-----------------------------------------------------------------------------
(* What must hold. *)

(* A head reaches the integration branch only if a Merge gate found it     *)
(* clear, or a person merged it at GitHub: neither a push between gate and *)
(* merge nor one while auto-merge is armed slips through                   *)
(* (mergeSteps, MergePullRequest, EnableAutoMerge).                        *)
MergedWasVetted == pr.state = "merged" => pr.head \in vetted

(* merge and land write a completed issue only for a pull request that     *)
(* is merged, even when --auto armed it and even when others act meanwhile *)
(* (mergeSteps: convergence is authorized by observed state).              *)
CompletionIsEarned ==
  [][\A p \in Operators :
       (job[p] # None /\ job[p].verb \in Admitting /\ Proceed(p)
          /\ \/ issue'.workflow = "Done" /\ issue.workflow # "Done"
             \/ issue'.state = "closed" /\ issue.state = "open")
       => pr'.state = "merged"]_vars

(* A pull request that `close --pr` closed carries that operator's record  *)
(* of the outcome, whichever step failed or died (dispositionSteps).       *)
AbandonedOnRecord ==
  [][\A p \in Operators :
       (Proceed(p) /\ pr.state = "open" /\ pr'.state = "closed")
       => <<Login[p], job[p].to>> \in records]_vars

(* What `check --through post-merge` finds for the account l. *)
PostMerge(l) ==
  LET recorded == {o \in Outcomes : <<l, o>> \in records} IN
  IF pr.state = "open" THEN {"OPEN"}
  ELSE IF ~Final THEN {}
  ELSE IF pr.state = "merged"
    THEN IF issue.workflow = "Done" /\ issue.state = "closed" THEN {} ELSE {"FINAL-SYNC"}
  ELSE IF recorded = {} THEN {"DISPOSITION-MISSING"}
  ELSE IF Cardinality(recorded) > 1 THEN {"DISPOSITION-CONFLICT"}
  ELSE IF issue.workflow \in recorded THEN {} ELSE {"DISPOSITION-SYNC"}

(* Exit 0 is a promise about GitHub's state, whatever earlier attempts     *)
(* left behind, as long as nobody else wrote meanwhile: ready leaves       *)
(* nothing for the Ready gate to find, the paired commands nothing for the *)
(* post-merge gate, and the issue's two halves agree (runReady, runMerge,  *)
(* runLand, closePullRequest, converge).                                   *)
Live == [pr |-> pr, issue |-> issue, clean |-> Phases, green |-> Heads]
Paired(w) ==
  /\ issue.workflow = w
  /\ CASE w = "Done"    -> issue.state = "closed" /\ issue.reason = "completed"
       [] w = "Dropped" -> issue.state = "closed" /\ issue.reason = "not_planned"
       [] OTHER         -> issue.state = "open"
Promise(p) ==
  CASE job[p].verb = "ready" -> ~(pr.state = "open" /\ pr.draft) /\ Lifecycle(Live) = {}
    [] job[p].verb \in {"merge", "auto", "land"} ->
         pr.state = "merged" /\ PostMerge(Login[p]) = {} /\ (Final => Paired("Done"))
    [] job[p].verb = "closepr" ->
         pr.state = "closed" /\ PostMerge(Login[p]) = {} /\ Paired(job[p].to)
    [] job[p].verb = "set" -> issue.workflow = job[p].to
    [] OTHER -> Paired(job[p].to)
SuccessMeansDone == \A p \in alone : pc[p] = "ok" => Promise(p)
=============================================================================
