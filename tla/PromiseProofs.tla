--------------------------- MODULE PromiseProofs ---------------------------
(***************************************************************************)
(* The proof that exit 0 of a paired command is a promise kept: what each  *)
(* position in a command owes to the promise it will make, as long as      *)
(* nobody else writes.                                                     *)
(***************************************************************************)
EXTENDS LandingProofs, FiniteSetTheorems

USE DEF Ended, Loading, Working, Holding, Closing, Crossing, Converging, Admitting

(* Which commands get where: only `land` goes from the Ready gate to the   *)
(* merge gate. *)
Clear(p) ==
  /\ pc[p] \in Loading =>
       /\ job[p].verb \in {"merge", "auto"} => phase[p] = "merge"
       /\ job[p].verb = "ready" => phase[p] = "ready"
  /\ pc[p] = "advance" => job[p].verb = "land"
  /\ pc[p] \in {"observe", "sync", "mark", "confirm"} => job[p].verb \in {"ready", "land"}
  /\ pc[p] \in {"arm", "merge", "terminal"} => job[p].verb \in {"merge", "auto", "land"}
  /\ pc[p] \in Converging => job[p].verb \notin {"ready", "set"}

(* An open pull request that may be marked ready. *)
Reviewable ==
  Governed /\ pr.state = "open" =>
    issue.workflow \in Coherent /\ ~(Final /\ issue.workflow = "In progress")

(* What holds where a command stands that nobody's write has met. *)
Fresh(p) == gate[p].pr = pr /\ gate[p].issue = issue
Owed(p) ==
  /\ pc[p] = "issue" => gate[p].pr = pr
  /\ pc[p] \in {"observe", "sync", "list", "record", "shut"} => Fresh(p)
  /\ pc[p] = "observe" => Lifecycle(gate[p]) = {}
  /\ pc[p] \in {"mark", "confirm"} => Reviewable
  /\ pc[p] \in Closing => Final /\ pr.state # "merged"
  /\ pc[p] = "record" => Recorded(p) = {}
  /\ pc[p] \in {"shut", "settle"} => Recorded(p) = {job[p].to}
  /\ pc[p] = "settle" => pr.state = "closed" /\ issue.state = "open" /\ job[p].to # "Dropped"
  /\ pc[p] \in Converging /\ job[p].verb = "closepr" =>
       Final /\ pr.state = "closed" /\ Recorded(p) = {job[p].to}
  /\ pc[p] = "field" =>
       /\ issue.state = Move(p).state
       /\ issue.state = "closed" => issue.reason = Move(p).reason
  /\ pc[p] = "ok" => Promise(p)

Owing ==
  /\ Inductive
  /\ \A p \in Operators : Clear(p)
  /\ \A p \in alone : Owed(p)

-----------------------------------------------------------------------------
(* Steps of the others: a write meets every command but its own.           *)

LEMMA PromiseKept ==
  ASSUME NEW q \in Operators, UNCHANGED <<issue, pr, records, role>>, job'[q] = job[q]
  PROVE  Promise(q)' = Promise(q)
  <1>1. Live' = Live BY DEF Live
  <1>2. Lifecycle(Live)' = Lifecycle(Live) BY <1>1 DEF Lifecycle, Governed, Final, Open
  <1>3. PostMerge(Login[q])' = PostMerge(Login[q]) BY DEF PostMerge, Final
  <1>4. \A w : Paired(w)' = Paired(w) BY DEF Paired
  <1>5. Paired(job[q].to)' = Paired(job[q].to) BY <1>4
  <1>6. Paired("Done")' = Paired("Done") BY <1>4
  <1> QED BY <1>2, <1>3, <1>5, <1>6 DEF Promise, Final

LEMMA OwedKept ==
  ASSUME NEW q \in Operators, Owed(q), UNCHANGED <<issue, pr, records, role>>,
         pc'[q] = pc[q], job'[q] = job[q], gate'[q] = gate[q]
  PROVE  Owed(q)'
  <1>1. Promise(q)' = Promise(q) BY PromiseKept
  <1>2. Recorded(q)' = Recorded(q) /\ Move(q)' = Move(q) BY DEF Recorded, Move
  <1>3. Lifecycle(gate[q])' = Lifecycle(gate[q]) BY DEF Lifecycle, Governed, Final, Open
  <1>4. Reviewable' = Reviewable BY DEF Reviewable, Governed, Final
  <1> QED BY <1>1, <1>2, <1>3, <1>4 DEF Owed, Fresh, Final

Act(p) == Start(p) \/ Proceed(p) \/ Stop(p)

(* What an action of p is to q. *)
Beside(p, q) ==
  /\ pc'[q] = pc[q] /\ job'[q] = job[q] /\ gate'[q] = gate[q] /\ phase'[q] = phase[q]
  /\ role' = role
  /\ q \in alone' => q \in alone /\ UNCHANGED <<issue, pr, records>>

LEMMA GoBeside ==
  ASSUME TypeOK, NEW p \in Operators, NEW q \in Operators, q # p, NEW l, NEW g, Go(p, l, g)
  PROVE  pc'[q] = pc[q] /\ job'[q] = job[q] /\ gate'[q] = gate[q] /\ phase'[q] = phase[q]
  BY DEF TypeOK, Go

LEMMA LookBeside ==
  ASSUME TypeOK, NEW p \in Operators, NEW q \in Operators, q # p, NEW l, NEW g, Read(p, l, g)
  PROVE  Beside(p, q)
  BY GoBeside DEF Read, Beside, github, facts

LEMMA WriteBeside ==
  ASSUME TypeOK, NEW p \in Operators, NEW q \in Operators, q # p,
         NEW i, NEW r, NEW c, NEW l, Write(p, i, r, c, l)
  PROVE  Beside(p, q)
  BY GoBeside DEF Write, Beside, facts

LEMMA ActBeside ==
  ASSUME TypeOK, NEW p \in Operators, Act(p), NEW q \in Operators, q # p
  PROVE  Beside(p, q)
  <1>1. CASE Start(p)
    <2>1. PICK j \in Jobs : Begin(p, j) BY <1>1 DEF Start
    <2> QED BY <2>1 DEF Begin, Beside, TypeOK, github, facts
  <1>2. CASE Stop(p) BY <1>2, GoBeside DEF Stop, Beside, github, facts
  <1>3. CASE ReadPull(p) \/ ReadIssue(p) \/ ReadEvidence(p)
    BY <1>3, LookBeside DEF ReadPull, ReadIssue, ReadEvidence
  <1>4. CASE Observe(p) \/ Confirm(p) \/ ObserveTerminal(p) \/ Fetch(p) \/ ListRecords(p)
    BY <1>4, LookBeside DEF Observe, Confirm, ObserveTerminal, Fetch, ListRecords, Look
  <1>5. CASE Advance(p) \/ Sync(p) \/ Reopen(p) \/ NativeState(p)
    BY <1>5, WriteBeside DEF Advance, Sync, Reopen, NativeState, WriteIssue
  <1>6. CASE WorkflowField(p) \/ Settle(p) \/ SetField(p) \/ Record(p) \/ Shut(p)
    BY <1>6, WriteBeside DEF WorkflowField, Settle, SetField, Record, Shut, WriteIssue, WritePull
  <1>7. CASE MarkReady(p) \/ Arm(p)
    BY <1>7, WriteBeside, LookBeside DEF MarkReady, Arm, WritePull, Look
  <1>8. CASE Merge(p) BY <1>8, WriteBeside, LookBeside DEF Merge, Look
  <1> QED BY <1>1, <1>2, <1>3, <1>4, <1>5, <1>6, <1>7, <1>8 DEF Act, Proceed

LEMMA OthersOwe ==
  ASSUME Owing, NEW p \in Operators, Act(p), NEW q \in Operators, q # p
  PROVE  Clear(q)' /\ (q \in alone' => Owed(q)')
  <1>1. Beside(p, q) BY ActBeside DEF Owing, Inductive
  <1>2. Clear(q)' BY <1>1 DEF Owing, Clear, Beside
  <1> QED BY <1>1, <1>2, OwedKept DEF Owing, Beside

-----------------------------------------------------------------------------
(* Steps of the command itself.                                            *)

Paid(p) == Clear(p) /\ (p \in alone => Owed(p))

LEMMA GoTo ==
  ASSUME TypeOK, NEW p \in Operators, NEW l, NEW g, Go(p, l, g)
  PROVE  /\ pc'[p] = l /\ job' = job /\ (l \notin Ended => gate'[p] = g)
         /\ l \in Loading =>
              phase'[p] = IF l # "pull" THEN phase[p]
                          ELSE IF pc[p] = "advance" THEN "again" ELSE "merge"
  BY DEF TypeOK, Go

LEMMA LookTo ==
  ASSUME TypeOK, NEW p \in Operators, NEW l, NEW g, Read(p, l, g)
  PROVE  /\ pc'[p] = l /\ job' = job /\ (l \notin Ended => gate'[p] = g)
         /\ UNCHANGED <<issue, pr, records, role, alone>>
         /\ l \in Loading =>
              phase'[p] = IF l # "pull" THEN phase[p]
                          ELSE IF pc[p] = "advance" THEN "again" ELSE "merge"
  BY GoTo DEF Read, github, facts

LEMMA WriteTo ==
  ASSUME TypeOK, NEW p \in Operators, NEW i, NEW q, NEW c, NEW l, Write(p, i, q, c, l)
  PROVE  /\ pc'[p] = l /\ job' = job /\ (l \notin Ended => gate'[p] = gate[p])
         /\ issue' = i /\ pr' = q /\ records' = c /\ role' = role
         /\ p \in alone' => p \in alone
         /\ l \in Loading =>
              phase'[p] = IF l # "pull" THEN phase[p]
                          ELSE IF pc[p] = "advance" THEN "again" ELSE "merge"
  BY GoTo DEF Write, facts

LEMMA GivenUp ==
  ASSUME NEW p \in Operators, pc'[p] \in {"idle", "refused", "failed"}
  PROVE  Paid(p)'
  BY DEF Paid, Clear, Owed

(* Starting. *)
LEMMA StartPaid ==
  ASSUME Owing, NEW p \in Operators, Start(p) PROVE Paid(p)'
  <1>1. PICK j \in Jobs : Begin(p, j) BY DEF Start
  <1>2. j.verb \in Verbs BY JobTypes
  <1>3. /\ job'[p] = j
        /\ pc'[p] = CASE j.verb \in {"close", "reopen"} -> "fetch"
                      [] j.verb = "set" -> "set" [] OTHER -> "pull"
        /\ phase'[p] = CASE j.verb \in {"ready", "land"} -> "ready"
                         [] j.verb \in {"merge", "auto"} -> "merge" [] OTHER -> "structural"
    BY <1>1 DEF Begin, Owing, Inductive, TypeOK
  <1>4. pc'[p] \in {"fetch", "set", "pull"} /\ (pc'[p] = "fetch" => j.verb \in {"close", "reopen"})
    BY <1>3
  <1>5. Clear(p)' BY <1>3, <1>4 DEF Clear
  <1>6. Owed(p)' BY <1>3, <1>4 DEF Owed
  <1> QED BY <1>5, <1>6 DEF Paid

(* The Ready gate. *)
LEMMA ReadyPaid ==
  ASSUME NEW p \in Operators,
         p \in alone' => Reviewable' /\ ~(pr'.state = "open" /\ pr'.draft),
         job[p].verb \in {"ready", "land"}, job' = job,
         pc'[p] = Crossed(job[p]), pc'[p] = "pull" => phase'[p] = "merge"
  PROVE  Paid(p)'
  <1>1. CASE job[p].verb = "land" BY <1>1 DEF Crossed, Paid, Clear, Owed
  <1>2. CASE job[p].verb = "ready"
    <2>1. pc'[p] = "ok" BY <1>2 DEF Crossed
    <2>2. p \in alone' => Lifecycle(Live)' = {}
      BY DEF Lifecycle, Live, Reviewable, Governed, Final, Open
    <2>3. p \in alone' => Promise(p)' BY <1>2, <2>2 DEF Promise
    <2> QED BY <1>2, <2>1, <2>3 DEF Paid, Clear, Owed
  <1> QED BY <1>1, <1>2

LEMMA ObservedPaid ==
  ASSUME TypeOK, NEW p \in Operators, NEW g, job[p].verb \in {"ready", "land"},
         p \in alone => g.pr = pr /\ g.issue = issue /\ Lifecycle(g) = {},
         pc[p] \in {"issue", "observe"}, Read(p, AfterObserve(job[p], g), g)
  PROVE  Paid(p)'
  <1>1. /\ pc'[p] = AfterObserve(job[p], g) /\ job' = job
        /\ UNCHANGED <<issue, pr, records, role, alone>>
        /\ pc'[p] \notin Ended => gate'[p] = g
        /\ pc'[p] = "pull" => phase'[p] = "merge"
    BY LookTo
  <1>2. CASE Final /\ g.issue.workflow = "In progress"
    <2>1. pc'[p] = "sync" BY <1>1, <1>2 DEF AfterObserve
    <2> QED BY <1>1, <2>1 DEF Paid, Clear, Owed, Fresh
  <1>3. CASE ~(Final /\ g.issue.workflow = "In progress")
    <2>1. p \in alone => Reviewable
      BY <1>3 DEF Lifecycle, Reviewable, Open
    <2>2. pc'[p] = AfterSync(job[p], g) BY <1>1, <1>3 DEF AfterObserve
    <2>5. p \in alone' => Reviewable' BY <1>1, <2>1 DEF Reviewable, Governed, Final
    <2>3. CASE g.pr.draft
      <3>1. pc'[p] = "mark" BY <2>2, <2>3 DEF AfterSync
      <3> QED BY <1>1, <2>5, <3>1 DEF Paid, Clear, Owed
    <2>4. CASE ~g.pr.draft
      <3>1. pc'[p] = Crossed(job[p]) BY <2>2, <2>4 DEF AfterSync
      <3> QED BY <1>1, <2>4, <2>5, <3>1, ReadyPaid
    <2> QED BY <2>3, <2>4
  <1> QED BY <1>2, <1>3

LEMMA ReadIssuePaid ==
  ASSUME Owing, NEW p \in Operators, ReadIssue(p) PROVE Paid(p)'
  <1> DEFINE g == [gate[p] EXCEPT !.issue = issue, !.clean = clean]
  <1> DEFINE l == IF phase[p] = "merge" THEN "evidence" ELSE Admit(job[p], phase[p], g)
  <1>1. /\ TypeOK /\ Errand(p) /\ Clear(p) /\ pc[p] = "issue" /\ Read(p, l, g)
        /\ gate[p] \in Gates /\ phase[p] \in {"structural", "ready", "again", "merge"}
        /\ p \in alone => gate[p].pr = pr
    BY DEF Owing, Inductive, TypeOK, ReadIssue, Owed
  <1>2. g.issue = issue /\ (p \in alone => g.pr = pr)
    BY <1>1 DEF Gates
  <1> HIDE DEF g
  <1>3. /\ pc'[p] = l /\ job' = job /\ (l \notin Ended => gate'[p] = g)
        /\ UNCHANGED <<issue, pr, records, role, alone>>
        /\ l \in Loading => phase'[p] = IF l # "pull" THEN phase[p] ELSE "merge"
    BY <1>1, LookTo
  <1>4. CASE phase[p] = "merge"
    BY <1>1, <1>3, <1>4 DEF Paid, Clear, Owed
  <1>5. CASE phase[p] = "structural"
    <2>1. job[p].verb = "closepr" BY <1>1, <1>5 DEF Errand
    <2>2. CASE Closable(g)
      <3>1. pc'[p] = "list" /\ gate'[p] = g BY <1>3, <1>5, <2>2 DEF Admit
      <3>2. Final' /\ (p \in alone => pr'.state # "merged") BY <1>2, <1>3, <2>2 DEF Closable, Final
      <3>3. p \in alone => Fresh(p)' BY <1>2, <1>3, <3>1 DEF Fresh
      <3> QED BY <1>3, <2>1, <3>1, <3>2, <3>3 DEF Paid, Clear, Owed
    <2>3. CASE ~Closable(g)
      <3>1. pc'[p] = "refused" BY <1>3, <1>5, <2>3 DEF Admit
      <3> QED BY <3>1, GivenUp
    <2> QED BY <2>2, <2>3
  <1>6. CASE phase[p] \in {"ready", "again"}
    <2>1. job[p].verb \in {"ready", "land"} BY <1>1, <1>6 DEF Errand, Clear
    <2>2. CASE Advances(job[p], phase[p], g)
      <3>1. pc'[p] = "advance" /\ job[p].verb = "land"
        BY <1>3, <1>6, <2>2 DEF Admit, Advances
      <3> QED BY <1>3, <3>1 DEF Paid, Clear, Owed
    <2>3. CASE ~Advances(job[p], phase[p], g) /\ Findings(phase[p], g) # {}
      <3>1. pc'[p] = "refused" BY <1>3, <1>6, <2>3 DEF Admit
      <3> QED BY <3>1, GivenUp
    <2>4. CASE ~Advances(job[p], phase[p], g) /\ Findings(phase[p], g) = {}
      <3>1. Lifecycle(g) = {} BY <1>6, <2>4 DEF Findings, Ready
      <3>2. l = EnterReady(job[p], g) BY <1>6, <2>4 DEF Admit
      <3>3. CASE g.pr.draft
        <4>1. pc'[p] = "observe" /\ gate'[p] = g BY <1>3, <3>2, <3>3 DEF EnterReady
        <4>2. p \in alone => Fresh(p)' BY <1>2, <1>3, <4>1 DEF Fresh
        <4>3. Lifecycle(gate[p])' = {}
          BY <1>3, <3>1, <4>1 DEF Lifecycle, Governed, Final, Open
        <4> QED BY <1>3, <2>1, <4>1, <4>2, <4>3 DEF Paid, Clear, Owed
      <3>4. CASE ~g.pr.draft
        <4>1. l = AfterObserve(job[p], g) BY <3>2, <3>4 DEF EnterReady
        <4> QED BY <1>1, <1>2, <2>1, <3>1, <4>1, ObservedPaid
      <3> QED BY <3>3, <3>4
    <2> QED BY <2>2, <2>3, <2>4
  <1> QED BY <1>1, <1>4, <1>5, <1>6

LEMMA CrossingPaid ==
  ASSUME Owing, NEW p \in Operators,
         Advance(p) \/ Observe(p) \/ Sync(p) \/ MarkReady(p) \/ Confirm(p)
  PROVE  Paid(p)'
  <1>1. TypeOK /\ Clear(p) /\ (p \in alone => Owed(p)) BY DEF Owing, Inductive
  <1>2. CASE Advance(p)
    BY <1>1, <1>2, WriteTo DEF Advance, WriteIssue, Paid, Clear, Owed
  <1>3. CASE Observe(p)
    <2>1. CASE pr.head = gate[p].pr.head
      <3>1. pc[p] = "observe" /\ Read(p, AfterObserve(job[p], gate[p]), gate[p])
        BY <1>3, <2>1 DEF Observe, Look
      <3> QED BY <1>1, <3>1, ObservedPaid DEF Clear, Owed, Fresh
    <2>2. CASE pr.head # gate[p].pr.head
      <3>1. pc'[p] = "refused" BY <1>1, <1>3, <2>2, LookTo DEF Observe, Look
      <3> QED BY <3>1, GivenUp
    <2> QED BY <2>1, <2>2
  <1>4. CASE Sync(p)
    <2>1. /\ pc[p] = "sync" /\ pc'[p] = AfterSync(job[p], gate[p]) /\ job' = job
          /\ issue' = SetWorkflow(issue, "In review") /\ pr' = pr /\ role' = role
          /\ p \in alone' => p \in alone
          /\ pc'[p] \notin Ended => gate'[p] = gate[p]
          /\ pc'[p] = "pull" => phase'[p] = "merge"
      BY <1>1, <1>4, WriteTo DEF Sync, WriteIssue
    <2>2. Reviewable'
      <3>1. issue'.workflow = "In review" BY <1>1, <2>1 DEF SetWorkflow, TypeOK, Issues
      <3> QED BY <3>1 DEF Reviewable, Coherent
    <2>3. job[p].verb \in {"ready", "land"} /\ (p \in alone => gate[p].pr = pr)
      BY <1>1, <2>1 DEF Clear, Owed, Fresh
    <2>4. CASE gate[p].pr.draft
      <3>1. pc'[p] = "mark" BY <2>1, <2>4 DEF AfterSync
      <3> QED BY <2>1, <2>2, <2>3, <3>1 DEF Paid, Clear, Owed
    <2>5. CASE ~gate[p].pr.draft
      <3>1. pc'[p] = Crossed(job[p]) BY <2>1, <2>5 DEF AfterSync
      <3> QED BY <2>1, <2>2, <2>3, <2>5, <3>1, ReadyPaid
    <2> QED BY <2>4, <2>5
  <1>5. CASE MarkReady(p)
    <2>1. CASE pr.state = "open"
      <3>1. /\ pc[p] = "mark" /\ pc'[p] = "confirm" /\ job' = job /\ issue' = issue
            /\ role' = role /\ pr' = [pr EXCEPT !.draft = FALSE] /\ (p \in alone' => p \in alone)
        BY <1>1, <1>5, <2>1, WriteTo DEF MarkReady, WritePull
      <3>2. pr'.state = pr.state BY <1>1, <3>1 DEF TypeOK, Pulls
      <3>3. p \in alone' => Reviewable'
        BY <1>1, <3>1, <3>2 DEF Owed, Reviewable, Governed, Final
      <3> QED BY <1>1, <3>1, <3>3 DEF Paid, Clear, Owed
    <2>2. CASE pr.state # "open"
      <3>1. pc'[p] = "failed" BY <1>1, <1>5, <2>2, LookTo DEF MarkReady, Look
      <3> QED BY <3>1, GivenUp
    <2> QED BY <2>1, <2>2
  <1>6. CASE Confirm(p)
    <2>1. CASE pr.draft
      <3>1. pc'[p] = "refused" BY <1>1, <1>6, <2>1, LookTo DEF Confirm, Look
      <3> QED BY <3>1, GivenUp
    <2>2. CASE ~pr.draft
      <3>1. /\ pc[p] = "confirm" /\ pc'[p] = Crossed(job[p]) /\ job' = job
            /\ UNCHANGED <<issue, pr, role, alone>> /\ (pc'[p] = "pull" => phase'[p] = "merge")
        BY <1>1, <1>6, <2>2, LookTo DEF Confirm, Look
      <3>2. p \in alone' => Reviewable'
        BY <1>1, <3>1 DEF Owed, Reviewable, Governed, Final
      <3> QED BY <1>1, <2>2, <3>1, <3>2, ReadyPaid DEF Clear
    <2> QED BY <2>1, <2>2
  <1> QED BY <1>2, <1>3, <1>4, <1>5, <1>6

(* The merge gate. *)
LEMMA AdmittingPaid ==
  ASSUME Owing, NEW p \in Operators,
         ReadPull(p) \/ ReadEvidence(p) \/ Arm(p) \/ Merge(p) \/ ObserveTerminal(p)
  PROVE  Paid(p)'
  <1>1. TypeOK /\ Clear(p) /\ (p \in alone => Owed(p)) /\ Errand(p) BY DEF Owing, Inductive
  <1>2. CASE ReadPull(p)
    <2> DEFINE g == [pr |-> pr, issue |-> None, clean |-> {}, green |-> {}]
    <2>1. /\ pc[p] = "pull" /\ pc'[p] = "issue" /\ gate'[p] = g /\ pr' = pr /\ job' = job
          /\ phase'[p] = phase[p]
      BY <1>1, <1>2, LookTo DEF ReadPull
    <2> QED BY <1>1, <2>1 DEF Paid, Clear, Owed
  <1>3. CASE ReadEvidence(p)
    <2> DEFINE g == [gate[p] EXCEPT !.green = green \intersect {gate[p].pr.head}]
    <2> DEFINE l == Admit(job[p], "merge", g)
    <2>1. /\ pc[p] = "evidence" /\ pc'[p] = l /\ job' = job
      BY <1>1, <1>3, LookTo DEF ReadEvidence
    <2>2. l \in {"terminal", "arm", "merge", "refused"} BY AdmitLabel
    <2> HIDE DEF l
    <2>3. job[p].verb \in {"merge", "auto", "land"} BY <1>1, <2>1 DEF Errand, Clear
    <2> QED BY <2>1, <2>2, <2>3 DEF Paid, Clear, Owed
  <1>4. CASE Arm(p) \/ Merge(p)
    <2>1. pc[p] \in {"arm", "merge"} /\ pc'[p] \in {"terminal", "failed"} /\ job' = job
      BY <1>1, <1>4, LookTo, WriteTo DEF Arm, Merge, WritePull, Look
    <2> QED BY <1>1, <2>1 DEF Paid, Clear, Owed
  <1>5. CASE ObserveTerminal(p)
    <2>1. /\ pc[p] = "terminal" /\ job' = job /\ UNCHANGED <<issue, pr, records, role, alone>>
          /\ pc'[p] = IF pr.state # "merged" THEN "refused" ELSE IF Final THEN "fetch" ELSE "ok"
      BY <1>1, <1>5, LookTo DEF ObserveTerminal, Look
    <2>2. job[p].verb \in {"merge", "auto", "land"} BY <1>1, <2>1 DEF Clear
    <2>3. pc'[p] = "ok" => Promise(p)'
      BY <2>1, <2>2 DEF Promise, PostMerge, Final
    <2> QED BY <2>1, <2>2, <2>3 DEF Paid, Clear, Owed
  <1> QED BY <1>2, <1>3, <1>4, <1>5

(* Convergence of the issue. *)
LEMMA ConvergedPaid ==
  ASSUME NEW p \in Operators, job[p] \in Jobs, job' = job, pc'[p] = "ok",
         job[p].verb \notin {"ready", "set"},
         issue'.workflow = job[p].to, issue'.state = Move(p).state,
         issue'.state = "closed" => issue'.reason = Move(p).reason,
         job[p].verb \in Admitting => pr'.state = "merged",
         job[p].verb = "closepr" /\ p \in alone' =>
           Final' /\ pr'.state = "closed" /\ Recorded(p)' = {job[p].to}
  PROVE  Paid(p)'
  <1>1. job[p].verb \in Verbs /\ (job[p].verb \in Admitting => job[p].to = "Done")
    BY JobAssumption
  <1>2. Paired(job[p].to)' BY DEF Paired, Move
  <1>3. CASE job[p].verb \in Admitting
    <2>1. PostMerge(Login[p])' = {}
      BY <1>1, <1>2, <1>3 DEF PostMerge, Paired
    <2>2. Promise(p)' BY <1>1, <1>2, <1>3, <2>1 DEF Promise
    <2> QED BY <2>2 DEF Paid, Clear, Owed
  <1>4. CASE job[p].verb = "closepr"
    <2>1. ASSUME p \in alone' PROVE Promise(p)'
      <3>1. {o \in Outcomes : <<Login[p], o>> \in records'} = {job[p].to}
        BY <1>4, <2>1 DEF Recorded
      <3>2. Cardinality({o \in Outcomes : <<Login[p], o>> \in records'}) = 1
        <4>1. Cardinality({job[p].to}) = 1 BY FS_Singleton
        <4> QED BY <3>1, <4>1
      <3>4. ~(1 > 1) OBVIOUS
      <3>5. issue'.workflow \in {o \in Outcomes : <<Login[p], o>> \in records'} BY <3>1
      <3>3. PostMerge(Login[p])' = {}
        BY <1>4, <2>1, <3>2, <3>4, <3>5 DEF PostMerge
      <3> QED BY <1>2, <1>4, <2>1, <3>3 DEF Promise
    <2> QED BY <2>1 DEF Paid, Clear, Owed
  <1>5. CASE job[p].verb \in {"close", "reopen"}
    <2>1. Promise(p)' BY <1>2, <1>5 DEF Promise
    <2> QED BY <2>1 DEF Paid, Clear, Owed
  <1> QED BY <1>1, <1>3, <1>4, <1>5 DEF Verbs

LEMMA ConvergingPaid ==
  ASSUME Owing, NEW p \in Operators,
         Fetch(p) \/ Reopen(p) \/ NativeState(p) \/ WorkflowField(p)
  PROVE  Paid(p)'
  <1>1. /\ TypeOK /\ Clear(p) /\ (p \in alone => Owed(p)) /\ Errand(p) /\ Earned(p)
    BY DEF Owing, Inductive
  <1>2. Move(p)' = Move(p) \/ job' # job BY DEF Move
  <1>3. pc[p] \in Converging /\ job[p] \in Jobs /\ job[p].verb \notin {"ready", "set"}
    BY <1>1 DEF Fetch, Reopen, NativeState, WorkflowField, Errand, Clear
  <1>4. /\ job' = job /\ pr' = pr /\ records' = records /\ role' = role
        /\ p \in alone' => p \in alone
    BY <1>1, LookTo, WriteTo DEF Fetch, Reopen, NativeState, WorkflowField, Look, WriteIssue
  <1>5. /\ job[p].verb \in Admitting => pr'.state = "merged"
        /\ job[p].verb = "closepr" /\ p \in alone' =>
             Final' /\ pr'.state = "closed" /\ Recorded(p)' = {job[p].to}
    BY <1>1, <1>3, <1>4 DEF Owed, Earned, Final, Recorded
  <1>6. CASE Fetch(p)
    <2>1. /\ issue' = issue
          /\ pc'[p] = IF issue = Move(p) THEN "ok"
                      ELSE IF NeedsReopen(Move(p)) THEN "reopen" ELSE "native"
      BY <1>1, <1>6, LookTo DEF Fetch, Look
    <2>2. CASE issue = Move(p)
      <3>1. Move(p).workflow = job[p].to BY DEF Move
      <3> QED BY <1>3, <1>4, <1>5, <2>1, <2>2, <3>1, ConvergedPaid
    <2>3. CASE issue # Move(p)
      BY <1>3, <1>4, <1>5, <2>1, <2>3 DEF Paid, Clear, Owed
    <2> QED BY <2>2, <2>3
  <1>7. CASE Reopen(p)
    <2>1. pc'[p] = "native" BY <1>1, <1>7, WriteTo DEF Reopen, WriteIssue
    <2> QED BY <1>3, <1>4, <1>5, <2>1 DEF Paid, Clear, Owed
  <1>8. CASE NativeState(p)
    <2>1. /\ pc'[p] \in {"field", "failed"}
          /\ pc'[p] = "field" =>
               /\ issue'.state = Move(p).state
               /\ Move(p).state = "closed" => issue'.reason = Move(p).reason
      BY <1>1, <1>8, WriteTo DEF NativeState, WriteIssue
    <2>2. CASE pc'[p] = "failed" BY <2>2, GivenUp
    <2>3. CASE pc'[p] = "field"
      <3>1. Move(p)' = Move(p) BY <1>2, <1>4
      <3>2. Clear(p)' BY <1>3, <1>4, <2>3 DEF Clear
      <3>3. /\ issue'.state = Move(p)'.state
            /\ issue'.state = "closed" => issue'.reason = Move(p)'.reason
        BY <2>1, <2>3, <3>1
      <3>4. p \in alone' => Owed(p)' BY <1>4, <1>5, <2>3, <3>3 DEF Owed
      <3> QED BY <3>2, <3>4 DEF Paid
    <2> QED BY <2>1, <2>2, <2>3
  <1>9. CASE WorkflowField(p)
    <2>1. pc[p] = "field" /\ pc'[p] = "ok" /\ issue' = SetWorkflow(issue, job[p].to)
      BY <1>1, <1>9, WriteTo DEF WorkflowField, WriteIssue
    <2>2. issue'.workflow = job[p].to /\ issue'.state = issue.state /\ issue'.reason = issue.reason
      BY <1>1, <2>1 DEF SetWorkflow, TypeOK, Issues
    <2>3. CASE p \in alone BY <1>1, <1>3, <1>4, <1>5, <2>1, <2>2, <2>3, ConvergedPaid DEF Owed
    <2>4. CASE p \notin alone BY <1>4, <2>1, <2>4 DEF Paid, Clear
    <2> QED BY <2>3, <2>4
  <1> QED BY <1>6, <1>7, <1>8, <1>9

(* Closing a Final unmerged. *)
LEMMA ClosedPaid ==
  ASSUME NEW p \in Operators, job[p] \in Jobs, job[p].verb = "closepr", job' = job, NEW g,
         UNCHANGED <<issue, role>>, issue \in Issues, pc'[p] = AfterClose(job[p], g),
         p \in alone' => /\ Final /\ pr'.state = "closed" /\ Recorded(p)' = {job[p].to}
                         /\ g.issue = issue
  PROVE  Paid(p)'
  <1>1. job[p].to \in Outcomes BY JobTypes
  <1>2. Final' = Final BY DEF Final
  <1>3. CASE job[p].to = "Dropped" \/ g.issue.state = "closed"
    <2>1. pc'[p] = "fetch" BY <1>3 DEF AfterClose
    <2> QED BY <1>2, <2>1 DEF Paid, Clear, Owed
  <1>4. CASE job[p].to # "Dropped" /\ g.issue.state # "closed"
    <2>1. p \in alone' => issue'.state = "open" BY <1>4 DEF Issues
    <2>2. CASE g.issue.workflow = job[p].to
      <3>1. pc'[p] = "ok" BY <1>4, <2>2 DEF AfterClose
      <3>2. job[p].to \in Coherent BY <1>1, <1>4 DEF Outcomes
      <3>3. Move(p).state = "open" BY <3>2 DEF Move, Coherent
      <3>4. CASE p \in alone'
        BY <1>2, <2>1, <2>2, <3>1, <3>3, <3>4, ConvergedPaid
      <3>5. CASE p \notin alone' BY <3>1, <3>5 DEF Paid, Clear
      <3> QED BY <3>4, <3>5
    <2>3. CASE g.issue.workflow # job[p].to
      <3>1. pc'[p] = "settle" BY <1>4, <2>3 DEF AfterClose
      <3> QED BY <1>2, <1>4, <2>1, <3>1 DEF Paid, Clear, Owed
    <2> QED BY <2>2, <2>3
  <1> QED BY <1>3, <1>4

LEMMA RecordedPaid ==
  ASSUME NEW p \in Operators, job[p] \in Jobs, job[p].verb = "closepr", job' = job,
         UNCHANGED <<issue, pr, role>>, issue \in Issues, pr \in Pulls,
         pc'[p] = AfterRecord(job[p], gate[p]), pc'[p] = "shut" => gate'[p] = gate[p],
         p \in alone' => /\ Final /\ pr.state # "merged" /\ Recorded(p)' = {job[p].to}
                         /\ Fresh(p)
  PROVE  Paid(p)'
  <1>1. CASE gate[p].pr.state = "closed"
    <2>1. pc'[p] = AfterClose(job[p], gate[p]) BY <1>1 DEF AfterRecord
    <2> QED BY <1>1, <2>1, ClosedPaid DEF Fresh
  <1>2. CASE gate[p].pr.state # "closed"
    <2>1. pc'[p] = "shut" BY <1>2 DEF AfterRecord
    <2> QED BY <2>1 DEF Paid, Clear, Owed, Fresh, Final
  <1> QED BY <1>1, <1>2

LEMMA ClosingPaid ==
  ASSUME Owing, NEW p \in Operators,
         ListRecords(p) \/ Record(p) \/ Shut(p) \/ Settle(p)
  PROVE  Paid(p)'
  <1>1. /\ TypeOK /\ Clear(p) /\ (p \in alone => Owed(p)) /\ Errand(p)
        /\ issue \in Issues /\ pr \in Pulls
    BY DEF Owing, Inductive, TypeOK
  <1>2. /\ pc[p] \in Closing /\ job[p] \in Jobs /\ job[p].verb = "closepr"
        /\ job[p].to \in Outcomes
    BY <1>1, JobTypes DEF ListRecords, Record, Shut, Settle, Errand
  <1>3. CASE ListRecords(p)
    <2>1. /\ pc[p] = "list" /\ pc'[p] = AfterList(p) /\ job' = job
          /\ UNCHANGED <<issue, pr, records, role, alone>>
          /\ pc'[p] \notin Ended => gate'[p] = gate[p]
      BY <1>1, <1>3, LookTo DEF ListRecords, Look
    <2>2. Recorded(p)' = Recorded(p) /\ Final' = Final BY <2>1 DEF Recorded, Final
    <2>3. CASE Recorded(p) = {}
      <3>1. pc'[p] = "record" BY <2>1, <2>3 DEF AfterList
      <3> QED BY <1>1, <1>2, <2>1, <2>2, <2>3, <3>1 DEF Paid, Clear, Owed, Fresh
    <2>4. CASE Recorded(p) = {job[p].to}
      <3>1. pc'[p] = AfterRecord(job[p], gate[p]) BY <2>1, <2>4 DEF AfterList
      <3> QED BY <1>1, <1>2, <2>1, <2>2, <2>4, <3>1, RecordedPaid DEF Owed
    <2>5. CASE Recorded(p) \notin {{}, {job[p].to}}
      <3>1. pc'[p] = "refused" BY <2>1, <2>5 DEF AfterList
      <3> QED BY <3>1, GivenUp
    <2> QED BY <2>3, <2>4, <2>5
  <1>4. CASE Record(p)
    <2>1. /\ pc[p] = "record" /\ pc'[p] = AfterRecord(job[p], gate[p]) /\ job' = job
          /\ UNCHANGED <<issue, pr, role>> /\ records' = records \union {<<Login[p], job[p].to>>}
          /\ p \in alone' => p \in alone
          /\ pc'[p] \notin Ended => gate'[p] = gate[p]
      BY <1>1, <1>4, WriteTo DEF Record
    <2>2. p \in alone => Recorded(p)' = {job[p].to}
      BY <1>1, <1>2, <2>1 DEF Owed, Recorded
    <2> QED BY <1>1, <1>2, <2>1, <2>2, RecordedPaid DEF Owed
  <1>5. CASE Shut(p)
    <2> DEFINE q == IF pr.state = "open" THEN [pr EXCEPT !.state = "closed", !.armed = None] ELSE pr
    <2>1. /\ pc[p] = "shut" /\ pc'[p] = AfterClose(job[p], gate[p]) /\ job' = job
          /\ UNCHANGED <<issue, role, records>> /\ pr' = q
          /\ p \in alone' => p \in alone
      BY <1>1, <1>5, WriteTo DEF Shut, WritePull
    <2>2. pr.state # "merged" => pr'.state = "closed"
      BY <1>1, <2>1 DEF Pulls
    <2>3. Recorded(p)' = Recorded(p) BY <2>1 DEF Recorded
    <2>4. p \in alone => /\ Final /\ pr.state # "merged" /\ Recorded(p) = {job[p].to}
                         /\ gate[p].issue = issue
      BY <1>1, <2>1 DEF Owed, Fresh
    <2> QED BY <1>1, <1>2, <2>1, <2>2, <2>3, <2>4, ClosedPaid
  <1>6. CASE Settle(p)
    <2>1. /\ pc[p] = "settle" /\ pc'[p] = "ok" /\ job' = job
          /\ UNCHANGED <<pr, role, records>> /\ issue' = SetWorkflow(issue, job[p].to)
          /\ p \in alone' => p \in alone
      BY <1>1, <1>6, WriteTo DEF Settle, WriteIssue
    <2>2. issue'.workflow = job[p].to /\ issue'.state = issue.state
      BY <1>1, <2>1 DEF SetWorkflow, Issues
    <2>3. CASE p \in alone
      <3>1. /\ Final /\ pr.state = "closed" /\ Recorded(p) = {job[p].to}
            /\ issue.state = "open" /\ job[p].to # "Dropped"
        BY <1>1, <2>1, <2>3 DEF Owed
      <3>2. Move(p).state = "open" BY <1>2, <3>1 DEF Move, Outcomes, Coherent
      <3>3. Recorded(p)' = Recorded(p) /\ Final' = Final BY <2>1 DEF Recorded, Final
      <3> QED BY <1>2, <2>1, <2>2, <3>1, <3>2, <3>3, ConvergedPaid
    <2>4. CASE p \notin alone BY <2>1, <2>4 DEF Paid, Clear
    <2> QED BY <2>3, <2>4
  <1> QED BY <1>3, <1>4, <1>5, <1>6

(* `set` writes what it was told to. *)
LEMMA SetPaid ==
  ASSUME Owing, NEW p \in Operators, SetField(p) PROVE Paid(p)'
  <1>1. TypeOK /\ Errand(p) BY DEF Owing, Inductive
  <1>2. /\ pc[p] = "set" /\ pc'[p] = "ok" /\ job' = job
        /\ issue' = SetWorkflow(issue, job[p].to)
    BY <1>1, WriteTo DEF SetField, WriteIssue
  <1>3. issue'.workflow = job[p].to BY <1>1, <1>2 DEF SetWorkflow, TypeOK, Issues
  <1>4. Promise(p)' BY <1>1, <1>2, <1>3 DEF Promise, Errand
  <1> QED BY <1>2, <1>4 DEF Paid, Clear, Owed

-----------------------------------------------------------------------------
(* The invariant. *)

LEMMA OwingStep == Owing /\ [Next]_vars => Owing'
  <1> SUFFICES ASSUME Owing, [Next]_vars PROVE Owing'
    OBVIOUS
  <1>1. Inductive' /\ TypeOK /\ TypeOK' BY InductiveStep DEF Owing, Inductive
  <1>2. ASSUME NEW p \in Operators, Act(p) PROVE Owing'
    <2>1. CASE Stop(p)
      <3>1. pc'[p] = "failed" BY <1>1, <2>1, GoTo DEF Stop
      <3> QED BY <1>1, <1>2, <3>1, GivenUp, OthersOwe DEF Owing, Paid, TypeOK
    <2>2. CASE ~Stop(p)
      <3>1. Paid(p)'
        BY <1>2, <2>2, StartPaid, ReadIssuePaid, CrossingPaid, AdmittingPaid, ConvergingPaid,
           ClosingPaid, SetPaid DEF Act, Proceed
      <3> QED BY <1>1, <1>2, <3>1, OthersOwe DEF Owing, Paid, TypeOK
    <2> QED BY <2>1, <2>2
  <1>3. CASE UNCHANGED local /\ role' = role /\ (alone' = {} \/ UNCHANGED <<github, alone>>)
    <2>1. \A p \in Operators : Clear(p)' BY <1>3 DEF Owing, Clear, local
    <2>2. \A p \in alone' : Owed(p)'
      BY <1>1, <1>3, OwedKept DEF Owing, local, github, TypeOK
    <2> QED BY <1>1, <2>1, <2>2 DEF Owing
  <1>4. CASE Push \/ Evidence \/ AutoMerge \/ ByHand
    BY <1>3, <1>4 DEF Push, Evidence, AutoMerge, ByHand, github, facts
  <1>5. CASE UNCHANGED vars BY <1>3, <1>5 DEF vars, facts
  <1> QED BY <1>2, <1>4, <1>5 DEF Next, Act

LEMMA OwingInit == Init => Owing
  BY InitInductive DEF Init, Owing, Clear

LEMMA OwingHolds == Spec => []Owing
  BY OwingInit, OwingStep, PTL DEF Spec

(* A command that exited 0 keeps its promise about GitHub's state as long  *)
(* as nobody else has written: ready leaves nothing for the Ready gate to  *)
(* find, the paired commands nothing for the post-merge gate, and the      *)
(* issue's native and Workflow halves agree, whatever commands that        *)
(* failed, lost an answer or died had left before it started.              *)
THEOREM PromiseHolds == Spec => []SuccessMeansDone
  <1>1. Owing => SuccessMeansDone BY DEF Owing, Owed, SuccessMeansDone
  <1> QED BY <1>1, OwingHolds, PTL

=============================================================================
