-------------------------- MODULE ProviderProcess --------------------------
(* One run of a provider child by the control plane's bounded runner           *)
(* (control_plane/provider_subprocess.py).  The runner starts a leader in a    *)
(* process group of its own, pumps the request, the result and the diagnostic  *)
(* streams through one selector loop under one deadline, and tears the whole   *)
(* group down on every way out.  The leader and the processes it forks act     *)
(* between any two steps of the runner.                                        *)
(*                                                                             *)
(* Data: a pipe is the number of its unread bytes, a diagnostic stream only    *)
(* the number the runner keeps of it.  The frame the leader is to write is     *)
(* its length and the prefixes of it that parse as one JSON object.            *)
EXTENDS Naturals, FiniteSets

CONSTANTS
    Leader,         \* the child process the runner starts
    Kids,           \* the processes it, or they, may fork
    Diagnostics,    \* stdout and stderr
    Cap,            \* the capacity of a pipe
    StreamLimit,    \* STREAM_LIMIT_BYTES
    ResultLimit,    \* RESULT_LIMIT_BYTES
    Request,        \* the length of the request
    Jobs            \* what callers ask for and how children behave, see below

Procs == {Leader} \cup Kids
Captured == {"result"} \cup Diagnostics
Pipes == {"request"} \cup Captured

ASSUME ProcessAssumption ==
    /\ Leader \notin Kids
    /\ {"request", "result"} \cap Diagnostics = {}
    /\ Cap \in Nat \ {0}
    /\ StreamLimit \in Nat /\ ResultLimit \in Nat
    /\ Request \in Nat
    /\ Jobs \subseteq [command : BOOLEAN, diligent : BOOLEAN,
                      size : Nat, readable : SUBSET Nat, talk : Nat, chatter : Nat,
                      stubborn : SUBSET Procs, closing : SUBSET Pipes]

VARIABLES
    job,        \* what the caller asks for and how the children behave, never changed
    life,       \* process -> "unborn", "alive" or "dead"
    holds,      \* process -> the pipe ends it has open
    grouped,    \* process -> is it in the leader's process group
    doomed,     \* the processes with a signal pending that will end them
    status,     \* the leader's exit status
    heard,      \* the leader has read the request to its end
    told,       \* diagnostic bytes the leader has written
    sent,       \* frame bytes the leader has written
    late,       \* some of them since the select that returned nothing
    chat,       \* diagnostic bytes the descendants have written
    buf,        \* pipe -> bytes in it
    phase,      \* where the runner is
    step,       \* where _Transport.run is: "loop", "serve" or "poll"
    batch,      \* the ready descriptors select returned, not yet served
    over,       \* the deadline of the current phase has passed
    open,       \* _Transport.open
    stdin,      \* _Transport._stdin is not None
    pending,    \* request bytes not yet written
    kept,       \* stream -> bytes its CapturedStream keeps
    raw,        \* raw_result: what was kept of the result when the pump ended
    settled,    \* every stream ended in teardown's first drain
    answer      \* what the caller gets

leaderVars == <<status, heard, told, sent, late>>
groupVars == <<life, holds, grouped, doomed>>
loopVars == <<step, batch, over, open, stdin, pending, kept>>
resultVars == <<raw, settled, answer>>
childVars == <<leaderVars, groupVars, chat>>
vars == <<job, childVars, buf, phase, loopVars, resultVars>>

-----------------------------------------------------------------------------
Alive(p) == life[p] = "alive"
Held(d) == \E p \in Procs : Alive(p) /\ d \in holds[p]

(* A job: a Python worker's exit status is not looked at (validate_status), a  *)
(* command's is.  A diligent leader reads the whole request, writes its        *)
(* diagnostics, its frame, and exits with zero, as the Python worker's main    *)
(* does; any other does what it can in any order.  A job also says how long    *)
(* the frame is and which prefixes of it parse, how many diagnostic bytes the  *)
(* leader and, in all, its descendants write, which processes ignore SIGTERM,  *)
(* and which pipe ends they may close before they exit.                        *)

LimitNotBeyond(d) == IF d = "result" THEN ResultLimit ELSE StreamLimit

Limit(d) == IF d = "result" THEN ResultLimit + 1 ELSE StreamLimit

Init ==
    /\ job \in Jobs
    /\ life = [p \in Procs |-> "unborn"]
    /\ holds = [p \in Procs |-> {}]
    /\ grouped = [p \in Procs |-> FALSE]
    /\ doomed = {}
    /\ status = "none" /\ heard = FALSE /\ told = 0 /\ chat = 0
    /\ sent = 0 /\ late = FALSE
    /\ buf = [d \in Pipes |-> 0]
    /\ phase = "spawn" /\ step = "loop" /\ batch = {} /\ over = FALSE
    /\ open = Captured /\ stdin = TRUE /\ pending = Request
    /\ kept = [d \in Captured |-> 0]
    /\ raw = 0 /\ settled = FALSE /\ answer = "none"

-----------------------------------------------------------------------------
(* The children.                                                               *)

(* What the leader must have done before its next piece of work.               *)
HasHeard == job.diligent => heard
HasTold == job.diligent => heard /\ told = job.talk
HasSent == job.diligent => heard /\ told = job.talk /\ sent = job.size

ChildStep == phase \notin {"spawn", "done"}

Fork(p, q) ==
    /\ ChildStep /\ Alive(p) /\ p \notin doomed
    /\ life[q] = "unborn"
    /\ life' = [life EXCEPT ![q] = "alive"]
    /\ holds' = [holds EXCEPT ![q] = holds[p]]
    /\ grouped' = [grouped EXCEPT ![q] = grouped[p]]
    /\ UNCHANGED <<job, leaderVars, doomed, chat, buf, phase, loopVars, resultVars>>

(* setsid: the leader already leads a session and cannot.                      *)
Detach(p) ==
    /\ ChildStep /\ Alive(p) /\ p # Leader /\ grouped[p]
    /\ grouped' = [grouped EXCEPT ![p] = FALSE]
    /\ UNCHANGED <<job, leaderVars, life, holds, doomed, chat, buf, phase, loopVars, resultVars>>

CloseEnd(p, d) ==
    /\ ChildStep /\ Alive(p) /\ d \in holds[p] \cap job.closing
    /\ p = Leader => HasSent
    /\ holds' = [holds EXCEPT ![p] = @ \ {d}]
    /\ UNCHANGED <<job, leaderVars, life, grouped, doomed, chat, buf, phase, loopVars, resultVars>>

(* sys.stdin.buffer.read(): takes what is there, ends when the runner closed   *)
(* its end.                                                                    *)
ReadRequest ==
    /\ ChildStep /\ Alive(Leader) /\ "request" \in holds[Leader] /\ ~heard
    /\ IF buf["request"] > 0
       THEN buf' = [buf EXCEPT !["request"] = 0] /\ UNCHANGED heard
       ELSE ~stdin /\ heard' = TRUE /\ UNCHANGED buf
    /\ UNCHANGED <<job, groupVars, status, told, sent, late, chat, phase, loopVars, resultVars>>

Say(d) ==
    /\ ChildStep /\ Alive(Leader) /\ d \in Diagnostics \cap holds[Leader]
    /\ HasHeard /\ told < job.talk /\ buf[d] < Cap
    /\ told' = told + 1
    /\ buf' = [buf EXCEPT ![d] = @ + 1]
    /\ UNCHANGED <<job, groupVars, status, heard, sent, late, chat, phase, loopVars, resultVars>>

WriteFrame ==
    /\ ChildStep /\ Alive(Leader) /\ "result" \in holds[Leader]
    /\ HasTold /\ sent < job.size /\ buf["result"] < Cap
    /\ sent' = sent + 1
    /\ late' = (late \/ step = "poll")
    /\ buf' = [buf EXCEPT !["result"] = @ + 1]
    /\ UNCHANGED <<job, groupVars, status, heard, told, chat, phase, loopVars, resultVars>>

ChatterOn(p, d) ==
    /\ ChildStep /\ Alive(p) /\ p # Leader /\ d \in Diagnostics \cap holds[p]
    /\ chat < job.chatter /\ buf[d] < Cap
    /\ chat' = chat + 1
    /\ buf' = [buf EXCEPT ![d] = @ + 1]
    /\ UNCHANGED <<job, leaderVars, groupVars, phase, loopVars, resultVars>>

Die(p, code) ==
    /\ life' = [life EXCEPT ![p] = "dead"]
    /\ holds' = [holds EXCEPT ![p] = {}]
    /\ doomed' = doomed \ {p}
    /\ status' = IF p = Leader THEN code ELSE status
    /\ UNCHANGED <<job, grouped, heard, told, sent, late, chat, buf, phase, loopVars, resultVars>>

Exit(p, code) ==
    /\ ChildStep /\ Alive(p)
    /\ p = Leader => HasSent /\ (job.diligent => code = "zero")
    /\ Die(p, code)

Perish(p) == ChildStep /\ Alive(p) /\ p \in doomed /\ Die(p, "nonzero")

Child ==
    \/ \E p \in Procs : \E q \in Kids : Fork(p, q)
    \/ \E p \in Kids : Detach(p)
    \/ \E p \in Procs : \E d \in Pipes : CloseEnd(p, d)
    \/ ReadRequest
    \/ \E d \in Diagnostics : Say(d)
    \/ WriteFrame
    \/ \E p \in Kids : \E d \in Diagnostics : ChatterOn(p, d)
    \/ \E p \in Procs : \E code \in {"zero", "nonzero"} : Exit(p, code)
    \/ \E p \in Procs : Perish(p)

-----------------------------------------------------------------------------
(* _Transport.run, in the pump and in the three drains of the teardown.        *)

Draining == {"drain", "grace", "slay"}
Pumping == phase \in {"pump"} \cup Draining

ReadyBelowLimit ==
    {d \in open : kept[d] < Limit(d) /\ (buf[d] > 0 \/ ~Held(d))}
    \cup {d \in {"request"} : stdin /\ (buf[d] < Cap \/ ~Held(d))}

(* What select reports: a stream with bytes or without writers, and the        *)
(* request pipe with room or without readers.                                  *)
Ready ==
    {d \in open : buf[d] > 0 \/ ~Held(d)}
    \cup {d \in {"request"} : stdin /\ (buf[d] < Cap \/ ~Held(d))}

Stopped ==
    IF phase = "pump" THEN "result" \notin open /\ pending = 0
                      ELSE open = {} /\ ~stdin

(* run returns: the pump to the teardown, a drain to the step after it.        *)
Return(whole) ==
    /\ step' = "loop" /\ batch' = {} /\ over' = FALSE
    /\ \/ /\ phase = "pump" /\ phase' = "drain"
          /\ raw' = kept["result"]
          /\ answer' = IF whole THEN answer ELSE "timeout"
          /\ UNCHANGED settled
       \/ /\ phase = "drain" /\ phase' = "term"
          /\ settled' = whole
          /\ UNCHANGED <<raw, answer>>
       \/ /\ phase = "grace" /\ phase' = "decide"
          /\ UNCHANGED resultVars
       \/ /\ phase = "slay" /\ phase' = "wait"
          /\ UNCHANGED resultVars
    /\ UNCHANGED <<job, childVars, buf, open, stdin, pending, kept>>

Complete == Pumping /\ step = "loop" /\ Stopped /\ Return(TRUE)

TimeOut == Pumping /\ step = "loop" /\ ~Stopped /\ over /\ Return(FALSE)

Select ==
    /\ Pumping /\ step = "loop" /\ ~Stopped /\ ~over
    /\ Ready # {}
    /\ batch' = Ready /\ step' = "serve"
    /\ UNCHANGED <<job, childVars, buf, phase, over, open, stdin, pending, kept, resultVars>>

LapseUnread ==
    /\ phase = "pump" /\ step = "loop" /\ ~Stopped /\ ~over
    /\ step' = "poll"
    /\ UNCHANGED <<job, childVars, buf, phase, batch, over, open, stdin, pending, kept, resultVars>>

(* Nothing ready within a slice of the pump's wait.                            *)
Lapse ==
    /\ phase = "pump" /\ step = "loop" /\ ~Stopped /\ ~over
    /\ Ready = {}
    /\ step' = "poll"
    /\ UNCHANGED <<job, childVars, buf, phase, batch, over, open, stdin, pending, kept, resultVars>>

Served(d) ==
    /\ Pumping /\ step = "serve" /\ d \in batch
    /\ batch' = batch \ {d}
    /\ step' = IF batch = {d} THEN "loop" ELSE "serve"
    /\ UNCHANGED <<job, childVars, phase, over, resultVars>>

(* _write: a request nobody can read any more is dropped; the end is closed    *)
(* once nothing is left to write.                                              *)
Write ==
    /\ Served("request")
    /\ LET room == Cap - buf["request"]
           n == IF pending < room THEN pending ELSE room
       IN IF Held("request")
          THEN /\ buf' = [buf EXCEPT !["request"] = @ + n]
               /\ pending' = pending - n
               /\ stdin' = (n < pending)
          ELSE /\ pending' = 0 /\ stdin' = FALSE
               /\ UNCHANGED buf
    /\ UNCHANGED <<open, kept>>

AppendAll(d, n) == kept[d] + n

(* CapturedStream.append keeps what there is room for and counts the rest.     *)
Append(d, n) == IF kept[d] + n < Limit(d) THEN kept[d] + n ELSE Limit(d)

Read(d) ==
    /\ Served(d) /\ d \in Captured
    /\ \/ /\ buf[d] > 0
          /\ kept' = [kept EXCEPT ![d] = Append(d, buf[d])]
          /\ buf' = [buf EXCEPT ![d] = 0]
          /\ UNCHANGED open
       \/ /\ buf[d] = 0 /\ ~Held(d)
          /\ open' = open \ {d}
          /\ UNCHANGED <<kept, buf>>
    /\ UNCHANGED <<stdin, pending>>

Poll ==
    /\ phase = "pump" /\ step = "poll"
    /\ \/ ~Alive(Leader) /\ Return(TRUE)
       \/ Alive(Leader) /\ over /\ Return(FALSE)
       \/ /\ Alive(Leader) /\ ~over
          /\ step' = "loop" /\ late' = FALSE
          /\ UNCHANGED <<job, groupVars, status, heard, told, sent, chat, buf, phase, batch, over,
                         open, stdin, pending, kept, resultVars>>

-----------------------------------------------------------------------------
(* run_provider_subprocess and _teardown around it.                            *)

Spawn ==
    /\ phase = "spawn"
    /\ \/ /\ life' = [life EXCEPT ![Leader] = "alive"]
          /\ holds' = [holds EXCEPT ![Leader] = Pipes]
          /\ grouped' = [grouped EXCEPT ![Leader] = TRUE]
          /\ phase' = "pump"
          /\ UNCHANGED answer
       \/ /\ phase' = "done" /\ answer' = "unavailable"
          /\ UNCHANGED <<life, holds, grouped>>
    /\ UNCHANGED <<job, leaderVars, doomed, chat, buf, loopVars, raw, settled>>

(* KeyboardInterrupt or SystemExit in the pump.                                *)
Cancel ==
    /\ phase = "pump"
    /\ phase' = "drain" /\ answer' = "cancelled"
    /\ step' = "loop" /\ batch' = {} /\ over' = FALSE
    /\ UNCHANGED <<job, childVars, buf, open, stdin, pending, kept, raw, settled>>

(* _signal_group: reaches the living members of the leader's group.            *)
Group == {p \in Procs : Alive(p) /\ grouped[p]}

Terminate ==
    /\ phase = "term"
    /\ doomed' = doomed \cup (Group \ job.stubborn)
    /\ phase' = "look"
    /\ UNCHANGED <<job, leaderVars, life, holds, grouped, chat, buf, loopVars, resultVars>>

Look ==
    /\ phase = "look"
    /\ phase' = IF ~settled \/ Alive(Leader) THEN "grace" ELSE "decide"
    /\ UNCHANGED <<job, childVars, buf, loopVars, resultVars>>

KillLeaderOnly == Alive(Leader)

MustKill == Alive(Leader) \/ open # {}

Decide ==
    /\ phase = "decide"
    /\ IF MustKill
       THEN doomed' = doomed \cup Group /\ phase' = "slay"
       ELSE UNCHANGED doomed /\ phase' = "wait"
    /\ UNCHANGED <<job, leaderVars, life, holds, grouped, chat, buf, loopVars, resultVars>>

(* process.wait, with process.kill when it takes too long.                     *)
KillLeader ==
    /\ phase = "wait" /\ Alive(Leader) /\ over
    /\ doomed' = doomed \cup {Leader}
    /\ UNCHANGED <<job, leaderVars, life, holds, grouped, chat, buf, phase, loopVars, resultVars>>

(* _validated_frame, on what was kept of the result when the pump ended.       *)
Validated ==
    IF raw > ResultLimit THEN "oversize"
    ELSE IF raw \in job.readable THEN "frame" ELSE "unreadable"

Finish ==
    /\ phase = "wait" /\ ~Alive(Leader)
    /\ phase' = "done"
    /\ open' = {} /\ stdin' = FALSE
    /\ answer' = IF answer # "none" THEN answer
                 ELSE IF job.command /\ status # "zero" THEN "failed"
                 ELSE Validated
    /\ UNCHANGED <<job, childVars, buf, step, batch, over, pending, kept, raw, settled>>

(* time.monotonic() reaches the deadline of the phase.                         *)
Expire ==
    /\ Pumping \/ phase = "wait"
    /\ ~over /\ over' = TRUE
    /\ UNCHANGED <<job, childVars, buf, phase, step, batch, open, stdin, pending, kept, resultVars>>

Done == phase = "done" /\ UNCHANGED vars

Runner ==
    \/ Spawn \/ Complete \/ TimeOut \/ Select \/ Lapse \/ Write
    \/ \E d \in Captured : Read(d)
    \/ Poll \/ Terminate \/ Look \/ Decide \/ KillLeader \/ Finish

Next == Child \/ Runner \/ Cancel \/ Expire \/ Done

(* The runner runs, a signalled process ends, a diligent leader works.  Time   *)
(* passes, but never so much that a diligent leader runs into the deadline of  *)
(* the invocation: what it can rely on is the pump and not the deadline.       *)
LeaderWork ==
    \/ ReadRequest
    \/ \E d \in Diagnostics : Say(d)
    \/ WriteFrame
    \/ Exit(Leader, "zero")

Fairness ==
    /\ WF_vars(Runner)
    /\ WF_vars(\E p \in Procs : Perish(p))
    /\ WF_vars(job.diligent /\ LeaderWork)
    /\ WF_vars((phase = "pump" => ~job.diligent) /\ Expire)

Safe == Init /\ [][Next]_vars

Spec == Safe /\ Fairness

-----------------------------------------------------------------------------
TypeOK ==
    /\ job \in Jobs
    /\ life \in [Procs -> {"unborn", "alive", "dead"}]
    /\ holds \in [Procs -> SUBSET Pipes]
    /\ grouped \in [Procs -> BOOLEAN]
    /\ doomed \in SUBSET Procs
    /\ status \in {"none", "zero", "nonzero"}
    /\ heard \in BOOLEAN /\ told \in Nat /\ sent \in Nat /\ late \in BOOLEAN /\ chat \in Nat
    /\ buf \in [Pipes -> 0..Cap]
    /\ phase \in {"spawn", "pump", "drain", "term", "look", "grace", "decide", "slay", "wait",
                  "done"}
    /\ step \in {"loop", "serve", "poll"} /\ batch \in SUBSET Pipes /\ over \in BOOLEAN
    /\ open \in SUBSET Captured /\ stdin \in BOOLEAN /\ pending \in 0..Request
    /\ kept \in [Captured -> Nat] /\ \A d \in Captured : kept[d] \leq Limit(d)
    /\ raw \in Nat /\ settled \in BOOLEAN
    /\ answer \in {"none", "frame", "unreadable", "oversize", "failed", "timeout", "cancelled",
                   "unavailable"}

(* A descendant cannot survive the runner by keeping a stream open             *)
(* (docs/adr/adr-0030-command-provider-execution-boundary.md:87): when the     *)
(* runner returns, a living member of the group that still has one was sent a  *)
(* signal that ends it.                                                        *)
NoHolderSurvives ==
    phase = "done" => \A p \in Group \ doomed : holds[p] \cap Captured = {}

(* The runner reports a frame only if it is all the leader wrote, though one   *)
(* too long may have a readable prefix as long as the transport's limit; it    *)
(* may miss what was written between an empty select and the poll that found   *)
(* the leader gone.                                                            *)
NoPartialFrame == answer = "frame" => raw = sent \/ late

(* A leader that wrote an admissible frame and exited with zero has it         *)
(* reported, unless the invocation timed out, was cancelled, or met that race. *)
FrameDelivered ==
    /\ phase = "done" /\ job.diligent /\ status = "zero"
    /\ answer \notin {"timeout", "cancelled"}
    /\ job.size \leq ResultLimit /\ job.size \in job.readable
    => answer = "frame" \/ late

(* The whole group is torn down before the runner returns (the module's        *)
(* docstring; ADR 0030:87, "escalates surviving processes to SIGKILL").        *)
NoSurvivor == phase = "done" => Group \subseteq doomed

(* No two pipes wait for each other: whatever the order in which the leader    *)
(* and the runner fill and drain them, and however its descendants behave, a   *)
(* diligent leader is served and the runner returns, without help from the     *)
(* invocation's deadline; any other leader is ended by it.                     *)
Returns == <>(phase = "done")

-----------------------------------------------------------------------------
(* What makes them hold, in the order the phases rely on it.                   *)

(* Before the child is started nothing lives and nothing is closed.            *)
Fresh ==
    phase = "spawn" =>
        open = Captured /\ status = "none" /\ \A p \in Procs : life[p] = "unborn"

(* A stream the transport has read to its end has no writer and no bytes.      *)
Sealed ==
    phase # "done" => \A d \in Captured \ open : buf[d] = 0 /\ ~Held(d)

(* Once the teardown is past its decision to kill, a member of the group that  *)
(* is not about to end holds no stream the transport reads.                    *)
Slain ==
    phase \in {"slay", "wait", "done"} =>
        \A p \in Group \ doomed : holds[p] \cap Captured = {}

(* The result capture holds what was read of the frame, up to its limit.       *)
Prefix(n) == IF n < ResultLimit + 1 THEN n ELSE ResultLimit + 1

Conserved == buf["result"] \leq sent /\ kept["result"] = Prefix(sent - buf["result"])

(* Nothing of the frame is in the pipe when the leader is polled, unless it    *)
(* was written after select found nothing.                                     *)
PolledEmpty == step = "poll" => phase = "pump" /\ (late \/ buf["result"] = 0)

(* After a pump that ended by itself the leader writes no more of the frame    *)
(* and all it wrote was taken, but for that.                                   *)
Taken ==
    phase \notin {"spawn", "pump"} /\ answer \notin {"timeout", "cancelled", "unavailable"} =>
        /\ late \/ raw = Prefix(sent)
        /\ Alive(Leader) => "result" \notin holds[Leader]

(* A diligent leader that exited with zero had written its frame.              *)
Dutiful ==
    status = "zero" => ~Alive(Leader) /\ (job.diligent => sent = job.size)

(* The answer is settled at the end, and only from an admissible length.       *)
Reported ==
    /\ phase # "done" => answer \in {"none", "timeout", "cancelled"}
    /\ answer = "frame" => raw \leq ResultLimit

Inductive ==
    /\ TypeOK
    /\ Fresh /\ Sealed /\ Slain
    /\ Conserved /\ PolledEmpty /\ Taken
    /\ Dutiful /\ Reported /\ FrameDelivered

=============================================================================
