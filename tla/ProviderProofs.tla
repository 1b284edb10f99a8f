--------------------------- MODULE ProviderProofs ---------------------------
(* What the runner of provider children guarantees for every set of            *)
(* descendants, every pipe capacity, every limit and every job: the invariants *)
(* of ProviderProcess hold of every state it reaches.                          *)
EXTENDS ProviderProcess, TLAPS

-----------------------------------------------------------------------------
(* Facts about the operators.                                                  *)

(* An alternative of Next is one of these.                                     *)
LEMMA Steps ==
    ASSUME Next
    PROVE  \/ \E p \in Procs : \E q \in Kids : Fork(p, q)
           \/ \E p \in Kids : Detach(p)
           \/ \E p \in Procs : \E d \in Pipes : CloseEnd(p, d)
           \/ ReadRequest \/ \E d \in Diagnostics : Say(d)
           \/ WriteFrame
           \/ \E p \in Kids : \E d \in Diagnostics : ChatterOn(p, d)
           \/ \E p \in Procs : \E code \in {"zero", "nonzero"} : Exit(p, code)
           \/ \E p \in Procs : Perish(p)
           \/ Spawn \/ Complete \/ TimeOut \/ Select \/ Lapse \/ Write
           \/ \E d \in Captured : Read(d)
           \/ Poll \/ Terminate \/ Look \/ Decide \/ KillLeader \/ Finish
           \/ Cancel \/ Expire \/ UNCHANGED vars
BY DEF Next, Child, Runner, Done

(* No process but a forked one comes to hold a pipe end, and a forked one      *)
(* holds what its parent does.                                                 *)
LEMMA NoNewHolder ==
    ASSUME TypeOK, Next, phase # "spawn", NEW d \in Pipes, ~Held(d)
    PROVE  ~Held(d)'
<1> USE ProcessAssumption DEF Held, Alive, TypeOK
<1>1. ASSUME NEW p \in Procs, NEW q \in Kids, Fork(p, q) PROVE ~Held(d)'
  BY <1>1 DEF Fork, Procs
<1>2. ASSUME NEW p \in Kids, Detach(p) PROVE ~Held(d)'
  BY <1>2 DEF Detach, Procs
<1>3. ASSUME NEW p \in Procs, NEW e \in Pipes, CloseEnd(p, e) PROVE ~Held(d)'
  BY <1>3 DEF CloseEnd
<1>4. ASSUME NEW p \in Procs, NEW code, Die(p, code) PROVE ~Held(d)'
  BY <1>4 DEF Die
<1>5. CASE UNCHANGED <<life, holds>>
  BY <1>5
<1>6. ASSUME NEW p \in Procs, NEW code \in {"zero", "nonzero"}, Exit(p, code)
      PROVE  ~Held(d)'
  BY <1>4, <1>6 DEF Exit
<1>7. ASSUME NEW p \in Procs, Perish(p) PROVE ~Held(d)'
  BY <1>4, <1>7 DEF Perish
<1>8. ASSUME ReadRequest \/ WriteFrame \/ (\E e \in Diagnostics : Say(e))
             \/ (\E p \in Kids : \E e \in Diagnostics : ChatterOn(p, e))
      PROVE  UNCHANGED <<life, holds>>
  BY <1>8 DEF ReadRequest, WriteFrame, Say, ChatterOn, groupVars
<1>9. ASSUME Complete \/ TimeOut \/ Select \/ Lapse \/ Write
             \/ (\E e \in Captured : Read(e)) \/ Poll
      PROVE  UNCHANGED <<life, holds>>
  BY <1>9 DEF Complete, TimeOut, Return, Select, Lapse, Write, Read, Served, Poll, childVars,
              groupVars
<1>10. ASSUME Terminate \/ Look \/ Decide \/ KillLeader \/ Finish \/ Cancel \/ Expire
              \/ UNCHANGED vars
       PROVE  UNCHANGED <<life, holds>>
  BY <1>10 DEF Terminate, Look, Decide, KillLeader, Finish, Cancel, Expire, vars, childVars,
               groupVars
<1>11. ~Spawn
  BY DEF Spawn
<1> QED
  BY Steps, <1>1, <1>2, <1>3, <1>5, <1>6, <1>7, <1>8, <1>9, <1>10, <1>11

-----------------------------------------------------------------------------
LEMMA InitInductive == Init => Inductive
<1> SUFFICES ASSUME Init PROVE Inductive
  OBVIOUS
<1> USE ProcessAssumption DEF Init
<1>1. TypeOK
  <2>1. buf \in [Pipes -> 0..Cap] /\ pending \in 0..Request
    OBVIOUS
  <2>2. kept \in [Captured -> Nat] /\ \A d \in Captured : kept[d] \leq Limit(d)
    BY DEF Limit
  <2>3. /\ life \in [Procs -> {"unborn", "alive", "dead"}]
        /\ holds \in [Procs -> SUBSET Pipes]
        /\ grouped \in [Procs -> BOOLEAN]
    OBVIOUS
  <2> QED
    BY <2>1, <2>2, <2>3 DEF TypeOK
<1>2. Fresh
  BY DEF Fresh
<1>3. Sealed
  BY DEF Sealed
<1>4. Slain /\ Taken /\ PolledEmpty
  BY DEF Slain, Taken, PolledEmpty
<1>5. Conserved
  BY DEF Conserved, Prefix, Pipes, Captured
<1>6. Dutiful /\ Reported /\ FrameDelivered
  BY DEF Dutiful, Reported, FrameDelivered
<1> QED
  BY <1>1, <1>2, <1>3, <1>4, <1>5, <1>6 DEF Inductive

LEMMA TypeStep ==
    ASSUME TypeOK, [Next]_vars
    PROVE  TypeOK'
<1> USE ProcessAssumption DEF TypeOK, Procs, Limit
<1> USE DEF vars, childVars, leaderVars, groupVars, loopVars, resultVars
<1>1. ASSUME NEW p \in Procs, NEW q \in Kids, Fork(p, q) PROVE TypeOK'
  BY <1>1 DEF Fork
<1>2. ASSUME NEW p \in Kids, Detach(p) PROVE TypeOK'
  BY <1>2 DEF Detach
<1>3. ASSUME NEW p \in Procs, NEW d \in Pipes, CloseEnd(p, d) PROVE TypeOK'
  BY <1>3 DEF CloseEnd
<1>4. CASE ReadRequest
  <2>1. buf' = [buf EXCEPT !["request"] = 0] \/ buf' = buf
    BY <1>4 DEF ReadRequest
  <2>3. buf' \in [Pipes -> 0..Cap]
    BY <2>1
  <2>2. heard' \in BOOLEAN
    BY <1>4 DEF ReadRequest
  <2> QED
    BY <1>4, <2>3, <2>2 DEF ReadRequest
<1>5. ASSUME NEW d \in Diagnostics, Say(d) PROVE TypeOK'
  <2>1. d \in Pipes
    BY DEF Pipes, Captured
  <2>2. buf' \in [Pipes -> 0..Cap]
    BY <1>5, <2>1 DEF Say
  <2> QED
    BY <1>5, <2>2 DEF Say
<1>6. CASE WriteFrame
  <2>1. buf' \in [Pipes -> 0..Cap]
    BY <1>6 DEF WriteFrame, Pipes, Captured
  <2> QED
    BY <1>6, <2>1 DEF WriteFrame
<1>7. ASSUME NEW p \in Kids, NEW d \in Diagnostics, ChatterOn(p, d) PROVE TypeOK'
  <2>1. d \in Pipes
    BY DEF Pipes, Captured
  <2>2. buf' \in [Pipes -> 0..Cap]
    BY <1>7, <2>1 DEF ChatterOn
  <2> QED
    BY <1>7, <2>2 DEF ChatterOn
<1>8. ASSUME NEW p \in Procs, NEW code \in {"zero", "nonzero"}, Die(p, code) PROVE TypeOK'
  BY <1>8 DEF Die
<1>9. ASSUME NEW p \in Procs, NEW code \in {"zero", "nonzero"}, Exit(p, code) PROVE TypeOK'
  BY <1>8, <1>9 DEF Exit
<1>10. ASSUME NEW p \in Procs, Perish(p) PROVE TypeOK'
  BY <1>8, <1>10 DEF Perish
<1>11. CASE Spawn
  <2>1. /\ life' \in [Procs -> {"unborn", "alive", "dead"}]
        /\ holds' \in [Procs -> SUBSET Pipes]
        /\ grouped' \in [Procs -> BOOLEAN]
    BY <1>11 DEF Spawn
  <2> QED
    BY <1>11, <2>1 DEF Spawn
<1>12. ASSUME NEW whole \in BOOLEAN, Return(whole) PROVE TypeOK'
  <2>1. raw' \in Nat
    BY <1>12 DEF Return, Captured
  <2>2. settled' \in BOOLEAN
    BY <1>12 DEF Return
  <2>3. /\ answer' = answer \/ answer' = "timeout"
        /\ phase' \in {"drain", "term", "decide", "wait"}
    BY <1>12 DEF Return
  <2> QED
    BY <1>12, <2>1, <2>2, <2>3 DEF Return
<1>13. CASE Complete \/ TimeOut
  BY <1>12, <1>13 DEF Complete, TimeOut
<1>14. CASE Select
  <2>1. Ready \in SUBSET Pipes
    BY DEF Ready, Pipes
  <2> QED
    BY <1>14, <2>1 DEF Select
<1>15. CASE Lapse
  BY <1>15 DEF Lapse
<1>16. CASE Write
  <2> DEFINE room == Cap - buf["request"]
             n == IF pending < room THEN pending ELSE room
  <2>2. buf["request"] \in 0..Cap
    BY DEF Pipes
  <2>3. n \in Nat /\ n \leq pending /\ buf["request"] + n \in 0..Cap
    BY <2>2
  <2>4. buf' \in [Pipes -> 0..Cap] /\ pending' \in 0..Request
    BY <1>16, <2>3 DEF Write
  <2>5. stdin' = (n < pending) \/ stdin' = FALSE
    BY <1>16 DEF Write
  <2>6. (n < pending) \in BOOLEAN
    OBVIOUS
  <2>1. stdin' \in BOOLEAN
    BY <2>5, <2>6, Zenon
  <2> QED
    BY <1>16, <2>1, <2>4 DEF Write, Served
<1>17. ASSUME NEW d \in Captured, Read(d) PROVE TypeOK'
  <2>1. d \in Pipes /\ Limit(d) \in Nat
    BY DEF Pipes, Limit
  <2>2. Append(d, buf[d]) \in Nat /\ Append(d, buf[d]) \leq Limit(d)
    BY <2>1 DEF Append
  <2>3. /\ kept' \in [Captured -> Nat] /\ \A e \in Captured : kept'[e] \leq Limit(e)
        /\ buf' \in [Pipes -> 0..Cap]
    BY <1>17, <2>1, <2>2 DEF Read
  <2>4. open' \in SUBSET Captured /\ batch' \in SUBSET Pipes /\ step' \in {"loop", "serve"}
    BY <1>17 DEF Read, Served
  <2>5. \A e \in Captured : Limit(e)' = Limit(e)
    BY DEF Limit
  <2> QED
    BY <1>17, <2>3, <2>4, <2>5 DEF Read, Served
<1>18. CASE Poll
  BY <1>12, <1>18 DEF Poll
<1>19. CASE Terminate
  BY <1>19 DEF Terminate, Group
<1>20. CASE Look
  BY <1>20 DEF Look
<1>24. CASE Cancel
  BY <1>24 DEF Cancel
<1>25. CASE Expire
  BY <1>25 DEF Expire
<1>26. CASE UNCHANGED vars
  BY <1>26
<1>21. CASE Decide
  BY <1>21 DEF Decide, Group
<1>22. CASE KillLeader
  BY <1>22 DEF KillLeader
<1>23. CASE Finish
  BY <1>23 DEF Finish, Validated
<1> QED
  BY Steps, <1>1, <1>2, <1>3, <1>4, <1>5, <1>6, <1>7, <1>9, <1>10, <1>11, <1>13, <1>14, <1>15,
     <1>16, <1>17, <1>18, <1>19, <1>20, <1>21, <1>22, <1>23, <1>24, <1>25, <1>26

-----------------------------------------------------------------------------
(* What single steps leave alone.                                              *)

LEMMA DoneStays ==
    ASSUME Next, phase = "done"
    PROVE  UNCHANGED vars
<1>1. ~ChildStep /\ ~Pumping
  BY DEF ChildStep, Pumping, Draining
<1>2. ~Child
  BY <1>1 DEF Child, Fork, Detach, CloseEnd, ReadRequest, Say, WriteFrame, ChatterOn, Exit, Perish
<1>3. ~Runner
  BY <1>1 DEF Runner, Spawn, Complete, TimeOut, Select, Lapse, Write, Read, Served, Poll,
              Terminate, Look, Decide, KillLeader, Finish
<1>4. ~Cancel /\ ~Expire
  BY <1>1 DEF Cancel, Expire
<1> QED
  BY <1>2, <1>3, <1>4 DEF Next, Done

LEMMA SpawnFirst ==
    ASSUME Next, phase = "spawn"
    PROVE  Spawn
<1>1. ~ChildStep /\ ~Pumping
  BY DEF ChildStep, Pumping, Draining
<1>2. ~Child
  BY <1>1 DEF Child, Fork, Detach, CloseEnd, ReadRequest, Say, WriteFrame, ChatterOn, Exit, Perish
<1>3. Runner => Spawn
  BY <1>1 DEF Runner, Spawn, Complete, TimeOut, Select, Lapse, Write, Read, Served, Poll,
              Terminate, Look, Decide, KillLeader, Finish
<1>4. ~Cancel /\ ~Expire /\ ~Done
  BY <1>1 DEF Cancel, Expire, Done
<1> QED
  BY <1>2, <1>3, <1>4 DEF Next

(* No step of the runner goes back to the start.                               *)
LEMMA SpawnOnce ==
    ASSUME Next, phase # "spawn"
    PROVE  phase' # "spawn"
<1>1. Child => UNCHANGED phase
  BY DEF Child, Fork, Detach, CloseEnd, ReadRequest, Say, WriteFrame, ChatterOn, Exit, Perish, Die
<1>2. ASSUME Runner PROVE phase' # "spawn"
  <2>1. ASSUME NEW whole \in BOOLEAN, Return(whole) PROVE phase' # "spawn"
    BY <2>1 DEF Return
  <2>2. CASE Complete \/ TimeOut
    BY <2>1, <2>2 DEF Complete, TimeOut
  <2>3. CASE Spawn \/ Select \/ Lapse \/ Write \/ (\E d \in Captured : Read(d))
    BY <2>3 DEF Spawn, Select, Lapse, Write, Read, Served
  <2>4. CASE Poll
    BY <2>1, <2>4 DEF Poll
  <2>5. CASE Terminate \/ Look \/ Decide \/ KillLeader \/ Finish
    BY <2>5 DEF Terminate, Look, Decide, KillLeader, Finish
  <2> QED
    BY <1>2, <2>2, <2>3, <2>4, <2>5 DEF Runner
<1>3. Cancel \/ Expire \/ Done => phase' # "spawn"
  BY DEF Cancel, Expire, Done, vars
<1> QED
  BY <1>1, <1>2, <1>3 DEF Next

(* Bytes come into a pipe of the runner's only from a holder of its end.       *)
LEMMA NoFiller ==
    ASSUME TypeOK, Next, NEW d \in Captured, ~Held(d), buf[d] = 0
    PROVE  buf'[d] = 0
<1> USE ProcessAssumption DEF Held, TypeOK, Procs, Captured, Pipes
<1>1. CASE ReadRequest
  <2>1. buf' = [buf EXCEPT !["request"] = 0] \/ buf' = buf
    BY <1>1 DEF ReadRequest
  <2> QED
    BY <2>1
<1>2. ASSUME NEW e \in Diagnostics, Say(e) PROVE buf'[d] = 0
  BY <1>2 DEF Say
<1>3. CASE WriteFrame
  BY <1>3 DEF WriteFrame
<1>4. ASSUME NEW p \in Kids, NEW e \in Diagnostics, ChatterOn(p, e) PROVE buf'[d] = 0
  BY <1>4 DEF ChatterOn
<1>5. CASE Write
  <2>1. d # "request" /\ d \in DOMAIN buf
    OBVIOUS
  <2>2. \/ buf' = [buf EXCEPT !["request"] = @ + IF pending < Cap - buf["request"]
                                               THEN pending ELSE Cap - buf["request"]]
        \/ buf' = buf
    BY <1>5 DEF Write
  <2> QED
    BY <2>1, <2>2
<1>6. ASSUME NEW e \in Captured, Read(e) PROVE buf'[d] = 0
  BY <1>6 DEF Read
<1>7. ASSUME \/ \E p \in Procs : \E q \in Kids : Fork(p, q)
             \/ \E p \in Kids : Detach(p)
             \/ \E p \in Procs : \E e \in Pipes : CloseEnd(p, e)
             \/ \E p \in Procs : \E code \in {"zero", "nonzero"} : Exit(p, code)
             \/ \E p \in Procs : Perish(p)
      PROVE  UNCHANGED buf
  BY <1>7 DEF Fork, Detach, CloseEnd, Exit, Perish, Die
<1>8. ASSUME Spawn \/ Complete \/ TimeOut \/ Select \/ Lapse \/ Poll PROVE UNCHANGED buf
  BY <1>8 DEF Spawn, Complete, TimeOut, Return, Select, Lapse, Poll
<1>9. ASSUME Terminate \/ Look \/ Decide \/ KillLeader \/ Finish \/ Cancel \/ Expire
             \/ UNCHANGED vars
      PROVE  UNCHANGED buf
  BY <1>9 DEF Terminate, Look, Decide, KillLeader, Finish, Cancel, Expire, vars
<1> QED
  BY Steps, <1>1, <1>2, <1>3, <1>4, <1>5, <1>6, <1>7, <1>8, <1>9

(* A stream leaves the open ones when it is read to its end, or all do when    *)
(* the runner finishes.                                                        *)
LEMMA NoCloser ==
    ASSUME Next
    PROVE  \/ UNCHANGED open
           \/ Finish
           \/ \E d \in Captured : /\ Read(d) /\ buf[d] = 0 /\ ~Held(d)
                                  /\ open' = open \ {d}
<1>1. Child => UNCHANGED open
  BY DEF Child, Fork, Detach, CloseEnd, ReadRequest, Say, WriteFrame, ChatterOn, Exit, Perish,
         Die, loopVars
<1>2. Spawn \/ Complete \/ TimeOut \/ Select \/ Lapse \/ Write \/ Poll => UNCHANGED open
  BY DEF Spawn, Complete, TimeOut, Return, Select, Lapse, Write, Poll, loopVars
<1>3. Terminate \/ Look \/ Decide \/ KillLeader => UNCHANGED open
  BY DEF Terminate, Look, Decide, KillLeader, loopVars
<1>4. Cancel \/ Expire \/ Done => UNCHANGED open
  BY DEF Cancel, Expire, Done, vars, loopVars
<1>5. ASSUME NEW d \in Captured, Read(d)
      PROVE  UNCHANGED open \/ (buf[d] = 0 /\ ~Held(d) /\ open' = open \ {d})
  BY <1>5 DEF Read
<1> QED
  BY <1>1, <1>2, <1>3, <1>4, <1>5 DEF Next, Runner

-----------------------------------------------------------------------------
(* Every step preserves each part of the invariant.                            *)

LEMMA FreshStep ==
    ASSUME Next
    PROVE  Fresh'
<1>1. CASE phase = "spawn"
  <2>1. Spawn
    BY <1>1, SpawnFirst
  <2> QED
    BY <2>1 DEF Spawn, Fresh
<1>2. CASE phase # "spawn"
  BY <1>2, SpawnOnce DEF Fresh
<1> QED
  BY <1>1, <1>2

LEMMA SealedStep ==
    ASSUME TypeOK, Fresh, Sealed, Next
    PROVE  Sealed'
<1> SUFFICES ASSUME phase' # "done", NEW d \in Captured, d \notin open'
             PROVE  buf'[d] = 0 /\ ~Held(d)'
  BY DEF Sealed, Held
<1>1. phase # "done"
  BY DoneStays DEF vars
<1>2. phase # "spawn"
  BY SpawnFirst DEF Spawn, Fresh, loopVars
<1>3. d \in Pipes
  BY DEF Pipes
<1>4. CASE d \notin open
  BY <1>1, <1>2, <1>3, <1>4, NoNewHolder, NoFiller DEF Sealed
<1>5. CASE d \in open
  <2>1. ~Finish
    BY DEF Finish
  <2>2. buf[d] = 0 /\ ~Held(d)
    BY <1>5, <2>1, NoCloser
  <2> QED
    BY <1>2, <1>3, <2>2, NoNewHolder, NoFiller
<1> QED
  BY <1>4, <1>5

(* A member of the group that is not about to end was one before the step, or  *)
(* was forked by one, and holds no more than it, or than its parent, did.      *)
LEMMA MemberStep ==
    ASSUME TypeOK, Next, phase # "spawn", NEW p \in Group' \ doomed'
    PROVE  \E q \in Group \ doomed : holds'[p] \subseteq holds[q]
<1> USE ProcessAssumption DEF Group, Alive, TypeOK, Procs
<1>1. ASSUME NEW s \in Procs, NEW q \in Kids, Fork(s, q)
      PROVE  \E r \in Group \ doomed : holds'[p] \subseteq holds[r]
  <2>1. CASE p = q
    BY <1>1, <2>1 DEF Fork
  <2>2. CASE p # q
    BY <1>1, <2>2 DEF Fork
  <2> QED
    BY <2>1, <2>2
<1>2. ASSUME NEW s \in Kids, Detach(s)
      PROVE  \E r \in Group \ doomed : holds'[p] \subseteq holds[r]
  BY <1>2 DEF Detach
<1>3. ASSUME NEW s \in Procs, NEW e \in Pipes, CloseEnd(s, e)
      PROVE  \E r \in Group \ doomed : holds'[p] \subseteq holds[r]
  BY <1>3 DEF CloseEnd
<1>4. ASSUME NEW s \in Procs, NEW code, Die(s, code)
      PROVE  \E r \in Group \ doomed : holds'[p] \subseteq holds[r]
  BY <1>4 DEF Die
<1>5. CASE UNCHANGED groupVars
  BY <1>5 DEF groupVars
<1>6. ASSUME UNCHANGED <<life, holds, grouped>>, doomed \subseteq doomed'
      PROVE  \E r \in Group \ doomed : holds'[p] \subseteq holds[r]
  BY <1>6
<1>7. ASSUME \/ \E s \in Procs : \E code \in {"zero", "nonzero"} : Exit(s, code)
             \/ \E s \in Procs : Perish(s)
      PROVE  \E r \in Group \ doomed : holds'[p] \subseteq holds[r]
  BY <1>4, <1>7 DEF Exit, Perish
<1>8. ASSUME ReadRequest \/ WriteFrame \/ (\E e \in Diagnostics : Say(e))
             \/ (\E s \in Kids : \E e \in Diagnostics : ChatterOn(s, e))
      PROVE  UNCHANGED groupVars
  BY <1>8 DEF ReadRequest, WriteFrame, Say, ChatterOn
<1>9. ASSUME Complete \/ TimeOut \/ Select \/ Lapse \/ Write
             \/ (\E e \in Captured : Read(e)) \/ Poll
      PROVE  UNCHANGED groupVars
  BY <1>9 DEF Complete, TimeOut, Return, Select, Lapse, Write, Read, Served, Poll, childVars
<1>10. ASSUME Look \/ Finish \/ Cancel \/ Expire \/ UNCHANGED vars
       PROVE  UNCHANGED groupVars
  BY <1>10 DEF Look, Finish, Cancel, Expire, vars, childVars
<1>11. ASSUME Terminate \/ Decide \/ KillLeader
       PROVE  UNCHANGED <<life, holds, grouped>> /\ doomed \subseteq doomed'
  BY <1>11 DEF Terminate, Decide, KillLeader
<1>12. ~Spawn
  BY DEF Spawn
<1> QED
  BY Steps, <1>1, <1>2, <1>3, <1>5, <1>6, <1>7, <1>8, <1>9, <1>10, <1>11, <1>12

(* The teardown comes past its decision to kill by making it.                  *)
LEMMA PastDecision ==
    ASSUME Next, phase # "spawn", phase' \in {"slay", "wait", "done"}
    PROVE  phase \in {"slay", "wait", "done"} \/ Decide
<1>1. Child \/ Done => UNCHANGED phase
  BY DEF Child, Fork, Detach, CloseEnd, ReadRequest, Say, WriteFrame, ChatterOn, Exit, Perish,
         Die, Done, vars
<1>2. ASSUME NEW whole \in BOOLEAN, Return(whole) PROVE phase = "slay"
  BY <1>2 DEF Return
<1>3. Complete \/ TimeOut => phase = "slay"
  BY <1>2 DEF Complete, TimeOut
<1>4. Poll => UNCHANGED phase \/ phase = "slay"
  BY <1>2 DEF Poll
<1>5. Select \/ Lapse \/ Write \/ (\E d \in Captured : Read(d)) => UNCHANGED phase
  BY DEF Select, Lapse, Write, Read, Served
<1>6. ~Spawn /\ ~Terminate /\ ~Look /\ ~Cancel
  BY DEF Spawn, Terminate, Look, Cancel
<1>7. KillLeader \/ Finish \/ Expire => phase = "wait" \/ UNCHANGED phase
  BY DEF KillLeader, Finish, Expire
<1> QED
  BY <1>1, <1>3, <1>4, <1>5, <1>6, <1>7 DEF Next, Runner

LEMMA SlainStep ==
    ASSUME TypeOK, Fresh, Sealed, Slain, Next
    PROVE  Slain'
<1> SUFFICES ASSUME phase' \in {"slay", "wait", "done"}, NEW p \in Group' \ doomed'
             PROVE  holds'[p] \cap Captured = {}
  BY DEF Slain
<1>1. CASE phase = "spawn"
  <2>1. Spawn
    BY <1>1, SpawnFirst
  <2> QED
    BY <1>1, <2>1 DEF Spawn, Fresh, Group, Alive
<1>2. CASE phase # "spawn"
  <2>1. PICK q \in Group \ doomed : holds'[p] \subseteq holds[q]
    BY <1>2, MemberStep
  <2>2. CASE phase \in {"slay", "wait", "done"}
    BY <2>1, <2>2 DEF Slain
  <2>3. CASE Decide /\ MustKill
    BY <2>3 DEF Decide, Group, Alive
  <2>4. CASE Decide /\ ~MustKill
    <3>1. q \in Procs /\ Alive(q)
      BY DEF Group
    <3>2. \A d \in Captured : ~Held(d)
      BY <2>4 DEF Decide, MustKill, Sealed
    <3> QED
      BY <2>1, <3>1, <3>2 DEF Held
  <2> QED
    BY <1>2, <2>2, <2>3, <2>4, PastDecision
<1> QED
  BY <1>1, <1>2

(* The frame moves when the leader writes some of it or the runner reads it.   *)
LEMMA FrameMoves ==
    ASSUME TypeOK, Next
    PROVE  \/ WriteFrame
           \/ Read("result") /\ buf["result"] > 0
           \/ /\ sent' = sent /\ kept'["result"] = kept["result"]
              /\ buf'["result"] = buf["result"]
<1> DEFINE Same == /\ sent' = sent /\ kept'["result"] = kept["result"]
                   /\ buf'["result"] = buf["result"]
<1> USE ProcessAssumption
<1>0. /\ buf \in [Pipes -> 0..Cap] /\ kept \in [Captured -> Nat]
      /\ "result" \in Captured /\ "request" # "result"
      /\ "result" \in Pipes /\ "result" \notin Diagnostics
  BY DEF TypeOK, Captured, Pipes
<1>1. CASE ReadRequest
  <2>1. buf' = [buf EXCEPT !["request"] = 0] \/ buf' = buf
    BY <1>1 DEF ReadRequest
  <2> QED
    BY <1>0, <1>1, <2>1 DEF ReadRequest, loopVars
<1>2. ASSUME NEW e \in Diagnostics, Say(e) PROVE Same
  BY <1>0, <1>2 DEF Say, loopVars
<1>3. ASSUME NEW p \in Kids, NEW e \in Diagnostics, ChatterOn(p, e) PROVE Same
  BY <1>0, <1>3 DEF ChatterOn, loopVars, leaderVars
<1>4. CASE Write
  <2>1. \/ buf' = [buf EXCEPT !["request"] = @ + IF pending < Cap - buf["request"]
                                               THEN pending ELSE Cap - buf["request"]]
        \/ buf' = buf
    BY <1>4 DEF Write
  <2>2. buf'["result"] = buf["result"]
    BY <1>0, <2>1
  <2> QED
    BY <1>4, <2>2 DEF Write, Served, childVars, leaderVars
<1>5. ASSUME NEW d \in Captured, Read(d), d # "result" PROVE Same
  BY <1>0, <1>5 DEF Read, Served, childVars, leaderVars
<1>6. ASSUME Read("result"), ~(buf["result"] > 0) PROVE Same
  BY <1>6 DEF Read, Served, childVars, leaderVars
<1>7. ASSUME \/ \E p \in Procs : \E q \in Kids : Fork(p, q)
             \/ \E p \in Kids : Detach(p)
             \/ \E p \in Procs : \E e \in Pipes : CloseEnd(p, e)
             \/ \E p \in Procs : \E code \in {"zero", "nonzero"} : Exit(p, code)
             \/ \E p \in Procs : Perish(p)
      PROVE  Same
  BY <1>7 DEF Fork, Detach, CloseEnd, Exit, Perish, Die, loopVars, leaderVars
<1>8. ASSUME Spawn \/ Complete \/ TimeOut \/ Select \/ Lapse \/ Poll PROVE Same
  BY <1>8 DEF Spawn, Complete, TimeOut, Return, Select, Lapse, Poll, childVars, leaderVars,
              loopVars
<1>9. ASSUME Terminate \/ Look \/ Decide \/ KillLeader \/ Finish \/ Cancel \/ Expire
             \/ UNCHANGED vars
      PROVE  Same
  BY <1>9 DEF Terminate, Look, Decide, KillLeader, Finish, Cancel, Expire, vars, childVars,
              leaderVars, loopVars
<1> QED
  BY Steps, <1>1, <1>2, <1>3, <1>4, <1>5, <1>6, <1>7, <1>8, <1>9

LEMMA ConservedStep ==
    ASSUME TypeOK, Conserved, Next
    PROVE  Conserved'
<1> USE ProcessAssumption
<1>0. /\ buf \in [Pipes -> 0..Cap] /\ kept \in [Captured -> Nat] /\ sent \in Nat
      /\ "result" \in Captured /\ "result" \in Pipes /\ ResultLimit \in Nat
      /\ Limit("result") = ResultLimit + 1
  BY DEF TypeOK, Captured, Pipes, Limit
<1>1. CASE WriteFrame
  <2>1. sent' = sent + 1 /\ buf'["result"] = buf["result"] + 1 /\ kept' = kept
    BY <1>0, <1>1 DEF WriteFrame, loopVars
  <2> QED
    BY <1>0, <2>1 DEF Conserved, Prefix
<1>2. CASE Read("result") /\ buf["result"] > 0
  <2>1. /\ sent' = sent /\ buf'["result"] = 0
        /\ kept'["result"] = Append("result", buf["result"])
    BY <1>0, <1>2 DEF Read, Served, childVars, leaderVars
  <2> QED
    BY <1>0, <2>1 DEF Conserved, Prefix, Append
<1>3. CASE /\ sent' = sent /\ kept'["result"] = kept["result"]
           /\ buf'["result"] = buf["result"]
  BY <1>3 DEF Conserved, Prefix
<1> QED
  BY <1>1, <1>2, <1>3, FrameMoves

(* When the transport gets to poll the leader, and when it stops being there.  *)
LEMMA PollMoves ==
    ASSUME PolledEmpty, Next, step' = "poll"
    PROVE  \/ Lapse
           \/ step = "poll" /\ phase' = phase /\ (WriteFrame \/ UNCHANGED late)
<1>1. ASSUME Child PROVE step = "poll" /\ phase' = phase /\ (WriteFrame \/ UNCHANGED late)
  BY <1>1 DEF Child, Fork, Detach, CloseEnd, ReadRequest, Say, WriteFrame, ChatterOn, Exit,
              Perish, Die, loopVars, leaderVars
<1>2. ~Complete /\ ~TimeOut /\ ~Poll /\ ~Select /\ ~Cancel
  BY DEF Complete, TimeOut, Poll, Return, Select, Cancel
<1>3. ~Write /\ \A d \in Captured : ~Read(d)
  BY DEF Write, Read, Served
<1>4. ~Spawn
  BY DEF Spawn, loopVars, PolledEmpty
<1>5. ~Terminate /\ ~Look /\ ~Decide /\ ~Finish
  BY DEF Terminate, Look, Decide, Finish, loopVars, PolledEmpty
<1>6. ASSUME KillLeader \/ Expire \/ Done
      PROVE  step = "poll" /\ phase' = phase /\ UNCHANGED late
  BY <1>6 DEF KillLeader, Expire, Done, vars, loopVars, childVars, leaderVars
<1> QED
  BY <1>1, <1>2, <1>3, <1>4, <1>5, <1>6 DEF Next, Runner

LEMMA PolledEmptyStep ==
    ASSUME TypeOK, Sealed, PolledEmpty, Next
    PROVE  PolledEmpty'
<1> SUFFICES ASSUME step' = "poll"
             PROVE  phase' = "pump" /\ (late' \/ buf'["result"] = 0)
  BY DEF PolledEmpty
<1> USE ProcessAssumption
<1>1. CASE Lapse
  <2>1. phase' = "pump" /\ buf' = buf /\ Ready = {} /\ phase = "pump"
    BY <1>1 DEF Lapse
  <2>2. buf["result"] \in 0..Cap
    BY DEF TypeOK, Pipes, Captured
  <2>3. CASE "result" \in open
    BY <2>1, <2>2, <2>3 DEF Ready
  <2>4. CASE "result" \notin open
    BY <2>1, <2>4 DEF Sealed, Captured
  <2> QED
    BY <2>1, <2>3, <2>4
<1>2. CASE step = "poll" /\ phase' = phase /\ WriteFrame
  BY <1>2 DEF WriteFrame, PolledEmpty
<1>3. CASE step = "poll" /\ phase' = phase /\ UNCHANGED late /\ ~WriteFrame
  <2>1. ~Read("result")
    BY <1>3 DEF Read, Served
  <2>2. buf'["result"] = buf["result"]
    BY <1>3, <2>1, FrameMoves
  <2> QED
    BY <1>3, <2>2 DEF PolledEmpty
<1> QED
  BY <1>1, <1>2, <1>3, PollMoves

(* The leader takes no pipe end back once it has closed it.                    *)
LEMMA LeaderLetsGo ==
    ASSUME TypeOK, Next, phase # "spawn",
           Alive(Leader) => "result" \notin holds[Leader]
    PROVE  Alive(Leader)' => "result" \notin holds'[Leader]
<1> USE ProcessAssumption DEF Alive, TypeOK, Procs
<1> DEFINE Gone == Alive(Leader)' => "result" \notin holds'[Leader]
<1>1. ASSUME NEW p \in Procs, NEW q \in Kids, Fork(p, q) PROVE Gone
  BY <1>1 DEF Fork
<1>2. ASSUME NEW p \in Kids, Detach(p) PROVE Gone
  BY <1>2 DEF Detach
<1>3. ASSUME NEW p \in Procs, NEW e \in Pipes, CloseEnd(p, e) PROVE Gone
  BY <1>3 DEF CloseEnd
<1>4. ASSUME NEW p \in Procs, NEW code, Die(p, code) PROVE Gone
  BY <1>4 DEF Die
<1>5. CASE UNCHANGED <<life, holds>>
  BY <1>5
<1>7. ASSUME \/ \E p \in Procs : \E code \in {"zero", "nonzero"} : Exit(p, code)
             \/ \E p \in Procs : Perish(p)
      PROVE  Gone
  BY <1>4, <1>7 DEF Exit, Perish
<1>8. ASSUME ReadRequest \/ WriteFrame \/ (\E e \in Diagnostics : Say(e))
             \/ (\E p \in Kids : \E e \in Diagnostics : ChatterOn(p, e))
      PROVE  UNCHANGED <<life, holds>>
  BY <1>8 DEF ReadRequest, WriteFrame, Say, ChatterOn, groupVars
<1>9. ASSUME Complete \/ TimeOut \/ Select \/ Lapse \/ Write
             \/ (\E e \in Captured : Read(e)) \/ Poll
      PROVE  UNCHANGED <<life, holds>>
  BY <1>9 DEF Complete, TimeOut, Return, Select, Lapse, Write, Read, Served, Poll, childVars,
              groupVars
<1>10. ASSUME Terminate \/ Look \/ Decide \/ KillLeader \/ Finish \/ Cancel \/ Expire
              \/ UNCHANGED vars
       PROVE  UNCHANGED <<life, holds>>
  BY <1>10 DEF Terminate, Look, Decide, KillLeader, Finish, Cancel, Expire, vars, childVars,
               groupVars
<1>11. ~Spawn
  BY DEF Spawn
<1> QED
  BY Steps, <1>1, <1>2, <1>3, <1>5, <1>7, <1>8, <1>9, <1>10, <1>11

(* How the pump ends, and that its outcome is not touched afterwards.          *)
LEMMA PumpEnds ==
    ASSUME Next, phase \in {"spawn", "pump"}, phase' \notin {"spawn", "pump"}
    PROVE  \/ answer' \in {"timeout", "cancelled", "unavailable"}
           \/ /\ UNCHANGED <<life, holds, buf, sent, late>>
              /\ raw' = kept["result"]
              /\ \/ phase = "pump" /\ Stopped
                 \/ step = "poll" /\ ~Alive(Leader)
<1>1. ~Child /\ ~Done /\ ~Expire
  BY DEF Child, Fork, Detach, CloseEnd, ReadRequest, Say, WriteFrame, ChatterOn, Exit, Perish,
         Die, Done, Expire, vars
<1>2. Spawn => answer' = "unavailable"
  BY DEF Spawn
<1>3. TimeOut \/ Cancel => answer' \in {"timeout", "cancelled"}
  BY DEF TimeOut, Return, Cancel
<1>4. Complete => /\ UNCHANGED <<life, holds, buf, sent, late>> /\ raw' = kept["result"]
                  /\ phase = "pump" /\ Stopped
  BY DEF Complete, Return, childVars, groupVars, leaderVars
<1>5. Poll => \/ answer' = "timeout"
              \/ /\ UNCHANGED <<life, holds, buf, sent, late>> /\ raw' = kept["result"]
                 /\ step = "poll" /\ ~Alive(Leader)
  BY DEF Poll, Return, childVars, groupVars, leaderVars
<1>6. ~Select /\ ~Lapse /\ ~Write /\ \A d \in Captured : ~Read(d)
  BY DEF Select, Lapse, Write, Read, Served
<1>7. ~Terminate /\ ~Look /\ ~Decide /\ ~KillLeader /\ ~Finish
  BY DEF Terminate, Look, Decide, KillLeader, Finish
<1> QED
  BY <1>1, <1>2, <1>3, <1>4, <1>5, <1>6, <1>7 DEF Next, Runner

LEMMA OutcomeStays ==
    ASSUME Next, phase \notin {"spawn", "pump"}
    PROVE  /\ phase' \notin {"spawn", "pump"}
           /\ UNCHANGED raw
           /\ UNCHANGED answer \/ (Finish /\ answer = "none")
           /\ UNCHANGED <<sent, late>> \/ WriteFrame
<1>1. CASE Child
  BY <1>1 DEF Child, Fork, Detach, CloseEnd, ReadRequest, Say, WriteFrame, ChatterOn, Exit,
              Perish, Die, resultVars, leaderVars
<1>2. CASE Complete \/ TimeOut
  BY <1>2 DEF Complete, TimeOut, Return, resultVars, childVars, leaderVars
<1>3. CASE Select \/ Write \/ (\E d \in Captured : Read(d))
  BY <1>3 DEF Select, Write, Read, Served, resultVars, childVars, leaderVars
<1>4. CASE Terminate \/ Look \/ Decide \/ KillLeader
  BY <1>4 DEF Terminate, Look, Decide, KillLeader, resultVars, childVars, leaderVars
<1>5. CASE Finish
  BY <1>5 DEF Finish, childVars, leaderVars
<1>6. CASE Expire \/ Done
  BY <1>6 DEF Expire, Done, vars, resultVars, childVars, leaderVars
<1>7. ~Spawn /\ ~Lapse /\ ~Poll /\ ~Cancel
  BY DEF Spawn, Lapse, Poll, Cancel
<1> QED
  BY <1>1, <1>2, <1>3, <1>4, <1>5, <1>6, <1>7 DEF Next, Runner

LEMMA TakenStep ==
    ASSUME TypeOK, Sealed, Conserved, PolledEmpty, Taken, Next
    PROVE  Taken'
<1> SUFFICES ASSUME phase' \notin {"spawn", "pump"},
                    answer' \notin {"timeout", "cancelled", "unavailable"}
             PROVE  /\ late' \/ raw' = Prefix(sent)'
                    /\ Alive(Leader)' => "result" \notin holds'[Leader]
  BY DEF Taken
<1>1. CASE phase \in {"spawn", "pump"}
  <2>1. /\ UNCHANGED <<life, holds, buf, sent, late>>
        /\ raw' = kept["result"]
        /\ \/ phase = "pump" /\ Stopped
           \/ step = "poll" /\ ~Alive(Leader)
    BY <1>1, PumpEnds
  <2>2. buf["result"] = 0 => kept["result"] = Prefix(sent)
    BY DEF Conserved, Prefix, TypeOK
  <2>3. CASE phase = "pump" /\ Stopped
    <3>1. buf["result"] = 0 /\ ~Held("result")
      BY <2>3 DEF Stopped, Sealed, Captured
    <3> QED
      BY <2>1, <2>2, <3>1 DEF Held, Alive, Procs, Prefix
  <2>4. CASE step = "poll" /\ ~Alive(Leader)
    <3>1. late \/ buf["result"] = 0
      BY <2>4 DEF PolledEmpty
    <3> QED
      BY <2>1, <2>2, <2>4, <3>1 DEF Alive, Prefix
  <2> QED
    BY <2>1, <2>3, <2>4
<1>2. CASE phase \notin {"spawn", "pump"}
  <2>1. answer \notin {"timeout", "cancelled", "unavailable"}
    BY <1>2, OutcomeStays
  <2>2. late \/ raw = Prefix(sent)
    BY <1>2, <2>1 DEF Taken
  <2>3. Alive(Leader) => "result" \notin holds[Leader]
    BY <1>2, <2>1 DEF Taken
  <2>4. ~WriteFrame
    BY <2>3 DEF WriteFrame
  <2> QED
    BY <1>2, <2>2, <2>3, <2>4, OutcomeStays, LeaderLetsGo DEF Prefix
<1> QED
  BY <1>1, <1>2

(* The leader's exit status is set when it ends.                               *)
LEMMA StatusMoves ==
    ASSUME TypeOK, Next
    PROVE  \/ UNCHANGED status /\ (Alive(Leader)' => Alive(Leader) \/ Spawn)
           \/ status' = "nonzero"
           \/ Exit(Leader, "zero")
<1> USE ProcessAssumption DEF Alive, TypeOK, Procs
<1> DEFINE Kept == UNCHANGED status /\ (Alive(Leader)' => Alive(Leader) \/ Spawn)
<1>1. ASSUME NEW p \in Procs, NEW q \in Kids, Fork(p, q) PROVE Kept
  BY <1>1 DEF Fork, leaderVars
<1>2. ASSUME NEW p \in Procs, NEW code \in {"zero", "nonzero"}, Exit(p, code)
      PROVE  Kept \/ status' = "nonzero" \/ Exit(Leader, "zero")
  BY <1>2 DEF Exit, Die
<1>3. ASSUME NEW p \in Procs, Perish(p)
      PROVE  Kept \/ status' = "nonzero"
  BY <1>3 DEF Perish, Die
<1>4. ASSUME \/ \E p \in Kids : Detach(p)
             \/ \E p \in Procs : \E e \in Pipes : CloseEnd(p, e)
             \/ ReadRequest \/ WriteFrame \/ (\E e \in Diagnostics : Say(e))
             \/ (\E p \in Kids : \E e \in Diagnostics : ChatterOn(p, e))
      PROVE  Kept
  BY <1>4 DEF Detach, CloseEnd, ReadRequest, WriteFrame, Say, ChatterOn, groupVars, leaderVars
<1>5. ASSUME Complete \/ TimeOut \/ Select \/ Lapse \/ Write
             \/ (\E e \in Captured : Read(e)) \/ Poll
      PROVE  Kept
  BY <1>5 DEF Complete, TimeOut, Return, Select, Lapse, Write, Read, Served, Poll, childVars,
              groupVars, leaderVars
<1>6. ASSUME Terminate \/ Look \/ Decide \/ KillLeader \/ Finish \/ Cancel \/ Expire
             \/ UNCHANGED vars
      PROVE  Kept
  BY <1>6 DEF Terminate, Look, Decide, KillLeader, Finish, Cancel, Expire, vars, childVars,
              groupVars, leaderVars
<1>7. Spawn => Kept
  BY DEF Spawn, leaderVars
<1> QED
  BY Steps, <1>1, <1>2, <1>3, <1>4, <1>5, <1>6, <1>7

LEMMA JobStays ==
    ASSUME Next
    PROVE  UNCHANGED job
<1>1. Child => UNCHANGED job
  BY DEF Child, Fork, Detach, CloseEnd, ReadRequest, Say, WriteFrame, ChatterOn, Exit, Perish, Die
<1>2. Runner => UNCHANGED job
  BY DEF Runner, Spawn, Complete, TimeOut, Return, Select, Lapse, Write, Read, Served, Poll,
         Terminate, Look, Decide, KillLeader, Finish
<1>3. Cancel \/ Expire \/ Done => UNCHANGED job
  BY DEF Cancel, Expire, Done, vars
<1> QED
  BY <1>1, <1>2, <1>3 DEF Next

LEMMA DutifulStep ==
    ASSUME TypeOK, Fresh, Dutiful, Next
    PROVE  Dutiful'
<1> SUFFICES ASSUME status' = "zero"
             PROVE  ~Alive(Leader)' /\ (job.diligent => sent' = job.size)
  BY JobStays DEF Dutiful
<1>1. CASE UNCHANGED status /\ (Alive(Leader)' => Alive(Leader) \/ Spawn)
  <2>1. ~Alive(Leader) /\ (job.diligent => sent = job.size)
    BY <1>1 DEF Dutiful
  <2>2. ~Spawn
    BY <1>1 DEF Spawn, Fresh
  <2>3. ~WriteFrame
    BY <2>1 DEF WriteFrame
  <2>4. sent' = sent
    BY <2>3, FrameMoves DEF Read, Served, childVars, leaderVars
  <2> QED
    BY <1>1, <2>1, <2>2, <2>4
<1>2. CASE Exit(Leader, "zero")
  BY <1>2 DEF Exit, Die, HasSent, Alive, TypeOK, Procs
<1> QED
  BY <1>1, <1>2, StatusMoves

(* How a step changes the answer.                                              *)
LEMMA AnswerMoves ==
    ASSUME Next
    PROVE  \/ Finish
           \/ Spawn /\ phase' = "done"
           \/ answer' \in {"timeout", "cancelled"} /\ phase = "pump" /\ phase' # "done"
           \/ UNCHANGED answer /\ (phase = "pump" \/ UNCHANGED raw) /\ (phase' = "done" => Done)
<1>1. CASE Child
  BY <1>1 DEF Child, Fork, Detach, CloseEnd, ReadRequest, Say, WriteFrame, ChatterOn, Exit,
              Perish, Die, resultVars, ChildStep
<1>2. CASE Complete \/ TimeOut
  BY <1>2 DEF Complete, TimeOut, Return, resultVars
<1>3. CASE Select \/ Lapse \/ Write \/ (\E d \in Captured : Read(d))
  BY <1>3 DEF Select, Lapse, Write, Read, Served, resultVars, Pumping, Draining
<1>4. CASE Terminate \/ Look \/ Decide \/ KillLeader
  BY <1>4 DEF Terminate, Look, Decide, KillLeader, resultVars
<1>5. CASE Spawn
  BY <1>5 DEF Spawn
<1>6. CASE Poll
  BY <1>6 DEF Poll, Return, resultVars
<1>7. CASE Cancel
  BY <1>7 DEF Cancel
<1>8. CASE Expire
  BY <1>8 DEF Expire, resultVars, Pumping, Draining
<1>9. CASE Done
  BY <1>9 DEF Done, vars, resultVars
<1> QED
  BY <1>1, <1>2, <1>3, <1>4, <1>5, <1>6, <1>7, <1>8, <1>9 DEF Next, Runner

LEMMA ReportedStep ==
    ASSUME TypeOK, Reported, Next
    PROVE  Reported'
<1>1. CASE Finish
  <2>1. phase' = "done" /\ raw' = raw /\ answer # "frame"
    BY <1>1 DEF Finish, Reported
  <2>2. answer' = answer \/ answer' = "failed" \/ answer' = Validated
    BY <1>1 DEF Finish
  <2>3. Validated = "frame" => ~(raw > ResultLimit)
    BY DEF Validated
  <2>4. raw \in Nat /\ ResultLimit \in Nat
    BY ProcessAssumption DEF TypeOK
  <2> QED
    BY <2>1, <2>2, <2>3, <2>4 DEF Reported
<1>2. CASE Spawn /\ phase' = "done"
  BY <1>2 DEF Spawn, Reported
<1>3. CASE answer' \in {"timeout", "cancelled"} /\ phase = "pump" /\ phase' # "done"
  BY <1>3 DEF Reported
<1>4. CASE UNCHANGED answer /\ (phase = "pump" \/ UNCHANGED raw) /\ (phase' = "done" => Done)
  <2>1. phase = "done" => phase' = "done"
    BY DoneStays DEF vars
  <2> QED
    BY <1>4, <2>1 DEF Reported
<1> QED
  BY <1>1, <1>2, <1>3, <1>4, AnswerMoves

LEMMA DeliveredStep ==
    ASSUME TypeOK, Fresh, Taken, Dutiful, Reported, FrameDelivered, Next
    PROVE  FrameDelivered'
<1>1. CASE Finish
  <2> SUFFICES ASSUME job.diligent, status = "zero", answer' \notin {"timeout", "cancelled"},
                      job.size \leq ResultLimit, job.size \in job.readable
               PROVE  answer' = "frame" \/ late
    BY <1>1 DEF Finish, FrameDelivered, childVars, leaderVars
  <2>1. phase = "wait" /\ answer = "none"
    BY <1>1 DEF Finish, Reported
  <2>2. late \/ raw = Prefix(job.size)
    BY <2>1 DEF Taken, Dutiful
  <2>3. job.size \in Nat /\ ResultLimit \in Nat
    BY ProcessAssumption DEF TypeOK
  <2>4. late \/ raw = job.size
    BY <2>2, <2>3 DEF Prefix
  <2>5. answer' = Validated
    BY <1>1, <2>1 DEF Finish
  <2> QED
    BY <2>3, <2>4, <2>5 DEF Validated
<1>2. CASE Spawn
  BY <1>2 DEF Spawn, Fresh, FrameDelivered, leaderVars
<1>3. CASE phase' # "done"
  BY <1>3 DEF FrameDelivered
<1>4. CASE Done
  BY <1>4 DEF Done, vars, FrameDelivered, childVars, leaderVars, resultVars
<1> QED
  BY <1>1, <1>2, <1>3, <1>4, AnswerMoves

-----------------------------------------------------------------------------
LEMMA InductiveStep == Inductive /\ [Next]_vars => Inductive'
<1> SUFFICES ASSUME Inductive, [Next]_vars PROVE Inductive'
  OBVIOUS
<1>1. CASE Next
  <2>1. TypeOK'
    BY TypeStep DEF Inductive
  <2>2. Fresh' /\ Sealed' /\ Slain'
    BY <1>1, FreshStep, SealedStep, SlainStep DEF Inductive
  <2>3. Conserved' /\ PolledEmpty' /\ Taken'
    BY <1>1, ConservedStep, PolledEmptyStep, TakenStep DEF Inductive
  <2>4. Dutiful' /\ Reported' /\ FrameDelivered'
    BY <1>1, DutifulStep, ReportedStep, DeliveredStep DEF Inductive
  <2> QED
    BY <2>1, <2>2, <2>3, <2>4 DEF Inductive
<1>2. CASE UNCHANGED vars
  <2> USE <1>2 DEF vars, childVars, leaderVars, groupVars, loopVars, resultVars
  <2>2. TypeOK'
    BY TypeStep DEF Inductive
  <2>3. Fresh' /\ Sealed' /\ Slain'
    BY DEF Inductive, Fresh, Sealed, Slain, Held, Alive, Group
  <2>4. Conserved' /\ PolledEmpty' /\ Taken'
    BY DEF Inductive, Conserved, PolledEmpty, Taken, Prefix, Alive
  <2>5. Dutiful' /\ Reported' /\ FrameDelivered'
    BY DEF Inductive, Dutiful, Reported, FrameDelivered, Alive
  <2> QED
    BY <2>2, <2>3, <2>4, <2>5 DEF Inductive
<1> QED
  BY <1>1, <1>2

(* The strengthening the runs check holds of every reachable state, whatever   *)
(* the descendants, the pipes' capacity, the limits and the jobs are.          *)
THEOREM InductiveHolds == Safe => []Inductive
<1>1. Init => Inductive
  BY InitInductive
<1>2. Inductive /\ [Next]_vars => Inductive'
  BY InductiveStep
<1> QED
  BY <1>1, <1>2, PTL DEF Safe

(* The variables keep their types, no pipe overflows and no capture grows past *)
(* its limit.                                                                  *)
THEOREM TypeCorrect == Safe => []TypeOK
<1>1. Inductive => TypeOK
  BY DEF Inductive
<1> QED
  BY <1>1, InductiveHolds, PTL

(* No descendant survives the runner by keeping a stream open: _teardown       *)
(* either saw every stream end or killed the group (ADR 0030:87).              *)
THEOREM StreamsReleased == Safe => []NoHolderSurvives
<1>1. Inductive => NoHolderSurvives
  BY DEF Inductive, Slain, NoHolderSurvives
<1> QED
  BY <1>1, InductiveHolds, PTL

(* An accepted frame is all the leader wrote, but for the race of the last     *)
(* poll: the capture's limit is beyond the longest frame _validated_frame      *)
(* accepts, so a truncated one is refused.                                     *)
THEOREM FramesWhole == Safe => []NoPartialFrame
<1>1. Inductive => NoPartialFrame
  <2> SUFFICES ASSUME Inductive, answer = "frame" PROVE raw = sent \/ late
    BY DEF NoPartialFrame
  <2>1. phase = "done" /\ raw \leq ResultLimit
    BY DEF Inductive, Reported
  <2>2. late \/ raw = Prefix(sent)
    BY <2>1 DEF Inductive, Taken
  <2>3. sent \in Nat /\ ResultLimit \in Nat
    BY ProcessAssumption DEF Inductive, TypeOK
  <2> QED
    BY <2>1, <2>2, <2>3 DEF Prefix
<1> QED
  BY <1>1, InductiveHolds, PTL

(* The frame of a leader that did its work and exited is the answer, unless    *)
(* the invocation timed out, was cancelled, or met that race.                  *)
THEOREM Delivered == Safe => []FrameDelivered
<1>1. Inductive => FrameDelivered
  BY DEF Inductive
<1> QED
  BY <1>1, InductiveHolds, PTL

=============================================================================
