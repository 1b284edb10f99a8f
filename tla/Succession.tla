----------------------------- MODULE Succession -----------------------------
(***************************************************************************)
(* What init and the legacy migration promise about who rules a            *)
(* repository: a central authority is established once, out of what the    *)
(* consumer's legacy configuration said (neutral if there was none), it is *)
(* never replaced, and the legacy authority is retired only under it.      *)
(***************************************************************************)
CONSTANTS Versions, Neutral, None

VARIABLES
  legacy,   \* the legacy configuration, or None
  central,  \* whom the complete control plane was made for, or None
  offered,  \* every state the legacy configuration has been in
  moved     \* the consumer rewrote it under the central authority

vars == <<legacy, central, offered, moved>>

Init ==
  /\ legacy \in Versions \union {None}
  /\ central = None
  /\ offered = {legacy}
  /\ moved = FALSE

Establish ==
  /\ central = None
  /\ central' \in (offered \ {None}) \union (IF None \in offered THEN {Neutral} ELSE {})
  /\ UNCHANGED <<legacy, offered, moved>>

Retire ==
  /\ central \in Versions /\ legacy # None
  /\ moved \/ legacy = central
  /\ legacy' = None
  /\ offered' = offered \union {None}
  /\ UNCHANGED <<central, moved>>

(* The consumer's own hand. *)
Amend ==
  /\ legacy' \in (Versions \union {None}) \ {legacy}
  /\ offered' = offered \union {legacy'}
  /\ moved' = (moved \/ central # None)
  /\ UNCHANGED central

Next == Establish \/ Retire \/ Amend

Spec == Init /\ [][Next]_vars

=============================================================================
