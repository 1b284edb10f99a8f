---------------------------- MODULE MCReconcile ----------------------------
(* Finite instances of Reconcile for TLC.                                  *)
EXTENDS Reconcile, TLC

CONSTANTS
  p1, p2,
  early, late,  \* targets published before and after the catalog
  off, on

MCProcs == {p1, p2}
MCTargets == {early, late}
MCRank == (early :> 1) @@ (Catalog :> 2) @@ (late :> 3)
MCOldAndNew == (p1 :> 1) @@ (p2 :> 2)
MCBothNew == (p1 :> 2) @@ (p2 :> 2)

(* Nothing is rendered under "off"; early changes with every   *)
(* release, late never.                                               *)
MCRender ==
  [t \in MCTargets |-> [r \in Releases |-> [c \in Configs |->
     IF c = off THEN Absent ELSE IF t = early THEN <<t, r>> ELSE <<t, 0>>]]]

(* Trees with and without consumer files, and the empty tree only. *)
MCPrior == [MCTargets -> {Absent, Edited}]
MCEmpty == {[t \in MCTargets |-> Absent]}

(* Bounds on the environment: how many faults, edits, consumer writes, losses. *)
MCUpgrades == [fault |-> 2, edit |-> 2, tamper |-> 0, loss |-> 2]
MCConsumer == [fault |-> 1, edit |-> 2, tamper |-> 1, loss |-> 0]
MCFault    == [fault |-> 1, edit |-> 2, tamper |-> 0, loss |-> 0]
MCRepairs  == [fault |-> 2, edit |-> 1, tamper |-> 0, loss |-> 1]
=============================================================================
