----------------------------- MODULE MCLanding -----------------------------
(* Finite instances of Landing for TLC.                                    *)
EXTENDS Landing, TLC

CONSTANTS p1, p2, h1, h2, octo

MCOne == {p1}
MCTwo == {p1, p2}
MCLogin1 == p1 :> octo
MCLogin2 == (p1 :> octo) @@ (p2 :> octo)
MCHeads == {h1, h2}
MCRoles == {"Final", "Supporting", "Standalone"}

Run(verb, to) == [verb |-> verb, to |-> to]
MCAdmission == {Run(v, "Done") : v \in {"ready", "merge", "auto", "land"}}
MCAll == MCAdmission \union
  {Run("closepr", "Blocked"), Run("closepr", "Dropped"), Run("close", "Done"),
   Run("close", "Dropped"), Run("reopen", "In progress"), Run("set", "Blocked"),
   Run("set", "In progress")}

(* Bounds on the environment; every operator slot may run any job. *)
MCPair  == [command |-> 2, fault |-> 1, push |-> 1, evidence |-> 0, hand |-> 1]
MCSymmetry == Permutations(MCTwo)
=============================================================================
