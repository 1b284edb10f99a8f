-------------------------- MODULE MCHandoverLive --------------------------
(* Handover with an operator who reruns `init --migrate --apply` until it  *)
(* answers that the migration is complete; others run what they like.      *)
EXTENDS MCHandover

Rerun == pc[p1] # "ok" /\ Begin(p1, "migrate") /\ UNCHANGED left

LiveNext == Rerun \/ Next

LiveSpec == Init /\ [][LiveNext]_vars /\ WF_vars(Rerun) /\ \A p \in Procs : WF_vars(Proceed(p))

MCLive == [command |-> 1, fault |-> 2, edit |-> 0, restore |-> 0]

(* A legacy repository the consumer leaves alone comes under its own       *)
(* central authority and loses the legacy one, however many runs failed or *)
(* died, and though another command may pull the directory from under one. *)
HandsOver ==
  authority \in Versions /\ []~edited => <>[](Central \in Versions /\ authority = None)
===========================================================================
