--------------------------- MODULE MCLandingLive ---------------------------
(* Landing with an operator who does what the tool's answers say: rerun    *)
(* `land` while the pull request is open, and once it merged run           *)
(* `close --issue N --as done` until the issue agrees.                     *)
EXTENDS MCLanding

Unfinished == pr.state = "merged" /\ Final /\ ~Paired("Done")

Rerun(p) ==
  /\ \/ pr.state = "open" /\ Begin(p, Run("land", "Done"))
     \/ Unfinished /\ Begin(p, Run("close", "Done"))
  /\ UNCHANGED left

(* People touch the issue only after the merge: before it, a person may    *)
(* close the pull request or the issue, which is a decision not to land.   *)
LiveNext ==
  \/ \E p \in Operators : Rerun(p) \/ Start(p) \/ Proceed(p) \/ Stop(p)
  \/ Push \/ Evidence \/ AutoMerge
  \/ pr.state = "merged" /\ ByHand

LiveSpec ==
  /\ Init /\ [][LiveNext]_vars
  /\ \A p \in Operators : WF_vars(Rerun(p)) /\ WF_vars(Proceed(p))

MCLive == [command |-> 1, fault |-> 2, push |-> 1, evidence |-> 2, hand |-> 1]
MCReadied == {Run(v, "Done") : v \in {"ready", "auto"}}

(* A pull request whose checks and documents stay good is landed, however  *)
(* many calls failed, processes died or heads moved on the way: every      *)
(* partial state of ready, merge and land is one a rerun resumes from.     *)
LandsEventually ==
  <>[](clean = Phases /\ pr.head \in green) => <>(pr.state = "merged")

(* After the merge the governing issue reaches closed, completed and Done, *)
(* even if the convergence failed half-way or people reclassified it.      *)
MergedCompletes == (pr.state = "merged" /\ Final) ~> Paired("Done")
=============================================================================
