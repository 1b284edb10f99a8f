----------------------------- MODULE MCHandover -----------------------------
(* Instances of Handover. *)
EXTENDS Handover, TLC

CONSTANTS p1, p2, v1, v2, t1, r1, i1, i2, i3

MCTwo == {p1, p2}
MCSymmetry == Permutations({p1, p2}) \union Permutations({i1, i2, i3})
MCVersions == {v1, v2}
MCTargets == {t1}
MCRelics == {r1}
MCInodes == {i1, i2, i3}
MCJobs == {"init", "migrate"}
MCSupply == [command |-> 3, fault |-> 1, edit |-> 1, restore |-> 0]

(* The consumer checks a legacy configuration out beside a starting init. *)
MCOneVersion == {v1}
MCRestore == [command |-> 2, fault |-> 0, edit |-> 0, restore |-> 1]
=============================================================================
