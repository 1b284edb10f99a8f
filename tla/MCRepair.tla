----------------------------- MODULE MCRepair -----------------------------
(***************************************************************************)
(* Liveness of repair.  The control-plane lock never blocks: a command that *)
(* finds it held is refused, so commands issued for ever could refuse one   *)
(* another for ever.  Here slot p2, with the newest release, belongs to an  *)
(* operator who reruns `reconcile --repair-state --apply` for as long as a  *)
(* repair is due; every other command is drawn from a finite stock.         *)
(***************************************************************************)
EXTENDS MCReconcile

CONSTANT Stock  \* how many commands anybody issues besides the operator's reruns

VARIABLE stock

repairVars == <<vars, stock>>

RepairInit == Init /\ stock = Stock

(* Any command, by anybody. *)
IssueCommand(p) ==
  /\ stock > 0 /\ stock' = stock - 1
  /\ Command(p)

(* The operator's rerun is not counted, but needs something to repair. *)
Rerun ==
  /\ Verdict(p2) \in {"incomplete", "interrupted"}
  /\ StartRepair(p2)
  /\ UNCHANGED stock

RepairNext ==
  \/ (\E p \in Procs : IssueCommand(p))
  \/ Rerun
  \/ (\E p \in Procs : Proceed(p) \/ Fault(p)) /\ UNCHANGED stock
  \/ Consumer /\ UNCHANGED stock

(* A running command keeps running, and the operator keeps rerunning. *)
RepairSpec ==
  /\ RepairInit /\ [][RepairNext]_repairVars
  /\ WF_repairVars(Rerun)
  /\ \A p \in Procs : WF_repairVars(Proceed(p) /\ UNCHANGED stock)

(* However an apply or an earlier repair died, the operator's reruns end   *)
(* the interrupted refresh: no backup is left to keep detection at          *)
(* INTERRUPTED_REFRESH (_catalog_refresh_recovery,                          *)
(* _publish_catalog_refresh_recovery).                                      *)
InterruptedRefreshEnds == backup # None ~> backup = None

(* A lost catalog.toml comes back once the operator has the release the     *)
(* lock names (_catalog_recovery, _publish_catalog).                        *)
LostCatalogRegrows ==
  (catalog = None /\ lock # None /\ lock.release = Tool[p2]) ~> catalog # None
=============================================================================
