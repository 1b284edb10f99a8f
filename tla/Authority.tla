----------------------------- MODULE Authority -----------------------------
(***************************************************************************)
(* What the control plane promises about its authorities, whatever the     *)
(* interleaving of commands and wherever one of them fails or dies: the    *)
(* central lock and the catalog lineage it names move together, in one     *)
(* step, never to an older release, and only on behalf of a command that   *)
(* planned against the lock it replaces.                                   *)
(***************************************************************************)
EXTENDS Integers

CONSTANTS Procs, Commits, Releases, None, FirstLock

VARIABLES
  applied,  \* the authoritative lock: a member of Commits, or None
  lineage,  \* the catalog release a reader resolves, or None
  base      \* base[p]: {} or the singleton of the lock p planned against

vars == <<applied, lineage, base>>

Init ==
  /\ applied = FirstLock
  /\ lineage = FirstLock.release
  /\ base = [p \in Procs |-> {}]

Begin(p) ==
  /\ base[p] = {}
  /\ base' = [base EXCEPT ![p] = {applied}]
  /\ UNCHANGED <<applied, lineage>>

Drop(p) ==
  /\ base[p] # {}
  /\ base' = [base EXCEPT ![p] = {}]
  /\ UNCHANGED <<applied, lineage>>

(* A commit replaces exactly the lock its command planned against.  While  *)
(* one of the two authorities is lost, the other pins the release.         *)
Commit(p) ==
  /\ base[p] = {applied}
  /\ \E c \in Commits :
       /\ applied' = c
       /\ applied = None => c.release = lineage
       /\ applied # None => c.release >= applied.release
       /\ IF lineage # None THEN lineage' = c.release
                            ELSE c.release = applied.release /\ UNCHANGED lineage
  /\ UNCHANGED base

(* A generated file is lost, *)
Lose ==
  /\ applied # None /\ lineage # None
  /\ \/ applied' = None /\ UNCHANGED lineage
     \/ lineage' = None /\ UNCHANGED applied
  /\ UNCHANGED base

(* and a lost catalog is regenerated from the lock that names it. *)
Regrow(p) ==
  /\ base[p] = {applied} /\ applied # None /\ lineage = None
  /\ lineage' = applied.release
  /\ base' = [base EXCEPT ![p] = {}]
  /\ UNCHANGED applied

Next == Lose \/ \E p \in Procs : Begin(p) \/ Drop(p) \/ Commit(p) \/ Regrow(p)

Spec == Init /\ [][Next]_vars

=============================================================================
