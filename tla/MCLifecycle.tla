---------------------------- MODULE MCLifecycle ----------------------------
(* Lifecycle on small instances: which servers share a lifecycle lock.     *)
EXTENDS Lifecycle, TLC

(* All servers hash to one lock, as server ids 64 apart do.                *)
OneStripe == [s \in Servers |-> 0]

Symmetry == Permutations(Callers) \cup Permutations(Retries) \cup Permutations(Workers)
=============================================================================
