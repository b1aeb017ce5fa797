-------------------------- MODULE MCOrderLifecycle --------------------------
(* Instances of OrderLifecycle for TLC. *)
EXTENDS OrderLifecycle, TLC

(* A full order of every ordinary symbol, no hedge at the start of the day. *)
MCInitHeld == [t \in Ticker |-> IF t = Hedge THEN 0 ELSE MaxQty]

Symmetry == Permutations(BrokerId)
=============================================================================
