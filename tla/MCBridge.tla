------------------------------ MODULE MCBridge ------------------------------
(* Two nodes, two authorities at the first and one at the second: a deposit  *)
(* can be proposed on both, and twice on the first after a prune.            *)
EXTENDS Bridge, TLC

CONSTANTS n1, n2, a1, a2, a3, a4, d1, d2

HomeOf == (a1 :> n1) @@ (a2 :> n1) @@ (a3 :> n2) @@ (a4 :> n2)
Locked == [d \in Deposits |-> IF d = d1 THEN 2 ELSE 1]
Numbered == (n1 :> 1) @@ (n2 :> 0)
Neighbours == Permutations({a1, a2}) \cup Permutations({a3, a4})
=============================================================================
