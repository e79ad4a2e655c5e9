------------------------------ MODULE MCServer ------------------------------
(* The instances of Server that TLC checks. *)
EXTENDS Server, TLC

CONSTANTS a1, a2

\* Listening sockets are created first: they hold the lowest descriptors.
OneListener == [a \in {a1} |-> 1]
TwoListeners == (a1 :> 1) @@ (a2 :> 2)

ConnSymmetry == Permutations(Conns)
=============================================================================
