--------------------------- MODULE MCProxyEvents ---------------------------
(* Instances of ProxyEvents for TLC. *)
EXTENDS ProxyEvents, TLC

CONSTANTS h1, h2, h3, o1, o2, w1, w2, q1

\* The client's handles are interchangeable.
HandleSymmetry == Permutations(ClientHandles)
=============================================================================
