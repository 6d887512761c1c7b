------------------------------ MODULE MCProxy ------------------------------
(* Instances of Proxy for TLC. *)
EXTENDS Proxy, TLC

CONSTANTS h1, h2, h3, h4, o1, o2, w1, w2, q1


\* Handles are interchangeable; so are the queues.
HandleSymmetry == Permutations(Handles)
=============================================================================
