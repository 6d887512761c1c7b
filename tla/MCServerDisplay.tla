--------------------------- MODULE MCServerDisplay --------------------------
(* A display with two globals and two clients, two display and three
   global handles. *)
EXTENDS ServerDisplay

CONSTANTS d1, d2, k1, k2, k3, g1, g2, c1, c2
=============================================================================
