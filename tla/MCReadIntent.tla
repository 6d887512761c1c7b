---------------------------- MODULE MCReadIntent ----------------------------
(* Three threads, two of which share a queue. *)
EXTENDS ReadIntent, TLC

CONSTANTS t1, t2, t3, q1, q2

MCQueueOf == t1 :> q1 @@ t2 :> q1 @@ t3 :> q2
=============================================================================
