----------------------------- MODULE MCJobQueue -----------------------------
(* Three jobs, one of them of a kind nobody handles, more than the two       *)
(* goroutines, one in each process, can take at once.                        *)
EXTENDS JobQueue, TLC

CONSTANTS j1, j2, j3, p1, p2

AttemptLimits == (j1 :> 2 @@ j2 :> 1 @@ j3 :> 1)
=============================================================================
