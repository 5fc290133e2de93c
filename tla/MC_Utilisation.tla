---------------------------- MODULE MC_Utilisation ----------------------------
EXTENDS Utilisation, TLC

CONSTANTS p1, p2, p3, n1

\* Requests of which no sum is one of them or another sum.
MCRequests == p1 :> 1 @@ p2 :> 2 @@ p3 :> 4
=============================================================================
