--------------------------- MODULE MC_GardenAccess ---------------------------
EXTENDS GardenAccess, TLC

CONSTANTS a1, a2, b1, s1, s2, w1

\* Two shoots of one name in two projects.
shootA == [project |-> "p", name |-> "shoot"]
shootB == [project |-> "q", name |-> "shoot"]

MCShoots == {shootA, shootB}
MCShootOf == [x \in {a1, a2, s1, s2, w1} |-> shootA] @@ [x \in {b1} |-> shootB]
\* w1 is a pod of the workload; the sums of different sets of pods differ.
MCRequests == s1 :> 1 @@ s2 :> 2 @@ w1 :> 4
\* A node smaller than the requests of the system components together.
MCAllocatable == a1 :> 2 @@ a2 :> 9 @@ b1 :> 9
=============================================================================
