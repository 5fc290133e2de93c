------------------------------ MODULE MC_Requests ------------------------------
(* Two requests and a malformed one, about one or two pools and two or three pods. *)
EXTENDS Requests, TLC

CONSTANTS r1, r2, bad, p1, p2, p3, np1, np2, z1, z2

MCMaximum == np1 :> 1 @@ np2 :> 2
MCOneMaximum == np2 :> 2
MCZones == {<<np1, z1>>, <<np2, z1>>, <<np2, z2>>}
MCOneZones == {<<np2, z1>>, <<np2, z2>>}
AllFaults == {"reset", "parse", "list", "simulate", "sync", "create", "untaint"}
Symmetry == Permutations(Requests \ Malformed) \cup Permutations(Pods)
==============================================================================
