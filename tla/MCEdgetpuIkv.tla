---------------------------- MODULE MCEdgetpuIkv ----------------------------
(* Commands of device groups on small instances. *)
EXTENDS EdgetpuIkv, TLC

CONSTANTS c1, c2, c3, g1, g2

\* Two groups with one command each: different numbers, and the same number.
TwoGroups == c1 :> g1 @@ c2 :> g2
DistinctSeq == c1 :> 1 @@ c2 :> 2
SameNumber == c1 :> 1 @@ c2 :> 1

\* One group with two commands.
OneGroup == c1 :> g1 @@ c2 :> g1

\* Three commands of two groups.
ThreeCmds == c1 :> g1 @@ c2 :> g1 @@ c3 :> g2
ThreeSeqs == c1 :> 1 @@ c2 :> 2 @@ c3 :> 3
=============================================================================
