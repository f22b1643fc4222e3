--------------------------- MODULE MCSparkServer ---------------------------
(***************************************************************************)
(* Instances of SparkServer for TLC.                                       *)
(***************************************************************************)
EXTENDS SparkServer, TLC

CONSTANTS h1, h2, h3

TwoHandles   == {h1, h2}
ThreeHandles == {h1, h2, h3}
Symmetry     == Permutations(ThreeHandles)
=============================================================================
