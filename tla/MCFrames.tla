------------------------------- MODULE MCFrames -------------------------------
(* Instances of Frames for TLC.                                            *)
EXTENDS Frames, TLC

CONSTANTS d1, d2, d3

Dirs == {d1, d2, d3}
\* The directories other than the first process's are alike.
DirSymmetry == Permutations(Dirs \ {d1})
===============================================================================
