------------------------------- MODULE MCIoWait -------------------------------
(* Instances of IoWait for TLC.                                            *)
EXTENDS IoWait, TLC

CONSTANTS t1, t2

Threads == {Idle, t1, t2}

ThreadSymmetry == Permutations({t1, t2})
===============================================================================
