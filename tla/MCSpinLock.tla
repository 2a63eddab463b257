------------------------------ MODULE MCSpinLock ------------------------------
(* Instances of SpinLock for TLC.                                          *)
EXTENDS SpinLock, TLC

CONSTANTS t1, t2, t3

Threads == {t1, t2, t3}

ThreadSymmetry == Permutations(Thread)
===============================================================================
