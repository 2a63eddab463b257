------------------------------ MODULE MCBlockIO ------------------------------
(* Instances of BlockIO for TLC.                                           *)
EXTENDS BlockIO

CONSTANTS t1, t2, r0, r1, r2, b0, b1, b2, b3, b4

TwoThreads == {t1, t2}

\* Region r0 is read before any thread runs; the threads go for r1 and r2.
Regions == {r0, r1, r2}

\* One for the boot region and, since each of two threads may miss it, two for
\* each of the others.
Buffers == {b0, b1, b2, b3, b4}
===============================================================================
