------------------------------ MODULE MCTerminal ------------------------------
(* Instances of Terminal for TLC.                                          *)
EXTENDS Terminal

CONSTANTS t1, t2

TwoReaders == {t1, t2}
ReaderSymmetry == Permutations(TwoReaders)
===============================================================================
