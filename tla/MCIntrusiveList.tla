---------------------------- MODULE MCIntrusiveList ----------------------------
(* Instances of IntrusiveList for TLC.                                     *)
EXTENDS IntrusiveList, TLC

CONSTANTS e1, e2, e3, e4

Elems == {e1, e2, e3, e4}
Lists == {"ready", "waiting"}

===============================================================================
