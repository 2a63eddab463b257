------------------------------- MODULE RunQueue -------------------------------
(***************************************************************************)
(* What sys::List<T, which> (list.hpp) promises to its users: a queue of   *)
(* distinct elements, as operators on sequences.  Module IntrusiveList     *)
(* shows that the pointer code implements them.                            *)
(*                                                                         *)
(* A node has one `linked' flag for all the lists it can be on, so append  *)
(* and prepend take the set of the elements linked anywhere.               *)
(***************************************************************************)
EXTENDS Integers, Sequences, Functions

\* List::unlink of an element that is not linked returns at once.
Unlink(q, t) ==
  IF t \notin Range(q) THEN q
  ELSE LET at == CHOOSE i \in DOMAIN q : q[i] = t
       IN  [j \in 1 .. Len(q) - 1 |-> IF j < at THEN q[j] ELSE q[j + 1]]

\* List::prepend and List::append of a linked element return at once.
PrependTo(q, t, linked) == IF t \in linked THEN q ELSE <<t>> \o q

AppendTo(q, t, linked) == IF t \in linked THEN q ELSE Append(q, t)

===============================================================================
