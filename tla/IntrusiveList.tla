----------------------------- MODULE IntrusiveList -----------------------------
(***************************************************************************)
(* The pointer code of sys::List<T, which> (list.hpp), for the lists that  *)
(* use the same ListNode of their elements: ready_queue_ and               *)
(* waiting_queue_ both use Thread::lists[cRun].                            *)
(*                                                                         *)
(* The history variable queue holds what the lists promise, computed with  *)
(* the operators of RunQueue; PointersRepresentQueues says the pointers    *)
(* keep the promise.                                                       *)
(***************************************************************************)
EXTENDS RunQueue

CONSTANTS List, Elem, Null

ASSUME ListAssumption == Null \notin Elem /\ "none" \notin Elem \cup {Null}

VARIABLES
  heap,    \* the fields of the lists and of the nodes
  queue,   \* history: the contents of the lists, as sequences
  iter,    \* the node of an Iterator; "none" when no loop runs
  over,    \* the list that loop walks
  scan     \* history: what the loop has still to visit

vars == <<heap, queue, iter, over, scan>>

Heap == [head : [List -> Elem \cup {Null}], tail : [List -> Elem \cup {Null}],
         count : [List -> Nat],
         next : [Elem -> Elem \cup {Null}], prev : [Elem -> Elem \cup {Null}],
         linked : SUBSET Elem]

\* List::init, and the constructor of ListNode
Init ==
  /\ heap = [head |-> [l \in List |-> Null], tail |-> [l \in List |-> Null],
             count |-> [l \in List |-> 0],
             next |-> [e \in Elem |-> Null], prev |-> [e \in Elem |-> Null],
             linked |-> {}]
  /\ queue = [l \in List |-> <<>>]
  /\ iter = "none" /\ over \in List /\ scan = <<>>

-------------------------------------------------------------------------------
\* Set f at x, if x is not the null pointer.
Store(f, x, v) == [y \in DOMAIN f |-> IF y = x THEN v ELSE f[y]]

\* Mutant: unlink does not ask whether the node is linked.
UnlinkUnchecked(h, l, e) ==
  LET n == h.next[e]
      p == h.prev[e]
  IN  [head |-> IF h.head[l] = e THEN Store(h.head, l, n) ELSE h.head,
       tail |-> IF h.tail[l] = e THEN Store(h.tail, l, p) ELSE h.tail,
       count |-> Store(h.count, l, h.count[l] - 1),
       next |-> Store(Store(h.next, p, n), e, Null),
       prev |-> Store(Store(h.prev, n, p), e, Null),
       linked |-> h.linked \ {e}]

\* List::unlink
UnlinkOp(h, l, e) ==
  IF e \notin h.linked THEN h
  ELSE LET n == h.next[e]
           p == h.prev[e]
       IN  [head |-> IF h.head[l] = e THEN Store(h.head, l, n) ELSE h.head,
            tail |-> IF h.tail[l] = e THEN Store(h.tail, l, p) ELSE h.tail,
            count |-> Store(h.count, l, h.count[l] - 1),
            next |-> Store(Store(h.next, p, n), e, Null),
            prev |-> Store(Store(h.prev, n, p), e, Null),
            linked |-> h.linked \ {e}]

\* Mutant: append of a first element does not set the head.
AppendNoHead(h, l, e) ==
  IF e \in h.linked THEN h
  ELSE LET t == h.tail[l]
       IN  [h EXCEPT !.tail = Store(h.tail, l, e),
                     !.count = Store(h.count, l, h.count[l] + 1),
                     !.next = Store(Store(h.next, t, e), e, Null),
                     !.prev = Store(h.prev, e, t),
                     !.linked = h.linked \cup {e}]

\* List::append
AppendOp(h, l, e) ==
  IF e \in h.linked THEN h
  ELSE LET t == h.tail[l]
       IN  [head |-> IF h.head[l] = Null THEN Store(h.head, l, e) ELSE h.head,
            tail |-> Store(h.tail, l, e),
            count |-> Store(h.count, l, h.count[l] + 1),
            next |-> Store(Store(h.next, t, e), e, Null),
            prev |-> Store(h.prev, e, t),
            linked |-> h.linked \cup {e}]

\* List::prepend
PrependOp(h, l, e) ==
  IF e \in h.linked THEN h
  ELSE LET t == h.head[l]
       IN  [head |-> Store(h.head, l, e),
            tail |-> IF h.tail[l] = Null THEN Store(h.tail, l, e) ELSE h.tail,
            count |-> Store(h.count, l, h.count[l] + 1),
            next |-> Store(h.next, e, t),
            prev |-> Store(Store(h.prev, t, e), e, Null),
            linked |-> h.linked \cup {e}]

-------------------------------------------------------------------------------
Linked(q) == UNION {Range(q[l]) : l \in List}

\* The callers unlink an element from a list only if it is on no other
\* (Scheduler!RunningIsReady).
MayUnlink(l, e) == \A m \in List \ {l} : e \notin Range(queue[m])

DoUnlink(l, e) ==
  /\ iter = "none" /\ MayUnlink(l, e)
  /\ heap' = UnlinkOp(heap, l, e)
  /\ queue' = [queue EXCEPT ![l] = Unlink(@, e)]
  /\ UNCHANGED <<iter, over, scan>>

DoAppend(l, e) ==
  /\ iter = "none"
  /\ heap' = AppendOp(heap, l, e)
  /\ queue' = [queue EXCEPT ![l] = AppendTo(@, e, Linked(queue))]
  /\ UNCHANGED <<iter, over, scan>>

DoPrepend(l, e) ==
  /\ iter = "none"
  /\ heap' = PrependOp(heap, l, e)
  /\ queue' = [queue EXCEPT ![l] = PrependTo(@, e, Linked(queue))]
  /\ UNCHANGED <<iter, over, scan>>

\* List::begin
Begin(l) ==
  /\ iter = "none"
  /\ iter' = heap.head[l] /\ over' = l /\ scan' = queue[l]
  /\ UNCHANGED <<heap, queue>>

\* Iterator::advance, in a loop whose body leaves the element alone,
Pass ==
  /\ iter \in Elem
  /\ iter' = heap.next[iter] /\ scan' = Tail(scan)
  /\ UNCHANGED <<heap, queue, over>>

\* Mutant: the loop asks for the next element after it has unlinked this one.
DropThenAdvance ==
  /\ iter \in Elem
  /\ iter' = UnlinkOp(heap, over, iter).next[iter] /\ scan' = Tail(scan)
  /\ heap' = UnlinkOp(heap, over, iter)
  /\ queue' = [queue EXCEPT ![over] = Unlink(@, iter)]
  /\ UNCHANGED over

\* or unlinks it, as cleanup() does,
Drop ==
  /\ iter \in Elem
  /\ iter' = heap.next[iter] /\ scan' = Tail(scan)
  /\ heap' = UnlinkOp(heap, over, iter)
  /\ queue' = [queue EXCEPT ![over] = Unlink(@, iter)]
  /\ UNCHANGED over

\* or moves it to the front of another list, as on_tick does.
Move(m) ==
  /\ iter \in Elem /\ m # over
  /\ iter' = heap.next[iter] /\ scan' = Tail(scan)
  /\ heap' = PrependOp(UnlinkOp(heap, over, iter), m, iter)
  /\ queue' = [queue EXCEPT ![over] = Unlink(@, iter), ![m] = <<iter>> \o @]
  /\ UNCHANGED over

\* !more_p()
End == iter = Null /\ iter' = "none" /\ UNCHANGED <<heap, queue, over, scan>>

Next ==
  \/ \E l \in List, e \in Elem : DoUnlink(l, e) \/ DoAppend(l, e) \/ DoPrepend(l, e)
  \/ \E l \in List : Begin(l) \/ Move(l)
  \/ Pass \/ Drop \/ End

Spec == Init /\ [][Next]_vars

-------------------------------------------------------------------------------
TypeOK ==
  /\ heap \in Heap /\ queue \in [List -> Seq(Elem)]
  /\ iter \in Elem \cup {Null, "none"} /\ over \in List /\ scan \in Seq(Elem)

\* The chain of list l, in both directions, is the sequence s.
Chain(h, l, s) ==
  /\ h.head[l] = IF s = <<>> THEN Null ELSE s[1]
  /\ h.tail[l] = IF s = <<>> THEN Null ELSE s[Len(s)]
  /\ h.count[l] = Len(s)
  /\ \A i \in 1 .. Len(s) :
       /\ h.next[s[i]] = IF i = Len(s) THEN Null ELSE s[i + 1]
       /\ h.prev[s[i]] = IF i = 1 THEN Null ELSE s[i - 1]

Represents(h, q) ==
  /\ \A l \in List : IsInjective(q[l]) /\ Chain(h, l, q[l])
  /\ \A l, m \in List : l # m => Range(q[l]) \cap Range(q[m]) = {}
  /\ h.linked = Linked(q)

\* What module Scheduler assumes of the run queues: append, prepend and unlink
\* (list.hpp), on lists that share their nodes, leave every list with the chain
\* of pointers, the head, the tail and the count of the sequence RunQueue says.
PointersRepresentQueues == Represents(heap, queue)

\* A loop that unlinks or moves the element it stands on (on_tick, cleanup) still
\* visits every element the list had when it began, once, in order: advance()
\* has read next before unlink() clears it.
IteratorFollowsScan ==
  iter # "none" => iter = IF scan = <<>> THEN Null ELSE Head(scan)

\* The sequence s ends with the sequence t.
EndsWith(s, t) ==
  LET d == Len(s) - Len(t) IN d >= 0 /\ \A i \in 1 .. Len(t) : t[i] = s[i + d]

\* The inductive form: what the loop has still to visit is the end of its list.
ScanIsSuffix == iter # "none" => EndsWith(queue[over], scan)

ListInv == TypeOK /\ PointersRepresentQueues /\ IteratorFollowsScan /\ ScanIsSuffix

===============================================================================
