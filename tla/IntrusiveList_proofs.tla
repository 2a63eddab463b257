------------------------- MODULE IntrusiveList_proofs -------------------------
(***************************************************************************)
(* The pointer code of IntrusiveList implements the sequences of RunQueue, *)
(* for any number of lists that share their nodes and any elements.        *)
(***************************************************************************)
EXTENDS IntrusiveList, RunQueue_proofs

\* The elements of a represented list, and where they are.
LEMMA InList ==
  ASSUME NEW h \in Heap, NEW q \in [List -> Seq(Elem)], Represents(h, q),
         NEW l \in List
  PROVE  /\ Len(q[l]) \in Nat /\ DOMAIN q[l] = 1 .. Len(q[l])
         /\ \A i \in 1 .. Len(q[l]) : q[l][i] \in Elem /\ q[l][i] \in Range(q[l])
         /\ \A e \in Range(q[l]) : \E i \in 1 .. Len(q[l]) : e = q[l][i]
         /\ \A i, j \in 1 .. Len(q[l]) : q[l][i] = q[l][j] => i = j
         /\ (q[l] = <<>> <=> Len(q[l]) = 0)
<1>1. q[l] \in Seq(Elem) /\ IsInjective(q[l])
  BY DEF Represents
<1>2. Len(q[l]) \in Nat /\ DOMAIN q[l] = 1 .. Len(q[l]) /\ (q[l] = <<>> <=> Len(q[l]) = 0)
      /\ \A i \in 1 .. Len(q[l]) : q[l][i] \in Elem
  BY <1>1
<1> QED BY <1>1, <1>2 DEF Range, IsInjective

\* g differs from h at list l and at the nodes of S only.
OthersKept(h, g, l, S) ==
  /\ \A m \in List \ {l} : g.head[m] = h.head[m] /\ g.tail[m] = h.tail[m] /\ g.count[m] = h.count[m]
  /\ \A x \in Elem \ S : g.next[x] = h.next[x] /\ g.prev[x] = h.prev[x]

\* An operation that gives list l the chain s1, and touches only nodes of that
\* list, leaves the other lists as they are.
LEMMA OneListChanged ==
  ASSUME NEW h \in Heap, NEW g \in Heap, NEW q \in [List -> Seq(Elem)], Represents(h, q),
         NEW l \in List, NEW s1 \in Seq(Elem), IsInjective(s1), Chain(g, l, s1),
         \A m \in List \ {l} : Range(s1) \cap Range(q[m]) = {},
         OthersKept(h, g, l, Range(q[l]) \cup Range(s1)),
         g.linked = (h.linked \ Range(q[l])) \cup Range(s1)
  PROVE  /\ [q EXCEPT ![l] = s1] \in [List -> Seq(Elem)]
         /\ Represents(g, [q EXCEPT ![l] = s1])
<1> DEFINE p == [q EXCEPT ![l] = s1]
<1>1. p \in [List -> Seq(Elem)] /\ p[l] = s1 /\ \A m \in List \ {l} : p[m] = q[m]
  OBVIOUS
<1> HIDE DEF p
<1>2. /\ h.linked = Linked(q)
      /\ \A m \in List : IsInjective(q[m]) /\ Chain(h, m, q[m])
      /\ \A a, b \in List : a # b => Range(q[a]) \cap Range(q[b]) = {}
  BY DEF Represents
<1>3. ASSUME NEW m \in List, m # l PROVE Chain(g, m, q[m])
  <2>1. \A i \in 1 .. Len(q[m]) : q[m][i] \in Elem /\ q[m][i] \in Range(q[m])
    BY InList
  <2>2. \A i \in 1 .. Len(q[m]) : /\ g.next[q[m][i]] = h.next[q[m][i]]
                                 /\ g.prev[q[m][i]] = h.prev[q[m][i]]
    BY <1>2, <1>3, <2>1 DEF OthersKept
  <2>3. g.head[m] = h.head[m] /\ g.tail[m] = h.tail[m] /\ g.count[m] = h.count[m]
    BY <1>3 DEF OthersKept
  <2> QED BY <1>2, <2>2, <2>3 DEF Chain
<1>4. \A m \in List : IsInjective(p[m]) /\ Chain(g, m, p[m])
  BY <1>1, <1>2, <1>3
<1>5. ASSUME NEW a \in List, NEW b \in List, a # b PROVE Range(p[a]) \cap Range(p[b]) = {}
  <2>1. CASE a = l
    BY <2>1, <1>1, <1>5
  <2>2. CASE b = l
    BY <2>2, <1>1, <1>5
  <2>3. CASE a # l /\ b # l
    BY <2>3, <1>1, <1>2, <1>5
  <2> QED BY <2>1, <2>2, <2>3
<1>6. g.linked = Linked(p)
  <2>1. ASSUME NEW x PROVE x \in Linked(p) <=> x \in Range(s1) \/ \E m \in List \ {l} : x \in Range(q[m])
    BY <1>1 DEF Linked
  <2>2. ASSUME NEW x PROVE x \in Linked(q) <=> x \in Range(q[l]) \/ \E m \in List \ {l} : x \in Range(q[m])
    BY DEF Linked
  <2>3. \A m \in List \ {l} : Range(q[m]) \cap Range(q[l]) = {}
    BY <1>2
  <2> QED BY <1>2, <2>1, <2>2, <2>3
<1> QED BY <1>1, <1>4, <1>5, <1>6 DEF Represents, p

\* The first n nodes s of E are chained by next and prev, which end in null.
Links(E, null, n, s, next, prev) ==
  /\ null \notin E /\ n \in Nat /\ \A i \in 1 .. n : s[i] \in E
  /\ \A i, j \in 1 .. n : s[i] = s[j] => i = j
  /\ \A i \in 1 .. n : next[s[i]] = IF i = n THEN null ELSE s[i + 1]
  /\ \A i \in 1 .. n : prev[s[i]] = IF i = 1 THEN null ELSE s[i - 1]

\* r is s without its k-th element.
Without(n, s, k, r) ==
  k \in 1 .. n /\ \A j \in 1 .. n - 1 : r[j] = IF j < k THEN s[j] ELSE s[j + 1]

\* next1 and prev1 are next and prev after the four stores of unlink.
Bypass(E, null, e, next, prev, next1, prev1) ==
  /\ \A x \in E : next1[x] = IF x = e THEN null ELSE IF x = prev[e] THEN next[e] ELSE next[x]
  /\ \A x \in E : prev1[x] = IF x = e THEN null ELSE IF x = next[e] THEN prev[e] ELSE prev[x]

\* unlink takes one node out of a chain.
LEMMA UnlinkLinks ==
  ASSUME NEW E, NEW null, NEW n, NEW s, NEW next, NEW prev, NEW k, NEW r, NEW next1, NEW prev1,
         Links(E, null, n, s, next, prev), Without(n, s, k, r),
         Bypass(E, null, s[k], next, prev, next1, prev1)
  PROVE  Links(E, null, n - 1, r, next1, prev1)
<1> PICK nx : nx = next[s[k]]
  OBVIOUS
<1> PICK pv : pv = prev[s[k]]
  OBVIOUS
<1> USE DEF Links, Without, Bypass
<1>1. ASSUME NEW j \in 1 .. n - 1
      PROVE  /\ next1[r[j]] = IF j = n - 1 THEN null ELSE r[j + 1]
             /\ prev1[r[j]] = IF j = 1 THEN null ELSE r[j - 1]
  <2>1. nx = (IF k = n THEN null ELSE s[k + 1]) /\ pv = (IF k = 1 THEN null ELSE s[k - 1])
    OBVIOUS
  <2>2. CASE j < k
    <3>1. r[j] = s[j] /\ j \in 1 .. n /\ s[j] \in E /\ s[j] # s[k] /\ j # n
      BY <2>2
    <3>2. s[j] # nx
      BY <2>1, <2>2
    <3>3. prev1[r[j]] = prev[s[j]]
      BY <3>1, <3>2
    <3>4. j # 1 => j - 1 \in 1 .. n - 1 /\ j - 1 < k
      BY <2>2
    <3>5. prev1[r[j]] = IF j = 1 THEN null ELSE r[j - 1]
      BY <2>2, <3>1, <3>3, <3>4
    <3>6. CASE j = k - 1
      <4>1. s[j] = pv /\ next1[r[j]] = nx
        BY <2>1, <2>2, <3>1, <3>6
      <4>2. j # n - 1 => j + 1 \in 1 .. n - 1 /\ j + 1 = k /\ r[j + 1] = s[k + 1] /\ k # n
        BY <2>2, <3>6
      <4>3. j = n - 1 => k = n
        BY <3>6
      <4> QED BY <4>1, <4>2, <4>3, <3>5, <2>1
    <3>7. CASE j # k - 1
      <4>1. s[j] # pv
        BY <2>1, <3>1, <3>7
      <4>2. next1[r[j]] = s[j + 1]
        BY <3>1, <4>1
      <4>3. j + 1 \in 1 .. n - 1 /\ j + 1 < k /\ j # n - 1
        BY <2>2, <3>7
      <4> QED BY <4>2, <4>3, <3>5
    <3> QED BY <3>6, <3>7
  <2>3. CASE ~(j < k)
    <3>1. r[j] = s[j + 1] /\ j + 1 \in 1 .. n /\ s[j + 1] \in E /\ s[j + 1] # s[k] /\ j + 1 # 1
      BY <2>3
    <3>2. s[j + 1] # pv
      BY <2>1, <2>3, <3>1
    <3>3. next1[r[j]] = next[s[j + 1]]
      BY <3>1, <3>2
    <3>4. next[s[j + 1]] = IF j = n - 1 THEN null ELSE s[(j + 1) + 1]
      BY <3>1
    <3>5. j # n - 1 => j + 1 \in 1 .. n - 1 /\ r[j + 1] = s[(j + 1) + 1]
      BY <2>3
    <3>6. next1[r[j]] = IF j = n - 1 THEN null ELSE r[j + 1]
      BY <3>3, <3>4, <3>5
    <3>7. CASE j = k
      <4>1. s[j + 1] = nx /\ prev1[r[j]] = pv
        BY <2>1, <3>1, <3>7
      <4>2. j # 1 => j - 1 \in 1 .. n - 1 /\ r[j - 1] = s[k - 1]
        BY <3>7
      <4> QED BY <4>1, <4>2, <3>6, <3>7, <2>1
    <3>8. CASE j # k
      <4>1. s[j + 1] # nx
        BY <2>1, <3>1, <3>8
      <4>2. prev1[r[j]] = s[j]
        BY <3>1, <4>1
      <4>3. j - 1 \in 1 .. n - 1 /\ ~(j - 1 < k) /\ r[j - 1] = s[j] /\ j # 1
        BY <2>3, <3>8
      <4> QED BY <4>2, <4>3, <3>6
    <3> QED BY <3>7, <3>8
  <2> QED BY <2>2, <2>3
<1>2. n - 1 \in Nat /\ \A j \in 1 .. n - 1 : r[j] \in E
  OBVIOUS
<1>3. ASSUME NEW i \in 1 .. n - 1, NEW j \in 1 .. n - 1, r[i] = r[j] PROVE i = j
  BY <1>3
<1> QED BY <1>1, <1>2, <1>3

\* The fields of a heap.
LEMMA HeapFields ==
  ASSUME NEW h \in Heap
  PROVE  /\ h.head \in [List -> Elem \cup {Null}] /\ h.tail \in [List -> Elem \cup {Null}]
         /\ h.count \in [List -> Nat] /\ h.next \in [Elem -> Elem \cup {Null}]
         /\ h.prev \in [Elem -> Elem \cup {Null}] /\ h.linked \in SUBSET Elem
BY DEF Heap

\* List::unlink of the k-th element.
LEMMA UnlinkChain ==
  ASSUME NEW h \in Heap, NEW l \in List, NEW s \in Seq(Elem), IsInjective(s), Chain(h, l, s),
         NEW k \in 1 .. Len(s), s[k] \in h.linked,
         NEW g, g = UnlinkOp(h, l, s[k]), NEW r, r = Unlink(s, s[k])
  PROVE  /\ g \in Heap /\ Chain(g, l, r)
         /\ OthersKept(h, g, l, Range(s))
         /\ g.linked = h.linked \ {s[k]}
<1>0. Null \notin Elem
  BY ListAssumption
<1> USE <1>0
<1>1. PICK n \in Nat : n = Len(s)
  OBVIOUS
<1>2. /\ DOMAIN s = 1 .. n /\ k \in 1 .. n /\ \A i \in 1 .. n : s[i] \in Elem
      /\ \A i, j \in 1 .. n : s[i] = s[j] => i = j
  BY <1>1 DEF IsInjective
<1>3. /\ h.head[l] = s[1] /\ h.tail[l] = s[n] /\ h.count[l] = n
      /\ \A i \in 1 .. n : h.next[s[i]] = IF i = n THEN Null ELSE s[i + 1]
      /\ \A i \in 1 .. n : h.prev[s[i]] = IF i = 1 THEN Null ELSE s[i - 1]
  BY <1>1, <1>2 DEF Chain
<1>4. /\ r \in Seq(Elem) /\ Len(r) = n - 1
      /\ \A j \in 1 .. n - 1 : r[j] = IF j < k THEN s[j] ELSE s[j + 1]
  BY <1>1, UnlinkElements
<1>5. PICK e \in Elem : e = s[k]
  BY <1>2
<1>6. PICK nx \in Elem \cup {Null} : nx = h.next[e]
  BY <1>5, HeapFields
<1>7. PICK pv \in Elem \cup {Null} : pv = h.prev[e]
  BY <1>5, HeapFields
<1>8. g = [head |-> IF h.head[l] = e THEN Store(h.head, l, nx) ELSE h.head,
           tail |-> IF h.tail[l] = e THEN Store(h.tail, l, pv) ELSE h.tail,
           count |-> Store(h.count, l, n - 1),
           next |-> Store(Store(h.next, pv, nx), e, Null),
           prev |-> Store(Store(h.prev, nx, pv), e, Null),
           linked |-> h.linked \ {e}]
  BY <1>3, <1>5, <1>6, <1>7 DEF UnlinkOp
<1>9. n - 1 \in Nat
  BY <1>2
<1>a. /\ Store(h.count, l, n - 1) \in [List -> Nat]
      /\ \A m \in List : Store(h.count, l, n - 1)[m] = IF m = l THEN n - 1 ELSE h.count[m]
  BY <1>9, HeapFields DEF Store
<1>b. /\ Store(h.head, l, nx) \in [List -> Elem \cup {Null}]
      /\ \A m \in List : Store(h.head, l, nx)[m] = IF m = l THEN nx ELSE h.head[m]
  BY HeapFields DEF Store
<1>c. /\ Store(h.tail, l, pv) \in [List -> Elem \cup {Null}]
      /\ \A m \in List : Store(h.tail, l, pv)[m] = IF m = l THEN pv ELSE h.tail[m]
  BY HeapFields DEF Store
<1>d. /\ Store(h.next, pv, nx) \in [Elem -> Elem \cup {Null}]
      /\ \A x \in Elem : Store(h.next, pv, nx)[x] = IF x = pv THEN nx ELSE h.next[x]
  BY HeapFields DEF Store
<1>e. /\ Store(h.prev, nx, pv) \in [Elem -> Elem \cup {Null}]
      /\ \A x \in Elem : Store(h.prev, nx, pv)[x] = IF x = nx THEN pv ELSE h.prev[x]
  BY HeapFields DEF Store
<1>f. PICK next1 : next1 = Store(Store(h.next, pv, nx), e, Null)
  OBVIOUS
<1>g. PICK prev1 : prev1 = Store(Store(h.prev, nx, pv), e, Null)
  OBVIOUS
<1>10. /\ next1 \in [Elem -> Elem \cup {Null}]
       /\ \A x \in Elem : next1[x] = IF x = e THEN Null ELSE IF x = pv THEN nx ELSE h.next[x]
  BY <1>d, <1>f DEF Store
<1>11. /\ prev1 \in [Elem -> Elem \cup {Null}]
       /\ \A x \in Elem : prev1[x] = IF x = e THEN Null ELSE IF x = nx THEN pv ELSE h.prev[x]
  BY <1>e, <1>g DEF Store
<1>h. /\ g.head = (IF h.head[l] = e THEN Store(h.head, l, nx) ELSE h.head)
      /\ g.tail = (IF h.tail[l] = e THEN Store(h.tail, l, pv) ELSE h.tail)
      /\ g.count = Store(h.count, l, n - 1) /\ g.next = next1 /\ g.prev = prev1
      /\ g.linked = h.linked \ {e}
  BY <1>8, <1>f, <1>g
<1>12. g \in Heap
  BY <1>8, <1>a, <1>b, <1>c, <1>f, <1>g, <1>10, <1>11, HeapFields DEF Heap
<1>13. /\ \A x \in Elem : g.next[x] = IF x = e THEN Null ELSE IF x = pv THEN nx ELSE h.next[x]
       /\ \A x \in Elem : g.prev[x] = IF x = e THEN Null ELSE IF x = nx THEN pv ELSE h.prev[x]
  BY <1>h, <1>10, <1>11
<1>14. /\ g.head[l] = (IF h.head[l] = e THEN nx ELSE h.head[l])
       /\ g.tail[l] = (IF h.tail[l] = e THEN pv ELSE h.tail[l])
       /\ g.count[l] = n - 1 /\ g.linked = h.linked \ {e}
       /\ \A m \in List \ {l} : g.head[m] = h.head[m] /\ g.tail[m] = h.tail[m] /\ g.count[m] = h.count[m]
  BY <1>a, <1>b, <1>c, <1>h
<1>15. ASSUME NEW j \in 1 .. n - 1
       PROVE  /\ g.next[r[j]] = IF j = n - 1 THEN Null ELSE r[j + 1]
              /\ g.prev[r[j]] = IF j = 1 THEN Null ELSE r[j - 1]
  <2>1. Links(Elem, Null, n, s, h.next, h.prev)
    BY <1>2, <1>3 DEF Links
  <2>2. Without(n, s, k, r)
    BY <1>2, <1>4 DEF Without
  <2>3. Bypass(Elem, Null, s[k], h.next, h.prev, g.next, g.prev)
    BY <1>5, <1>6, <1>7, <1>13 DEF Bypass
  <2>4. Links(Elem, Null, n - 1, r, g.next, g.prev)
    BY <2>1, <2>2, <2>3, UnlinkLinks
  <2> QED BY <2>4 DEF Links
<1>16. g.head[l] = IF r = <<>> THEN Null ELSE r[1]
  BY <1>2, <1>3, <1>4, <1>5, <1>6, <1>14
<1>17. g.tail[l] = IF r = <<>> THEN Null ELSE r[Len(r)]
  BY <1>2, <1>3, <1>4, <1>5, <1>7, <1>14
<1>18. Chain(g, l, r)
  BY <1>4, <1>14, <1>15, <1>16, <1>17 DEF Chain
<1>19. nx \in Range(s) \cup {Null} /\ pv \in Range(s) \cup {Null} /\ e \in Range(s)
  BY <1>2, <1>3, <1>5, <1>6, <1>7 DEF Range
<1>20. \A x \in Elem \ Range(s) : g.next[x] = h.next[x] /\ g.prev[x] = h.prev[x]
  BY <1>13, <1>19
<1> QED BY <1>5, <1>12, <1>14, <1>18, <1>20 DEF OthersKept

\* r is s with e at its end, and with e before it.
Appended(s, e, r) ==
  /\ r \in Seq(Elem) /\ Len(r) = Len(s) + 1
  /\ r[Len(s) + 1] = e /\ \A j \in 1 .. Len(s) : r[j] = s[j]

Prepended(s, e, r) ==
  /\ r \in Seq(Elem) /\ Len(r) = Len(s) + 1
  /\ r[1] = e /\ \A j \in 1 .. Len(s) : r[j + 1] = s[j]

\* List::append of an element that is on no list.
LEMMA AppendChain ==
  ASSUME NEW h \in Heap, NEW l \in List, NEW s \in Seq(Elem), IsInjective(s), Chain(h, l, s),
         NEW e \in Elem, e \notin h.linked, e \notin Range(s),
         NEW g, g = AppendOp(h, l, e),
         NEW r, Appended(s, e, r)
  PROVE  /\ g \in Heap /\ Chain(g, l, r)
         /\ OthersKept(h, g, l, Range(r))
         /\ g.linked = h.linked \cup {e}
<1>0. Null \notin Elem
  BY ListAssumption
<1> USE <1>0
<1>1. PICK n \in Nat : n = Len(s)
  OBVIOUS
<1>2. /\ DOMAIN s = 1 .. n /\ \A i \in 1 .. n : s[i] \in Elem /\ s[i] # e
      /\ \A i, j \in 1 .. n : s[i] = s[j] => i = j
  BY <1>1 DEF IsInjective, Range
<1>3. /\ h.head[l] = (IF n = 0 THEN Null ELSE s[1]) /\ h.tail[l] = (IF n = 0 THEN Null ELSE s[n])
      /\ h.count[l] = n
      /\ \A i \in 1 .. n : h.next[s[i]] = IF i = n THEN Null ELSE s[i + 1]
      /\ \A i \in 1 .. n : h.prev[s[i]] = IF i = 1 THEN Null ELSE s[i - 1]
  BY <1>1, <1>2 DEF Chain
<1>4. /\ r \in Seq(Elem) /\ Len(r) = n + 1 /\ r # <<>> /\ r[n + 1] = e
      /\ \A j \in 1 .. n : r[j] = s[j]
  BY <1>1 DEF Appended
<1>5. PICK t \in Elem \cup {Null} : t = h.tail[l]
  BY HeapFields
<1>6. g = [head |-> IF h.head[l] = Null THEN Store(h.head, l, e) ELSE h.head,
           tail |-> Store(h.tail, l, e),
           count |-> Store(h.count, l, n + 1),
           next |-> Store(Store(h.next, t, e), e, Null),
           prev |-> Store(h.prev, e, t),
           linked |-> h.linked \cup {e}]
  BY <1>3, <1>5 DEF AppendOp
<1>a. /\ Store(h.count, l, n + 1) \in [List -> Nat]
      /\ \A m \in List : Store(h.count, l, n + 1)[m] = IF m = l THEN n + 1 ELSE h.count[m]
  BY HeapFields DEF Store
<1>b. /\ Store(h.head, l, e) \in [List -> Elem \cup {Null}]
      /\ \A m \in List : Store(h.head, l, e)[m] = IF m = l THEN e ELSE h.head[m]
  BY HeapFields DEF Store
<1>c. /\ Store(h.tail, l, e) \in [List -> Elem \cup {Null}]
      /\ \A m \in List : Store(h.tail, l, e)[m] = IF m = l THEN e ELSE h.tail[m]
  BY HeapFields DEF Store
<1>d. /\ Store(h.next, t, e) \in [Elem -> Elem \cup {Null}]
      /\ \A x \in Elem : Store(h.next, t, e)[x] = IF x = t THEN e ELSE h.next[x]
  BY HeapFields DEF Store
<1>f. PICK next1 : next1 = Store(Store(h.next, t, e), e, Null)
  OBVIOUS
<1>g. PICK prev1 : prev1 = Store(h.prev, e, t)
  OBVIOUS
<1>7. /\ next1 \in [Elem -> Elem \cup {Null}]
      /\ \A x \in Elem : next1[x] = IF x = e THEN Null ELSE IF x = t THEN e ELSE h.next[x]
  BY <1>d, <1>f DEF Store
<1>8. /\ prev1 \in [Elem -> Elem \cup {Null}]
      /\ \A x \in Elem : prev1[x] = IF x = e THEN t ELSE h.prev[x]
  BY <1>g, HeapFields DEF Store
<1>h. /\ g.head = (IF h.head[l] = Null THEN Store(h.head, l, e) ELSE h.head)
      /\ g.tail = Store(h.tail, l, e)
      /\ g.count = Store(h.count, l, n + 1) /\ g.next = next1 /\ g.prev = prev1
      /\ g.linked = h.linked \cup {e}
  BY <1>6, <1>f, <1>g
<1>12. g \in Heap
  BY <1>6, <1>a, <1>b, <1>c, <1>f, <1>g, <1>7, <1>8, HeapFields DEF Heap
<1>13. /\ \A x \in Elem : g.next[x] = IF x = e THEN Null ELSE IF x = t THEN e ELSE h.next[x]
       /\ \A x \in Elem : g.prev[x] = IF x = e THEN t ELSE h.prev[x]
  BY <1>h, <1>7, <1>8
<1>14. /\ g.head[l] = (IF h.head[l] = Null THEN e ELSE h.head[l])
       /\ g.tail[l] = e
       /\ g.count[l] = n + 1 /\ g.linked = h.linked \cup {e}
       /\ \A m \in List \ {l} : g.head[m] = h.head[m] /\ g.tail[m] = h.tail[m] /\ g.count[m] = h.count[m]
  BY <1>a, <1>b, <1>c, <1>h
<1>15. ASSUME NEW j \in 1 .. n + 1
       PROVE  /\ g.next[r[j]] = IF j = n + 1 THEN Null ELSE r[j + 1]
              /\ g.prev[r[j]] = IF j = 1 THEN Null ELSE r[j - 1]
  <2>1. CASE j = n + 1
    <3>1. g.next[r[j]] = Null /\ g.prev[r[j]] = t
      BY <1>4, <1>13, <2>1
    <3>2. t = IF j = 1 THEN Null ELSE r[j - 1]
      BY <1>3, <1>4, <1>5, <2>1
    <3> QED BY <2>1, <3>1, <3>2
  <2>2. CASE j # n + 1
    <3>1. j \in 1 .. n /\ r[j] = s[j] /\ s[j] \in Elem /\ s[j] # e
      BY <1>2, <1>4, <2>2
    <3>2. j # 1 => j - 1 \in 1 .. n /\ r[j - 1] = s[j - 1]
      BY <1>4, <3>1
    <3>a. /\ h.prev[s[j]] = IF j = 1 THEN Null ELSE s[j - 1]
          /\ h.next[s[j]] = IF j = n THEN Null ELSE s[j + 1]
      BY <1>3, <3>1
    <3>b. /\ g.prev[s[j]] = h.prev[s[j]]
          /\ g.next[s[j]] = IF s[j] = t THEN e ELSE h.next[s[j]]
      BY <1>13, <3>1
    <3>3. g.prev[r[j]] = IF j = 1 THEN Null ELSE r[j - 1]
      BY <3>1, <3>2, <3>a, <3>b
    <3>4. n # 0 /\ t = s[n] /\ (s[j] = t <=> j = n)
      BY <1>2, <1>3, <1>5, <3>1
    <3>5. g.next[r[j]] = IF j = n THEN e ELSE s[j + 1]
      BY <3>1, <3>4, <3>a, <3>b
    <3>6. j # n => j + 1 \in 1 .. n /\ r[j + 1] = s[j + 1]
      BY <1>4, <3>1
    <3> QED BY <1>4, <2>2, <3>3, <3>5, <3>6
  <2> QED BY <2>1, <2>2
<1>16. r[1] = IF n = 0 THEN e ELSE s[1]
  BY <1>4
<1>17. g.head[l] = r[1]
  BY <1>2, <1>3, <1>14, <1>16
<1>18. Chain(g, l, r)
  <2>1. \A i \in 1 .. Len(r) : /\ g.next[r[i]] = IF i = Len(r) THEN Null ELSE r[i + 1]
                               /\ g.prev[r[i]] = IF i = 1 THEN Null ELSE r[i - 1]
    BY <1>4, <1>15
  <2>2. g.tail[l] = r[Len(r)] /\ g.count[l] = Len(r)
    BY <1>4, <1>14
  <2> QED BY <1>4, <1>17, <2>1, <2>2 DEF Chain
<1>19. t \in Range(r) \cup {Null} /\ e \in Range(r)
  <2>1. DOMAIN r = 1 .. n + 1
    BY <1>4
  <2>2. n # 0 => \E j \in 1 .. n + 1 : t = r[j]
    BY <1>3, <1>4, <1>5
  <2>3. n = 0 => t = Null
    BY <1>3, <1>5
  <2>4. \E j \in 1 .. n + 1 : e = r[j]
    BY <1>4
  <2> QED BY <2>1, <2>2, <2>3, <2>4 DEF Range
<1>20. \A x \in Elem \ Range(r) : g.next[x] = h.next[x] /\ g.prev[x] = h.prev[x]
  BY <1>13, <1>19
<1> QED BY <1>12, <1>14, <1>18, <1>20 DEF OthersKept

\* List::prepend of an element that is on no list.
LEMMA PrependChain ==
  ASSUME NEW h \in Heap, NEW l \in List, NEW s \in Seq(Elem), IsInjective(s), Chain(h, l, s),
         NEW e \in Elem, e \notin h.linked, e \notin Range(s),
         NEW g, g = PrependOp(h, l, e),
         NEW r, Prepended(s, e, r)
  PROVE  /\ g \in Heap /\ Chain(g, l, r)
         /\ OthersKept(h, g, l, Range(r))
         /\ g.linked = h.linked \cup {e}
<1>0. Null \notin Elem
  BY ListAssumption
<1> USE <1>0
<1>1. PICK n \in Nat : n = Len(s)
  OBVIOUS
<1>2. /\ DOMAIN s = 1 .. n /\ \A i \in 1 .. n : s[i] \in Elem /\ s[i] # e
      /\ \A i, j \in 1 .. n : s[i] = s[j] => i = j
  <2>1. DOMAIN s = 1 .. n /\ \A i \in 1 .. n : s[i] \in Elem
    BY <1>1
  <2>2. \A i \in 1 .. n : s[i] # e
    BY <2>1 DEF Range
  <2> QED BY <2>1, <2>2 DEF IsInjective
<1>3. /\ h.head[l] = (IF n = 0 THEN Null ELSE s[1]) /\ h.tail[l] = (IF n = 0 THEN Null ELSE s[n])
      /\ h.count[l] = n
      /\ \A i \in 1 .. n : h.next[s[i]] = IF i = n THEN Null ELSE s[i + 1]
      /\ \A i \in 1 .. n : h.prev[s[i]] = IF i = 1 THEN Null ELSE s[i - 1]
  BY <1>1, <1>2 DEF Chain
<1>4. /\ r \in Seq(Elem) /\ Len(r) = n + 1 /\ r # <<>> /\ r[1] = e
      /\ \A j \in 1 .. n : r[j + 1] = s[j]
  BY <1>1 DEF Prepended
<1>5. PICK t \in Elem \cup {Null} : t = h.head[l]
  BY HeapFields
<1>6. g = [head |-> Store(h.head, l, e),
           tail |-> IF h.tail[l] = Null THEN Store(h.tail, l, e) ELSE h.tail,
           count |-> Store(h.count, l, n + 1),
           next |-> Store(h.next, e, t),
           prev |-> Store(Store(h.prev, t, e), e, Null),
           linked |-> h.linked \cup {e}]
  BY <1>3, <1>5 DEF PrependOp
<1>a. /\ Store(h.count, l, n + 1) \in [List -> Nat]
      /\ \A m \in List : Store(h.count, l, n + 1)[m] = IF m = l THEN n + 1 ELSE h.count[m]
  BY HeapFields DEF Store
<1>b. /\ Store(h.head, l, e) \in [List -> Elem \cup {Null}]
      /\ \A m \in List : Store(h.head, l, e)[m] = IF m = l THEN e ELSE h.head[m]
  BY HeapFields DEF Store
<1>c. /\ Store(h.tail, l, e) \in [List -> Elem \cup {Null}]
      /\ \A m \in List : Store(h.tail, l, e)[m] = IF m = l THEN e ELSE h.tail[m]
  BY HeapFields DEF Store
<1>d. /\ Store(h.prev, t, e) \in [Elem -> Elem \cup {Null}]
      /\ \A x \in Elem : Store(h.prev, t, e)[x] = IF x = t THEN e ELSE h.prev[x]
  BY HeapFields DEF Store
<1>f. PICK prev1 : prev1 = Store(Store(h.prev, t, e), e, Null)
  OBVIOUS
<1>g. PICK next1 : next1 = Store(h.next, e, t)
  OBVIOUS
<1>7. /\ prev1 \in [Elem -> Elem \cup {Null}]
      /\ \A x \in Elem : prev1[x] = IF x = e THEN Null ELSE IF x = t THEN e ELSE h.prev[x]
  BY <1>d, <1>f DEF Store
<1>8. /\ next1 \in [Elem -> Elem \cup {Null}]
      /\ \A x \in Elem : next1[x] = IF x = e THEN t ELSE h.next[x]
  BY <1>g, HeapFields DEF Store
<1>h. /\ g.tail = (IF h.tail[l] = Null THEN Store(h.tail, l, e) ELSE h.tail)
      /\ g.head = Store(h.head, l, e)
      /\ g.count = Store(h.count, l, n + 1) /\ g.next = next1 /\ g.prev = prev1
      /\ g.linked = h.linked \cup {e}
  BY <1>6, <1>f, <1>g
<1>12. g \in Heap
  BY <1>6, <1>a, <1>b, <1>c, <1>f, <1>g, <1>7, <1>8, HeapFields DEF Heap
<1>13. /\ \A x \in Elem : g.prev[x] = IF x = e THEN Null ELSE IF x = t THEN e ELSE h.prev[x]
       /\ \A x \in Elem : g.next[x] = IF x = e THEN t ELSE h.next[x]
  BY <1>h, <1>7, <1>8
<1>14. /\ g.tail[l] = (IF h.tail[l] = Null THEN e ELSE h.tail[l])
       /\ g.head[l] = e
       /\ g.count[l] = n + 1 /\ g.linked = h.linked \cup {e}
       /\ \A m \in List \ {l} : g.head[m] = h.head[m] /\ g.tail[m] = h.tail[m] /\ g.count[m] = h.count[m]
  BY <1>a, <1>b, <1>c, <1>h
<1>15. ASSUME NEW j \in 1 .. n + 1
       PROVE  /\ g.next[r[j]] = IF j = n + 1 THEN Null ELSE r[j + 1]
              /\ g.prev[r[j]] = IF j = 1 THEN Null ELSE r[j - 1]
  <2>1. CASE j = 1
    <3>1. g.next[r[j]] = t /\ g.prev[r[j]] = Null
      BY <1>4, <1>13, <2>1
    <3>2. n # 0 => 1 \in 1 .. n /\ r[j + 1] = s[1]
      BY <1>4, <2>1
    <3>3. t = IF j = n + 1 THEN Null ELSE r[j + 1]
      BY <1>3, <1>5, <2>1, <3>2
    <3> QED BY <2>1, <3>1, <3>3
  <2>2. CASE j # 1
    <3>i. PICK i \in 1 .. n : i = j - 1 /\ j = i + 1
      BY <2>2
    <3>1. r[j] = s[i] /\ s[i] \in Elem /\ s[i] # e
      BY <1>2, <1>4, <3>i
    <3>a. /\ h.prev[s[i]] = IF i = 1 THEN Null ELSE s[i - 1]
          /\ h.next[s[i]] = IF i = n THEN Null ELSE s[i + 1]
      BY <1>3, <3>1
    <3>b. /\ g.next[s[i]] = h.next[s[i]]
          /\ g.prev[s[i]] = IF s[i] = t THEN e ELSE h.prev[s[i]]
      BY <1>13, <3>1
    <3>2. i # n => i + 1 \in 1 .. n /\ r[j + 1] = s[i + 1]
      BY <1>4, <3>i
    <3>3. g.next[r[j]] = IF j = n + 1 THEN Null ELSE r[j + 1]
      BY <3>1, <3>2, <3>a, <3>b, <3>i
    <3>4. n # 0 /\ t = s[1] /\ (s[i] = t <=> i = 1)
      BY <1>2, <1>3, <1>5, <3>1
    <3>5. g.prev[r[j]] = IF i = 1 THEN e ELSE s[i - 1]
      BY <3>1, <3>4, <3>a, <3>b
    <3>6. i # 1 => i - 1 \in 1 .. n /\ r[(i - 1) + 1] = s[i - 1] /\ (i - 1) + 1 = j - 1
      BY <1>4, <3>i
    <3> QED BY <1>4, <2>2, <3>i, <3>3, <3>5, <3>6
  <2> QED BY <2>1, <2>2
<1>16. r[n + 1] = IF n = 0 THEN e ELSE s[n]
  BY <1>4
<1>17. g.tail[l] = r[n + 1]
  BY <1>2, <1>3, <1>14, <1>16
<1>18. Chain(g, l, r)
  <2>1. \A i \in 1 .. Len(r) : /\ g.next[r[i]] = IF i = Len(r) THEN Null ELSE r[i + 1]
                               /\ g.prev[r[i]] = IF i = 1 THEN Null ELSE r[i - 1]
    BY <1>4, <1>15
  <2>2. g.tail[l] = r[Len(r)] /\ g.count[l] = Len(r) /\ g.head[l] = r[1]
    BY <1>4, <1>14, <1>17
  <2> QED BY <1>4, <2>1, <2>2 DEF Chain
<1>19. t \in Range(r) \cup {Null} /\ e \in Range(r)
  <2>1. DOMAIN r = 1 .. n + 1
    BY <1>4
  <2>2. n # 0 => \E j \in 1 .. n + 1 : t = r[j]
    BY <1>3, <1>4, <1>5
  <2>3. n = 0 => t = Null
    BY <1>3, <1>5
  <2>4. \E j \in 1 .. n + 1 : e = r[j]
    BY <1>4
  <2> QED BY <2>1, <2>2, <2>3, <2>4 DEF Range
<1>20. \A x \in Elem \ Range(r) : g.next[x] = h.next[x] /\ g.prev[x] = h.prev[x]
  BY <1>13, <1>19
<1> QED BY <1>12, <1>14, <1>18, <1>20 DEF OthersKept

\* The three operations keep pointers and sequences together.
LEMMA UnlinkRepresents ==
  ASSUME NEW h \in Heap, NEW q \in [List -> Seq(Elem)], Represents(h, q),
         NEW l \in List, NEW e \in Elem, \A m \in List \ {l} : e \notin Range(q[m])
  PROVE  /\ UnlinkOp(h, l, e) \in Heap
         /\ [q EXCEPT ![l] = Unlink(q[l], e)] \in [List -> Seq(Elem)]
         /\ Represents(UnlinkOp(h, l, e), [q EXCEPT ![l] = Unlink(q[l], e)])
<1>1. /\ h.linked = Linked(q) /\ IsInjective(q[l]) /\ Chain(h, l, q[l]) /\ q[l] \in Seq(Elem)
      /\ \A m \in List \ {l} : Range(q[l]) \cap Range(q[m]) = {}
  BY DEF Represents
<1>2. CASE e \notin Range(q[l])
  <2>1. e \notin h.linked
    BY <1>1, <1>2 DEF Linked
  <2>2. UnlinkOp(h, l, e) = h /\ Unlink(q[l], e) = q[l]
    BY <2>1, <1>2 DEF UnlinkOp, Unlink
  <2>3. [q EXCEPT ![l] = Unlink(q[l], e)] = q
    BY <2>2
  <2> QED BY <2>2, <2>3
<1>3. CASE e \in Range(q[l])
  <2>1. e \in h.linked
    BY <1>1, <1>3 DEF Linked
  <2>2. PICK k \in 1 .. Len(q[l]) : q[l][k] = e
    BY <1>1, <1>3 DEF Range
  <2>3. PICK r : r = Unlink(q[l], e)
    OBVIOUS
  <2>g. PICK g : g = UnlinkOp(h, l, e)
    OBVIOUS
  <2>4. r \in Seq(Elem) /\ Range(r) = Range(q[l]) \ {e} /\ IsInjective(r)
    BY <1>1, <2>3, UnlinkProperties
  <2>5. g \in Heap /\ Chain(g, l, r) /\ OthersKept(h, g, l, Range(q[l])) /\ g.linked = h.linked \ {e}
    BY <1>1, <2>1, <2>2, <2>3, <2>g, UnlinkChain
  <2>6. \A m \in List \ {l} : Range(r) \cap Range(q[m]) = {}
    BY <1>1, <2>4
  <2>7. Range(q[l]) \subseteq h.linked
    BY <1>1 DEF Linked
  <2>8. g.linked = (h.linked \ Range(q[l])) \cup Range(r)
    BY <1>3, <2>4, <2>5, <2>7
  <2>9. OthersKept(h, g, l, Range(q[l]) \cup Range(r))
    BY <2>4, <2>5 DEF OthersKept
  <2> QED BY <2>3, <2>g, <2>4, <2>5, <2>6, <2>8, <2>9, OneListChanged
<1> QED BY <1>2, <1>3

LEMMA AppendRepresents ==
  ASSUME NEW h \in Heap, NEW q \in [List -> Seq(Elem)], Represents(h, q),
         NEW l \in List, NEW e \in Elem
  PROVE  /\ AppendOp(h, l, e) \in Heap
         /\ [q EXCEPT ![l] = AppendTo(q[l], e, Linked(q))] \in [List -> Seq(Elem)]
         /\ Represents(AppendOp(h, l, e), [q EXCEPT ![l] = AppendTo(q[l], e, Linked(q))])
<1>1. /\ h.linked = Linked(q) /\ IsInjective(q[l]) /\ Chain(h, l, q[l]) /\ q[l] \in Seq(Elem)
      /\ \A m \in List \ {l} : Range(q[l]) \cap Range(q[m]) = {}
  BY DEF Represents
<1>2. CASE e \in Linked(q)
  <2>1. AppendOp(h, l, e) = h /\ AppendTo(q[l], e, Linked(q)) = q[l]
    BY <1>1, <1>2 DEF AppendOp, AppendTo
  <2>2. [q EXCEPT ![l] = AppendTo(q[l], e, Linked(q))] = q
    BY <2>1
  <2> QED BY <2>1, <2>2
<1>3. CASE e \notin Linked(q)
  <2>1. e \notin h.linked /\ \A m \in List : e \notin Range(q[m])
    BY <1>1, <1>3 DEF Linked
  <2>3. PICK r : r = AppendTo(q[l], e, Linked(q))
    OBVIOUS
  <2>g. PICK g : g = AppendOp(h, l, e)
    OBVIOUS
  <2>4. r \in Seq(Elem) /\ Range(r) = Range(q[l]) \cup {e} /\ IsInjective(r)
    BY <1>1, <1>3, <2>1, <2>3, AppendToProperties
  <2>a. Appended(q[l], e, r)
    BY <1>1, <1>3, <2>3 DEF AppendTo, Appended
  <2>5. g \in Heap /\ Chain(g, l, r) /\ OthersKept(h, g, l, Range(r))
        /\ g.linked = h.linked \cup {e}
    <3>1. e \notin h.linked /\ e \notin Range(q[l]) /\ q[l] \in Seq(Elem)
      BY <1>1, <2>1
    <3>2. IsInjective(q[l]) /\ Chain(h, l, q[l])
      BY <1>1
    <3> QED BY <2>a, <2>g, <3>1, <3>2, AppendChain
  <2>6. \A m \in List \ {l} : Range(r) \cap Range(q[m]) = {}
    BY <1>1, <2>1, <2>4
  <2>7. Range(q[l]) \subseteq h.linked
    BY <1>1 DEF Linked
  <2>8. g.linked = (h.linked \ Range(q[l])) \cup Range(r)
    BY <2>4, <2>5, <2>7
  <2>9. OthersKept(h, g, l, Range(q[l]) \cup Range(r))
    BY <2>4, <2>5 DEF OthersKept
  <2> QED BY <2>3, <2>g, <2>4, <2>5, <2>6, <2>8, <2>9, OneListChanged
<1> QED BY <1>2, <1>3

LEMMA PrependRepresents ==
  ASSUME NEW h \in Heap, NEW q \in [List -> Seq(Elem)], Represents(h, q),
         NEW l \in List, NEW e \in Elem
  PROVE  /\ PrependOp(h, l, e) \in Heap
         /\ [q EXCEPT ![l] = PrependTo(q[l], e, Linked(q))] \in [List -> Seq(Elem)]
         /\ Represents(PrependOp(h, l, e), [q EXCEPT ![l] = PrependTo(q[l], e, Linked(q))])
<1>1. /\ h.linked = Linked(q) /\ IsInjective(q[l]) /\ Chain(h, l, q[l]) /\ q[l] \in Seq(Elem)
      /\ \A m \in List \ {l} : Range(q[l]) \cap Range(q[m]) = {}
  BY DEF Represents
<1>2. CASE e \in Linked(q)
  <2>1. PrependOp(h, l, e) = h /\ PrependTo(q[l], e, Linked(q)) = q[l]
    BY <1>1, <1>2 DEF PrependOp, PrependTo
  <2>2. [q EXCEPT ![l] = PrependTo(q[l], e, Linked(q))] = q
    BY <2>1
  <2> QED BY <2>1, <2>2
<1>3. CASE e \notin Linked(q)
  <2>1. e \notin h.linked /\ \A m \in List : e \notin Range(q[m])
    BY <1>1, <1>3 DEF Linked
  <2>3. PICK r : r = PrependTo(q[l], e, Linked(q))
    OBVIOUS
  <2>g. PICK g : g = PrependOp(h, l, e)
    OBVIOUS
  <2>4. r \in Seq(Elem) /\ Range(r) = Range(q[l]) \cup {e} /\ IsInjective(r)
    BY <1>1, <1>3, <2>1, <2>3, PrependProperties
  <2>a. Prepended(q[l], e, r)
    BY <1>1, <1>3, <2>3 DEF PrependTo, Prepended
  <2>5. g \in Heap /\ Chain(g, l, r) /\ OthersKept(h, g, l, Range(r))
        /\ g.linked = h.linked \cup {e}
    <3>1. e \notin h.linked /\ e \notin Range(q[l]) /\ q[l] \in Seq(Elem)
      BY <1>1, <2>1
    <3>2. IsInjective(q[l]) /\ Chain(h, l, q[l])
      BY <1>1
    <3> QED BY <2>a, <2>g, <3>1, <3>2, PrependChain
  <2>6. \A m \in List \ {l} : Range(r) \cap Range(q[m]) = {}
    BY <1>1, <2>1, <2>4
  <2>7. Range(q[l]) \subseteq h.linked
    BY <1>1 DEF Linked
  <2>8. g.linked = (h.linked \ Range(q[l])) \cup Range(r)
    BY <2>4, <2>5, <2>7
  <2>9. OthersKept(h, g, l, Range(q[l]) \cup Range(r))
    BY <2>4, <2>5 DEF OthersKept
  <2> QED BY <2>3, <2>g, <2>4, <2>5, <2>6, <2>8, <2>9, OneListChanged
<1> QED BY <1>2, <1>3

-------------------------------------------------------------------------------
\* One turn of a loop: it stands on an element of its list, advances to the next
\* one, and what is left to visit is the end of the list whether or not the body
\* unlinks the element.
LEMMA LoopTurn ==
  ASSUME NEW h \in Heap, NEW l \in List, NEW s \in Seq(Elem), IsInjective(s), Chain(h, l, s),
         NEW t \in Seq(Elem), t # <<>>, EndsWith(s, t)
  PROVE  /\ Head(t) \in Elem /\ Head(t) \in Range(s) /\ Tail(t) \in Seq(Elem)
         /\ h.next[Head(t)] = IF Tail(t) = <<>> THEN Null ELSE Head(Tail(t))
         /\ EndsWith(s, Tail(t)) /\ EndsWith(Unlink(s, Head(t)), Tail(t))
<1>1. PICK n \in Nat, c \in Nat : n = Len(s) /\ c = Len(t) /\ c # 0
  BY TailElements
<1>2. PICK d : d = n - c
  OBVIOUS
<1>3. d \in Nat /\ \A i \in 1 .. c : t[i] = s[i + d]
  BY <1>1, <1>2 DEF EndsWith
<1>4. PICK k \in 1 .. n : k = d + 1
  BY <1>1, <1>2, <1>3
<1>5. PICK e \in Elem : e = Head(t)
  BY TailElements
<1>6. e = t[1] /\ e = s[k]
  BY <1>1, <1>3, <1>4, <1>5
<1>7. PICK u \in Seq(Elem) : u = Tail(t)
  BY TailElements
<1>8. /\ Len(u) = c - 1 /\ \A i \in 1 .. c - 1 : u[i] = t[i + 1]
      /\ (u = <<>> <=> c = 1) /\ (u # <<>> => Head(u) = u[1])
  <2>1. Len(u) = c - 1 /\ \A i \in 1 .. c - 1 : u[i] = t[i + 1]
    BY <1>1, <1>7, TailElements
  <2>2. (u = <<>> <=> Len(u) = 0) /\ (u # <<>> => Head(u) = u[1])
    BY EmptyQueue
  <2>3. Len(u) = 0 <=> c = 1
    BY <1>1, <2>1
  <2> QED BY <2>1, <2>2, <2>3
<1>9. \A i \in 1 .. c - 1 : u[i] = s[(i + 1) + d]
  BY <1>1, <1>3, <1>8
<1>10. h.next[e] = IF k = n THEN Null ELSE s[k + 1]
  BY <1>1, <1>6 DEF Chain
<1>11. h.next[e] = IF u = <<>> THEN Null ELSE Head(u)
  BY <1>1, <1>2, <1>3, <1>4, <1>8, <1>9, <1>10
<1>12. EndsWith(s, u)
  <2>1. Len(s) - Len(u) = d + 1
    BY <1>1, <1>2, <1>8
  <2>2. ASSUME NEW i \in 1 .. Len(u) PROVE u[i] = s[i + (Len(s) - Len(u))]
    <3>a. i \in 1 .. c - 1
      BY <1>8
    <3>b. i + (d + 1) = (i + 1) + d
      BY <1>1, <1>3, <3>a
    <3>1. i \in 1 .. c - 1 /\ i + (Len(s) - Len(u)) = (i + 1) + d
      BY <3>a, <3>b, <2>1
    <3> QED BY <1>9, <3>1
  <2> QED BY <1>3, <2>1, <2>2 DEF EndsWith
<1>13. EndsWith(Unlink(s, e), u)
  <2>1. PICK r : r = Unlink(s, e)
    OBVIOUS
  <2>2. /\ Len(r) = n - 1
        /\ \A j \in 1 .. n - 1 : r[j] = IF j < k THEN s[j] ELSE s[j + 1]
    <3>1. k \in 1 .. Len(s) /\ e = s[k]
      BY <1>1, <1>6
    <3> QED BY <1>1, <2>1, <3>1, UnlinkElements
  <2>3. Len(r) - Len(u) = d
    BY <1>1, <1>2, <1>8, <2>2
  <2>4. ASSUME NEW i \in 1 .. c - 1 PROVE u[i] = r[i + d]
    <3>1. i + d \in 1 .. n - 1 /\ ~(i + d < k) /\ (i + d) + 1 = (i + 1) + d
      BY <1>1, <1>2, <1>3, <1>4
    <3> QED BY <3>1, <1>9, <2>2
  <2>5. ASSUME NEW i \in 1 .. Len(u) PROVE u[i] = r[i + (Len(r) - Len(u))]
    <3>1. i \in 1 .. c - 1
      BY <1>8
    <3> QED BY <2>3, <2>4, <3>1
  <2>6. Len(r) - Len(u) >= 0
    BY <1>3, <2>3
  <2>7. EndsWith(r, u)
    BY <2>5, <2>6 DEF EndsWith
  <2> QED BY <2>1, <2>7
<1>14. e \in Range(s)
  BY <1>1, <1>6 DEF Range
<1> QED BY <1>5, <1>7, <1>11, <1>12, <1>13, <1>14

\* The loop of a state of ListInv that stands on an element.
LEMMA OnElement ==
  ASSUME ListInv, iter \in Elem
  PROVE  /\ iter = Head(scan) /\ scan # <<>> /\ Tail(scan) \in Seq(Elem)
         /\ iter \in Range(queue[over])
         /\ heap.next[iter] = IF Tail(scan) = <<>> THEN Null ELSE Head(Tail(scan))
         /\ heap.next[iter] \in Elem \cup {Null}
         /\ EndsWith(queue[over], Tail(scan)) /\ EndsWith(Unlink(queue[over], iter), Tail(scan))
         /\ \A m \in List \ {over} : iter \notin Range(queue[m])
<1>1. /\ heap \in Heap /\ queue \in [List -> Seq(Elem)] /\ over \in List /\ scan \in Seq(Elem)
      /\ queue[over] \in Seq(Elem)
  BY DEF ListInv, TypeOK
<1>2. iter # "none" /\ iter # Null
  BY ListAssumption
<1>3. iter = Head(scan) /\ scan # <<>> /\ EndsWith(queue[over], scan)
  BY <1>2 DEF ListInv, IteratorFollowsScan, ScanIsSuffix
<1>4. /\ IsInjective(queue[over]) /\ Chain(heap, over, queue[over])
      /\ \A m \in List \ {over} : Range(queue[over]) \cap Range(queue[m]) = {}
  BY <1>1 DEF ListInv, PointersRepresentQueues, Represents
<1>5. /\ iter \in Range(queue[over]) /\ Tail(scan) \in Seq(Elem)
      /\ heap.next[iter] = IF Tail(scan) = <<>> THEN Null ELSE Head(Tail(scan))
      /\ EndsWith(queue[over], Tail(scan)) /\ EndsWith(Unlink(queue[over], iter), Tail(scan))
  BY <1>1, <1>3, <1>4, LoopTurn
<1>6. heap.next[iter] \in Elem \cup {Null}
  BY <1>1, HeapFields
<1>7. \A m \in List \ {over} : iter \notin Range(queue[m])
  BY <1>4, <1>5
<1> QED BY <1>3, <1>5, <1>6, <1>7

\* List::init leaves every list empty.
LEMMA InitKeeps == Init => ListInv
<1> SUFFICES ASSUME Init PROVE ListInv
  OBVIOUS
<1>1. heap \in Heap
  BY DEF Init, Heap
<1>2. queue \in [List -> Seq(Elem)] /\ \A l \in List : queue[l] = <<>>
  BY DEF Init
<1>3. TypeOK
  BY <1>1, <1>2 DEF Init, TypeOK
<1>4. ASSUME NEW l \in List PROVE IsInjective(queue[l]) /\ Chain(heap, l, queue[l]) /\ Range(queue[l]) = {}
  <2>1. queue[l] = <<>> /\ heap.head[l] = Null /\ heap.tail[l] = Null /\ heap.count[l] = 0
    BY <1>2 DEF Init
  <2> QED BY <2>1 DEF Chain, IsInjective, Range
<1>5. heap.linked = Linked(queue)
  BY <1>4 DEF Init, Linked
<1> QED BY <1>3, <1>4, <1>5 DEF Init, ListInv, PointersRepresentQueues, Represents, IteratorFollowsScan, ScanIsSuffix

\* An operation outside a loop.
LEMMA OutsideLoop ==
  ASSUME ListInv, iter = "none", UNCHANGED <<iter, over, scan>>,
         heap' \in Heap, queue' \in [List -> Seq(Elem)], Represents(heap', queue')
  PROVE  ListInv'
BY DEF ListInv, TypeOK, PointersRepresentQueues, IteratorFollowsScan, ScanIsSuffix

LEMMA OperationKeeps ==
  ASSUME ListInv, NEW l \in List, NEW e \in Elem,
         DoUnlink(l, e) \/ DoAppend(l, e) \/ DoPrepend(l, e)
  PROVE  ListInv'
<1>1. heap \in Heap /\ queue \in [List -> Seq(Elem)] /\ Represents(heap, queue)
  BY DEF ListInv, TypeOK, PointersRepresentQueues
<1>2. CASE DoUnlink(l, e)
  <2>1. heap' = UnlinkOp(heap, l, e) /\ queue' = [queue EXCEPT ![l] = Unlink(queue[l], e)]
        /\ \A m \in List \ {l} : e \notin Range(queue[m])
    BY <1>2 DEF DoUnlink, MayUnlink
  <2>2. heap' \in Heap /\ queue' \in [List -> Seq(Elem)] /\ Represents(heap', queue')
    BY <1>1, <2>1, UnlinkRepresents
  <2> QED BY <1>2, <2>2, OutsideLoop DEF DoUnlink
<1>3. CASE DoAppend(l, e)
  <2>1. heap' = AppendOp(heap, l, e) /\ queue' = [queue EXCEPT ![l] = AppendTo(queue[l], e, Linked(queue))]
    BY <1>3 DEF DoAppend
  <2>2. heap' \in Heap /\ queue' \in [List -> Seq(Elem)] /\ Represents(heap', queue')
    BY <1>1, <2>1, AppendRepresents
  <2> QED BY <1>3, <2>2, OutsideLoop DEF DoAppend
<1>4. CASE DoPrepend(l, e)
  <2>1. heap' = PrependOp(heap, l, e) /\ queue' = [queue EXCEPT ![l] = PrependTo(queue[l], e, Linked(queue))]
    BY <1>4 DEF DoPrepend
  <2>2. heap' \in Heap /\ queue' \in [List -> Seq(Elem)] /\ Represents(heap', queue')
    BY <1>1, <2>1, PrependRepresents
  <2> QED BY <1>4, <2>2, OutsideLoop DEF DoPrepend
<1> QED BY <1>2, <1>3, <1>4

\* Iterator: begin, advance and the end of the loop.
LEMMA IterationKeeps ==
  ASSUME ListInv, (\E l \in List : Begin(l)) \/ Pass \/ End
  PROVE  ListInv'
<1>1. /\ heap \in Heap /\ queue \in [List -> Seq(Elem)] /\ Represents(heap, queue)
      /\ over \in List /\ scan \in Seq(Elem)
  BY DEF ListInv, TypeOK, PointersRepresentQueues
<1>2. ASSUME NEW l \in List, Begin(l) PROVE ListInv'
  <2>1. iter' = heap.head[l] /\ over' = l /\ scan' = queue[l] /\ heap' = heap /\ queue' = queue
    BY <1>2 DEF Begin
  <2>2. /\ queue[l] \in Seq(Elem) /\ heap.head[l] \in Elem \cup {Null}
        /\ heap.head[l] = IF queue[l] = <<>> THEN Null ELSE Head(queue[l])
    BY <1>1, HeapFields DEF Represents, Chain
  <2>3. EndsWith(queue[l], queue[l])
    BY <2>2 DEF EndsWith
  <2>4. TypeOK'
    BY <1>1, <2>1, <2>2 DEF TypeOK
  <2> QED BY <1>1, <2>1, <2>2, <2>3, <2>4 DEF ListInv, PointersRepresentQueues, IteratorFollowsScan, ScanIsSuffix
<1>3. CASE Pass
  <2>1. iter \in Elem /\ iter' = heap.next[iter] /\ scan' = Tail(scan)
        /\ heap' = heap /\ queue' = queue /\ over' = over
    BY <1>3 DEF Pass
  <2>2. TypeOK'
    BY <1>1, <2>1, OnElement DEF TypeOK
  <2>3. IteratorFollowsScan' /\ ScanIsSuffix'
    BY <2>1, OnElement DEF IteratorFollowsScan, ScanIsSuffix
  <2> QED BY <1>1, <2>1, <2>2, <2>3 DEF ListInv, PointersRepresentQueues
<1>4. CASE End
  BY <1>4 DEF End, ListInv, TypeOK, PointersRepresentQueues, IteratorFollowsScan, ScanIsSuffix
<1> QED BY <1>2, <1>3, <1>4

\* A loop body that unlinks the element it stands on, or moves it.
LEMMA LoopBodyKeeps ==
  ASSUME ListInv, Drop \/ \E m \in List : Move(m)
  PROVE  ListInv'
<1>1. /\ heap \in Heap /\ queue \in [List -> Seq(Elem)] /\ Represents(heap, queue)
      /\ over \in List /\ scan \in Seq(Elem)
  BY DEF ListInv, TypeOK, PointersRepresentQueues
<1>2. iter \in Elem /\ iter' = heap.next[iter] /\ scan' = Tail(scan) /\ over' = over
  BY DEF Drop, Move
<1>3. /\ Tail(scan) \in Seq(Elem) /\ heap.next[iter] \in Elem \cup {Null}
      /\ heap.next[iter] = IF Tail(scan) = <<>> THEN Null ELSE Head(Tail(scan))
      /\ EndsWith(Unlink(queue[over], iter), Tail(scan))
      /\ \A m \in List \ {over} : iter \notin Range(queue[m])
  BY <1>2, OnElement
<1>4. PICK g : g = UnlinkOp(heap, over, iter)
  OBVIOUS
<1>5. PICK p : p = [queue EXCEPT ![over] = Unlink(queue[over], iter)]
  OBVIOUS
<1>6. g \in Heap /\ p \in [List -> Seq(Elem)] /\ Represents(g, p)
  BY <1>1, <1>2, <1>3, <1>4, <1>5, UnlinkRepresents
<1>7. p[over] = Unlink(queue[over], iter) /\ \A m \in List \ {over} : p[m] = queue[m]
  BY <1>1, <1>5
<1>8. heap' \in Heap /\ queue' \in [List -> Seq(Elem)] /\ Represents(heap', queue')
      /\ queue'[over] = Unlink(queue[over], iter)
  <2>1. CASE Drop
    BY <1>4, <1>5, <1>6, <1>7, <2>1 DEF Drop
  <2>2. ASSUME NEW m \in List, Move(m) PROVE <1>8!:
    <3>1. m # over /\ heap' = PrependOp(g, m, iter)
          /\ queue' = [queue EXCEPT ![over] = Unlink(queue[over], iter), ![m] = <<iter>> \o queue[m]]
      BY <1>4, <2>2 DEF Move
    <3>2. iter \notin Linked(p)
      <4>1. queue[over] \in Seq(Elem) /\ IsInjective(queue[over])
        BY <1>1 DEF Represents
      <4>2. Range(p[over]) = Range(queue[over]) \ {iter}
        BY <1>7, <4>1, UnlinkProperties
      <4>3. \A l \in List : iter \notin Range(p[l])
        BY <1>3, <1>7, <4>2
      <4> QED BY <4>3 DEF Linked
    <3>3. PICK r : r = PrependTo(p[m], iter, Linked(p))
      OBVIOUS
    <3>4. r = <<iter>> \o queue[m]
      BY <1>7, <3>1, <3>2, <3>3 DEF PrependTo
    <3>5. queue' = [p EXCEPT ![m] = r]
      BY <1>1, <1>5, <3>1, <3>4
    <3>6. heap' \in Heap /\ queue' \in [List -> Seq(Elem)] /\ Represents(heap', queue')
      <4>1. heap' = PrependOp(g, m, iter)
        BY <3>1
      <4>2. queue' = [p EXCEPT ![m] = PrependTo(p[m], iter, Linked(p))]
        BY <3>3, <3>5
      <4> QED BY <1>2, <1>6, <4>1, <4>2, PrependRepresents
    <3>7. queue'[over] = p[over]
      BY <1>1, <1>6, <3>1, <3>5
    <3> QED BY <1>7, <3>6, <3>7
  <2> QED BY <2>1, <2>2
<1>9. TypeOK'
  BY <1>1, <1>2, <1>3, <1>8 DEF TypeOK
<1>10. IteratorFollowsScan' /\ ScanIsSuffix'
  BY <1>2, <1>3, <1>8 DEF IteratorFollowsScan, ScanIsSuffix
<1> QED BY <1>8, <1>9, <1>10 DEF ListInv, PointersRepresentQueues

\* The inductive invariant of the lists.
THEOREM ListInvariant == Spec => []ListInv
<1>1. Init => ListInv
  BY InitKeeps
<1>2. ListInv /\ [Next]_vars => ListInv'
  <2> SUFFICES ASSUME ListInv, [Next]_vars PROVE ListInv'
    OBVIOUS
  <2>1. CASE UNCHANGED vars
    BY <2>1 DEF vars, ListInv, TypeOK, PointersRepresentQueues, IteratorFollowsScan, ScanIsSuffix
  <2>2. CASE Next
    BY <2>2, OperationKeeps, IterationKeeps, LoopBodyKeeps DEF Next
  <2> QED BY <2>1, <2>2
<1> QED BY <1>1, <1>2, PTL DEF Spec

\* List::append, prepend and unlink (list.hpp) implement the sequences that
\* module Scheduler computes with, for any number of lists that share their nodes.
THEOREM ListsImplementQueues == Spec => []PointersRepresentQueues
<1>1. ListInv => PointersRepresentQueues
  BY DEF ListInv
<1> QED BY <1>1, ListInvariant, PTL

\* A loop that unlinks or moves the element it stands on visits all of its list.
THEOREM LoopsVisitAll == Spec => []IteratorFollowsScan
<1>1. ListInv => IteratorFollowsScan
  BY DEF ListInv
<1> QED BY <1>1, ListInvariant, PTL

===============================================================================
