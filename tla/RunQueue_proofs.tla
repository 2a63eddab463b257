---------------------------- MODULE RunQueue_proofs ----------------------------
(***************************************************************************)
(* What the queue operations do to the set of queued elements, for queues  *)
(* of any length over any set of elements.                                 *)
(***************************************************************************)
EXTENDS RunQueue, TLAPS

\* List::prepend of an element that is on no list adds exactly that element, and
\* leaves every element of the queue at one place only.
LEMMA PrependProperties ==
  ASSUME NEW S, NEW q \in Seq(S), NEW t \in S, NEW linked,
         IsInjective(q), t \notin linked, t \notin Range(q)
  PROVE  /\ PrependTo(q, t, linked) \in Seq(S)
         /\ Range(PrependTo(q, t, linked)) = Range(q) \cup {t}
         /\ IsInjective(PrependTo(q, t, linked))
<1> DEFINE p == <<t>> \o q
<1>1. PrependTo(q, t, linked) = p
  BY DEF PrependTo
<1>2. <<t>> \in Seq(S) /\ Len(<<t>>) = 1 /\ <<t>>[1] = t
  OBVIOUS
<1>3. /\ p \in Seq(S) /\ Len(p) = Len(q) + 1
      /\ \A i \in 1 .. 1 + Len(q) : p[i] = IF i <= 1 THEN <<t>>[i] ELSE q[i - 1]
  BY <1>2
<1>4. Len(q) \in Nat /\ DOMAIN q = 1 .. Len(q) /\ DOMAIN p = 1 .. Len(q) + 1
  BY <1>3
<1>5. p[1] = t /\ \A i \in 1 .. Len(q) : p[i + 1] = q[i]
  BY <1>2, <1>3, <1>4
<1> HIDE DEF p
<1>6. Range(p) = Range(q) \cup {t}
  <2>1. ASSUME NEW x \in Range(p) PROVE x \in Range(q) \cup {t}
    <3>1. PICK i \in 1 .. Len(q) + 1 : x = p[i]
      BY <1>4 DEF Range
    <3>2. CASE i = 1
      BY <3>1, <3>2, <1>5
    <3>3. CASE i # 1
      <4>1. i - 1 \in 1 .. Len(q) /\ i = (i - 1) + 1
        BY <3>3, <1>4
      <4>2. x = q[i - 1]
        BY <3>1, <4>1, <1>5
      <4> QED BY <4>1, <4>2, <1>4 DEF Range
    <3> QED BY <3>2, <3>3
  <2>2. ASSUME NEW x \in Range(q) PROVE x \in Range(p)
    <3>1. PICK i \in 1 .. Len(q) : x = q[i]
      BY <1>4 DEF Range
    <3>2. i + 1 \in DOMAIN p /\ p[i + 1] = x
      BY <3>1, <1>4, <1>5
    <3> QED BY <3>2 DEF Range
  <2>3. t \in Range(p)
    BY <1>4, <1>5 DEF Range
  <2> QED BY <2>1, <2>2, <2>3
<1>7. IsInjective(p)
  <2> SUFFICES ASSUME NEW a \in 1 .. Len(q) + 1, NEW b \in 1 .. Len(q) + 1, p[a] = p[b]
               PROVE  a = b
    BY <1>4 DEF IsInjective
  <2>1. ASSUME NEW i \in 1 .. Len(q) + 1, i # 1
        PROVE  i - 1 \in 1 .. Len(q) /\ p[i] = q[i - 1] /\ p[i] # t
    <3>1. i - 1 \in 1 .. Len(q) /\ i = (i - 1) + 1
      BY <2>1, <1>4
    <3>2. p[i] = q[i - 1]
      BY <3>1, <1>5
    <3> QED BY <3>1, <3>2, <1>4 DEF Range
  <2>2. CASE a = 1 \/ b = 1
    BY <2>1, <2>2, <1>5
  <2>3. CASE a # 1 /\ b # 1
    <3>1. q[a - 1] = q[b - 1] /\ a - 1 \in DOMAIN q /\ b - 1 \in DOMAIN q
      BY <2>1, <2>3, <1>4
    <3>2. a - 1 = b - 1
      BY <3>1 DEF IsInjective
    <3> QED BY <3>2, <1>4
  <2> QED BY <2>2, <2>3
<1> QED BY <1>1, <1>3, <1>6, <1>7

\* List::append, likewise.
LEMMA AppendToProperties ==
  ASSUME NEW S, NEW q \in Seq(S), NEW t \in S, NEW linked,
         IsInjective(q), t \notin linked, t \notin Range(q)
  PROVE  /\ AppendTo(q, t, linked) \in Seq(S)
         /\ Range(AppendTo(q, t, linked)) = Range(q) \cup {t}
         /\ IsInjective(AppendTo(q, t, linked))
<1> DEFINE p == Append(q, t)
<1>1. AppendTo(q, t, linked) = p
  BY DEF AppendTo
<1>2. /\ p \in Seq(S) /\ Len(p) = Len(q) + 1
      /\ \A i \in 1 .. Len(q) : p[i] = q[i]
      /\ p[Len(q) + 1] = t
  OBVIOUS
<1>3. Len(q) \in Nat /\ DOMAIN q = 1 .. Len(q) /\ DOMAIN p = 1 .. Len(q) + 1
  BY <1>2
<1> HIDE DEF p
<1>4. Range(p) = Range(q) \cup {t}
  BY <1>2, <1>3 DEF Range
<1>5. IsInjective(p)
  <2> SUFFICES ASSUME NEW a \in 1 .. Len(q) + 1, NEW b \in 1 .. Len(q) + 1, p[a] = p[b]
               PROVE  a = b
    BY <1>3 DEF IsInjective
  <2>1. \A i \in 1 .. Len(q) : p[i] # t
    BY <1>2, <1>3 DEF Range
  <2>2. CASE a \in 1 .. Len(q) /\ b \in 1 .. Len(q)
    BY <2>2, <1>2, <1>3 DEF IsInjective
  <2>3. CASE ~(a \in 1 .. Len(q) /\ b \in 1 .. Len(q))
    BY <2>1, <2>3, <1>2, <1>3
  <2> QED BY <2>2, <2>3
<1> QED BY <1>1, <1>2, <1>4, <1>5

\* List::unlink removes exactly that element, from wherever it is.
LEMMA UnlinkProperties ==
  ASSUME NEW S, NEW q \in Seq(S), NEW t, IsInjective(q)
  PROVE  /\ Unlink(q, t) \in Seq(S)
         /\ Range(Unlink(q, t)) = Range(q) \ {t}
         /\ IsInjective(Unlink(q, t))
<1>1. CASE t \notin Range(q)
  BY <1>1 DEF Unlink
<1>2. CASE t \in Range(q)
  <2>1. Len(q) \in Nat /\ DOMAIN q = 1 .. Len(q) /\ \A i \in 1 .. Len(q) : q[i] \in S
    OBVIOUS
  <2> DEFINE n == Len(q) - 1
             at == CHOOSE i \in DOMAIN q : q[i] = t
             p == [j \in 1 .. n |-> IF j < at THEN q[j] ELSE q[j + 1]]
  <2>2. Unlink(q, t) = p
    BY <1>2 DEF Unlink
  <2>3. at \in 1 .. Len(q) /\ q[at] = t
    BY <1>2, <2>1 DEF Range
  <2> HIDE DEF at
  <2>4. n \in Nat /\ DOMAIN p = 1 .. n /\ \A j \in 1 .. n : p[j] \in S
    BY <2>1, <2>3
  <2>5. p \in Seq(S)
    BY <2>4 DEF p
  <2>6. \A i \in 1 .. Len(q) : i # at => q[i] # t
    BY <2>1, <2>3 DEF IsInjective
  <2>7. \A j \in 1 .. n : p[j] = IF j < at THEN q[j] ELSE q[j + 1]
    OBVIOUS
  <2> HIDE DEF p
  <2>8. Range(p) = Range(q) \ {t}
    <3>1. ASSUME NEW x \in Range(p) PROVE x \in Range(q) /\ x # t
      <4>1. PICK j \in 1 .. n : x = p[j]
        BY <2>4 DEF Range
      <4> DEFINE k == IF j < at THEN j ELSE j + 1
      <4>a. k \in 1 .. Len(q) /\ k # at
        BY <2>1, <2>3
      <4>b. x = q[k]
        BY <4>1, <2>7
      <4> HIDE DEF k
      <4>2. PICK i \in 1 .. Len(q) : i # at /\ x = q[i]
        BY <4>a, <4>b
      <4>3. x # t
        BY <4>2, <2>6
      <4>4. x \in Range(q)
        BY <4>2, <2>1 DEF Range
      <4> QED BY <4>3, <4>4
    <3>2. ASSUME NEW x \in Range(q), x # t PROVE x \in Range(p)
      <4>1. PICK i \in 1 .. Len(q) : x = q[i]
        BY <2>1 DEF Range
      <4>2. CASE i < at
        BY <4>1, <4>2, <2>1, <2>3, <2>4, <2>7 DEF Range
      <4>3. CASE i > at
        <5>1. i - 1 \in 1 .. n /\ ~(i - 1 < at) /\ (i - 1) + 1 = i
          BY <4>1, <4>3, <2>1, <2>3
        <5>2. p[i - 1] = x
          BY <5>1, <4>1, <2>7
        <5> QED BY <5>1, <5>2, <2>4 DEF Range
      <4>4. i # at
        BY <4>1, <2>3, <3>2
      <4> QED BY <4>2, <4>3, <4>4, <2>1, <2>3
    <3> QED BY <3>1, <3>2
  <2>9. IsInjective(p)
    <3> SUFFICES ASSUME NEW a \in 1 .. n, NEW b \in 1 .. n, p[a] = p[b]
                 PROVE  a = b
      BY <2>4 DEF IsInjective
    <3>1. \A i, j \in 1 .. Len(q) : q[i] = q[j] => i = j
      BY <2>1 DEF IsInjective
    <3>2. CASE a < at /\ b < at
      BY <3>1, <3>2, <2>1, <2>4, <2>7
    <3>3. CASE ~(a < at) /\ ~(b < at)
      BY <3>1, <3>3, <2>1, <2>3, <2>4, <2>7
    <3>4. CASE a < at /\ ~(b < at)
      BY <3>1, <3>4, <2>1, <2>3, <2>4, <2>7
    <3>5. CASE ~(a < at) /\ b < at
      BY <3>1, <3>5, <2>1, <2>3, <2>4, <2>7
    <3> QED BY <3>2, <3>3, <3>4, <3>5
  <2> QED BY <2>2, <2>5, <2>8, <2>9
<1> QED BY <1>1, <1>2

\* List::head is an element of the list, and the list's elements are threads.
LEMMA HeadInRange ==
  ASSUME NEW S, NEW q \in Seq(S)
  PROVE  /\ Range(q) \subseteq S
         /\ q # <<>> => Head(q) \in Range(q) /\ Head(q) \in S /\ Tail(q) \in Seq(S)
<1>1. /\ Len(q) \in Nat /\ DOMAIN q = 1 .. Len(q) /\ \A i \in 1 .. Len(q) : q[i] \in S
      /\ q # <<>> => Len(q) # 0 /\ Head(q) = q[1] /\ Tail(q) \in Seq(S)
  OBVIOUS
<1> QED BY <1>1 DEF Range

\* A queue is empty when its length is 0.
LEMMA EmptyQueue ==
  ASSUME NEW S, NEW q \in Seq(S)
  PROVE  (q = <<>> <=> Len(q) = 0) /\ Len(q) \in Nat /\ (q # <<>> => Head(q) = q[1])
OBVIOUS

\* The elements of a queue after its first one.
LEMMA TailElements ==
  ASSUME NEW S, NEW q \in Seq(S), q # <<>>
  PROVE  /\ Len(q) # 0 /\ Head(q) = q[1] /\ Head(q) \in S
         /\ Tail(q) \in Seq(S) /\ Len(Tail(q)) = Len(q) - 1
         /\ \A i \in 1 .. Len(q) - 1 : Tail(q)[i] = q[i + 1]
OBVIOUS

\* The elements List::unlink leaves, one by one.
LEMMA UnlinkElements ==
  ASSUME NEW S, NEW q \in Seq(S), IsInjective(q), NEW k \in 1 .. Len(q)
  PROVE  /\ Unlink(q, q[k]) \in Seq(S) /\ Len(Unlink(q, q[k])) = Len(q) - 1
         /\ \A j \in 1 .. Len(q) - 1 : Unlink(q, q[k])[j] = IF j < k THEN q[j] ELSE q[j + 1]
<1>1. Len(q) \in Nat /\ DOMAIN q = 1 .. Len(q) /\ \A i \in 1 .. Len(q) : q[i] \in S
  OBVIOUS
<1>2. q[k] \in Range(q)
  BY <1>1 DEF Range
<1> DEFINE at == CHOOSE i \in DOMAIN q : q[i] = q[k]
           p == [j \in 1 .. Len(q) - 1 |-> IF j < k THEN q[j] ELSE q[j + 1]]
<1>3. at \in DOMAIN q /\ q[at] = q[k]
  BY <1>1
<1>4. at = k
  BY <1>1, <1>3 DEF IsInjective
<1>5. Unlink(q, q[k]) = p
  BY <1>2, <1>4 DEF Unlink
<1>6. Len(q) - 1 \in Nat /\ \A j \in 1 .. Len(q) - 1 : p[j] \in S
  BY <1>1
<1>7. p \in Seq(S) /\ Len(p) = Len(q) - 1
  BY <1>6
<1> QED BY <1>5, <1>7

===============================================================================
