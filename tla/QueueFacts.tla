------------------------------- MODULE QueueFacts ------------------------------
(***************************************************************************)
(* Facts about the sequences that stand for queues, and about Min, for     *)
(* every set of elements.                                                  *)
(***************************************************************************)
EXTENDS SequencesExt, FiniteSetsExt, SequenceTheorems, WellFoundedInduction,
        TLAPS

-------------------------------------------------------------------------------
(* What concatenation returns. *)
LEMMA ConcatElements ==
  ASSUME NEW S, NEW a \in Seq(S), NEW b \in Seq(S)
  PROVE  /\ a \o b \in Seq(S) /\ Len(a \o b) = Len(a) + Len(b)
         /\ \A k \in 1 .. Len(a) + Len(b) :
              (a \o b)[k] = IF k <= Len(a) THEN a[k] ELSE b[k - Len(a)]
  OBVIOUS

(* What RemoveAt returns. *)
LEMMA RemoveAtProperties ==
  ASSUME NEW S, NEW s \in Seq(S), NEW i \in DOMAIN s
  PROVE  /\ RemoveAt(s, i) \in Seq(S)
         /\ Len(RemoveAt(s, i)) = Len(s) - 1
         /\ \A k \in 1 .. Len(s) - 1 : RemoveAt(s, i)[k] = IF k < i THEN s[k] ELSE s[k + 1]
<1> DEFINE a == SubSeq(s, 1, i - 1)
           b == SubSeq(s, i + 1, Len(s))
<1>1. /\ Len(s) \in Nat /\ i \in 1 .. Len(s)
      /\ \A k \in 1 .. Len(s) : s[k] \in S
  BY LenProperties, ElementOfSeq
<1>2. /\ a \in Seq(S) /\ Len(a) = i - 1
      /\ \A k \in 1 .. i - 1 : a[k] = s[k]
  BY <1>1, SubSeqProperties
<1>3. /\ b \in Seq(S) /\ Len(b) = Len(s) - i
      /\ \A k \in 1 .. Len(s) - i : b[k] = s[i + k]
  BY <1>1, SubSeqProperties
<1>4. RemoveAt(s, i) = a \o b
  BY DEF RemoveAt
<1> HIDE DEF a, b
<1>5. /\ a \o b \in Seq(S) /\ Len(a \o b) = Len(s) - 1
      /\ \A k \in 1 .. Len(s) - 1 : (a \o b)[k] = IF k <= i - 1 THEN a[k] ELSE b[k - i + 1]
  <2>1. Len(a) + Len(b) = Len(s) - 1
    BY <1>1, <1>2, <1>3
  <2>2. /\ a \o b \in Seq(S) /\ Len(a \o b) = Len(s) - 1
        /\ \A k \in 1 .. Len(s) - 1 : (a \o b)[k] = IF k <= Len(a) THEN a[k] ELSE b[k - Len(a)]
    <3>1. a \in Seq(S) /\ b \in Seq(S)
      BY <1>2, <1>3
    <3>2. /\ a \o b \in Seq(S) /\ Len(a \o b) = Len(a) + Len(b)
          /\ \A k \in 1 .. Len(a) + Len(b) :
               (a \o b)[k] = IF k <= Len(a) THEN a[k] ELSE b[k - Len(a)]
      BY <3>1, ConcatElements, Zenon
    <3> QED BY <2>1, <3>2, Zenon
  <2>3. ASSUME NEW k \in 1 .. Len(s) - 1
        PROVE  (a \o b)[k] = IF k <= i - 1 THEN a[k] ELSE b[k - i + 1]
    <3>1. Len(a) = i - 1 /\ k - Len(a) = k - i + 1
      BY <1>1, <1>2
    <3>2. (a \o b)[k] = IF k <= Len(a) THEN a[k] ELSE b[k - Len(a)]
      BY <2>2, Zenon
    <3> QED BY <3>1, <3>2, Zenon
  <2> QED BY <2>2, <2>3, Zenon
<1>6. \A k \in 1 .. Len(s) - 1 : (a \o b)[k] = IF k < i THEN s[k] ELSE s[k + 1]
  <2> TAKE k \in 1 .. Len(s) - 1
  <2>1. CASE k < i
    BY <2>1, <1>1, <1>2, <1>5
  <2>2. CASE ~(k < i)
    <3>1. k - i + 1 \in 1 .. Len(s) - i /\ i + (k - i + 1) = k + 1
      BY <2>2, <1>1
    <3>2. b[k - i + 1] = s[i + (k - i + 1)]
      BY <3>1, <1>3
    <3>3. (a \o b)[k] = b[k - i + 1]
      BY <2>2, <1>1, <1>5
    <3>4. (a \o b)[k] = s[k + 1]
      BY <3>1, <3>2, <3>3
    <3> QED BY <2>2, <3>4
  <2> QED BY <2>1, <2>2
<1> QED BY <1>4, <1>5, <1>6

(* Min finds the smallest of some natural numbers. *)
LEMMA MinIsLeast ==
  ASSUME NEW T \in SUBSET Nat, T # {}
  PROVE  Min(T) \in T /\ \A y \in T : Min(T) <= y
<1> DEFINE less == OpToRel(<, Nat)
<1>1. \E x \in T : \A y \in T : ~(<<y, x>> \in less)
  BY NatLessThanWellFounded, WFMin, Zenon
<1>2. \A x, y \in Nat : <<y, x>> \in less <=> y < x
  BY DEF OpToRel
<1> HIDE DEF less
<1>3. PICK x \in T : \A y \in T : ~(<<y, x>> \in less)
  BY <1>1
<1>4. \A y \in T : x <= y
  <2> TAKE y \in T
  <2>1. x \in Nat /\ y \in Nat
    OBVIOUS
  <2>2. ~(y < x)
    BY <1>2, <1>3, <2>1
  <2> QED BY <2>1, <2>2
<1> QED BY <1>4 DEF Min

-------------------------------------------------------------------------------
(* The places A of s and the places B of r hold the same elements, as      *)
(* often as they occur.                                                    *)
Corresponds(s, A, r, B) ==
  /\ \A k \in B : \E x \in A : r[k] = s[x]
  /\ \A x \in A : \E k \in B : r[k] = s[x]
  /\ \A k, l \in B : k # l => \E x, y \in A : x # y /\ r[k] = s[x] /\ r[l] = s[y]

(* r holds e, and beside it what the places A of s hold.                   *)
Added(s, A, e, r) ==
  \E n \in DOMAIN r : r[n] = e /\ Corresponds(s, A, r, DOMAIN r \ {n})

(* An element is taken out. *)
LEMMA RemoveAtCorresponds ==
  ASSUME NEW S, NEW s \in Seq(S), NEW i \in DOMAIN s
  PROVE  /\ RemoveAt(s, i) \in Seq(S)
         /\ Corresponds(s, DOMAIN s \ {i}, RemoveAt(s, i), DOMAIN RemoveAt(s, i))
<1> DEFINE n == Len(s)
           r == RemoveAt(s, i)
           from(k) == IF k < i THEN k ELSE k + 1
<1>1. n \in Nat /\ DOMAIN s = 1 .. n /\ i \in 1 .. n
  BY LenProperties
<1>2. /\ r \in Seq(S) /\ Len(r) = n - 1
      /\ \A k \in 1 .. n - 1 : r[k] = IF k < i THEN s[k] ELSE s[k + 1]
  BY RemoveAtProperties
<1>3. DOMAIN r = 1 .. n - 1
  BY <1>2, LenProperties
<1> HIDE DEF n, r
<1>4. \A k \in 1 .. n - 1 : from(k) \in DOMAIN s \ {i} /\ r[k] = s[from(k)]
  BY <1>1, <1>2
<1>5. \A k, l \in 1 .. n - 1 : k # l => from(k) # from(l)
  BY <1>1
<1>6. \A x \in DOMAIN s \ {i} : \E k \in 1 .. n - 1 : from(k) = x
  <2> TAKE x \in DOMAIN s \ {i}
  <2>1. CASE x < i
    BY <1>1, <2>1
  <2>2. CASE x > i
    <3>1. x - 1 \in 1 .. n - 1 /\ from(x - 1) = x
      BY <1>1, <2>2
    <3> QED BY <3>1
  <2> QED BY <1>1, <2>1, <2>2
<1> HIDE DEF from
<1>7. \A x \in DOMAIN s \ {i} : \E k \in DOMAIN r : r[k] = s[x]
  BY <1>3, <1>4, <1>6
<1>8. Corresponds(s, DOMAIN s \ {i}, r, DOMAIN r)
  BY <1>3, <1>4, <1>5, <1>7 DEF Corresponds
<1> QED BY <1>2, <1>8 DEF r

(* One is put behind the others. *)
LEMMA AppendCorresponds ==
  ASSUME NEW S, NEW s \in Seq(S), NEW e \in S
  PROVE  Append(s, e) \in Seq(S) /\ Added(s, DOMAIN s, e, Append(s, e))
<1> DEFINE n == Len(s)
           r == Append(s, e)
<1>1. /\ n \in Nat /\ DOMAIN s = 1 .. n /\ r \in Seq(S) /\ DOMAIN r = 1 .. n + 1
      /\ \A k \in 1 .. n : r[k] = s[k]
      /\ r[n + 1] = e
  BY AppendProperties, LenProperties
<1> HIDE DEF n, r
<1>2. n + 1 \in DOMAIN r /\ DOMAIN r \ {n + 1} = 1 .. n
  BY <1>1
<1>3. Corresponds(s, DOMAIN s, r, DOMAIN r \ {n + 1})
  BY <1>1, <1>2 DEF Corresponds
<1> QED BY <1>1, <1>2, <1>3 DEF r, Added

(* One takes the place of another. *)
LEMMA ExceptCorresponds ==
  ASSUME NEW S, NEW s \in Seq(S), NEW i \in DOMAIN s, NEW e \in S
  PROVE  /\ [s EXCEPT ![i] = e] \in Seq(S)
         /\ Added(s, DOMAIN s \ {i}, e, [s EXCEPT ![i] = e])
<1> DEFINE r == [s EXCEPT ![i] = e]
<1>1. /\ r \in Seq(S) /\ DOMAIN r = DOMAIN s /\ r[i] = e
      /\ \A k \in DOMAIN s \ {i} : r[k] = s[k]
  BY ExceptSeq, LenProperties
<1> HIDE DEF r
<1>2. Corresponds(s, DOMAIN s \ {i}, r, DOMAIN s \ {i})
  BY <1>1 DEF Corresponds
<1> QED BY <1>1, <1>2 DEF r, Added

(* One takes the place of another, or the last place instead of it. *)
Moved(s, i, e, r) == r \in {[s EXCEPT ![i] = e], Append(RemoveAt(s, i), e)}

LEMMA MovedCorresponds ==
  ASSUME NEW S, NEW s \in Seq(S), NEW i \in DOMAIN s, NEW e \in S, NEW r,
         Moved(s, i, e, r)
  PROVE  r \in Seq(S) /\ Added(s, DOMAIN s \ {i}, e, r)
<1>1. CASE r = [s EXCEPT ![i] = e]
  BY <1>1, ExceptCorresponds
<1>2. CASE r = Append(RemoveAt(s, i), e)
  <2> DEFINE q == RemoveAt(s, i)
  <2>1. q \in Seq(S) /\ Corresponds(s, DOMAIN s \ {i}, q, DOMAIN q)
    BY RemoveAtCorresponds
  <2> HIDE DEF q
  <2>2. r \in Seq(S) /\ Added(q, DOMAIN q, e, r)
    BY <1>2, <2>1, AppendCorresponds DEF q
  <2>3. PICK n \in DOMAIN r : r[n] = e /\ Corresponds(q, DOMAIN q, r, DOMAIN r \ {n})
    BY <2>2 DEF Added
  <2> DEFINE A == DOMAIN s \ {i}
             B == DOMAIN r \ {n}
  <2>4. Corresponds(s, A, r, B)
    <3> HIDE DEF A, B
    <3>1. Corresponds(s, A, q, DOMAIN q) /\ Corresponds(q, DOMAIN q, r, B)
      BY <2>1, <2>3 DEF A, B
    <3>2. ASSUME NEW k \in B, NEW l \in B, k # l
          PROVE  \E x, y \in A : x # y /\ r[k] = s[x] /\ r[l] = s[y]
      <4>1. PICK x, y \in DOMAIN q : x # y /\ r[k] = q[x] /\ r[l] = q[y]
        BY <3>1, <3>2 DEF Corresponds
      <4>2. PICK u, v \in A : u # v /\ q[x] = s[u] /\ q[y] = s[v]
        BY <3>1, <4>1 DEF Corresponds
      <4> QED BY <4>1, <4>2
    <3>3. ASSUME NEW k \in B PROVE \E x \in A : r[k] = s[x]
      <4>1. PICK x \in DOMAIN q : r[k] = q[x]
        BY <3>1 DEF Corresponds
      <4>2. PICK u \in A : q[x] = s[u]
        BY <3>1, <4>1 DEF Corresponds
      <4> QED BY <4>1, <4>2
    <3>4. ASSUME NEW x \in A PROVE \E k \in B : r[k] = s[x]
      <4>1. PICK y \in DOMAIN q : q[y] = s[x]
        BY <3>1 DEF Corresponds
      <4>2. PICK k \in B : r[k] = q[y]
        BY <3>1, <4>1 DEF Corresponds
      <4> QED BY <4>1, <4>2
    <3> QED BY <3>2, <3>3, <3>4 DEF Corresponds
  <2> QED BY <2>2, <2>3, <2>4 DEF Added
<1> QED BY <1>1, <1>2 DEF Moved
===============================================================================
