-------------------------- MODULE SelectionProofs --------------------------
(***************************************************************************)
(* What Selected returns for every sequence: the elements it is asked for, *)
(* all of them, in the order they had.  The proof is by induction on the   *)
(* length, which is put as the choice of a least number.                   *)
(***************************************************************************)
EXTENDS Selection, Integers, FiniteSetTheorems, TLAPS

-----------------------------------------------------------------------------
(* A set of natural numbers has a least one: the intervals from 0 to its   *)
(* elements are finite, and so one of them contains no other.              *)
LEMMA LeastNumber ==
    ASSUME NEW S \in SUBSET Nat, S # {}
    PROVE  \E m \in S : \A n \in S : m <= n
<1>1. PICK k \in S : TRUE
  OBVIOUS
<1> DEFINE T == {0 .. m : m \in {j \in S : j <= k}}
<1>2. T \in SUBSET FiniteSubsetsOf(0 .. k) /\ 0 .. k \in T
  <2>1. IsFiniteSet(0 .. k)
    BY FS_Interval
  <2>2. ASSUME NEW m \in Nat, m <= k
        PROVE  IsFiniteSet(0 .. m) /\ 0 .. m \subseteq 0 .. k
    BY <2>2, FS_Interval
  <2> QED
    BY <1>1, <2>2 DEF FiniteSubsetsOf
<1>3. IsWellFoundedOn(StrictSubsetOrdering(0 .. k), FiniteSubsetsOf(0 .. k))
  BY FS_Interval, FS_StrictSubsetOrderingWellFounded
<1>4. PICK x \in T : \A y \in T : <<y, x>> \notin StrictSubsetOrdering(0 .. k)
  <2> HIDE DEF T
  <2> QED
    BY <1>2, <1>3, WFMin
<1>5. PICK m \in S : m <= k /\ x = 0 .. m
  OBVIOUS
<1>6. ASSUME NEW n \in S, n < m
      PROVE  FALSE
  <2>1. 0 .. n \in T
    BY <1>5, <1>6
  <2>2. 0 .. n \subseteq 0 .. k /\ 0 .. m \subseteq 0 .. k
    BY <1>5, <1>6
  <2>3. 0 .. n \subseteq 0 .. m /\ 0 .. n # 0 .. m
    BY <1>6
  <2> QED
    BY <1>4, <1>5, <2>1, <2>2, <2>3 DEF StrictSubsetOrdering
<1> QED
  BY <1>6

(* Induction up to a bound: what holds of 0, and of each number if of the  *)
(* one before it.                                                          *)
LEMMA Induction ==
    ASSUME NEW n \in Nat, NEW P, 0 \in P,
           \A i \in 1 .. n : i - 1 \in P => i \in P
    PROVE  0 .. n \subseteq P
<1> SUFFICES ASSUME (0 .. n) \ P # {}
             PROVE  FALSE
  OBVIOUS
<1> DEFINE S == (0 .. n) \ P
<1>1. S \in SUBSET Nat /\ S # {}
  OBVIOUS
<1>2. PICK m \in S : \A k \in S : m <= k
  <2> HIDE DEF S
  <2> QED
    BY <1>1, LeastNumber
<1>3. m \in 1 .. n /\ m - 1 \in 0 .. n
  BY <1>2
<1>4. m - 1 \in P
  BY <1>2, <1>3
<1> QED
  BY <1>2, <1>3, <1>4

-----------------------------------------------------------------------------
(* One step of the loop over s, at position i, with r the list so far.     *)
Kept(s, S, i, r) == IF s[i] \in S THEN Append(r, s[i]) ELSE r

(* The lists the loop goes through, up to position n.                      *)
Loop(s, S, n, f) ==
    f = [i \in 0 .. n |-> IF i = 0 THEN <<>> ELSE Kept(s, S, i, f[i - 1])]

LEMMA LoopExists ==
    ASSUME NEW s, NEW S, NEW n \in Nat
    PROVE  \E f : Loop(s, S, n, f)
<1> DEFINE P == {i \in 0 .. n : \E f : Loop(s, S, i, f)}
<1>1. 0 \in P
  <2>1. Loop(s, S, 0, [i \in 0 .. 0 |-> <<>>])
    BY DEF Loop
  <2> QED
    BY <2>1
<1>2. ASSUME NEW m \in 1 .. n, m - 1 \in P
      PROVE  m \in P
  <2>1. PICK f : Loop(s, S, m - 1, f)
    BY <1>2
  <2> DEFINE g == [i \in 0 .. m |-> IF i = m THEN Kept(s, S, m, f[m - 1]) ELSE f[i]]
  <2>2. ASSUME NEW i \in 0 .. m
        PROVE  g[i] = IF i = 0 THEN <<>> ELSE Kept(s, S, i, g[i - 1])
    BY <2>1 DEF Loop
  <2>3. Loop(s, S, m, g)
    <3>1. g = [i \in 0 .. m |-> g[i]]
      OBVIOUS
    <3> HIDE DEF g
    <3> QED
      BY <2>2, <3>1 DEF Loop
  <2> QED
    BY <2>3
<1>3. n \in P
  <2> HIDE DEF P
  <2> QED
    BY <1>1, <1>2, Induction
<1> QED
  BY <1>3

LEMMA SelectedLoop ==
    ASSUME NEW s, NEW S, Len(s) \in Nat
    PROVE  \E f : Loop(s, S, Len(s), f) /\ Selected(s, S) = f[Len(s)]
<1> DEFINE f == CHOOSE g : Loop(s, S, Len(s), g)
<1>1. Loop(s, S, Len(s), f)
  BY LoopExists
<1>2. Selected(s, S) = f[Len(s)]
  BY DEF Selected, Loop, Kept
<1> QED
  BY <1>1, <1>2

(* e tells where each element of r was in the first n elements of s.       *)
Places(s, S, n, r, e) ==
    /\ e \in [DOMAIN r -> {i \in 1 .. n : s[i] \in S}]
    /\ \A k \in DOMAIN r : r[k] = s[e[k]]
    /\ \A k, l \in DOMAIN r : k < l => e[k] < e[l]
    /\ \A i \in 1 .. n : s[i] \in S => \E k \in DOMAIN r : e[k] = i

(* The elements of s in S, each once, in their order, and nothing else.    *)
LEMMA SelectedPlaces ==
    ASSUME NEW T, NEW s \in Seq(T), NEW S
    PROVE  LET r == Selected(s, S)
           IN /\ r \in Seq(T)
              /\ \E e : Places(s, S, Len(s), r, e)
<1>1. PICK f : Loop(s, S, Len(s), f) /\ Selected(s, S) = f[Len(s)]
  BY SelectedLoop
<1> DEFINE P == {i \in 0 .. Len(s) : f[i] \in Seq(T) /\ \E e : Places(s, S, i, f[i], e)}
<1>2. 0 \in P
  <2>1. f[0] = <<>>
    BY <1>1 DEF Loop
  <2>2. Places(s, S, 0, <<>>, <<>>)
    BY DEF Places
  <2>3. 0 \in 0 .. Len(s) /\ <<>> \in Seq(T)
    OBVIOUS
  <2> QED
    BY <2>1, <2>2, <2>3
<1>3. ASSUME NEW i \in 1 .. Len(s), i - 1 \in P
      PROVE  i \in P
  <2>1. f[i] = Kept(s, S, i, f[i - 1])
    BY <1>1 DEF Loop
  <2>2. PICK e : Places(s, S, i - 1, f[i - 1], e)
    BY <1>3
  <2> DEFINE r == f[i - 1]
  <2>3. r \in Seq(T) /\ Len(r) \in Nat /\ DOMAIN r = 1 .. Len(r)
    BY <1>3
  <2> HIDE DEF r
  <2>4. CASE s[i] \notin S
    <3>1. f[i] = r
      BY <2>1, <2>4 DEF Kept, r
    <3>2. Places(s, S, i, r, e)
      BY <2>2, <2>4 DEF Places, r
    <3> QED
      BY <2>3, <3>1, <3>2
  <2>5. CASE s[i] \in S
    <3> DEFINE q == Append(r, s[i])
               d == [k \in 1 .. Len(r) + 1 |-> IF k = Len(r) + 1 THEN i ELSE e[k]]
    <3>1. f[i] = q
      BY <2>1, <2>5 DEF Kept, r
    <3>2. /\ q \in Seq(T) /\ DOMAIN q = 1 .. Len(r) + 1
          /\ q[Len(r) + 1] = s[i]
          /\ \A k \in 1 .. Len(r) : q[k] = r[k]
      BY <2>3
    <3>3. Places(s, S, i - 1, r, e)
      BY <2>2 DEF r
    <3> HIDE DEF q
    <3>4. d \in [DOMAIN q -> {j \in 1 .. i : s[j] \in S}]
      BY <2>3, <2>5, <3>2, <3>3 DEF Places
    <3>5. \A k \in DOMAIN q : q[k] = s[d[k]]
      BY <2>3, <3>2, <3>3 DEF Places
    <3>6. \A k, l \in DOMAIN q : k < l => d[k] < d[l]
      <4>1. \A k \in 1 .. Len(r) : e[k] \in 1 .. i - 1
        BY <2>3, <3>3 DEF Places
      <4> QED
        BY <2>3, <3>2, <3>3, <4>1 DEF Places
    <3>7. \A j \in 1 .. i : s[j] \in S => \E k \in DOMAIN q : d[k] = j
      BY <2>3, <3>2, <3>3 DEF Places
    <3>8. Places(s, S, i, q, d)
      <4> HIDE DEF d
      <4> QED
        BY <3>4, <3>5, <3>6, <3>7 DEF Places
    <3> QED
      BY <3>1, <3>2, <3>8
  <2> QED
    BY <2>4, <2>5
<1>4. Len(s) \in P
  <2>1. Len(s) \in Nat /\ Len(s) \in 0 .. Len(s)
    OBVIOUS
  <2> HIDE DEF P
  <2>2. 0 .. Len(s) \subseteq P
    BY <1>2, <1>3, <2>1, Induction
  <2> QED
    BY <2>1, <2>2
<1> QED
  BY <1>1, <1>4

(* Neighbours that are both kept stay neighbours.                          *)
LEMMA NeighboursKept ==
    ASSUME NEW s, Len(s) \in Nat, DOMAIN s = 1 .. Len(s), NEW S,
           NEW r, Len(r) \in Nat, DOMAIN r = 1 .. Len(r), NEW e,
           Places(s, S, Len(s), r, e)
    PROVE  \A k, l \in DOMAIN r : e[l] = e[k] + 1 => l = k + 1
<1> SUFFICES ASSUME NEW k \in DOMAIN r, NEW l \in DOMAIN r, e[l] = e[k] + 1
             PROVE  l = k + 1
  OBVIOUS
<1>1. \A j \in DOMAIN r : e[j] \in 1 .. Len(s)
  BY DEF Places
<1>2. k < l
  BY <1>1 DEF Places
<1>3. CASE k + 1 < l
  <2>1. k + 1 \in DOMAIN r
    BY <1>3
  <2>2. e[k] < e[k + 1] /\ e[k + 1] < e[l]
    BY <1>3, <2>1 DEF Places
  <2> QED
    BY <1>1, <2>1, <2>2
<1> QED
  BY <1>2, <1>3

(* As long as nothing is left out, nothing moves.                          *)
LEMMA PrefixKept ==
    ASSUME NEW s, Len(s) \in Nat, NEW S,
           NEW r, Len(r) \in Nat, DOMAIN r = 1 .. Len(r), NEW e,
           DOMAIN s = 1 .. Len(s),
           Places(s, S, Len(s), r, e)
    PROVE  \A k \in DOMAIN r : (\A i \in 1 .. e[k] - 1 : s[i] \in S) => e[k] = k
<1>1. \A j \in DOMAIN r : e[j] \in 1 .. Len(s) /\ s[e[j]] \in S
  BY DEF Places
<1>2. \A k, l \in DOMAIN r : e[l] = e[k] + 1 => l = k + 1
  BY NeighboursKept
<1> SUFFICES ASSUME NEW k \in DOMAIN r, \A i \in 1 .. e[k] - 1 : s[i] \in S
             PROVE  e[k] = k
  OBVIOUS
<1> DEFINE n == e[k]
           P == {i \in 0 .. n : i = 0 \/ (i \in DOMAIN r /\ e[i] = i)}
<1>3. n \in Nat /\ n <= Len(s) /\ n >= 1
  BY <1>1
<1>4. \A i \in 1 .. n : s[i] \in S
  BY <1>1, <1>3
<1> HIDE DEF n
<1>5. 0 \in P
  BY <1>3
<1>6. ASSUME NEW i \in 1 .. n, i - 1 \in P
      PROVE  i \in P
  <2>1. PICK l \in DOMAIN r : e[l] = i
    <3>1. i \in 1 .. Len(s) /\ s[i] \in S
      BY <1>3, <1>4
    <3> QED
      BY <3>1 DEF Places
  <2>2. CASE i = 1
    <3>1. 1 \in DOMAIN r /\ e[1] >= 1
      BY <1>1, <2>1
    <3>2. 1 < l => e[1] < e[l]
      BY <2>1, <3>1 DEF Places
    <3>3. l = 1
      BY <1>1, <2>1, <2>2, <3>1, <3>2
    <3> QED
      BY <1>3, <2>1, <2>2, <3>3
  <2>3. CASE i # 1
    <3>1. i - 1 \in DOMAIN r /\ e[i - 1] = i - 1
      BY <1>6, <2>3
    <3>2. e[l] = e[i - 1] + 1
      BY <2>1, <3>1
    <3>3. l = (i - 1) + 1
      BY <1>2, <3>1, <3>2
    <3>4. l = i
      BY <3>3
    <3> QED
      BY <2>1, <3>4
  <2> QED
    BY <2>2, <2>3
<1>7. n \in P
  <2>1. n \in 0 .. n
    BY <1>3
  <2> HIDE DEF P
  <2>2. 0 .. n \subseteq P
    BY <1>3, <1>5, <1>6, Induction
  <2> QED
    BY <2>1, <2>2
<1>8. n \in DOMAIN r /\ e[n] = n
  BY <1>3, <1>7
<1>9. n = k
  <2>1. k < n => e[k] < e[n]
    BY <1>8 DEF Places
  <2>2. n < k => e[n] < e[k]
    BY <1>8 DEF Places
  <2>3. e[k] = n
    BY DEF n
  <2> QED
    BY <1>3, <1>8, <2>1, <2>2, <2>3
<1> QED
  BY <1>9 DEF n

(* A selection is no longer than what it was made from.                    *)
LEMMA SelectedNoLonger ==
    ASSUME NEW T, NEW s \in Seq(T), NEW S
    PROVE  Selected(s, S) \in Seq(T) /\ Len(Selected(s, S)) <= Len(s)
<1> DEFINE r == Selected(s, S)
<1>1. r \in Seq(T) /\ \E e : Places(s, S, Len(s), r, e)
  BY SelectedPlaces
<1> HIDE DEF r
<1>2. PICK e : Places(s, S, Len(s), r, e)
  BY <1>1
<1>3. Len(r) \in Nat /\ DOMAIN r = 1 .. Len(r) /\ Len(s) \in Nat
  BY <1>1
<1>4. e \in [1 .. Len(r) -> 1 .. Len(s)]
  BY <1>2, <1>3 DEF Places
<1>5. \A k, l \in 1 .. Len(r) : e[k] = e[l] => k = l
  <2>1. \A k, l \in 1 .. Len(r) : k < l => e[k] < e[l]
    BY <1>2, <1>3 DEF Places
  <2>2. \A k \in 1 .. Len(r) : e[k] \in Int
    BY <1>4
  <2> QED
    BY <2>1, <2>2
<1>6. e \in Injection(1 .. Len(r), 1 .. Len(s))
  BY <1>4, <1>5 DEF Injection, IsInjective
<1>7. /\ IsFiniteSet(1 .. Len(s)) /\ IsFiniteSet(1 .. Len(r))
      /\ Cardinality(1 .. Len(s)) = Len(s) /\ Cardinality(1 .. Len(r)) = Len(r)
  <2>1. \A n \in Nat : IsFiniteSet(1 .. n) /\ Cardinality(1 .. n) = n
    BY FS_Interval
  <2> QED
    BY <1>3, <2>1
<1>8. Cardinality(1 .. Len(r)) <= Cardinality(1 .. Len(s))
  BY <1>6, <1>7, FS_Injection
<1> QED
  BY <1>1, <1>7, <1>8 DEF r
=============================================================================
