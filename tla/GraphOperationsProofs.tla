------------------------ MODULE GraphOperationsProofs ------------------------
(***************************************************************************)
(* Proofs about GraphOperations: whatever sequence of calls is made, every *)
(* node of the array knows its index, the two lists that hold a connection *)
(* agree, and the counts are the lengths of the lists.                     *)
(*                                                                         *)
(* First the operations of graph.c, node.c and connection.c: each takes a  *)
(* graph whose indexes, lists and counts agree to another, for any number  *)
(* of nodes and connections.  A loop over a list is a fold.  That the      *)
(* recursive function in it exists is shown for sets of growing size; then *)
(* what each round of the loop keeps, the loop keeps.  The inductive       *)
(* invariant is Sound(g); an operation that loops is taken round by round. *)
(***************************************************************************)
EXTENDS GraphOperations, FiniteSetTheorems, SequenceTheorems, TLAPS

-----------------------------------------------------------------------------
(* Induction, and loops                                                    *)
LEMMA Smallest ==
  ASSUME NEW S \in SUBSET Nat, S # {}
  PROVE  \E m \in S : \A k \in S : m <= k
<1> DEFINE R == {p \in Nat \X Nat : p[1] < p[2]}
<1>1. IsWellFoundedOn(R, Nat)
  BY NatLessThanWellFounded DEF OpToRel
<1>2. \E m \in S : \A k \in S : <<k, m>> \notin R
  <2> HIDE DEF R
  <2> QED
    BY <1>1, WFMin
<1>3. PICK m \in S : \A k \in S : <<k, m>> \notin R
  BY <1>2
<1>4. ASSUME NEW k \in S
      PROVE  m <= k
  <2>1. <<k, m>> \notin R /\ k \in Nat /\ m \in Nat
    BY <1>3
  <2>2. ~(k < m)
    BY <2>1
  <2> QED
    BY <2>1, <2>2
<1> QED
  BY <1>4

(* A set of numbers that has 0 and, with each other, the next one up to n  *)
LEMMA UpTo ==
  ASSUME NEW n \in Nat, NEW S, 0 \in S, \A k \in 0..(n - 1) : k \in S => k + 1 \in S
  PROVE  0..n \subseteq S
<1> DEFINE Bad == {k \in 0..n : k \notin S}
<1> SUFFICES ASSUME Bad # {}
             PROVE  FALSE
  OBVIOUS
<1>1. Bad \in SUBSET Nat
  OBVIOUS
<1>2. PICK m \in Bad : \A k \in Bad : m <= k
  <2> HIDE DEF Bad
  <2> QED
    BY <1>1, Smallest
<1>3. m \in 1..n
  BY <1>2
<1>4. m - 1 \in 0..(n - 1) /\ m - 1 \in 0..n /\ ~(m <= m - 1) /\ (m - 1) + 1 = m
  BY <1>3
<1>5. m - 1 \in S
  BY <1>2, <1>4
<1> QED
  BY <1>2, <1>4, <1>5

(* A family of sets that has {} and, with a set less an element of it, the  *)
(* set                                                                     *)
LEMMA FromEmptySet ==
  ASSUME NEW D, IsFiniteSet(D), NEW pick, \A t \in SUBSET D : t # {} => pick[t] \in t,
         NEW E, {} \in E,
         \A t \in SUBSET D : t # {} /\ t \ {pick[t]} \in E => t \in E
  PROVE  SUBSET D \subseteq E
<1> DEFINE n == Cardinality(D)
           S == {k \in 0..n : \A t \in SUBSET D : Cardinality(t) = k => t \in E}
<1>1. n \in Nat /\ \A t \in SUBSET D : IsFiniteSet(t) /\ Cardinality(t) \in 0..n
  BY FS_CardinalityType, FS_Subset
<1>2. \A t \in SUBSET D : t = {} <=> Cardinality(t) = 0
  BY <1>1, FS_EmptySet
<1>3. \A t \in SUBSET D : t # {} =>
        t \ {pick[t]} \in SUBSET D /\ Cardinality(t \ {pick[t]}) = Cardinality(t) - 1
  <2> TAKE t \in SUBSET D
  <2> HAVE t # {}
  <2>1. pick[t] \in t
    OBVIOUS
  <2> QED
    BY <1>1, <2>1, FS_RemoveElement
<1> HIDE DEF n
<1>4. 0 \in S
  BY <1>1, <1>2
<1>5. ASSUME NEW k \in 0..(n - 1), k \in S
      PROVE  k + 1 \in S
  <2>1. ASSUME NEW t \in SUBSET D, Cardinality(t) = k + 1
        PROVE  t \in E
    <3>1. t # {} /\ (k + 1) - 1 = k
      BY <1>2, <2>1
    <3>2. t \ {pick[t]} \in SUBSET D /\ Cardinality(t \ {pick[t]}) = k
      BY <1>3, <2>1, <3>1
    <3>3. t \ {pick[t]} \in E
      BY <1>5, <3>2
    <3> QED
      BY <3>1, <3>3
  <2>2. k + 1 \in 0..n
    BY <1>1
  <2> QED
    BY <2>1, <2>2
<1>6. 0..n \subseteq S
  <2> HIDE DEF S
  <2> QED
    BY <1>1, <1>4, <1>5, UpTo
<1>7. \A t \in SUBSET D : Cardinality(t) \in S
  BY <1>1, <1>6
<1> QED
  BY <1>7

LEMMA Greatest ==
  ASSUME NEW n \in Nat, NEW t \in SUBSET (1..n), t # {}
  PROVE  Max(t) \in t
<1> DEFINE Below == {j \in 0..n : n - j \in t}
<1>1. Below \in SUBSET Nat
  OBVIOUS
<1>2. \A k \in t : n - k \in Below /\ n - (n - k) = k
  OBVIOUS
<1>3. PICK m \in Below : \A k \in Below : m <= k
  <2>1. Below # {}
    BY <1>2
  <2> HIDE DEF Below
  <2> QED
    BY <1>1, <2>1, Smallest
<1>4. \A k \in t : m <= n - k
  BY <1>2, <1>3
<1>5. n - m \in t /\ m \in 0..n
  BY <1>3
<1>6. \A k \in t : n - m >= k
  BY <1>4, <1>5
<1> QED
  BY <1>5, <1>6 DEF Max

(* The recursive function of a fold, that takes the elements of a set in   *)
(* the order of pick, exists                                               *)
Picks(pick, D) == \A t \in SUBSET D : t # {} => pick[t] \in t

IsFold(i, D, T, base, pick, F) ==
  /\ i \in [SUBSET D -> T]
  /\ i[{}] = base
  /\ \A t \in SUBSET D : t # {} => i[t] = F[<<pick[t], i[t \ {pick[t]}]>>]

LEMMA FoldExists ==
  ASSUME NEW D, IsFiniteSet(D), NEW T, NEW base \in T, NEW pick, Picks(pick, D),
         NEW F \in [D \X T -> T]
  PROVE  \E i : IsFold(i, D, T, base, pick, F)
<1> DEFINE Small(k) == {t \in SUBSET D : Cardinality(t) <= k}
           Exists(k) == \E i \in [Small(k) -> T] :
                          \A t \in Small(k) :
                            i[t] = IF t = {} THEN base ELSE F[<<pick[t], i[t \ {pick[t]}]>>]
           n == Cardinality(D)
           S == {k \in 0..n : Exists(k)}
<1>1. n \in Nat /\ \A t \in SUBSET D : IsFiniteSet(t) /\ Cardinality(t) \in 0..n
  BY FS_CardinalityType, FS_Subset
<1>2. \A t \in SUBSET D : t = {} <=> Cardinality(t) = 0
  BY <1>1, FS_EmptySet
<1>3. \A t \in SUBSET D : t # {} =>
        t \ {pick[t]} \in SUBSET D /\ Cardinality(t \ {pick[t]}) = Cardinality(t) - 1
  <2> TAKE t \in SUBSET D
  <2> HAVE t # {}
  <2>1. pick[t] \in t
    BY DEF Picks
  <2> QED
    BY <1>1, <2>1, FS_RemoveElement
<1> HIDE DEF n
<1>4. Exists(0)
  <2>1. Small(0) = {{}}
    BY <1>1, <1>2
  <2> HIDE DEF Small
  <2>2. [t \in Small(0) |-> base] \in [Small(0) -> T]
    OBVIOUS
  <2>3. \A t \in Small(0) : [u \in Small(0) |-> base][t] = base /\ t = {}
    BY <2>1
  <2> QED
    BY <2>2, <2>3
<1>5. ASSUME NEW k \in 0..(n - 1), Exists(k)
      PROVE  Exists(k + 1)
  <2>1. PICK i \in [Small(k) -> T] :
          \A t \in Small(k) :
            i[t] = IF t = {} THEN base ELSE F[<<pick[t], i[t \ {pick[t]}]>>]
    BY <1>5
  <2>2. Small(k) \subseteq Small(k + 1)
    BY <1>1
  <2>3. \A t \in Small(k + 1) : t # {} =>
          t \ {pick[t]} \in Small(k) /\ pick[t] \in D
    <3> TAKE t \in Small(k + 1)
    <3> HAVE t # {}
    <3>1. t \in SUBSET D /\ Cardinality(t) <= k + 1 /\ Cardinality(t) \in Nat /\ pick[t] \in t
      BY <1>1 DEF Picks
    <3>2. t \ {pick[t]} \in SUBSET D /\ Cardinality(t \ {pick[t]}) = Cardinality(t) - 1
      BY <1>3, <3>1
    <3> QED
      BY <1>1, <3>1, <3>2
  <2> DEFINE j == [t \in Small(k + 1) |->
                     IF t = {} THEN base ELSE F[<<pick[t], i[t \ {pick[t]}]>>]]
  <2> HIDE DEF Small
  <2>4. j \in [Small(k + 1) -> T]
    <3>1. \A t \in Small(k + 1) : t # {} => F[<<pick[t], i[t \ {pick[t]}]>>] \in T
      BY <2>1, <2>3
    <3> QED
      BY <3>1
  <2>5. \A t \in Small(k) : j[t] = i[t]
    BY <2>1, <2>2
  <2>6. \A t \in Small(k + 1) :
          j[t] = IF t = {} THEN base ELSE F[<<pick[t], j[t \ {pick[t]}]>>]
    BY <2>3, <2>5
  <2> HIDE DEF j
  <2> QED
    BY <2>4, <2>6
<1>6. n \in S
  <2> HIDE DEF Exists
  <2>1. 0 \in S /\ \A k \in 0..(n - 1) : k \in S => k + 1 \in S
    BY <1>1, <1>4, <1>5
  <2> HIDE DEF S
  <2>2. 0..n \subseteq S
    BY <1>1, <2>1, UpTo
  <2> QED
    BY <1>1, <2>2
<1>7. Small(n) = SUBSET D
  BY <1>1
<1> HIDE DEF Small
<1>8. PICK i \in [SUBSET D -> T] :
        \A t \in SUBSET D : i[t] = IF t = {} THEN base ELSE F[<<pick[t], i[t \ {pick[t]}]>>]
  BY <1>6, <1>7
<1>9. i[{}] = base
  BY <1>8
<1>10. \A t \in SUBSET D : t # {} => i[t] = F[<<pick[t], i[t \ {pick[t]}]>>]
  BY <1>8
<1> QED
  BY <1>8, <1>9, <1>10 DEF IsFold

(* The rounds of a fold over the positions 1..n, from the recursive        *)
(* function f                                                              *)
Folds(f, n, T, base, F) ==
  \A t \in SUBSET (1..n) :
    /\ t = {} => f[t] = base
    /\ t # {} /\ f[t \ {Max(t)}] \in T => f[t] = F[<<Max(t), f[t \ {Max(t)}]>>]

Rounds(h, n, T, base, F, last) ==
  /\ h \in [0..n -> T] /\ h[0] = base /\ h[n] = last
  /\ \A k \in 1..n : h[k] = F[<<k, h[k - 1]>>]

LEMMA FoldRounds ==
  ASSUME NEW n \in Nat, NEW T, NEW base \in T, NEW F \in [(1..n) \X T -> T],
         NEW f, Folds(f, n, T, base, F)
  PROVE  \E h : Rounds(h, n, T, base, F, f[1..n])
<1> DEFINE S == {k \in 0..n : f[1..k] \in T}
           h == [k \in 0..n |-> f[1..k]]
<1>1. f[1..0] = base
  <2>1. 1..0 = {} /\ {} \in SUBSET (1..n)
    OBVIOUS
  <2> QED
    BY <2>1 DEF Folds
<1>2. ASSUME NEW k \in 1..n
      PROVE  /\ 1..k \in SUBSET (1..n) /\ 1..k # {}
             /\ Max(1..k) = k /\ (1..k) \ {k} = 1..(k - 1)
  <2>1. k \in 1..k /\ \A j \in 1..k : k >= j
    OBVIOUS
  <2>2. Max(1..k) = k
    <3>1. \A j \in 1..k : (\A l \in 1..k : j >= l) => j = k
      BY <2>1
    <3> QED
      BY <2>1, <3>1 DEF Max
  <2> QED
    BY <2>1, <2>2
<1>3. ASSUME NEW k \in 1..n, f[1..(k - 1)] \in T
      PROVE  f[1..k] = F[<<k, f[1..(k - 1)]>>] /\ f[1..k] \in T
  <2>1. f[1..k] = F[<<k, f[1..(k - 1)]>>]
    BY <1>2, <1>3 DEF Folds
  <2> QED
    BY <1>3, <2>1
<1>4. \A k \in 0..n : f[1..k] \in T
  <2>1. 0 \in S
    BY <1>1
  <2>2. ASSUME NEW k \in 0..(n - 1), k \in S
        PROVE  k + 1 \in S
    <3>1. k + 1 \in 1..n /\ (k + 1) - 1 = k /\ k + 1 \in 0..n
      OBVIOUS
    <3>2. PICK m \in 1..n : m = k + 1
      BY <3>1
    <3>3. f[1..m] \in T
      BY <1>3, <2>2, <3>1, <3>2
    <3> QED
      BY <3>1, <3>2, <3>3
  <2> HIDE DEF S
  <2>3. 0..n \subseteq S
    BY <2>1, <2>2, UpTo
  <2> QED
    BY <2>3 DEF S
<1>5. h \in [0..n -> T] /\ h[0] = base /\ h[n] = f[1..n]
  BY <1>1, <1>4
<1>6. \A k \in 1..n : h[k] = F[<<k, h[k - 1]>>]
  <2> TAKE k \in 1..n
  <2>1. k - 1 \in 0..n /\ k \in 0..n
    OBVIOUS
  <2> QED
    BY <1>3, <1>4, <2>1
<1> HIDE DEF h
<1> QED
  BY <1>5, <1>6 DEF Rounds

Latest(n) == [t \in SUBSET (1..n) |-> Max(t)]

(* The function that picks the last position                               *)
LEMMA LoopExists ==
  ASSUME NEW n \in Nat, NEW T, NEW base \in T, NEW F \in [(1..n) \X T -> T]
  PROVE  \E i : IsFold(i, 1..n, T, base, Latest(n), F)
<1>1. IsFiniteSet(1..n)
  BY FS_Interval
<1>2. Picks(Latest(n), 1..n)
  BY Greatest DEF Picks, Latest
<1> QED
  BY <1>1, <1>2, FoldExists

-----------------------------------------------------------------------------
(* Sequences                                                               *)
LEMMA RemoveAtIs ==
  ASSUME NEW S, NEW s \in Seq(S), NEW i \in 1..Len(s)
  PROVE  /\ RemoveAt(s, i) \in Seq(S)
         /\ Len(RemoveAt(s, i)) = Len(s) - 1
         /\ \A k \in 1..(Len(s) - 1) : RemoveAt(s, i)[k] = IF k < i THEN s[k] ELSE s[k + 1]
<1>1. PICK n \in Nat : n = Len(s)
  BY LenProperties
<1>2. i \in 1..n /\ i - 1 \in Int /\ i + 1 \in Int /\ n \in Int /\ 1 \in Int
  BY <1>1
<1>3. \A k \in 1..n : s[k] \in S
  BY <1>1, ElementOfSeq
<1> DEFINE a == SubSeq(s, 1, i - 1)
           b == SubSeq(s, i + 1, n)
<1>4. a \in Seq(S) /\ Len(a) = i - 1 /\ \A k \in 1..(i - 1) : a[k] = s[k]
  <2>1. \A k \in 1..(i - 1) : s[k] \in S
    BY <1>2, <1>3
  <2>2. /\ a \in Seq(S) /\ Len(a) = IF 1 <= i - 1 THEN (i - 1) - 1 + 1 ELSE 0
        /\ \A k \in 1..((i - 1) - 1 + 1) : a[k] = s[1 + k - 1]
    BY <1>2, <2>1, SubSeqProperties
  <2> QED
    BY <1>2, <2>2
<1>5. b \in Seq(S) /\ Len(b) = n - i /\ \A k \in 1..(n - i) : b[k] = s[k + i]
  <2>1. \A k \in (i + 1)..n : s[k] \in S
    BY <1>2, <1>3
  <2>2. /\ b \in Seq(S) /\ Len(b) = IF i + 1 <= n THEN n - (i + 1) + 1 ELSE 0
        /\ \A k \in 1..(n - (i + 1) + 1) : b[k] = s[(i + 1) + k - 1]
    BY <1>2, <2>1, SubSeqProperties
  <2>3. n - (i + 1) + 1 = n - i /\ \A k \in 1..(n - i) : (i + 1) + k - 1 = k + i
    BY <1>2
  <2> QED
    BY <1>2, <2>2, <2>3
<1>6. RemoveAt(s, i) = a \o b
  BY <1>1 DEF RemoveAt
<1> HIDE DEF a, b
<1>7. /\ a \o b \in Seq(S) /\ Len(a \o b) = Len(a) + Len(b)
      /\ \A k \in 1..(Len(a) + Len(b)) :
           (a \o b)[k] = IF k <= Len(a) THEN a[k] ELSE b[k - Len(a)]
  BY <1>4, <1>5, ConcatProperties
<1>8. (i - 1) + (n - i) = n - 1
  BY <1>2
<1>9. \A k \in 1..(n - 1) :
        (a \o b)[k] = IF k <= i - 1 THEN a[k] ELSE b[k - (i - 1)]
  BY <1>4, <1>5, <1>7, <1>8
<1>10. ASSUME NEW k \in 1..(n - 1)
       PROVE  (a \o b)[k] = IF k < i THEN s[k] ELSE s[k + 1]
  <2>1. CASE k < i
    <3>1. k <= i - 1 /\ k \in 1..(i - 1)
      BY <1>2, <2>1
    <3> QED
      BY <1>4, <1>9, <2>1, <3>1
  <2>2. CASE ~(k < i)
    <3>1. ~(k <= i - 1) /\ k - (i - 1) \in 1..(n - i) /\ (k - (i - 1)) + i = k + 1
      BY <1>2, <2>2
    <3> QED
      BY <1>5, <1>9, <2>2, <3>1
  <2> QED
    BY <2>1, <2>2
<1>11. Len(a \o b) = n - 1
  BY <1>4, <1>5, <1>7, <1>8
<1> QED
  BY <1>1, <1>6, <1>7, <1>10, <1>11

LEMMA InsertAtIs ==
  ASSUME NEW S, NEW s \in Seq(S), NEW i \in 1..(Len(s) + 1), NEW e \in S
  PROVE  /\ InsertAt(s, i, e) \in Seq(S)
         /\ Len(InsertAt(s, i, e)) = Len(s) + 1
         /\ \A k \in 1..(Len(s) + 1) :
              InsertAt(s, i, e)[k] = IF k < i THEN s[k] ELSE IF k = i THEN e ELSE s[k - 1]
<1>1. PICK n \in Nat : n = Len(s)
  BY LenProperties
<1>2. i \in 1..(n + 1) /\ i - 1 \in Int /\ i \in Int /\ n \in Int /\ 1 \in Int
  BY <1>1
<1>3. \A k \in 1..n : s[k] \in S
  BY <1>1, ElementOfSeq
<1> DEFINE a == SubSeq(s, 1, i - 1)
           b == SubSeq(s, i, n)
           c == a \o <<e>>
<1>4. a \in Seq(S) /\ Len(a) = i - 1 /\ \A k \in 1..(i - 1) : a[k] = s[k]
  <2>1. \A k \in 1..(i - 1) : s[k] \in S
    BY <1>2, <1>3
  <2>2. /\ a \in Seq(S) /\ Len(a) = IF 1 <= i - 1 THEN (i - 1) - 1 + 1 ELSE 0
        /\ \A k \in 1..((i - 1) - 1 + 1) : a[k] = s[1 + k - 1]
    BY <1>2, <2>1, SubSeqProperties
  <2> QED
    BY <1>2, <2>2
<1>5. b \in Seq(S) /\ Len(b) = n - i + 1 /\ \A k \in 1..(n - i + 1) : b[k] = s[i + k - 1]
  <2>1. \A k \in i..n : s[k] \in S
    BY <1>2, <1>3
  <2>2. /\ b \in Seq(S) /\ Len(b) = IF i <= n THEN n - i + 1 ELSE 0
        /\ \A k \in 1..(n - i + 1) : b[k] = s[i + k - 1]
    BY <1>2, <2>1, SubSeqProperties
  <2> QED
    BY <1>2, <2>2
<1>6. InsertAt(s, i, e) = c \o b
  BY <1>1 DEF InsertAt
<1> HIDE DEF a, b
<1>7. <<e>> \in Seq(S) /\ Len(<<e>>) = 1 /\ <<e>>[1] = e
  OBVIOUS
<1>8. c \in Seq(S) /\ Len(c) = i /\ \A k \in 1..i : c[k] = IF k < i THEN s[k] ELSE e
  <2>1. /\ a \o <<e>> \in Seq(S) /\ Len(a \o <<e>>) = Len(a) + Len(<<e>>)
        /\ \A k \in 1..(Len(a) + Len(<<e>>)) :
             (a \o <<e>>)[k] = IF k <= Len(a) THEN a[k] ELSE <<e>>[k - Len(a)]
    BY <1>4, <1>7, ConcatProperties
  <2>2. (i - 1) + 1 = i /\ i - (i - 1) = 1
    BY <1>2
  <2>3. \A k \in 1..i : (k <= i - 1 /\ k < i /\ k \in 1..(i - 1)) \/ (k = i /\ ~(k <= i - 1))
    BY <1>2
  <2>4. Len(a \o <<e>>) = i /\ \A k \in 1..i :
             (a \o <<e>>)[k] = IF k <= i - 1 THEN a[k] ELSE <<e>>[k - (i - 1)]
    BY <1>4, <1>7, <2>1, <2>2
  <2>5. ASSUME NEW k \in 1..i
        PROVE  (a \o <<e>>)[k] = IF k < i THEN s[k] ELSE e
    BY <1>4, <1>7, <2>2, <2>3, <2>4
  <2> QED
    BY <2>1, <2>4, <2>5
<1> HIDE DEF c
<1>9. /\ c \o b \in Seq(S) /\ Len(c \o b) = Len(c) + Len(b)
      /\ \A k \in 1..(Len(c) + Len(b)) :
           (c \o b)[k] = IF k <= Len(c) THEN c[k] ELSE b[k - Len(c)]
  BY <1>5, <1>8, ConcatProperties
<1>10. i + (n - i + 1) = n + 1
  BY <1>2
<1>11. Len(c \o b) = n + 1
       /\ \A k \in 1..(n + 1) : (c \o b)[k] = IF k <= i THEN c[k] ELSE b[k - i]
  BY <1>5, <1>8, <1>9, <1>10
<1>12. ASSUME NEW k \in 1..(n + 1)
       PROVE  (c \o b)[k] = IF k < i THEN s[k] ELSE IF k = i THEN e ELSE s[k - 1]
  <2>1. CASE k <= i
    <3>1. k \in 1..i /\ (k = i <=> ~(k < i))
      BY <1>2, <2>1
    <3> QED
      BY <1>8, <1>11, <2>1, <3>1
  <2>2. CASE ~(k <= i)
    <3>1. k - i \in 1..(n - i + 1) /\ i + (k - i) - 1 = k - 1 /\ ~(k < i) /\ k # i
      BY <1>2, <2>2
    <3> QED
      BY <1>5, <1>11, <2>2, <3>1
  <2> QED
    BY <2>1, <2>2
<1> QED
  BY <1>1, <1>6, <1>9, <1>11, <1>12

LEMMA ConsIs ==
  ASSUME NEW S, NEW s \in Seq(S), NEW e \in S
  PROVE  /\ Cons(e, s) \in Seq(S)
         /\ Len(Cons(e, s)) = Len(s) + 1
         /\ Cons(e, s)[1] = e
         /\ \A k \in 1..Len(s) : Cons(e, s)[k + 1] = s[k]
<1>1. PICK n \in Nat : n = Len(s)
  BY LenProperties
<1>2. <<e>> \in Seq(S) /\ Len(<<e>>) = 1 /\ <<e>>[1] = e
  OBVIOUS
<1>3. /\ <<e>> \o s \in Seq(S) /\ Len(<<e>> \o s) = Len(<<e>>) + Len(s)
      /\ \A k \in 1..(Len(<<e>>) + Len(s)) :
           (<<e>> \o s)[k] = IF k <= Len(<<e>>) THEN <<e>>[k] ELSE s[k - Len(<<e>>)]
  BY <1>2, ConcatProperties
<1>4. /\ Len(<<e>> \o s) = n + 1
      /\ \A k \in 1..(n + 1) : (<<e>> \o s)[k] = IF k <= 1 THEN <<e>>[k] ELSE s[k - 1]
  BY <1>1, <1>2, <1>3
<1>5. (<<e>> \o s)[1] = e
  BY <1>2, <1>4
<1>6. \A k \in 1..n : (<<e>> \o s)[k + 1] = s[k]
  <2> TAKE k \in 1..n
  <2>1. k + 1 \in 1..(n + 1) /\ ~(k + 1 <= 1) /\ (k + 1) - 1 = k
    BY <1>1
  <2> QED
    BY <1>4, <2>1
<1> QED
  BY <1>1, <1>3, <1>4, <1>5, <1>6 DEF Cons

LEMMA SequenceIs ==
  ASSUME NEW S, NEW s \in Seq(S)
  PROVE  Len(s) \in Nat /\ DOMAIN s = 1..Len(s) /\ \A k \in 1..Len(s) : s[k] \in S
<1>1. Len(s) \in Nat /\ DOMAIN s = 1..Len(s)
  BY LenProperties
<1>2. \A k \in 1..Len(s) : s[k] \in S
  BY ElementOfSeq
<1> QED
  BY <1>1, <1>2

LEMMA OccurrencesAre ==
  ASSUME NEW S, NEW s \in Seq(S), NEW v
  PROVE  /\ Occurrences(s, v) = Cardinality({k \in 1..Len(s) : s[k] = v})
         /\ IsFiniteSet({k \in 1..Len(s) : s[k] = v})
         /\ Occurrences(s, v) \in Nat
         /\ Contains(s, v) <=> Occurrences(s, v) # 0
         /\ Contains(s, v) <=> v \in ToSet(s)
<1> DEFINE A == {k \in 1..Len(s) : s[k] = v}
<1>1. Len(s) \in Nat /\ DOMAIN s = 1..Len(s)
  BY LenProperties
<1>2. Occurrences(s, v) = Cardinality(A)
  BY <1>1 DEF Occurrences
<1>3. IsFiniteSet(A)
  <2>1. IsFiniteSet(1..Len(s))
    BY <1>1, FS_Interval
  <2>2. A \in SUBSET (1..Len(s))
    OBVIOUS
  <2> QED
    BY <2>1, <2>2, FS_Subset
<1>4. Cardinality(A) \in Nat /\ (Cardinality(A) = 0 <=> A = {})
  BY <1>3, FS_CardinalityType, FS_EmptySet
<1>5. Contains(s, v) <=> A # {}
  BY DEF Contains
<1>6. Contains(s, v) <=> v \in ToSet(s)
  BY <1>1 DEF Contains, ToSet
<1> QED
  BY <1>2, <1>3, <1>4, <1>5, <1>6

(* A removal takes away one occurrence                                     *)
LEMMA OccurrencesWithout ==
  ASSUME NEW S, NEW s \in Seq(S), NEW i \in 1..Len(s), NEW v
  PROVE  Occurrences(RemoveAt(s, i), v)
           = Occurrences(s, v) - (IF s[i] = v THEN 1 ELSE 0)
<1>1. PICK n \in Nat : n = Len(s)
  BY LenProperties
<1>2. PICK r : r = RemoveAt(s, i)
  OBVIOUS
<1>3. /\ r \in Seq(S) /\ Len(r) = n - 1
      /\ \A k \in 1..(n - 1) : r[k] = IF k < i THEN s[k] ELSE s[k + 1]
  BY <1>1, <1>2, RemoveAtIs
<1>4. i \in 1..n
  BY <1>1
<1> DEFINE A == {k \in 1..n : s[k] = v}
           B == {k \in 1..(n - 1) : r[k] = v}
           C == A \ {i}
           f == [k \in B |-> IF k < i THEN k ELSE k + 1]
<1>5. /\ Occurrences(s, v) = Cardinality(A) /\ IsFiniteSet(A)
      /\ Occurrences(r, v) = Cardinality(B) /\ IsFiniteSet(B)
  BY <1>1, <1>3, OccurrencesAre
<1>6. f \in Bijection(B, C)
  <2>1. \A k \in B : f[k] \in C
    <3> TAKE k \in B
    <3>1. k \in 1..(n - 1) /\ r[k] = v /\ f[k] = IF k < i THEN k ELSE k + 1
      OBVIOUS
    <3>2. CASE k < i
      <4>1. k \in 1..n /\ k # i
        BY <1>4, <3>1, <3>2
      <4> QED
        BY <1>3, <3>1, <3>2, <4>1
    <3>3. CASE ~(k < i)
      <4>1. k + 1 \in 1..n /\ k + 1 # i
        BY <1>4, <3>1, <3>3
      <4> QED
        BY <1>3, <3>1, <3>3, <4>1
    <3> QED
      BY <3>2, <3>3
  <2>2. \A k, l \in B : f[k] = f[l] => k = l
    <3> SUFFICES ASSUME NEW k \in B, NEW l \in B, f[k] = f[l]
                 PROVE  k = l
      OBVIOUS
    <3>1. k \in Int /\ l \in Int /\ i \in Int
      BY <1>4
    <3>2. (IF k < i THEN k ELSE k + 1) = (IF l < i THEN l ELSE l + 1)
      OBVIOUS
    <3> QED
      BY <3>1, <3>2
  <2>3. \A l \in C : \E k \in B : f[k] = l
    <3> TAKE l \in C
    <3>1. l \in 1..n /\ s[l] = v /\ l # i
      OBVIOUS
    <3>2. CASE l < i
      <4>1. l \in 1..(n - 1)
        BY <1>4, <3>1, <3>2
      <4>2. l \in B /\ f[l] = l
        BY <1>3, <3>1, <3>2, <4>1
      <4> QED
        BY <4>2
    <3>3. CASE ~(l < i)
      <4>1. l - 1 \in 1..(n - 1) /\ ~(l - 1 < i) /\ (l - 1) + 1 = l
        BY <1>4, <3>1, <3>3
      <4>2. l - 1 \in B /\ f[l - 1] = l
        BY <1>3, <3>1, <4>1
      <4> QED
        BY <4>2
    <3> QED
      BY <3>2, <3>3
  <2> HIDE DEF B, C
  <2>4. f \in [B -> C]
    BY <2>1
  <2> HIDE DEF f
  <2> QED
    BY <2>2, <2>3, <2>4 DEF Bijection, Injection, Surjection, IsInjective
<1> HIDE DEF f
<1>7. Cardinality(C) = Cardinality(B)
  BY <1>5, <1>6, FS_Bijection DEF ExistsBijection
<1>8. Cardinality(C) = IF i \in A THEN Cardinality(A) - 1 ELSE Cardinality(A)
  BY <1>5, FS_RemoveElement
<1>9. i \in A <=> s[i] = v
  BY <1>4
<1>10. Cardinality(A) \in Nat
  BY <1>5, FS_CardinalityType
<1> HIDE DEF A, B, C
<1> QED
  BY <1>2, <1>5, <1>7, <1>8, <1>9, <1>10

LEMMA OccurrencesWith ==
  ASSUME NEW S, NEW s \in Seq(S), NEW e \in S, NEW v
  PROVE  Occurrences(Cons(e, s), v) = Occurrences(s, v) + (IF e = v THEN 1 ELSE 0)
<1>1. PICK n \in Nat : n = Len(s)
  BY LenProperties
<1>2. PICK r : r = Cons(e, s)
  OBVIOUS
<1>3. /\ r \in Seq(S) /\ Len(r) = n + 1 /\ r[1] = e
      /\ \A k \in 1..n : r[k + 1] = s[k]
  <2>1. /\ Cons(e, s) \in Seq(S) /\ Len(Cons(e, s)) = Len(s) + 1 /\ Cons(e, s)[1] = e
        /\ \A k \in 1..Len(s) : Cons(e, s)[k + 1] = s[k]
    BY ConsIs
  <2> QED
    BY <1>1, <1>2, <2>1
<1>4. 1 \in 1..(n + 1)
  OBVIOUS
<1>5. RemoveAt(r, 1) = s
  <2>1. /\ RemoveAt(r, 1) \in Seq(S) /\ Len(RemoveAt(r, 1)) = (n + 1) - 1
        /\ \A k \in 1..((n + 1) - 1) :
             RemoveAt(r, 1)[k] = IF k < 1 THEN r[k] ELSE r[k + 1]
    BY <1>3, <1>4, RemoveAtIs
  <2>2. Len(RemoveAt(r, 1)) = n /\ \A k \in 1..n : RemoveAt(r, 1)[k] = s[k]
    BY <1>3, <2>1
  <2> QED
    BY <1>1, <2>1, <2>2, SeqEqual
<1>6. Occurrences(s, v) = Occurrences(r, v) - (IF e = v THEN 1 ELSE 0)
  BY <1>3, <1>4, <1>5, OccurrencesWithout
<1>7. Occurrences(r, v) \in Nat
  BY <1>3, OccurrencesAre
<1> QED
  BY <1>2, <1>6, <1>7

LEMMA OccurrencesReversed ==
  ASSUME NEW S, NEW s \in Seq(S), NEW v
  PROVE  Reverse(s) \in Seq(S) /\ Occurrences(Reverse(s), v) = Occurrences(s, v)
<1>1. PICK n \in Nat : n = Len(s)
  BY LenProperties
<1>2. PICK r : r = Reverse(s)
  OBVIOUS
<1>3. r = [k \in 1..n |-> s[(n - k) + 1]]
  BY <1>1, <1>2 DEF Reverse
<1>4. \A k \in 1..n : (n - k) + 1 \in 1..n /\ (n - ((n - k) + 1)) + 1 = k
  OBVIOUS
<1>5. r \in Seq(S) /\ Len(r) = n
  <2>1. \A k \in 1..n : s[(n - k) + 1] \in S
    BY <1>1, <1>4, ElementOfSeq
  <2>2. r \in [1..n -> S]
    BY <1>3, <2>1
  <2>3. r \in Seq(S)
    BY <2>2, SeqDef
  <2> QED
    BY <1>3, <2>3, LenProperties
<1> DEFINE A == {k \in 1..n : s[k] = v}
           B == {k \in 1..n : r[k] = v}
           f == [k \in B |-> (n - k) + 1]
<1>6. /\ Occurrences(s, v) = Cardinality(A) /\ IsFiniteSet(A)
      /\ Occurrences(r, v) = Cardinality(B) /\ IsFiniteSet(B)
  BY <1>1, <1>5, OccurrencesAre
<1>7. f \in Bijection(B, A)
  <2>1. \A k \in B : f[k] \in A
    BY <1>3, <1>4
  <2>2. \A k, l \in B : f[k] = f[l] => k = l
    <3> SUFFICES ASSUME NEW k \in B, NEW l \in B, f[k] = f[l]
                 PROVE  k = l
      OBVIOUS
    <3>1. k \in Int /\ l \in Int /\ (n - k) + 1 = (n - l) + 1
      OBVIOUS
    <3> QED
      BY <3>1
  <2>3. \A l \in A : \E k \in B : f[k] = l
    <3> TAKE l \in A
    <3>1. (n - l) + 1 \in 1..n /\ (n - ((n - l) + 1)) + 1 = l /\ s[l] = v
      BY <1>4
    <3>2. r[(n - l) + 1] = v
      BY <1>3, <3>1
    <3>3. (n - l) + 1 \in B /\ f[(n - l) + 1] = l
      BY <3>1, <3>2
    <3> QED
      BY <3>3
  <2> HIDE DEF A, B
  <2>4. f \in [B -> A]
    BY <2>1
  <2> HIDE DEF f
  <2> QED
    BY <2>2, <2>3, <2>4 DEF Bijection, Injection, Surjection, IsInjective
<1> HIDE DEF f
<1>8. Cardinality(A) = Cardinality(B)
  BY <1>6, <1>7, FS_Bijection DEF ExistsBijection
<1> HIDE DEF A, B
<1> QED
  BY <1>2, <1>5, <1>6, <1>8

(* What a list loses with its first match                                  *)
LEMMA RemoveFirstIs ==
  ASSUME NEW S, NEW s \in Seq(S), NEW v
  PROVE  /\ RemoveFirst(s, v) \in Seq(S)
         /\ Contains(s, v) =>
              /\ Len(RemoveFirst(s, v)) = Len(s) - 1
              /\ \A w : Occurrences(RemoveFirst(s, v), w)
                          = Occurrences(s, w) - (IF v = w THEN 1 ELSE 0)
              /\ \E i \in 1..Len(s) :
                   /\ RemoveFirst(s, v) = RemoveAt(s, i) /\ s[i] = v
                   /\ \A j \in 1..Len(s) : s[j] = v => i <= j
         /\ ~Contains(s, v) => RemoveFirst(s, v) = s
<1>1. PICK n \in Nat : n = Len(s)
  BY LenProperties
<1>2. CASE Contains(s, v)
  <2> DEFINE I == {i \in 1..n : s[i] = v}
  <2>1. I # {} /\ I \in SUBSET Nat
    BY <1>1, <1>2 DEF Contains
  <2>2. RemoveFirst(s, v) = RemoveAt(s, IF I # {} THEN Min(I) ELSE 0)
    BY <1>1, <1>2 DEF RemoveFirst, SelectInSeq, Contains
  <2>3. PICK i \in I : \A j \in I : i <= j
    <3> HIDE DEF I
    <3> QED
      BY <2>1, Smallest
  <2>4. Min(I) = i
    <3>1. \A k \in I : (\A j \in I : k <= j) => k = i
      BY <2>3
    <3> HIDE DEF I
    <3> QED
      BY <2>3, <3>1 DEF Min
  <2>5. RemoveFirst(s, v) = RemoveAt(s, i) /\ i \in 1..n /\ s[i] = v
    <3> HIDE DEF I
    <3>1. RemoveFirst(s, v) = RemoveAt(s, i)
      BY <2>1, <2>2, <2>4
    <3> QED
      BY <3>1 DEF I
  <2>6. \A j \in 1..n : s[j] = v => i <= j
    BY <2>3
  <2>7. RemoveAt(s, i) \in Seq(S) /\ Len(RemoveAt(s, i)) = Len(s) - 1
    BY <1>1, <2>5, RemoveAtIs
  <2>8. \A w : Occurrences(RemoveAt(s, i), w) = Occurrences(s, w) - (IF v = w THEN 1 ELSE 0)
    BY <1>1, <2>5, OccurrencesWithout
  <2> QED
    BY <1>1, <1>2, <2>5, <2>6, <2>7, <2>8
<1>3. CASE ~Contains(s, v)
  BY <1>3 DEF RemoveFirst, Contains
<1> QED
  BY <1>2, <1>3

LEMMA RemoveRoot ==
  ASSUME NEW S, NEW s \in Seq(S), NEW k \in 1..Len(s)
  PROVE  RemoveFirst(SubSeq(s, k, Len(s)), s[k]) = SubSeq(s, k + 1, Len(s))
<1>1. PICK n \in Nat : n = Len(s)
  BY LenProperties
<1>2. k \in 1..n /\ k \in Int /\ n \in Int /\ k + 1 \in Int
  BY <1>1
<1>3. \A j \in 1..n : s[j] \in S
  BY <1>1, ElementOfSeq
<1>4. PICK r : r = SubSeq(s, k, n)
  OBVIOUS
<1>5. r \in Seq(S) /\ Len(r) = n - k + 1 /\ \A j \in 1..(n - k + 1) : r[j] = s[k + j - 1]
  <2>1. \A j \in k..n : s[j] \in S
    BY <1>2, <1>3
  <2>2. k <= n
    BY <1>2
  <2>3. /\ SubSeq(s, k, n) \in Seq(S)
        /\ Len(SubSeq(s, k, n)) = IF k <= n THEN n - k + 1 ELSE 0
        /\ \A j \in 1..(n - k + 1) : SubSeq(s, k, n)[j] = s[k + j - 1]
    BY <1>2, <2>1, SubSeqProperties
  <2> QED
    BY <1>4, <2>2, <2>3
<1>6. PICK t : t = SubSeq(s, k + 1, n)
  OBVIOUS
<1>7. t \in Seq(S) /\ Len(t) = n - k /\ \A j \in 1..(n - k) : t[j] = s[k + j]
  <2>1. \A j \in (k + 1)..n : s[j] \in S
    BY <1>2, <1>3
  <2>2. n - (k + 1) + 1 = n - k /\ \A j \in 1..(n - k) : (k + 1) + j - 1 = k + j
    BY <1>2
  <2>3. /\ SubSeq(s, k + 1, n) \in Seq(S)
        /\ Len(SubSeq(s, k + 1, n)) = IF k + 1 <= n THEN n - (k + 1) + 1 ELSE 0
        /\ \A j \in 1..(n - (k + 1) + 1) : SubSeq(s, k + 1, n)[j] = s[(k + 1) + j - 1]
    BY <1>2, <2>1, SubSeqProperties
  <2>4. Len(t) = n - k
    BY <1>2, <1>6, <2>3
  <2> QED
    BY <1>6, <2>2, <2>3, <2>4
<1>8. 1 \in 1..Len(r) /\ r[1] = s[k]
  <2>1. 1 \in 1..(n - k + 1) /\ k + 1 - 1 = k
    BY <1>2
  <2> QED
    BY <1>5, <2>1
<1>9. Contains(r, s[k])
  BY <1>8 DEF Contains
<1>10. PICK i \in 1..Len(r) :
         /\ RemoveFirst(r, s[k]) = RemoveAt(r, i)
         /\ \A j \in 1..Len(r) : r[j] = s[k] => i <= j
  <2>1. \E i \in 1..Len(r) :
          /\ RemoveFirst(r, s[k]) = RemoveAt(r, i) /\ r[i] = s[k]
          /\ \A j \in 1..Len(r) : r[j] = s[k] => i <= j
    <3> PICK v : v = s[k]
      OBVIOUS
    <3>1. \E i \in 1..Len(r) :
            /\ RemoveFirst(r, v) = RemoveAt(r, i) /\ r[i] = v
            /\ \A j \in 1..Len(r) : r[j] = v => i <= j
      BY <1>5, <1>9, RemoveFirstIs
    <3> QED
      BY <3>1
  <2> QED
    BY <2>1
<1>11. i = 1
  <2>1. i <= 1
    BY <1>8, <1>10
  <2> QED
    BY <1>5, <1>2, <2>1
<1>12. RemoveAt(r, 1) = t
  <2>1. /\ RemoveAt(r, 1) \in Seq(S) /\ Len(RemoveAt(r, 1)) = Len(r) - 1
        /\ \A j \in 1..(Len(r) - 1) :
             RemoveAt(r, 1)[j] = IF j < 1 THEN r[j] ELSE r[j + 1]
    BY <1>5, <1>8, RemoveAtIs
  <2>2. Len(r) - 1 = n - k
    BY <1>2, <1>5
  <2>3. \A j \in 1..(n - k) : ~(j < 1) /\ j + 1 \in 1..(n - k + 1) /\ k + (j + 1) - 1 = k + j
    BY <1>2
  <2>4. \A j \in 1..(n - k) : RemoveAt(r, 1)[j] = t[j]
    BY <1>5, <1>7, <2>1, <2>2, <2>3
  <2> QED
    BY <1>7, <2>1, <2>2, <2>4, SeqEqual
<1> QED
  BY <1>1, <1>4, <1>6, <1>10, <1>11, <1>12

-----------------------------------------------------------------------------
(* The sum of the counts of the nodes                                      *)
Total(f) == FoldFunctionOnSet(+, 0, f, NodeId)
Pick == [A \in SUBSET NodeId |-> CHOOSE v \in A : TRUE]

Sums(t, f) ==
  /\ t \in [SUBSET NodeId -> Int]
  /\ \A A \in SUBSET NodeId :
       t[A] = IF A = {} THEN 0 ELSE f[Pick[A]] + t[A \ {Pick[A]}]

LEMMA PickPicks ==
  ASSUME NEW A \in SUBSET NodeId, A # {}
  PROVE  Pick[A] \in A
BY DEF Pick

LEMMA SumsExist ==
  ASSUME IsFiniteSet(NodeId), NEW f \in [NodeId -> Int]
  PROVE  \E t : Sums(t, f)
<1>1. PICK F \in [NodeId \X Int -> Int] :
        \A v \in NodeId, k \in Int : F[<<v, k>>] = f[v] + k
  <2>1. [p \in NodeId \X Int |-> f[p[1]] + p[2]] \in [NodeId \X Int -> Int]
    OBVIOUS
  <2> QED
    BY <2>1
<1>2. Picks(Pick, NodeId)
  BY PickPicks DEF Picks
<1>3. PICK i : IsFold(i, NodeId, Int, 0, Pick, F)
  <2>1. 0 \in Int
    OBVIOUS
  <2> QED
    BY <1>2, <2>1, FoldExists
<1>4. ASSUME NEW A \in SUBSET NodeId
      PROVE  i[A] = IF A = {} THEN 0 ELSE f[Pick[A]] + i[A \ {Pick[A]}]
  BY <1>1, <1>2, <1>3 DEF IsFold, Picks
<1> QED
  BY <1>3, <1>4 DEF Sums, IsFold

LEMMA TotalIs ==
  ASSUME IsFiniteSet(NodeId), NEW f \in [NodeId -> Int]
  PROVE  \E t : Sums(t, f) /\ Total(f) = t[NodeId]
<1> DEFINE t == CHOOSE iter :
                  iter = [A \in SUBSET NodeId |->
                            IF A = {} THEN 0
                            ELSE f[CHOOSE v \in A : TRUE] + iter[A \ {CHOOSE v \in A : TRUE}]]
<1>1. \A A \in SUBSET NodeId : A # {} => Pick[A] \in A
  BY PickPicks
<1>2. PICK i : Sums(i, f)
  <2> HIDE DEF t
  <2> QED
    BY SumsExist
<1>3. i \in [SUBSET NodeId -> Int]
  BY <1>2 DEF Sums
<1>4. \A A \in SUBSET NodeId :
        i[A] = IF A = {} THEN 0 ELSE f[Pick[A]] + i[A \ {Pick[A]}]
  BY <1>2 DEF Sums
<1>5. i = [A \in SUBSET NodeId |->
             IF A = {} THEN 0
             ELSE f[CHOOSE v \in A : TRUE] + i[A \ {CHOOSE v \in A : TRUE}]]
  BY <1>3, <1>4 DEF Pick
<1>6. t = [A \in SUBSET NodeId |->
             IF A = {} THEN 0
             ELSE f[CHOOSE v \in A : TRUE] + t[A \ {CHOOSE v \in A : TRUE}]]
  BY <1>5
<1>7. Total(f) = t[NodeId]
  BY DEF Total, FoldFunctionOnSet, MapThenFoldSet
<1> HIDE DEF t
<1>8. DOMAIN t = SUBSET NodeId /\ \A A \in SUBSET NodeId :
        t[A] = IF A = {} THEN 0 ELSE f[Pick[A]] + t[A \ {Pick[A]}]
  BY <1>6 DEF Pick
<1>9. \A A \in SUBSET NodeId : t[A] = i[A]
  <2> DEFINE E == {A \in SUBSET NodeId : t[A] = i[A]}
  <2>1. {} \in E
    BY <1>4, <1>8
  <2>2. \A A \in SUBSET NodeId : A # {} /\ A \ {Pick[A]} \in E => A \in E
    BY <1>4, <1>8
  <2> HIDE DEF E
  <2>3. SUBSET NodeId \subseteq E
    BY <1>1, <2>1, <2>2, FromEmptySet
  <2> QED
    BY <2>3 DEF E
<1>10. t \in [SUBSET NodeId -> Int]
  <2>1. t = [A \in SUBSET NodeId |-> t[A]]
    BY <1>6
  <2>2. \A A \in SUBSET NodeId : t[A] \in Int
    BY <1>3, <1>9
  <2> QED
    BY <2>1, <2>2
<1> QED
  BY <1>7, <1>8, <1>10 DEF Sums

LEMMA TotalOfNone ==
  ASSUME IsFiniteSet(NodeId)
  PROVE  Total([v \in NodeId |-> 0]) = 0
<1> DEFINE f == [v \in NodeId |-> 0]
<1>1. f \in [NodeId -> Int]
  OBVIOUS
<1>2. PICK t : Sums(t, f) /\ Total(f) = t[NodeId]
  <2> HIDE DEF f
  <2> QED
    BY <1>1, TotalIs
<1>3. \A A \in SUBSET NodeId : t[A] = 0
  <2> DEFINE E == {A \in SUBSET NodeId : t[A] = 0}
  <2>1. {} \in E
    BY <1>2 DEF Sums
  <2>2. ASSUME NEW A \in SUBSET NodeId, A # {}, A \ {Pick[A]} \in E
        PROVE  A \in E
    <3>1. Pick[A] \in NodeId
      BY <2>2, PickPicks
    <3>2. f[Pick[A]] = 0 /\ t[A \ {Pick[A]}] = 0
      BY <2>2, <3>1
    <3>3. t[A] = f[Pick[A]] + t[A \ {Pick[A]}]
      BY <1>2, <2>2 DEF Sums
    <3> QED
      BY <3>2, <3>3
  <2>3. \A A \in SUBSET NodeId : A # {} => Pick[A] \in A
    BY PickPicks
  <2> HIDE DEF E, f
  <2>4. SUBSET NodeId \subseteq E
    BY <2>1, <2>2, <2>3, FromEmptySet
  <2> QED
    BY <2>4 DEF E
<1> QED
  BY <1>2, <1>3

LEMMA TotalChanges ==
  ASSUME IsFiniteSet(NodeId), NEW f \in [NodeId -> Int], NEW a \in NodeId, NEW d \in Int
  PROVE  Total([f EXCEPT ![a] = @ + d]) = Total(f) + d
<1> DEFINE h == [f EXCEPT ![a] = @ + d]
<1>1. h \in [NodeId -> Int] /\ \A v \in NodeId : h[v] = IF v = a THEN f[v] + d ELSE f[v]
  OBVIOUS
<1> HIDE DEF h
<1>2. PICK t : Sums(t, f) /\ Total(f) = t[NodeId]
  BY TotalIs
<1>3. PICK u : Sums(u, h) /\ Total(h) = u[NodeId]
  BY <1>1, TotalIs
<1>4. \A A \in SUBSET NodeId : t[A] \in Int /\ u[A] \in Int
  BY <1>2, <1>3 DEF Sums
<1>5. \A A \in SUBSET NodeId : u[A] = t[A] + (IF a \in A THEN d ELSE 0)
  <2> DEFINE E == {A \in SUBSET NodeId : u[A] = t[A] + (IF a \in A THEN d ELSE 0)}
  <2>1. {} \in E
    <3>1. t[{}] = 0 /\ u[{}] = 0
      BY <1>2, <1>3 DEF Sums
    <3> QED
      BY <3>1
  <2>2. ASSUME NEW A \in SUBSET NodeId, A # {}, A \ {Pick[A]} \in E
        PROVE  A \in E
    <3>1. PICK p : p = Pick[A]
      OBVIOUS
    <3>2. p \in A /\ p \in NodeId /\ A \ {p} \in SUBSET NodeId
      BY <2>2, <3>1, PickPicks
    <3>3. u[A \ {p}] = t[A \ {p}] + (IF a \in A \ {p} THEN d ELSE 0)
      BY <2>2, <3>1
    <3>4. u[A] = h[p] + u[A \ {p}] /\ t[A] = f[p] + t[A \ {p}]
      BY <1>2, <1>3, <2>2, <3>1 DEF Sums
    <3>5. f[p] \in Int /\ t[A \ {p}] \in Int
      BY <1>4, <3>2
    <3>6. CASE p = a
      <4>1. h[p] = f[p] + d /\ u[A \ {p}] = t[A \ {p}] + 0
        BY <1>1, <3>2, <3>3, <3>6
      <4>2. u[A] = t[A] + d
        BY <3>4, <3>5, <4>1
      <4> QED
        BY <3>2, <3>6, <4>2
    <3>7. CASE p # a
      <4>1. h[p] = f[p] /\ (a \in A \ {p} <=> a \in A)
        BY <1>1, <3>2, <3>7
      <4>2. u[A] = t[A] + (IF a \in A THEN d ELSE 0)
        BY <3>3, <3>4, <3>5, <4>1
      <4> QED
        BY <4>2
    <3> QED
      BY <3>6, <3>7
  <2>3. \A A \in SUBSET NodeId : A # {} => Pick[A] \in A
    BY PickPicks
  <2> HIDE DEF E
  <2>4. SUBSET NodeId \subseteq E
    BY <2>1, <2>2, <2>3, FromEmptySet
  <2> QED
    BY <2>4 DEF E
<1> QED
  BY <1>2, <1>3, <1>5 DEF h

-----------------------------------------------------------------------------
(* Graphs                                                                  *)
Graphs ==
  [nodes : Seq(NodeId), idx : [NodeId -> Int],
   out : [NodeId -> Seq(NodeId)], in : [NodeId -> Seq(NodeId)],
   numOut : [NodeId -> Int], numIn : [NodeId -> Int], numConnections : Int]

Indexed(h) ==
  /\ IsInjective(h.nodes)
  /\ \A k \in DOMAIN h.nodes : h.idx[h.nodes[k]] = k - 1

Mirrored(h) ==
  \A a, b \in NodeId : Occurrences(h.out[a], b) = Occurrences(h.in[b], a)

(* Only nodes of the graph are connected                                   *)
Within(h) ==
  \A a, b \in NodeId : Contains(h.out[a], b) => a \in InGraph(h) /\ b \in InGraph(h)

Counted(h) ==
  /\ \A v \in NodeId : h.numOut[v] = Len(h.out[v]) /\ h.numIn[v] = Len(h.in[v])
  /\ h.numConnections = Total(h.numOut)

Linked(h) == Mirrored(h) /\ Within(h) /\ Counted(h)

LEMMA GraphIs ==
  ASSUME NEW h \in Graphs
  PROVE  /\ h.nodes \in Seq(NodeId) /\ h.idx \in [NodeId -> Int]
         /\ h.out \in [NodeId -> Seq(NodeId)] /\ h.in \in [NodeId -> Seq(NodeId)]
         /\ h.numOut \in [NodeId -> Int] /\ h.numIn \in [NodeId -> Int]
         /\ h.numConnections \in Int
BY DEF Graphs

LEMMA GraphMade ==
  ASSUME NEW r, r = [nodes |-> r.nodes, idx |-> r.idx, out |-> r.out, in |-> r.in,
                     numOut |-> r.numOut, numIn |-> r.numIn,
                     numConnections |-> r.numConnections],
         r.nodes \in Seq(NodeId), r.idx \in [NodeId -> Int],
         r.out \in [NodeId -> Seq(NodeId)], r.in \in [NodeId -> Seq(NodeId)],
         r.numOut \in [NodeId -> Int], r.numIn \in [NodeId -> Int],
         r.numConnections \in Int
  PROVE  r \in Graphs
BY DEF Graphs

(* A list of each of two nodes changes, and their counts                   *)
Change(h, a, b, x, y, d, e, c) ==
  [h EXCEPT !.out[a] = x, !.numOut[a] = @ + d, !.in[b] = y, !.numIn[b] = @ + e,
            !.numConnections = @ + c]

Changed(r, h, a, b, x, y, d, e, c) ==
  /\ r \in Graphs /\ r.nodes = h.nodes /\ r.idx = h.idx
  /\ r.out = [h.out EXCEPT ![a] = x] /\ r.in = [h.in EXCEPT ![b] = y]
  /\ r.numOut = [h.numOut EXCEPT ![a] = @ + d]
  /\ r.numIn = [h.numIn EXCEPT ![b] = @ + e]
  /\ r.numConnections = h.numConnections + c

LEMMA ListsChange ==
  ASSUME NEW h \in Graphs, NEW a \in NodeId, NEW b \in NodeId,
         NEW x \in Seq(NodeId), NEW y \in Seq(NodeId),
         NEW d \in Int, NEW e \in Int, NEW c \in Int,
         NEW r, r = Change(h, a, b, x, y, d, e, c)
  PROVE  Changed(r, h, a, b, x, y, d, e, c)
<1>1. /\ h.nodes \in Seq(NodeId) /\ h.idx \in [NodeId -> Int]
      /\ h.out \in [NodeId -> Seq(NodeId)] /\ h.in \in [NodeId -> Seq(NodeId)]
      /\ h.numOut \in [NodeId -> Int] /\ h.numIn \in [NodeId -> Int]
      /\ h.numConnections \in Int
  BY GraphIs
<1> DEFINE o == [h.out EXCEPT ![a] = x]
           i == [h.in EXCEPT ![b] = y]
           no == [h.numOut EXCEPT ![a] = @ + d]
           ni == [h.numIn EXCEPT ![b] = @ + e]
           m == h.numConnections + c
<1>2. r = [nodes |-> h.nodes, idx |-> h.idx, out |-> o, in |-> i,
           numOut |-> no, numIn |-> ni, numConnections |-> m]
  BY DEF Change, Graphs
<1>3. o \in [NodeId -> Seq(NodeId)] /\ i \in [NodeId -> Seq(NodeId)]
  <2>1. \A f \in [NodeId -> Seq(NodeId)], v \in NodeId, s \in Seq(NodeId) :
          [f EXCEPT ![v] = s] \in [NodeId -> Seq(NodeId)]
    OBVIOUS
  <2> QED
    BY <1>1, <2>1
<1> HIDE DEF o, i
<1>4. no \in [NodeId -> Int] /\ ni \in [NodeId -> Int] /\ m \in Int
  <2>1. \A f \in [NodeId -> Int], v \in NodeId, k \in Int :
          [f EXCEPT ![v] = @ + k] \in [NodeId -> Int]
    OBVIOUS
  <2>2. h.numConnections + c \in Int
    BY <1>1
  <2>3. [h.numOut EXCEPT ![a] = @ + d] \in [NodeId -> Int]
    BY <1>1, <2>1
  <2>4. [h.numIn EXCEPT ![b] = @ + e] \in [NodeId -> Int]
    BY <1>1, <2>1
  <2> QED
    BY <2>2, <2>3, <2>4
<1> HIDE DEF no, ni, m
<1>5. /\ r.nodes = h.nodes /\ r.idx = h.idx /\ r.out = o /\ r.in = i
      /\ r.numOut = no /\ r.numIn = ni /\ r.numConnections = m
  BY <1>2
<1>6. r \in Graphs
  <2>1. r = [nodes |-> r.nodes, idx |-> r.idx, out |-> r.out, in |-> r.in,
             numOut |-> r.numOut, numIn |-> r.numIn, numConnections |-> r.numConnections]
    BY <1>2, <1>5
  <2>2. r.nodes \in Seq(NodeId) /\ r.idx \in [NodeId -> Int]
    BY <1>1, <1>5
  <2>3. r.out \in [NodeId -> Seq(NodeId)] /\ r.in \in [NodeId -> Seq(NodeId)]
    BY <1>3, <1>5
  <2>4. r.numOut \in [NodeId -> Int] /\ r.numIn \in [NodeId -> Int] /\ r.numConnections \in Int
    BY <1>4, <1>5
  <2> QED
    BY <2>1, <2>2, <2>3, <2>4, GraphMade
<1> QED
  BY <1>5, <1>6 DEF Changed, o, i, no, ni, m

(* Both ends gain a connection                                             *)
LEMMA ConnectIs ==
  ASSUME NEW h \in Graphs, NEW a \in NodeId, NEW b \in NodeId,
         NEW r, r = Connect(h, a, b)
  PROVE  /\ r \in Graphs /\ r.nodes = h.nodes /\ r.idx = h.idx
         /\ r.out = [h.out EXCEPT ![a] = Cons(b, h.out[a])]
         /\ r.in = [h.in EXCEPT ![b] = Cons(a, h.in[b])]
         /\ r.numOut = [h.numOut EXCEPT ![a] = @ + 1]
         /\ r.numIn = [h.numIn EXCEPT ![b] = @ + 1]
         /\ r.numConnections = h.numConnections + 1
<1>1. PICK x, y : x = Cons(b, h.out[a]) /\ y = Cons(a, h.in[b])
  OBVIOUS
<1>2. x \in Seq(NodeId) /\ y \in Seq(NodeId)
  <2>1. h.out[a] \in Seq(NodeId) /\ h.in[b] \in Seq(NodeId)
    BY GraphIs
  <2>2. Cons(b, h.out[a]) \in Seq(NodeId)
    BY <2>1, ConsIs
  <2>3. Cons(a, h.in[b]) \in Seq(NodeId)
    BY <2>1, ConsIs
  <2> QED
    BY <1>1, <2>2, <2>3
<1>3. PICK d \in Int : d = 1
  OBVIOUS
<1>4. r = Change(h, a, b, x, y, d, d, d)
  BY <1>1, <1>3 DEF Connect, Change, Graphs
<1>5. Changed(r, h, a, b, x, y, d, d, d)
  BY <1>2, <1>4, ListsChange
<1> QED
  BY <1>1, <1>3, <1>5 DEF Changed

LEMMA ConnectKeeps ==
  ASSUME IsFiniteSet(NodeId),
         NEW h \in Graphs, Linked(h), NEW a \in InGraph(h), NEW b \in InGraph(h),
         a \in NodeId, b \in NodeId, NEW r, r = Connect(h, a, b)
  PROVE  Linked(r)
<1>1. /\ h.nodes \in Seq(NodeId) /\ h.idx \in [NodeId -> Int]
      /\ h.out \in [NodeId -> Seq(NodeId)] /\ h.in \in [NodeId -> Seq(NodeId)]
      /\ h.numOut \in [NodeId -> Int] /\ h.numIn \in [NodeId -> Int]
      /\ h.numConnections \in Int
  BY GraphIs
<1>2. /\ r \in Graphs /\ r.nodes = h.nodes
      /\ r.out = [h.out EXCEPT ![a] = Cons(b, h.out[a])]
      /\ r.in = [h.in EXCEPT ![b] = Cons(a, h.in[b])]
      /\ r.numOut = [h.numOut EXCEPT ![a] = @ + 1]
      /\ r.numIn = [h.numIn EXCEPT ![b] = @ + 1]
      /\ r.numConnections = h.numConnections + 1
  BY ConnectIs
<1>3. h.out[a] \in Seq(NodeId) /\ h.in[b] \in Seq(NodeId)
  BY <1>1
<1>4. /\ \A v \in NodeId : v # a => r.out[v] = h.out[v] /\ r.numOut[v] = h.numOut[v]
      /\ \A v \in NodeId : v # b => r.in[v] = h.in[v] /\ r.numIn[v] = h.numIn[v]
      /\ r.out[a] = Cons(b, h.out[a]) /\ r.in[b] = Cons(a, h.in[b])
      /\ r.numOut[a] = h.numOut[a] + 1 /\ r.numIn[b] = h.numIn[b] + 1
  BY <1>1, <1>2
<1>5. \A v, w \in NodeId :
        /\ Occurrences(r.out[v], w)
             = Occurrences(h.out[v], w) + (IF v = a /\ w = b THEN 1 ELSE 0)
        /\ Occurrences(r.in[w], v)
             = Occurrences(h.in[w], v) + (IF v = a /\ w = b THEN 1 ELSE 0)
  <2> SUFFICES ASSUME NEW v \in NodeId, NEW w \in NodeId
               PROVE  /\ Occurrences(r.out[v], w)
                           = Occurrences(h.out[v], w) + (IF v = a /\ w = b THEN 1 ELSE 0)
                      /\ Occurrences(r.in[w], v)
                           = Occurrences(h.in[w], v) + (IF v = a /\ w = b THEN 1 ELSE 0)
    OBVIOUS
  <2>1. h.out[v] \in Seq(NodeId) /\ h.in[w] \in Seq(NodeId)
    BY <1>1
  <2>2. Occurrences(h.out[v], w) \in Nat /\ Occurrences(h.in[w], v) \in Nat
    BY <2>1, OccurrencesAre
  <2>3. Occurrences(Cons(b, h.out[a]), w)
          = Occurrences(h.out[a], w) + (IF b = w THEN 1 ELSE 0)
    BY <1>3, OccurrencesWith
  <2>4. Occurrences(Cons(a, h.in[b]), v)
          = Occurrences(h.in[b], v) + (IF a = v THEN 1 ELSE 0)
    BY <1>3, OccurrencesWith
  <2>5. Occurrences(r.out[v], w)
          = Occurrences(h.out[v], w) + (IF v = a /\ w = b THEN 1 ELSE 0)
    <3>1. CASE v = a
      BY <1>4, <2>3, <3>1
    <3>2. CASE v # a
      BY <1>4, <2>2, <3>2
    <3> QED
      BY <3>1, <3>2
  <2>6. Occurrences(r.in[w], v)
          = Occurrences(h.in[w], v) + (IF v = a /\ w = b THEN 1 ELSE 0)
    <3>1. CASE w = b
      BY <1>4, <2>4, <3>1
    <3>2. CASE w # b
      BY <1>4, <2>2, <3>2
    <3> QED
      BY <3>1, <3>2
  <2> QED
    BY <2>5, <2>6
<1>6. Mirrored(r)
  BY <1>5 DEF Linked, Mirrored
<1>7. InGraph(r) = InGraph(h)
  BY <1>2 DEF InGraph
<1>8. Within(r)
  <2> SUFFICES ASSUME NEW v \in NodeId, NEW w \in NodeId, Contains(r.out[v], w)
               PROVE  v \in InGraph(h) /\ w \in InGraph(h)
    BY <1>7 DEF Within
  <2>1. h.out[v] \in Seq(NodeId) /\ r.out[v] \in Seq(NodeId)
    <3>1. r.out \in [NodeId -> Seq(NodeId)]
      BY <1>2 DEF Graphs
    <3> QED
      BY <1>1, <3>1
  <2>2. /\ Contains(r.out[v], w) <=> Occurrences(r.out[v], w) # 0
        /\ Contains(h.out[v], w) <=> Occurrences(h.out[v], w) # 0
        /\ Occurrences(h.out[v], w) \in Nat
    BY <2>1, OccurrencesAre
  <2>3. CASE v = a /\ w = b
    BY <2>3
  <2>4. CASE ~(v = a /\ w = b)
    <3>1. Occurrences(r.out[v], w) = Occurrences(h.out[v], w) + 0
      BY <1>5, <2>4
    <3>2. Contains(h.out[v], w)
      BY <2>2, <3>1
    <3> QED
      BY <3>2 DEF Linked, Within
  <2> QED
    BY <2>3, <2>4
<1>9. Counted(r)
  <2>1. Len(Cons(b, h.out[a])) = Len(h.out[a]) + 1
    BY <1>3, ConsIs
  <2>2. Len(Cons(a, h.in[b])) = Len(h.in[b]) + 1
    BY <1>3, ConsIs
  <2>3. \A v \in NodeId : h.numOut[v] = Len(h.out[v]) /\ h.numIn[v] = Len(h.in[v])
    BY DEF Linked, Counted
  <2>4. ASSUME NEW v \in NodeId
        PROVE  r.numOut[v] = Len(r.out[v]) /\ r.numIn[v] = Len(r.in[v])
    <3>1. r.numOut[v] = Len(r.out[v])
      <4>1. CASE v = a
        BY <1>4, <2>1, <2>3, <4>1
      <4>2. CASE v # a
        BY <1>4, <2>3, <4>2
      <4> QED
        BY <4>1, <4>2
    <3>2. r.numIn[v] = Len(r.in[v])
      <4>1. CASE v = b
        BY <1>4, <2>2, <2>3, <4>1
      <4>2. CASE v # b
        BY <1>4, <2>3, <4>2
      <4> QED
        BY <4>1, <4>2
    <3> QED
      BY <3>1, <3>2
  <2>5. Total(r.numOut) = Total(h.numOut) + 1
    <3>1. PICK f \in [NodeId -> Int], d \in Int : f = h.numOut /\ d = 1
      BY <1>1
    <3>2. Total([f EXCEPT ![a] = @ + d]) = Total(f) + d
      BY TotalChanges
    <3> QED
      BY <1>2, <3>1, <3>2
  <2>6. h.numConnections = Total(h.numOut)
    BY DEF Linked, Counted
  <2> QED
    BY <1>2, <2>4, <2>5, <2>6 DEF Counted
<1> QED
  BY <1>6, <1>8, <1>9 DEF Linked

(* Both ends lose one, if they have it                                     *)
LEMMA DisconnectIs ==
  ASSUME NEW h \in Graphs, NEW a \in NodeId, NEW b \in NodeId,
         NEW r, r = Disconnect(h, a, b)
  PROVE  /\ r \in Graphs /\ r.nodes = h.nodes /\ r.idx = h.idx
         /\ r.out = [h.out EXCEPT ![a] = RemoveFirst(h.out[a], b)]
         /\ r.in = [h.in EXCEPT ![b] = RemoveFirst(h.in[b], a)]
         /\ \A d \in Int :
              /\ d = IF Contains(h.out[a], b) THEN -1 ELSE 0
              /\ d = IF Contains(h.in[b], a) THEN -1 ELSE 0
              => Changed(r, h, a, b, RemoveFirst(h.out[a], b), RemoveFirst(h.in[b], a),
                         d, d, d)
<1>1. PICK x, y : x = RemoveFirst(h.out[a], b) /\ y = RemoveFirst(h.in[b], a)
  OBVIOUS
<1>2. x \in Seq(NodeId) /\ y \in Seq(NodeId)
  <2>1. h.out[a] \in Seq(NodeId) /\ h.in[b] \in Seq(NodeId)
    BY GraphIs
  <2>2. RemoveFirst(h.out[a], b) \in Seq(NodeId)
    BY <2>1, RemoveFirstIs
  <2>3. RemoveFirst(h.in[b], a) \in Seq(NodeId)
    BY <2>1, RemoveFirstIs
  <2> QED
    BY <1>1, <2>2, <2>3
<1>3. PICK d, e, c \in Int :
        /\ d = IF Contains(h.out[a], b) THEN -1 ELSE 0
        /\ e = IF Contains(h.in[b], a) THEN -1 ELSE 0
        /\ c = IF Contains(h.out[a], b) \/ Contains(h.in[b], a) THEN -1 ELSE 0
  OBVIOUS
<1>4. r = Change(h, a, b, x, y, d, e, c)
  <2>1. PICK nd, ne, nc :
          /\ nd = (IF Contains(h.out[a], b) THEN 1 ELSE 0)
          /\ ne = (IF Contains(h.in[b], a) THEN 1 ELSE 0)
          /\ nc = (IF Contains(h.out[a], b) \/ Contains(h.in[b], a) THEN 1 ELSE 0)
    OBVIOUS
  <2>2. nd = -d /\ ne = -e /\ nc = -c
    BY <1>3, <2>1
  <2>3. r = [h EXCEPT !.out[a] = x, !.numOut[a] = @ - nd,
                      !.in[b] = y, !.numIn[b] = @ - ne,
                      !.numConnections = @ - nc]
    BY <1>1, <2>1 DEF Disconnect, Graphs
  <2>4. /\ h.numOut[a] \in Int /\ h.numIn[b] \in Int /\ h.numConnections \in Int
    BY GraphIs
  <2>5. /\ h.numOut[a] - nd = h.numOut[a] + d
        /\ h.numIn[b] - ne = h.numIn[b] + e
        /\ h.numConnections - nc = h.numConnections + c
    BY <2>2, <2>4
  <2> QED
    BY <2>3, <2>5 DEF Change, Graphs
<1>5. Changed(r, h, a, b, x, y, d, e, c)
  BY <1>2, <1>3, <1>4, ListsChange
<1>6. \A f \in Int :
        /\ f = IF Contains(h.out[a], b) THEN -1 ELSE 0
        /\ f = IF Contains(h.in[b], a) THEN -1 ELSE 0
        => d = f /\ e = f /\ c = f
  BY <1>3
<1>7. /\ r \in Graphs /\ r.nodes = h.nodes /\ r.idx = h.idx
      /\ r.out = [h.out EXCEPT ![a] = x] /\ r.in = [h.in EXCEPT ![b] = y]
  BY <1>5 DEF Changed
<1>8. \A f \in Int :
        /\ f = IF Contains(h.out[a], b) THEN -1 ELSE 0
        /\ f = IF Contains(h.in[b], a) THEN -1 ELSE 0
        => Changed(r, h, a, b, x, y, f, f, f)
  BY <1>5, <1>6
<1> QED
  BY <1>1, <1>7, <1>8

LEMMA DisconnectKeeps ==
  ASSUME IsFiniteSet(NodeId),
         NEW h \in Graphs, Linked(h), NEW a \in NodeId, NEW b \in NodeId,
         NEW r, r = Disconnect(h, a, b)
  PROVE  Linked(r)
<1>1. /\ h.nodes \in Seq(NodeId) /\ h.idx \in [NodeId -> Int]
      /\ h.out \in [NodeId -> Seq(NodeId)] /\ h.in \in [NodeId -> Seq(NodeId)]
      /\ h.numOut \in [NodeId -> Int] /\ h.numIn \in [NodeId -> Int]
      /\ h.numConnections \in Int
  BY GraphIs
<1>2. h.out[a] \in Seq(NodeId) /\ h.in[b] \in Seq(NodeId)
  BY <1>1
<1>3. Contains(h.out[a], b) <=> Contains(h.in[b], a)
  <2>1. Contains(h.out[a], b) <=> Occurrences(h.out[a], b) # 0
    BY <1>2, OccurrencesAre
  <2>2. Contains(h.in[b], a) <=> Occurrences(h.in[b], a) # 0
    BY <1>2, OccurrencesAre
  <2> QED
    BY <2>1, <2>2 DEF Linked, Mirrored
<1>4. PICK d \in Int : d = IF Contains(h.out[a], b) THEN 1 ELSE 0
  OBVIOUS
<1>5. /\ r \in Graphs /\ r.nodes = h.nodes
      /\ r.out = [h.out EXCEPT ![a] = RemoveFirst(h.out[a], b)]
      /\ r.in = [h.in EXCEPT ![b] = RemoveFirst(h.in[b], a)]
      /\ r.numOut = [h.numOut EXCEPT ![a] = @ - d]
      /\ r.numIn = [h.numIn EXCEPT ![b] = @ - d]
      /\ r.numConnections = h.numConnections - d
  <2>1. PICK e \in Int : e = -d
    OBVIOUS
  <2>2. /\ e = IF Contains(h.out[a], b) THEN -1 ELSE 0
        /\ e = IF Contains(h.in[b], a) THEN -1 ELSE 0
    BY <1>3, <1>4, <2>1
  <2>3. Changed(r, h, a, b, RemoveFirst(h.out[a], b), RemoveFirst(h.in[b], a), e, e, e)
    BY <2>2, DisconnectIs
  <2>4. \A k \in Int : k + e = k - d
    BY <2>1
  <2>5. /\ [h.numOut EXCEPT ![a] = @ + e] = [h.numOut EXCEPT ![a] = @ - d]
        /\ [h.numIn EXCEPT ![b] = @ + e] = [h.numIn EXCEPT ![b] = @ - d]
        /\ h.numConnections + e = h.numConnections - d
    BY <1>1, <2>4
  <2> QED
    BY <2>3, <2>5 DEF Changed
<1>6. /\ Len(RemoveFirst(h.out[a], b)) = Len(h.out[a]) - d
      /\ \A w : Occurrences(RemoveFirst(h.out[a], b), w)
                  = Occurrences(h.out[a], w) - (IF b = w THEN d ELSE 0)
  <2>1. Len(h.out[a]) \in Nat /\ \A w : Occurrences(h.out[a], w) \in Nat
    BY <1>2, OccurrencesAre, LenProperties
  <2>2. CASE Contains(h.out[a], b)
    <3>1. /\ Len(RemoveFirst(h.out[a], b)) = Len(h.out[a]) - 1
          /\ \A w : Occurrences(RemoveFirst(h.out[a], b), w)
                      = Occurrences(h.out[a], w) - (IF b = w THEN 1 ELSE 0)
      BY <1>2, <2>2, RemoveFirstIs
    <3> QED
      BY <1>4, <2>2, <3>1
  <2>3. CASE ~Contains(h.out[a], b)
    <3>1. RemoveFirst(h.out[a], b) = h.out[a]
      BY <1>2, <2>3, RemoveFirstIs
    <3> QED
      BY <1>4, <2>1, <2>3, <3>1
  <2> QED
    BY <2>2, <2>3
<1>7. /\ Len(RemoveFirst(h.in[b], a)) = Len(h.in[b]) - d
      /\ \A w : Occurrences(RemoveFirst(h.in[b], a), w)
                  = Occurrences(h.in[b], w) - (IF a = w THEN d ELSE 0)
  <2>1. Len(h.in[b]) \in Nat /\ \A w : Occurrences(h.in[b], w) \in Nat
    BY <1>2, OccurrencesAre, LenProperties
  <2>2. CASE Contains(h.in[b], a)
    <3>1. /\ Len(RemoveFirst(h.in[b], a)) = Len(h.in[b]) - 1
          /\ \A w : Occurrences(RemoveFirst(h.in[b], a), w)
                      = Occurrences(h.in[b], w) - (IF a = w THEN 1 ELSE 0)
      BY <1>2, <2>2, RemoveFirstIs
    <3> QED
      BY <1>3, <1>4, <2>2, <3>1
  <2>3. CASE ~Contains(h.in[b], a)
    <3>1. RemoveFirst(h.in[b], a) = h.in[b]
      BY <1>2, <2>3, RemoveFirstIs
    <3>2. d = 0
      BY <1>3, <1>4, <2>3
    <3>3. \A w : Occurrences(h.in[b], w) = Occurrences(h.in[b], w) - (IF a = w THEN 0 ELSE 0)
      BY <2>1
    <3> QED
      BY <2>1, <3>1, <3>2, <3>3
  <2> QED
    BY <2>2, <2>3
<1>8. /\ \A v \in NodeId : v # a => r.out[v] = h.out[v] /\ r.numOut[v] = h.numOut[v]
      /\ \A v \in NodeId : v # b => r.in[v] = h.in[v] /\ r.numIn[v] = h.numIn[v]
      /\ r.out[a] = RemoveFirst(h.out[a], b) /\ r.in[b] = RemoveFirst(h.in[b], a)
      /\ r.numOut[a] = h.numOut[a] - d /\ r.numIn[b] = h.numIn[b] - d
  BY <1>1, <1>5
<1>9. \A v, w \in NodeId :
        /\ Occurrences(r.out[v], w)
             = Occurrences(h.out[v], w) - (IF v = a /\ w = b THEN d ELSE 0)
        /\ Occurrences(r.in[w], v)
             = Occurrences(h.in[w], v) - (IF v = a /\ w = b THEN d ELSE 0)
        /\ Occurrences(h.out[v], w) \in Nat
  <2> SUFFICES ASSUME NEW v \in NodeId, NEW w \in NodeId
               PROVE  /\ Occurrences(r.out[v], w)
                           = Occurrences(h.out[v], w) - (IF v = a /\ w = b THEN d ELSE 0)
                      /\ Occurrences(r.in[w], v)
                           = Occurrences(h.in[w], v) - (IF v = a /\ w = b THEN d ELSE 0)
                      /\ Occurrences(h.out[v], w) \in Nat
    OBVIOUS
  <2>1. h.out[v] \in Seq(NodeId) /\ h.in[w] \in Seq(NodeId)
    BY <1>1
  <2>2. Occurrences(h.out[v], w) \in Nat /\ Occurrences(h.in[w], v) \in Nat
    BY <2>1, OccurrencesAre
  <2>3. Occurrences(r.out[v], w)
          = Occurrences(h.out[v], w) - (IF v = a /\ w = b THEN d ELSE 0)
    <3>1. CASE v = a
      BY <1>6, <1>8, <3>1
    <3>2. CASE v # a
      BY <1>8, <2>2, <3>2
    <3> QED
      BY <3>1, <3>2
  <2>4. Occurrences(r.in[w], v)
          = Occurrences(h.in[w], v) - (IF v = a /\ w = b THEN d ELSE 0)
    <3>1. CASE w = b
      BY <1>7, <1>8, <3>1
    <3>2. CASE w # b
      BY <1>8, <2>2, <3>2
    <3> QED
      BY <3>1, <3>2
  <2> QED
    BY <2>2, <2>3, <2>4
<1>10. Mirrored(r)
  BY <1>9 DEF Linked, Mirrored
<1>11. InGraph(r) = InGraph(h)
  BY <1>5 DEF InGraph
<1>12. Within(r)
  <2> SUFFICES ASSUME NEW v \in NodeId, NEW w \in NodeId, Contains(r.out[v], w)
               PROVE  v \in InGraph(h) /\ w \in InGraph(h)
    BY <1>11 DEF Within
  <2>1. h.out[v] \in Seq(NodeId) /\ r.out[v] \in Seq(NodeId)
    <3>1. r.out \in [NodeId -> Seq(NodeId)]
      BY <1>5 DEF Graphs
    <3> QED
      BY <1>1, <3>1
  <2>2. /\ Contains(r.out[v], w) <=> Occurrences(r.out[v], w) # 0
        /\ Contains(h.out[v], w) <=> Occurrences(h.out[v], w) # 0
        /\ Occurrences(h.out[v], w) \in Nat /\ Occurrences(r.out[v], w) \in Nat
    BY <2>1, OccurrencesAre
  <2>3. d \in {0, 1}
    BY <1>4
  <2>4. Occurrences(r.out[v], w)
          = Occurrences(h.out[v], w) - (IF v = a /\ w = b THEN d ELSE 0)
    BY <1>9
  <2>5. Occurrences(h.out[v], w) # 0
    BY <2>2, <2>3, <2>4
  <2> QED
    BY <2>2, <2>5 DEF Linked, Within
<1>13. Counted(r)
  <2>1. \A v \in NodeId : h.numOut[v] = Len(h.out[v]) /\ h.numIn[v] = Len(h.in[v])
    BY DEF Linked, Counted
  <2>2. ASSUME NEW v \in NodeId
        PROVE  r.numOut[v] = Len(r.out[v]) /\ r.numIn[v] = Len(r.in[v])
    <3>1. r.numOut[v] = Len(r.out[v])
      <4>1. CASE v = a
        BY <1>6, <1>8, <2>1, <4>1
      <4>2. CASE v # a
        BY <1>8, <2>1, <4>2
      <4> QED
        BY <4>1, <4>2
    <3>2. r.numIn[v] = Len(r.in[v])
      <4>1. CASE v = b
        BY <1>7, <1>8, <2>1, <4>1
      <4>2. CASE v # b
        BY <1>8, <2>1, <4>2
      <4> QED
        BY <4>1, <4>2
    <3> QED
      BY <3>1, <3>2
  <2>3. Total(r.numOut) = Total(h.numOut) - d
    <3>1. PICK f \in [NodeId -> Int], e \in Int : f = h.numOut /\ e = -d
      BY <1>1
    <3>2. Total([f EXCEPT ![a] = @ + e]) = Total(f) + e
      BY TotalChanges
    <3>3. [f EXCEPT ![a] = @ + e] = [f EXCEPT ![a] = @ - d]
      BY <3>1
    <3>4. Total(f) \in Int
      BY <1>1, <3>1 DEF Linked, Counted
    <3> QED
      BY <1>5, <3>1, <3>2, <3>3, <3>4
  <2>4. h.numConnections = Total(h.numOut)
    BY DEF Linked, Counted
  <2> QED
    BY <1>5, <2>2, <2>3, <2>4 DEF Counted
<1> QED
  BY <1>10, <1>12, <1>13 DEF Linked

-----------------------------------------------------------------------------
(* The array of nodes                                                      *)
LEMMA IndexesTell ==
  ASSUME NEW nodes \in Seq(NodeId), NEW idx,
         \A k \in 1..Len(nodes) : idx[nodes[k]] = k - 1
  PROVE  IsInjective(nodes)
<1>1. DOMAIN nodes = 1..Len(nodes) /\ Len(nodes) \in Nat
  BY LenProperties
<1>2. \A j, k \in 1..Len(nodes) : nodes[j] = nodes[k] => j = k
  <2> SUFFICES ASSUME NEW j \in 1..Len(nodes), NEW k \in 1..Len(nodes), nodes[j] = nodes[k]
               PROVE  j = k
    OBVIOUS
  <2>1. j - 1 = k - 1
    OBVIOUS
  <2> QED
    BY <1>1, <2>1
<1> QED
  BY <1>1, <1>2 DEF IsInjective

LEMMA IndexedIs ==
  ASSUME NEW h \in Graphs
  PROVE  Indexed(h) <=> \A k \in 1..Len(h.nodes) : h.idx[h.nodes[k]] = k - 1
<1>1. h.nodes \in Seq(NodeId)
  BY GraphIs
<1>2. DOMAIN h.nodes = 1..Len(h.nodes)
  BY <1>1, LenProperties
<1>3. (\A k \in 1..Len(h.nodes) : h.idx[h.nodes[k]] = k - 1) => IsInjective(h.nodes)
  BY <1>1, IndexesTell
<1> QED
  BY <1>2, <1>3 DEF Indexed

LEMMA NodeHasIndex ==
  ASSUME NEW h \in Graphs, Indexed(h), NEW w \in InGraph(h)
  PROVE  /\ w \in NodeId /\ h.idx[w] \in 0..(Len(h.nodes) - 1)
         /\ h.nodes[h.idx[w] + 1] = w /\ h.idx[w] + 1 \in 1..Len(h.nodes)
<1>1. h.nodes \in Seq(NodeId)
  BY GraphIs
<1>2. /\ DOMAIN h.nodes = 1..Len(h.nodes) /\ Len(h.nodes) \in Nat
      /\ \A k \in 1..Len(h.nodes) : h.nodes[k] \in NodeId
  BY <1>1, SequenceIs
<1>3. PICK k \in 1..Len(h.nodes) : h.nodes[k] = w
  BY <1>2 DEF InGraph, ToSet
<1>4. h.idx[w] = k - 1
  BY <1>2, <1>3 DEF Indexed
<1> QED
  BY <1>2, <1>3, <1>4

LEMMA PositionInGraph ==
  ASSUME NEW h \in Graphs, NEW k \in 1..Len(h.nodes)
  PROVE  h.nodes[k] \in InGraph(h) /\ h.nodes[k] \in NodeId
<1>1. h.nodes \in Seq(NodeId)
  BY GraphIs
<1> QED
  BY <1>1, SequenceIs DEF InGraph, ToSet

LEMMA LinkedKept ==
  ASSUME NEW h, Linked(h), NEW r, InGraph(h) \subseteq InGraph(r),
         r.out = h.out, r.in = h.in, r.numOut = h.numOut, r.numIn = h.numIn,
         r.numConnections = h.numConnections
  PROVE  Linked(r)
BY DEF Linked, Mirrored, Within, Counted

LEMMA EmptyIs ==
  ASSUME IsFiniteSet(NodeId), NEW nodes \in Seq(NodeId), IsInjective(nodes),
         NEW r, r = EmptyGraph(nodes)
  PROVE  /\ r \in Graphs /\ Indexed(r) /\ Linked(r) /\ r.nodes = nodes
         /\ r.out = [v \in NodeId |-> <<>>]
<1>1. DOMAIN nodes = 1..Len(nodes) /\ \A k \in 1..Len(nodes) : nodes[k] \in NodeId
  BY SequenceIs
<1>2. /\ r.nodes = nodes
      /\ r.idx = [v \in NodeId |-> IF v \in ToSet(nodes)
                                   THEN (CHOOSE k \in DOMAIN nodes : nodes[k] = v) - 1
                                   ELSE 0]
      /\ r.out = [v \in NodeId |-> <<>>] /\ r.in = [v \in NodeId |-> <<>>]
      /\ r.numOut = [v \in NodeId |-> 0] /\ r.numIn = [v \in NodeId |-> 0]
      /\ r.numConnections = 0
      /\ r = [nodes |-> r.nodes, idx |-> r.idx, out |-> r.out, in |-> r.in,
              numOut |-> r.numOut, numIn |-> r.numIn, numConnections |-> r.numConnections]
  BY DEF EmptyGraph
<1>3. ASSUME NEW j \in 1..Len(nodes)
      PROVE  (CHOOSE k \in DOMAIN nodes : nodes[k] = nodes[j]) = j
  BY <1>1 DEF IsInjective
<1>4. \A k \in 1..Len(nodes) : r.idx[nodes[k]] = k - 1
  BY <1>1, <1>2, <1>3 DEF ToSet
<1>5. r.idx \in [NodeId -> Int]
  <2>1. \A v \in NodeId : v \in ToSet(nodes) =>
          (CHOOSE k \in DOMAIN nodes : nodes[k] = v) \in 1..Len(nodes)
    BY <1>1, <1>3 DEF ToSet
  <2>2. \A v \in NodeId : v \in ToSet(nodes) =>
          (CHOOSE k \in DOMAIN nodes : nodes[k] = v) - 1 \in Int
    BY <2>1
  <2> QED
    BY <1>2, <2>2
<1>6. r \in Graphs
  <2>1. <<>> \in Seq(NodeId) /\ 0 \in Int
    BY EmptySeq
  <2>2. /\ r.out \in [NodeId -> Seq(NodeId)] /\ r.in \in [NodeId -> Seq(NodeId)]
        /\ r.numOut \in [NodeId -> Int] /\ r.numIn \in [NodeId -> Int]
        /\ r.numConnections \in Int /\ r.nodes \in Seq(NodeId)
    BY <1>2, <2>1
  <2> QED
    BY <1>2, <1>5, <2>2, GraphMade
<1>7. Indexed(r)
  BY <1>2, <1>4, <1>6, IndexedIs
<1>8. Len(<<>>) = 0 /\ <<>> \in Seq(NodeId)
  BY EmptySeq
<1>9. \A v \in NodeId : r.out[v] = <<>> /\ r.in[v] = <<>> /\ r.numOut[v] = 0 /\ r.numIn[v] = 0
  BY <1>2
<1>10. Mirrored(r) /\ Within(r)
  <2>1. \A w : ~Contains(<<>>, w)
    BY <1>8 DEF Contains
  <2>2. Mirrored(r)
    <3>1. \A v, w : Occurrences(<<>>, v) = Occurrences(<<>>, w)
      BY DEF Occurrences
    <3> QED
      BY <1>9, <3>1 DEF Mirrored
  <2> QED
    BY <1>9, <2>1, <2>2 DEF Within
<1>11. Counted(r)
  <2>1. Total(r.numOut) = 0
    BY <1>2, TotalOfNone
  <2> QED
    BY <1>2, <1>8, <1>9, <2>1 DEF Counted
<1> QED
  BY <1>2, <1>6, <1>7, <1>10, <1>11 DEF Linked

LEMMA InsertIs ==
  ASSUME NEW h \in Graphs, Indexed(h), NEW v \in NodeId, v \notin InGraph(h),
         NEW k \in 0..Len(h.nodes), NEW r, r = Insert(h, k, v)
  PROVE  /\ r \in Graphs /\ Indexed(r) /\ InGraph(r) = InGraph(h) \cup {v}
         /\ r.out = h.out /\ r.in = h.in /\ r.numOut = h.numOut /\ r.numIn = h.numIn
         /\ r.numConnections = h.numConnections
         /\ Len(r.nodes) = Len(h.nodes) + 1
         /\ \A p \in 1..(Len(h.nodes) + 1) :
              r.nodes[p] = IF p < k + 1 THEN h.nodes[p]
                           ELSE IF p = k + 1 THEN v ELSE h.nodes[p - 1]
         /\ \A w \in InGraph(h) : r.idx[w] = IF h.idx[w] >= k THEN h.idx[w] + 1 ELSE h.idx[w]
<1>1. /\ h.nodes \in Seq(NodeId) /\ h.idx \in [NodeId -> Int]
      /\ h.out \in [NodeId -> Seq(NodeId)] /\ h.in \in [NodeId -> Seq(NodeId)]
      /\ h.numOut \in [NodeId -> Int] /\ h.numIn \in [NodeId -> Int]
      /\ h.numConnections \in Int
  BY GraphIs
<1>2. PICK n \in Nat : n = Len(h.nodes)
  BY <1>1, LenProperties
<1>3. k \in 0..n /\ k + 1 \in 1..(n + 1)
  BY <1>2
<1>4. /\ r.nodes = InsertAt(h.nodes, k + 1, v)
      /\ r.idx = [w \in NodeId |-> IF w = v THEN k
                                   ELSE IF w \in InGraph(h) /\ h.idx[w] >= k
                                   THEN h.idx[w] + 1 ELSE h.idx[w]]
      /\ r.out = h.out /\ r.in = h.in /\ r.numOut = h.numOut /\ r.numIn = h.numIn
      /\ r.numConnections = h.numConnections
      /\ r = [nodes |-> r.nodes, idx |-> r.idx, out |-> r.out, in |-> r.in,
              numOut |-> r.numOut, numIn |-> r.numIn, numConnections |-> r.numConnections]
  BY DEF Insert, Graphs
<1>5. /\ r.nodes \in Seq(NodeId) /\ Len(r.nodes) = n + 1
      /\ \A p \in 1..(n + 1) :
           r.nodes[p] = IF p < k + 1 THEN h.nodes[p]
                        ELSE IF p = k + 1 THEN v ELSE h.nodes[p - 1]
  <2>1. PICK s \in Seq(NodeId) : s = h.nodes
    BY <1>1
  <2>2. PICK i \in 1..(Len(s) + 1) : i = k + 1
    BY <1>2, <1>3, <2>1
  <2>3. /\ InsertAt(s, i, v) \in Seq(NodeId) /\ Len(InsertAt(s, i, v)) = Len(s) + 1
        /\ \A p \in 1..(Len(s) + 1) :
             InsertAt(s, i, v)[p] = IF p < i THEN s[p] ELSE IF p = i THEN v ELSE s[p - 1]
    BY InsertAtIs
  <2> QED
    BY <1>2, <1>4, <2>1, <2>2, <2>3
<1>6. r.idx \in [NodeId -> Int]
  BY <1>1, <1>3, <1>4
<1>7. r \in Graphs
  BY <1>1, <1>4, <1>5, <1>6, GraphMade
<1>8. \A p \in 1..n : /\ h.nodes[p] \in InGraph(h) /\ h.nodes[p] \in NodeId
                      /\ h.nodes[p] # v /\ h.idx[h.nodes[p]] = p - 1
  BY <1>2, PositionInGraph, IndexedIs
<1>9. \A w \in InGraph(h) : r.idx[w] = IF h.idx[w] >= k THEN h.idx[w] + 1 ELSE h.idx[w]
  <2>1. \A w \in InGraph(h) : w \in NodeId /\ w # v
    BY NodeHasIndex
  <2> QED
    BY <1>4, <2>1
<1>10. Indexed(r)
  <2>1. ASSUME NEW p \in 1..(n + 1)
        PROVE  r.idx[r.nodes[p]] = p - 1
    <3>1. CASE p < k + 1
      <4>1. p \in 1..n /\ ~(p - 1 >= k)
        BY <1>3, <3>1
      <4> QED
        BY <1>5, <1>8, <1>9, <3>1, <4>1
    <3>2. CASE p = k + 1
      <4>1. r.nodes[p] = v /\ r.idx[v] = k
        BY <1>4, <1>5, <3>2
      <4> QED
        BY <1>3, <3>2, <4>1
    <3>3. CASE p > k + 1
      <4>1. p - 1 \in 1..n /\ (p - 1) - 1 >= k /\ ((p - 1) - 1) + 1 = p - 1 /\ ~(p < k + 1)
        BY <1>3, <3>3
      <4>2. r.nodes[p] = h.nodes[p - 1]
        BY <1>3, <1>5, <3>3, <4>1
      <4>3. h.idx[h.nodes[p - 1]] = (p - 1) - 1 /\ h.nodes[p - 1] \in InGraph(h)
        BY <1>8, <4>1
      <4> QED
        BY <1>9, <4>1, <4>2, <4>3
    <3> QED
      BY <1>3, <3>1, <3>2, <3>3
  <2> QED
    BY <1>5, <1>7, <2>1, IndexedIs
<1>11. InGraph(r) = InGraph(h) \cup {v}
  <2>1. /\ InGraph(r) = {r.nodes[p] : p \in 1..(n + 1)}
        /\ InGraph(h) = {h.nodes[p] : p \in 1..n}
    BY <1>1, <1>2, <1>5, SequenceIs DEF InGraph, ToSet
  <2>2. ASSUME NEW p \in 1..(n + 1)
        PROVE  r.nodes[p] \in InGraph(h) \cup {v}
    <3>1. CASE p < k + 1
      <4>1. p \in 1..n
        BY <1>3, <3>1
      <4> QED
        BY <1>5, <1>8, <3>1, <4>1
    <3>2. CASE p = k + 1
      BY <1>5, <3>2
    <3>3. CASE p > k + 1
      <4>1. p - 1 \in 1..n /\ ~(p < k + 1) /\ p # k + 1
        BY <1>3, <3>3
      <4> QED
        BY <1>5, <1>8, <4>1
    <3> QED
      BY <1>3, <3>1, <3>2, <3>3
  <2>3. ASSUME NEW p \in 1..n
        PROVE  \E q \in 1..(n + 1) : r.nodes[q] = h.nodes[p]
    <3>1. CASE p < k + 1
      <4>1. p \in 1..(n + 1)
        OBVIOUS
      <4> QED
        BY <1>5, <3>1, <4>1
    <3>2. CASE ~(p < k + 1)
      <4>1. p + 1 \in 1..(n + 1) /\ ~(p + 1 < k + 1) /\ p + 1 # k + 1 /\ (p + 1) - 1 = p
        BY <1>3, <3>2
      <4>2. r.nodes[p + 1] = h.nodes[p]
        BY <1>5, <4>1
      <4> QED
        BY <4>1, <4>2
    <3> QED
      BY <3>1, <3>2
  <2>4. r.nodes[k + 1] = v
    BY <1>3, <1>5
  <2>5. InGraph(r) \subseteq InGraph(h) \cup {v}
    BY <2>1, <2>2
  <2>6. InGraph(h) \subseteq InGraph(r)
    BY <2>1, <2>3
  <2>7. v \in InGraph(r)
    BY <1>3, <2>1, <2>4
  <2> QED
    BY <2>5, <2>6, <2>7
<1> QED
  BY <1>2, <1>4, <1>5, <1>7, <1>9, <1>10, <1>11

LEMMA AddIs ==
  ASSUME NEW h \in Graphs, Indexed(h), NEW v \in NodeId, v \notin InGraph(h),
         NEW r, r = Add(h, v)
  PROVE  /\ r \in Graphs /\ Indexed(r) /\ InGraph(h) \subseteq InGraph(r)
         /\ r.out = h.out /\ r.in = h.in /\ r.numOut = h.numOut /\ r.numIn = h.numIn
         /\ r.numConnections = h.numConnections
<1>1. /\ h.nodes \in Seq(NodeId) /\ h.idx \in [NodeId -> Int]
      /\ h.out \in [NodeId -> Seq(NodeId)] /\ h.in \in [NodeId -> Seq(NodeId)]
      /\ h.numOut \in [NodeId -> Int] /\ h.numIn \in [NodeId -> Int]
      /\ h.numConnections \in Int
  BY GraphIs
<1>2. PICK n \in Nat : n = Len(h.nodes)
  BY <1>1, LenProperties
<1>3. /\ r.nodes = Append(h.nodes, v) /\ r.idx = [h.idx EXCEPT ![v] = n]
      /\ r.out = h.out /\ r.in = h.in /\ r.numOut = h.numOut /\ r.numIn = h.numIn
      /\ r.numConnections = h.numConnections
      /\ r = [nodes |-> r.nodes, idx |-> r.idx, out |-> r.out, in |-> r.in,
              numOut |-> r.numOut, numIn |-> r.numIn, numConnections |-> r.numConnections]
  BY <1>2 DEF Add, Graphs
<1>4. /\ r.nodes \in Seq(NodeId) /\ Len(r.nodes) = n + 1
      /\ \A p \in 1..n : r.nodes[p] = h.nodes[p]
      /\ r.nodes[n + 1] = v
  <2>1. /\ Append(h.nodes, v) \in Seq(NodeId)
        /\ Len(Append(h.nodes, v)) = Len(h.nodes) + 1
        /\ \A p \in 1..Len(h.nodes) : Append(h.nodes, v)[p] = h.nodes[p]
        /\ Append(h.nodes, v)[Len(h.nodes) + 1] = v
    BY <1>1, AppendProperties
  <2> QED
    BY <1>2, <1>3, <2>1
<1>5. r.idx \in [NodeId -> Int]
  <2>1. \A f \in [NodeId -> Int], w \in NodeId, k \in Int : [f EXCEPT ![w] = k] \in [NodeId -> Int]
    OBVIOUS
  <2> QED
    BY <1>1, <1>3, <2>1
<1>6. r \in Graphs
  BY <1>1, <1>3, <1>4, <1>5, GraphMade
<1>7. \A p \in 1..n : /\ h.nodes[p] \in InGraph(h) /\ h.nodes[p] \in NodeId
                      /\ h.nodes[p] # v /\ h.idx[h.nodes[p]] = p - 1
  BY <1>2, PositionInGraph, IndexedIs
<1>8. Indexed(r)
  <2>1. r.idx[v] = n /\ \A w \in NodeId : w # v => r.idx[w] = h.idx[w]
    BY <1>1, <1>3
  <2>2. \A p \in 1..(n + 1) : p \in 1..n \/ p = n + 1
    OBVIOUS
  <2>3. ASSUME NEW p \in 1..(n + 1)
        PROVE  r.idx[r.nodes[p]] = p - 1
    <3>1. CASE p \in 1..n
      BY <1>4, <1>7, <2>1, <3>1
    <3>2. CASE p = n + 1
      BY <1>4, <2>1, <3>2
    <3> QED
      BY <2>2, <3>1, <3>2
  <2> QED
    BY <1>4, <1>6, <2>3, IndexedIs
<1>9. InGraph(h) \subseteq InGraph(r)
  <2>1. /\ InGraph(r) = {r.nodes[p] : p \in 1..(n + 1)}
        /\ InGraph(h) = {h.nodes[p] : p \in 1..n}
    BY <1>1, <1>2, <1>4, SequenceIs DEF InGraph, ToSet
  <2>2. \A p \in 1..n : p \in 1..(n + 1) /\ r.nodes[p] = h.nodes[p]
    BY <1>4
  <2> QED
    BY <2>1, <2>2
<1> QED
  BY <1>3, <1>6, <1>8, <1>9

LEMMA SwapIs ==
  ASSUME NEW h \in Graphs, Indexed(h), NEW a \in InGraph(h), NEW b \in InGraph(h), a # b,
         NEW r, r = Swap(h, a, b)
  PROVE  /\ r \in Graphs /\ Indexed(r) /\ InGraph(r) = InGraph(h)
         /\ r.out = h.out /\ r.in = h.in /\ r.numOut = h.numOut /\ r.numIn = h.numIn
         /\ r.numConnections = h.numConnections
         /\ Len(r.nodes) = Len(h.nodes)
<1>1. /\ h.nodes \in Seq(NodeId) /\ h.idx \in [NodeId -> Int]
      /\ h.out \in [NodeId -> Seq(NodeId)] /\ h.in \in [NodeId -> Seq(NodeId)]
      /\ h.numOut \in [NodeId -> Int] /\ h.numIn \in [NodeId -> Int]
      /\ h.numConnections \in Int
  BY GraphIs
<1>2. PICK n \in Nat : n = Len(h.nodes)
  BY <1>1, LenProperties
<1>3. h.nodes \in [1..n -> NodeId]
  BY <1>1, <1>2, LenProperties
<1>4. PICK j \in 1..n, k \in 1..n :
        h.nodes[j] = a /\ h.nodes[k] = b /\ h.idx[a] = j - 1 /\ h.idx[b] = k - 1
  <2>1. /\ h.idx[a] + 1 \in 1..n /\ h.nodes[h.idx[a] + 1] = a
        /\ h.idx[b] + 1 \in 1..n /\ h.nodes[h.idx[b] + 1] = b
    BY <1>2, NodeHasIndex
  <2>2. h.idx[a] \in Int /\ h.idx[b] \in Int
    BY <1>2, NodeHasIndex
  <2>3. h.idx[a] = (h.idx[a] + 1) - 1 /\ h.idx[b] = (h.idx[b] + 1) - 1
    BY <2>2
  <2> QED
    BY <2>1, <2>3
<1>5. a \in NodeId /\ b \in NodeId /\ j # k
  BY <1>4, NodeHasIndex
<1>6. /\ r.nodes = [[h.nodes EXCEPT ![j] = b] EXCEPT ![k] = a]
      /\ r.idx = [[h.idx EXCEPT ![a] = k - 1] EXCEPT ![b] = j - 1]
      /\ r.out = h.out /\ r.in = h.in /\ r.numOut = h.numOut /\ r.numIn = h.numIn
      /\ r.numConnections = h.numConnections
      /\ r = [nodes |-> r.nodes, idx |-> r.idx, out |-> r.out, in |-> r.in,
              numOut |-> r.numOut, numIn |-> r.numIn, numConnections |-> r.numConnections]
  <2>1. h.idx[a] + 1 = j /\ h.idx[b] + 1 = k
    BY <1>4
  <2>2. r = [h EXCEPT !.nodes[j] = b, !.nodes[k] = a, !.idx[a] = k - 1, !.idx[b] = j - 1]
    BY <1>4, <2>1 DEF Swap
  <2> QED
    BY <2>2 DEF Graphs
<1>7. r.nodes \in [1..n -> NodeId] /\ r.idx \in [NodeId -> Int]
  <2>1. \A D, S : \A f \in [D -> S], d, e \in D, x, y \in S :
          [[f EXCEPT ![d] = x] EXCEPT ![e] = y] \in [D -> S]
    OBVIOUS
  <2>2. j - 1 \in Int /\ k - 1 \in Int
    OBVIOUS
  <2>3. [[h.nodes EXCEPT ![j] = b] EXCEPT ![k] = a] \in [1..n -> NodeId]
    BY <1>3, <1>5, <2>1
  <2>4. [[h.idx EXCEPT ![a] = k - 1] EXCEPT ![b] = j - 1] \in [NodeId -> Int]
    BY <1>1, <1>5, <2>1, <2>2
  <2> QED
    BY <1>6, <2>3, <2>4
<1>8. /\ r.nodes[j] = b /\ r.nodes[k] = a
      /\ \A l \in 1..n : l # j /\ l # k => r.nodes[l] = h.nodes[l]
  BY <1>3, <1>5, <1>6
<1>9. /\ r.idx[a] = k - 1 /\ r.idx[b] = j - 1
      /\ \A v \in NodeId : v # a /\ v # b => r.idx[v] = h.idx[v]
  BY <1>1, <1>4, <1>5, <1>6
<1>10. r.nodes \in Seq(NodeId) /\ Len(r.nodes) = n /\ DOMAIN r.nodes = 1..n
  <2>1. r.nodes \in Seq(NodeId)
    BY <1>7, SeqDef
  <2> QED
    BY <1>7, <2>1, LenProperties
<1>11. r \in Graphs
  BY <1>1, <1>6, <1>7, <1>10, GraphMade
<1>12. \A l \in 1..n : h.nodes[l] \in NodeId /\ h.idx[h.nodes[l]] = l - 1
  BY <1>2, PositionInGraph, IndexedIs
<1>13. Indexed(r)
  <2>1. ASSUME NEW l \in 1..n
        PROVE  r.idx[r.nodes[l]] = l - 1
    <3>1. CASE l = j \/ l = k
      BY <1>8, <1>9, <3>1
    <3>2. CASE l # j /\ l # k
      <4>1. r.nodes[l] = h.nodes[l] /\ h.nodes[l] # a /\ h.nodes[l] # b
        BY <1>4, <1>8, <1>12, <3>2
      <4> QED
        BY <1>9, <1>12, <4>1
    <3> QED
      BY <3>1, <3>2
  <2> QED
    BY <1>10, <1>11, <2>1, IndexedIs
<1>14. InGraph(r) = InGraph(h)
  <2>1. /\ InGraph(r) = {r.nodes[l] : l \in 1..n}
        /\ InGraph(h) = {h.nodes[l] : l \in 1..n}
    BY <1>3, <1>10 DEF InGraph, ToSet
  <2>2. \A l \in 1..n : \E m \in 1..n : r.nodes[l] = h.nodes[m]
    BY <1>4, <1>8
  <2>3. \A l \in 1..n : \E m \in 1..n : h.nodes[l] = r.nodes[m]
    BY <1>4, <1>8
  <2>4. InGraph(r) \subseteq InGraph(h)
    BY <2>1, <2>2
  <2>5. InGraph(h) \subseteq InGraph(r)
    BY <2>1, <2>3
  <2> QED
    BY <2>4, <2>5
<1> QED
  BY <1>2, <1>6, <1>10, <1>11, <1>13, <1>14

(* What the removal of a node from the array does                          *)
LEMMA RemovalIs ==
  ASSUME NEW h \in Graphs, Indexed(h), NEW v \in InGraph(h), NEW r,
         r.nodes = RemoveAt(h.nodes, h.idx[v] + 1),
         r.idx = [w \in NodeId |-> IF w = v THEN 0
                                   ELSE IF w \in InGraph(h) /\ h.idx[w] > h.idx[v]
                                   THEN h.idx[w] - 1 ELSE h.idx[w]],
         r.out = h.out, r.in = h.in, r.numOut = h.numOut, r.numIn = h.numIn,
         r.numConnections = h.numConnections,
         r = [nodes |-> r.nodes, idx |-> r.idx, out |-> r.out, in |-> r.in,
              numOut |-> r.numOut, numIn |-> r.numIn, numConnections |-> r.numConnections]
  PROVE  r \in Graphs /\ Indexed(r) /\ InGraph(h) \ {v} \subseteq InGraph(r)
<1>1. /\ h.nodes \in Seq(NodeId) /\ h.idx \in [NodeId -> Int]
      /\ h.out \in [NodeId -> Seq(NodeId)] /\ h.in \in [NodeId -> Seq(NodeId)]
      /\ h.numOut \in [NodeId -> Int] /\ h.numIn \in [NodeId -> Int]
      /\ h.numConnections \in Int
  BY GraphIs
<1>2. PICK n \in Nat : n = Len(h.nodes)
  BY <1>1, LenProperties
<1>3. PICK i \in 1..n : i = h.idx[v] + 1 /\ h.nodes[i] = v /\ h.idx[v] = i - 1
  <2>1. h.idx[v] \in 0..(n - 1) /\ h.idx[v] + 1 \in 1..n /\ h.nodes[h.idx[v] + 1] = v
    BY <1>2, NodeHasIndex
  <2>2. (h.idx[v] + 1) - 1 = h.idx[v]
    BY <2>1
  <2> QED
    BY <2>1, <2>2
<1>4. /\ r.nodes \in Seq(NodeId) /\ Len(r.nodes) = n - 1
      /\ \A p \in 1..(n - 1) : r.nodes[p] = IF p < i THEN h.nodes[p] ELSE h.nodes[p + 1]
  <2>1. /\ RemoveAt(h.nodes, i) \in Seq(NodeId)
        /\ Len(RemoveAt(h.nodes, i)) = Len(h.nodes) - 1
        /\ \A p \in 1..(Len(h.nodes) - 1) :
             RemoveAt(h.nodes, i)[p] = IF p < i THEN h.nodes[p] ELSE h.nodes[p + 1]
    BY <1>1, <1>2, RemoveAtIs
  <2> QED
    BY <1>2, <1>3, <2>1
<1>5. r.idx \in [NodeId -> Int]
  BY <1>1
<1>6. r \in Graphs
  <2>1. /\ r.out \in [NodeId -> Seq(NodeId)] /\ r.in \in [NodeId -> Seq(NodeId)]
        /\ r.numOut \in [NodeId -> Int] /\ r.numIn \in [NodeId -> Int]
        /\ r.numConnections \in Int
    BY <1>1
  <2> QED
    BY <1>4, <1>5, <2>1, GraphMade
<1>7. \A p \in 1..n : /\ h.nodes[p] \in InGraph(h) /\ h.nodes[p] \in NodeId
                      /\ h.idx[h.nodes[p]] = p - 1
  BY <1>2, PositionInGraph, IndexedIs
<1>8. \A p \in 1..n : p # i => r.idx[h.nodes[p]] = IF p > i THEN p - 2 ELSE p - 1
  <2> TAKE p \in 1..n
  <2> HAVE p # i
  <2>1. h.nodes[p] # v /\ h.nodes[p] \in NodeId /\ h.nodes[p] \in InGraph(h)
        /\ h.idx[h.nodes[p]] = p - 1
    BY <1>3, <1>7
  <2>2. p - 1 > i - 1 <=> p > i
    OBVIOUS
  <2>3. r.idx[h.nodes[p]] = IF p - 1 > i - 1 THEN (p - 1) - 1 ELSE p - 1
    BY <1>3, <2>1
  <2> QED
    BY <2>2, <2>3
<1>9. Indexed(r)
  <2>1. ASSUME NEW p \in 1..(n - 1)
        PROVE  r.idx[r.nodes[p]] = p - 1
    <3>1. CASE p < i
      <4>1. p \in 1..n /\ p # i /\ ~(p > i) /\ r.nodes[p] = h.nodes[p]
        BY <1>4, <3>1
      <4> QED
        BY <1>8, <4>1
    <3>2. CASE ~(p < i)
      <4>1. p + 1 \in 1..n /\ p + 1 # i /\ p + 1 > i /\ (p + 1) - 2 = p - 1
        BY <3>2
      <4>2. r.nodes[p] = h.nodes[p + 1]
        BY <1>4, <3>2
      <4> QED
        BY <1>8, <4>1, <4>2
    <3> QED
      BY <3>1, <3>2
  <2> QED
    BY <1>4, <1>6, <2>1, IndexedIs
<1>10. InGraph(h) \ {v} \subseteq InGraph(r)
  <2>1. /\ InGraph(r) = {r.nodes[p] : p \in 1..(n - 1)}
        /\ InGraph(h) = {h.nodes[p] : p \in 1..n}
    BY <1>1, <1>2, <1>4, SequenceIs DEF InGraph, ToSet
  <2>2. ASSUME NEW p \in 1..n, h.nodes[p] # v
        PROVE  \E q \in 1..(n - 1) : r.nodes[q] = h.nodes[p]
    <3>1. p # i
      BY <1>3, <2>2
    <3>2. CASE p < i
      <4>1. p \in 1..(n - 1)
        BY <3>2
      <4> QED
        BY <1>4, <3>2, <4>1
    <3>3. CASE p > i
      <4>1. p - 1 \in 1..(n - 1) /\ ~(p - 1 < i) /\ (p - 1) + 1 = p
        BY <3>3
      <4>2. r.nodes[p - 1] = h.nodes[p]
        BY <1>4, <4>1
      <4> QED
        BY <4>1, <4>2
    <3> QED
      BY <3>1, <3>2, <3>3
  <2> QED
    BY <2>1, <2>2
<1> QED
  BY <1>6, <1>9, <1>10

-----------------------------------------------------------------------------
(* Loops                                                                   *)
LEMMA DisconnectFromRounds ==
  ASSUME NEW h \in Graphs, NEW v \in NodeId, NEW ws \in Seq(NodeId)
  PROVE  \E r \in [0..Len(ws) -> Graphs] :
           /\ r[0] = h /\ r[Len(ws)] = DisconnectFrom(h, v, ws)
           /\ \A k \in 1..Len(ws) : r[k] = Disconnect(r[k - 1], v, ws[k])
<1>1. PICK n \in Nat : n = Len(ws)
  BY LenProperties
<1>2. DOMAIN ws = 1..n /\ \A k \in 1..n : ws[k] \in NodeId
  BY <1>1, SequenceIs
<1>3. PICK F \in [(1..n) \X Graphs -> Graphs] :
        \A k \in 1..n, m \in Graphs : F[<<k, m>>] = Disconnect(m, v, ws[k])
  <2>1. ASSUME NEW k \in 1..n, NEW m \in Graphs
        PROVE  Disconnect(m, v, ws[k]) \in Graphs
    BY <1>2, DisconnectIs
  <2>2. [p \in (1..n) \X Graphs |-> Disconnect(p[2], v, ws[p[1]])] \in [(1..n) \X Graphs -> Graphs]
    BY <2>1
  <2> QED
    BY <2>2
<1>4. PICK i : IsFold(i, 1..n, Graphs, h, Latest(n), F)
  BY LoopExists
<1> DEFINE Step(iter) == [t \in SUBSET DOMAIN ws |->
                            IF t = {} THEN h ELSE Disconnect(iter[t \ {Max(t)}], v, ws[Max(t)])]
           f == CHOOSE iter : iter = Step(iter)
<1>5. i = Step(i)
  <2>1. ASSUME NEW t \in SUBSET (1..n), t # {}
        PROVE  i[t] = Disconnect(i[t \ {Max(t)}], v, ws[Max(t)])
    <3>1. PICK k \in 1..n : k = Max(t)
      BY <2>1, Greatest
    <3>2. Latest(n)[t] = k
      BY <3>1 DEF Latest
    <3>3. t \ {k} \in SUBSET (1..n)
      OBVIOUS
    <3>4. i[t] = F[<<k, i[t \ {k}]>>] /\ i[t \ {k}] \in Graphs
      BY <1>4, <2>1, <3>2, <3>3 DEF IsFold
    <3>5. F[<<k, i[t \ {k}]>>] = Disconnect(i[t \ {k}], v, ws[k])
      BY <1>3, <3>4
    <3> QED
      BY <3>1, <3>4, <3>5
  <2>2. i[{}] = h /\ i = [t \in SUBSET (1..n) |-> i[t]]
    BY <1>4 DEF IsFold
  <2> QED
    BY <1>2, <2>1, <2>2
<1>6. f = Step(f)
  BY <1>5
<1>7. DisconnectFrom(h, v, ws) = f[1..n]
  <2>1. DisconnectFrom(h, v, ws) = f[DOMAIN ws]
    BY DEF DisconnectFrom, FoldLeft, MapThenFoldSet
  <2> HIDE DEF f
  <2> QED
    BY <1>2, <2>1
<1> HIDE DEF f
<1>8. Folds(f, n, Graphs, h, F)
  <2>1. ASSUME NEW t \in SUBSET (1..n)
        PROVE  f[t] = IF t = {} THEN h ELSE Disconnect(f[t \ {Max(t)}], v, ws[Max(t)])
    BY <1>2, <1>6
  <2> HIDE DEF Step
  <2>2. ASSUME NEW t \in SUBSET (1..n), t # {}, f[t \ {Max(t)}] \in Graphs
        PROVE  f[t] = F[<<Max(t), f[t \ {Max(t)}]>>]
    <3>1. PICK k \in 1..n : k = Max(t)
      BY <2>2, Greatest
    <3>2. f[t] = Disconnect(f[t \ {k}], v, ws[k])
      BY <2>1, <2>2, <3>1
    <3> QED
      BY <1>3, <2>2, <3>1, <3>2
  <2> QED
    BY <2>1, <2>2 DEF Folds
<1> HIDE DEF Step
<1>9. PICK r : Rounds(r, n, Graphs, h, F, f[1..n])
  BY <1>8, FoldRounds
<1>10. r \in [0..n -> Graphs] /\ r[0] = h /\ r[n] = f[1..n]
  BY <1>9 DEF Rounds
<1>11. ASSUME NEW k \in 1..n
       PROVE  r[k] = Disconnect(r[k - 1], v, ws[k])
  <2>1. r[k] = F[<<k, r[k - 1]>>] /\ r[k - 1] \in Graphs
    <3>1. k - 1 \in 0..n
      OBVIOUS
    <3> QED
      BY <1>9, <1>10, <3>1 DEF Rounds
  <2> QED
    BY <1>3, <2>1
<1> QED
  BY <1>1, <1>7, <1>9, <1>10, <1>11

LEMMA DisconnectToRounds ==
  ASSUME NEW h \in Graphs, NEW v \in NodeId, NEW ws \in Seq(NodeId)
  PROVE  \E r \in [0..Len(ws) -> Graphs] :
           /\ r[0] = h /\ r[Len(ws)] = DisconnectTo(h, v, ws)
           /\ \A k \in 1..Len(ws) : r[k] = Disconnect(r[k - 1], ws[k], v)
<1>1. PICK n \in Nat : n = Len(ws)
  BY LenProperties
<1>2. DOMAIN ws = 1..n /\ \A k \in 1..n : ws[k] \in NodeId
  BY <1>1, SequenceIs
<1>3. PICK F \in [(1..n) \X Graphs -> Graphs] :
        \A k \in 1..n, m \in Graphs : F[<<k, m>>] = Disconnect(m, ws[k], v)
  <2>1. ASSUME NEW k \in 1..n, NEW m \in Graphs
        PROVE  Disconnect(m, ws[k], v) \in Graphs
    BY <1>2, DisconnectIs
  <2>2. [p \in (1..n) \X Graphs |-> Disconnect(p[2], ws[p[1]], v)] \in [(1..n) \X Graphs -> Graphs]
    BY <2>1
  <2> QED
    BY <2>2
<1>4. PICK i : IsFold(i, 1..n, Graphs, h, Latest(n), F)
  BY LoopExists
<1> DEFINE Step(iter) == [t \in SUBSET DOMAIN ws |->
                            IF t = {} THEN h ELSE Disconnect(iter[t \ {Max(t)}], ws[Max(t)], v)]
           f == CHOOSE iter : iter = Step(iter)
<1>5. i = Step(i)
  <2>1. ASSUME NEW t \in SUBSET (1..n), t # {}
        PROVE  i[t] = Disconnect(i[t \ {Max(t)}], ws[Max(t)], v)
    <3>1. PICK k \in 1..n : k = Max(t)
      BY <2>1, Greatest
    <3>2. Latest(n)[t] = k
      BY <3>1 DEF Latest
    <3>3. t \ {k} \in SUBSET (1..n)
      OBVIOUS
    <3>4. i[t] = F[<<k, i[t \ {k}]>>] /\ i[t \ {k}] \in Graphs
      BY <1>4, <2>1, <3>2, <3>3 DEF IsFold
    <3>5. F[<<k, i[t \ {k}]>>] = Disconnect(i[t \ {k}], ws[k], v)
      BY <1>3, <3>4
    <3> QED
      BY <3>1, <3>4, <3>5
  <2>2. i[{}] = h /\ i = [t \in SUBSET (1..n) |-> i[t]]
    BY <1>4 DEF IsFold
  <2> QED
    BY <1>2, <2>1, <2>2
<1>6. f = Step(f)
  BY <1>5
<1>7. DisconnectTo(h, v, ws) = f[1..n]
  <2>1. DisconnectTo(h, v, ws) = f[DOMAIN ws]
    BY DEF DisconnectTo, FoldLeft, MapThenFoldSet
  <2> HIDE DEF f
  <2> QED
    BY <1>2, <2>1
<1> HIDE DEF f
<1>8. Folds(f, n, Graphs, h, F)
  <2>1. ASSUME NEW t \in SUBSET (1..n)
        PROVE  f[t] = IF t = {} THEN h ELSE Disconnect(f[t \ {Max(t)}], ws[Max(t)], v)
    BY <1>2, <1>6
  <2> HIDE DEF Step
  <2>2. ASSUME NEW t \in SUBSET (1..n), t # {}, f[t \ {Max(t)}] \in Graphs
        PROVE  f[t] = F[<<Max(t), f[t \ {Max(t)}]>>]
    <3>1. PICK k \in 1..n : k = Max(t)
      BY <2>2, Greatest
    <3>2. f[t] = Disconnect(f[t \ {k}], ws[k], v)
      BY <2>1, <2>2, <3>1
    <3> QED
      BY <1>3, <2>2, <3>1, <3>2
  <2> QED
    BY <2>1, <2>2 DEF Folds
<1> HIDE DEF Step
<1>9. PICK r : Rounds(r, n, Graphs, h, F, f[1..n])
  BY <1>8, FoldRounds
<1>10. r \in [0..n -> Graphs] /\ r[0] = h /\ r[n] = f[1..n]
  BY <1>9 DEF Rounds
<1>11. ASSUME NEW k \in 1..n
       PROVE  r[k] = Disconnect(r[k - 1], ws[k], v)
  <2>1. r[k] = F[<<k, r[k - 1]>>] /\ r[k - 1] \in Graphs
    <3>1. k - 1 \in 0..n
      OBVIOUS
    <3> QED
      BY <1>9, <1>10, <3>1 DEF Rounds
  <2> QED
    BY <1>3, <2>1
<1> QED
  BY <1>1, <1>7, <1>9, <1>10, <1>11

LEMMA ConnectFromRounds ==
  ASSUME NEW h \in Graphs, NEW v \in NodeId, NEW ws \in Seq(NodeId)
  PROVE  \E r \in [0..Len(ws) -> Graphs] :
           /\ r[0] = h /\ r[Len(ws)] = ConnectFrom(h, v, ws)
           /\ \A k \in 1..Len(ws) : r[k] = Connect(r[k - 1], v, ws[k])
<1>1. PICK n \in Nat : n = Len(ws)
  BY LenProperties
<1>2. DOMAIN ws = 1..n /\ \A k \in 1..n : ws[k] \in NodeId
  BY <1>1, SequenceIs
<1>3. PICK F \in [(1..n) \X Graphs -> Graphs] :
        \A k \in 1..n, m \in Graphs : F[<<k, m>>] = Connect(m, v, ws[k])
  <2>1. ASSUME NEW k \in 1..n, NEW m \in Graphs
        PROVE  Connect(m, v, ws[k]) \in Graphs
    BY <1>2, ConnectIs
  <2>2. [p \in (1..n) \X Graphs |-> Connect(p[2], v, ws[p[1]])] \in [(1..n) \X Graphs -> Graphs]
    BY <2>1
  <2> QED
    BY <2>2
<1>4. PICK i : IsFold(i, 1..n, Graphs, h, Latest(n), F)
  BY LoopExists
<1> DEFINE Step(iter) == [t \in SUBSET DOMAIN ws |->
                            IF t = {} THEN h ELSE Connect(iter[t \ {Max(t)}], v, ws[Max(t)])]
           f == CHOOSE iter : iter = Step(iter)
<1>5. i = Step(i)
  <2>1. ASSUME NEW t \in SUBSET (1..n), t # {}
        PROVE  i[t] = Connect(i[t \ {Max(t)}], v, ws[Max(t)])
    <3>1. PICK k \in 1..n : k = Max(t)
      BY <2>1, Greatest
    <3>2. Latest(n)[t] = k
      BY <3>1 DEF Latest
    <3>3. t \ {k} \in SUBSET (1..n)
      OBVIOUS
    <3>4. i[t] = F[<<k, i[t \ {k}]>>] /\ i[t \ {k}] \in Graphs
      BY <1>4, <2>1, <3>2, <3>3 DEF IsFold
    <3>5. F[<<k, i[t \ {k}]>>] = Connect(i[t \ {k}], v, ws[k])
      BY <1>3, <3>4
    <3> QED
      BY <3>1, <3>4, <3>5
  <2>2. i[{}] = h /\ i = [t \in SUBSET (1..n) |-> i[t]]
    BY <1>4 DEF IsFold
  <2> QED
    BY <1>2, <2>1, <2>2
<1>6. f = Step(f)
  BY <1>5
<1>7. ConnectFrom(h, v, ws) = f[1..n]
  <2>1. ConnectFrom(h, v, ws) = f[DOMAIN ws]
    BY DEF ConnectFrom, FoldLeft, MapThenFoldSet
  <2> HIDE DEF f
  <2> QED
    BY <1>2, <2>1
<1> HIDE DEF f
<1>8. Folds(f, n, Graphs, h, F)
  <2>1. ASSUME NEW t \in SUBSET (1..n)
        PROVE  f[t] = IF t = {} THEN h ELSE Connect(f[t \ {Max(t)}], v, ws[Max(t)])
    BY <1>2, <1>6
  <2> HIDE DEF Step
  <2>2. ASSUME NEW t \in SUBSET (1..n), t # {}, f[t \ {Max(t)}] \in Graphs
        PROVE  f[t] = F[<<Max(t), f[t \ {Max(t)}]>>]
    <3>1. PICK k \in 1..n : k = Max(t)
      BY <2>2, Greatest
    <3>2. f[t] = Connect(f[t \ {k}], v, ws[k])
      BY <2>1, <2>2, <3>1
    <3> QED
      BY <1>3, <2>2, <3>1, <3>2
  <2> QED
    BY <2>1, <2>2 DEF Folds
<1> HIDE DEF Step
<1>9. PICK r : Rounds(r, n, Graphs, h, F, f[1..n])
  BY <1>8, FoldRounds
<1>10. r \in [0..n -> Graphs] /\ r[0] = h /\ r[n] = f[1..n]
  BY <1>9 DEF Rounds
<1>11. ASSUME NEW k \in 1..n
       PROVE  r[k] = Connect(r[k - 1], v, ws[k])
  <2>1. r[k] = F[<<k, r[k - 1]>>] /\ r[k - 1] \in Graphs
    <3>1. k - 1 \in 0..n
      OBVIOUS
    <3> QED
      BY <1>9, <1>10, <3>1 DEF Rounds
  <2> QED
    BY <1>3, <2>1
<1> QED
  BY <1>1, <1>7, <1>9, <1>10, <1>11

LEMMA ConnectAllRounds ==
  ASSUME NEW h \in Graphs, NEW ws \in Seq(NodeId \X NodeId)
  PROVE  \E r \in [0..Len(ws) -> Graphs] :
           /\ r[0] = h /\ r[Len(ws)] = ConnectAll(h, ws)
           /\ \A k \in 1..Len(ws) : r[k] = Connect(r[k - 1], ws[k][1], ws[k][2])
<1>1. PICK n \in Nat : n = Len(ws)
  BY LenProperties
<1>2. DOMAIN ws = 1..n /\ \A k \in 1..n : ws[k][1] \in NodeId /\ ws[k][2] \in NodeId
  BY <1>1, SequenceIs
<1>3. PICK F \in [(1..n) \X Graphs -> Graphs] :
        \A k \in 1..n, m \in Graphs : F[<<k, m>>] = Connect(m, ws[k][1], ws[k][2])
  <2>1. ASSUME NEW k \in 1..n, NEW m \in Graphs
        PROVE  Connect(m, ws[k][1], ws[k][2]) \in Graphs
    BY <1>2, ConnectIs
  <2>2. [p \in (1..n) \X Graphs |-> Connect(p[2], ws[p[1]][1], ws[p[1]][2])] \in [(1..n) \X Graphs -> Graphs]
    BY <2>1
  <2> QED
    BY <2>2
<1>4. PICK i : IsFold(i, 1..n, Graphs, h, Latest(n), F)
  BY LoopExists
<1> DEFINE Step(iter) == [t \in SUBSET DOMAIN ws |->
                            IF t = {} THEN h ELSE Connect(iter[t \ {Max(t)}], ws[Max(t)][1], ws[Max(t)][2])]
           f == CHOOSE iter : iter = Step(iter)
<1>5. i = Step(i)
  <2>1. ASSUME NEW t \in SUBSET (1..n), t # {}
        PROVE  i[t] = Connect(i[t \ {Max(t)}], ws[Max(t)][1], ws[Max(t)][2])
    <3>1. PICK k \in 1..n : k = Max(t)
      BY <2>1, Greatest
    <3>2. Latest(n)[t] = k
      BY <3>1 DEF Latest
    <3>3. t \ {k} \in SUBSET (1..n)
      OBVIOUS
    <3>4. i[t] = F[<<k, i[t \ {k}]>>] /\ i[t \ {k}] \in Graphs
      BY <1>4, <2>1, <3>2, <3>3 DEF IsFold
    <3>5. F[<<k, i[t \ {k}]>>] = Connect(i[t \ {k}], ws[k][1], ws[k][2])
      BY <1>3, <3>4
    <3> QED
      BY <3>1, <3>4, <3>5
  <2>2. i[{}] = h /\ i = [t \in SUBSET (1..n) |-> i[t]]
    BY <1>4 DEF IsFold
  <2> QED
    BY <1>2, <2>1, <2>2
<1>6. f = Step(f)
  BY <1>5
<1>7. ConnectAll(h, ws) = f[1..n]
  <2>1. ConnectAll(h, ws) = f[DOMAIN ws]
    BY DEF ConnectAll, FoldLeft, MapThenFoldSet
  <2> HIDE DEF f
  <2> QED
    BY <1>2, <2>1
<1> HIDE DEF f
<1>8. Folds(f, n, Graphs, h, F)
  <2>1. ASSUME NEW t \in SUBSET (1..n)
        PROVE  f[t] = IF t = {} THEN h ELSE Connect(f[t \ {Max(t)}], ws[Max(t)][1], ws[Max(t)][2])
    BY <1>2, <1>6
  <2> HIDE DEF Step
  <2>2. ASSUME NEW t \in SUBSET (1..n), t # {}, f[t \ {Max(t)}] \in Graphs
        PROVE  f[t] = F[<<Max(t), f[t \ {Max(t)}]>>]
    <3>1. PICK k \in 1..n : k = Max(t)
      BY <2>2, Greatest
    <3>2. f[t] = Connect(f[t \ {k}], ws[k][1], ws[k][2])
      BY <2>1, <2>2, <3>1
    <3> QED
      BY <1>3, <2>2, <3>1, <3>2
  <2> QED
    BY <2>1, <2>2 DEF Folds
<1> HIDE DEF Step
<1>9. PICK r : Rounds(r, n, Graphs, h, F, f[1..n])
  BY <1>8, FoldRounds
<1>10. r \in [0..n -> Graphs] /\ r[0] = h /\ r[n] = f[1..n]
  BY <1>9 DEF Rounds
<1>11. ASSUME NEW k \in 1..n
       PROVE  r[k] = Connect(r[k - 1], ws[k][1], ws[k][2])
  <2>1. r[k] = F[<<k, r[k - 1]>>] /\ r[k - 1] \in Graphs
    <3>1. k - 1 \in 0..n
      OBVIOUS
    <3> QED
      BY <1>9, <1>10, <3>1 DEF Rounds
  <2> QED
    BY <1>3, <2>1
<1> QED
  BY <1>1, <1>7, <1>9, <1>10, <1>11

BranchesTaken(r, h, v, ws, sink) ==
  /\ r \in [0..Len(ws) -> Graphs] /\ r[0] = h /\ r[Len(ws)] = Branches(h, v, ws, sink)
  /\ \A k \in 1..Len(ws) : r[k] = Connect(Connect(r[k - 1], v, ws[k]), ws[k], sink)

LEMMA BranchesRounds ==
  ASSUME NEW h \in Graphs, NEW v \in NodeId, NEW ws \in Seq(NodeId), NEW sink \in NodeId
  PROVE  \E r : BranchesTaken(r, h, v, ws, sink)
<1>1. PICK n \in Nat : n = Len(ws)
  BY LenProperties
<1>2. DOMAIN ws = 1..n /\ \A k \in 1..n : ws[k] \in NodeId
  BY <1>1, SequenceIs
<1>3. PICK F \in [(1..n) \X Graphs -> Graphs] :
        \A k \in 1..n, m \in Graphs : F[<<k, m>>] = Connect(Connect(m, v, ws[k]), ws[k], sink)
  <2>1. ASSUME NEW k \in 1..n, NEW m \in Graphs
        PROVE  Connect(Connect(m, v, ws[k]), ws[k], sink) \in Graphs
    <3>1. Connect(m, v, ws[k]) \in Graphs
      BY <1>2, ConnectIs
    <3> QED
      BY <1>2, <3>1, ConnectIs
  <2>2. [p \in (1..n) \X Graphs |-> Connect(Connect(p[2], v, ws[p[1]]), ws[p[1]], sink)] \in [(1..n) \X Graphs -> Graphs]
    BY <2>1
  <2> QED
    BY <2>2
<1>4. PICK i : IsFold(i, 1..n, Graphs, h, Latest(n), F)
  BY LoopExists
<1> DEFINE Step(iter) == [t \in SUBSET DOMAIN ws |->
                            IF t = {} THEN h ELSE Connect(Connect(iter[t \ {Max(t)}], v, ws[Max(t)]), ws[Max(t)], sink)]
           f == CHOOSE iter : iter = Step(iter)
<1>5. i = Step(i)
  <2>1. ASSUME NEW t \in SUBSET (1..n), t # {}
        PROVE  i[t] = Connect(Connect(i[t \ {Max(t)}], v, ws[Max(t)]), ws[Max(t)], sink)
    <3>1. PICK k \in 1..n : k = Max(t)
      BY <2>1, Greatest
    <3>2. Latest(n)[t] = k
      BY <3>1 DEF Latest
    <3>3. t \ {k} \in SUBSET (1..n)
      OBVIOUS
    <3>4. i[t] = F[<<k, i[t \ {k}]>>] /\ i[t \ {k}] \in Graphs
      BY <1>4, <2>1, <3>2, <3>3 DEF IsFold
    <3>5. F[<<k, i[t \ {k}]>>] = Connect(Connect(i[t \ {k}], v, ws[k]), ws[k], sink)
      BY <1>3, <3>4
    <3> QED
      BY <3>1, <3>4, <3>5
  <2>2. i[{}] = h /\ i = [t \in SUBSET (1..n) |-> i[t]]
    BY <1>4 DEF IsFold
  <2> QED
    BY <1>2, <2>1, <2>2
<1>6. f = Step(f)
  BY <1>5
<1>7. Branches(h, v, ws, sink) = f[1..n]
  <2>1. Branches(h, v, ws, sink) = f[DOMAIN ws]
    BY DEF Branches, FoldLeft, MapThenFoldSet
  <2> HIDE DEF f
  <2> QED
    BY <1>2, <2>1
<1> HIDE DEF f
<1>8. Folds(f, n, Graphs, h, F)
  <2>1. ASSUME NEW t \in SUBSET (1..n)
        PROVE  f[t] = IF t = {} THEN h ELSE Connect(Connect(f[t \ {Max(t)}], v, ws[Max(t)]), ws[Max(t)], sink)
    BY <1>2, <1>6
  <2> HIDE DEF Step
  <2>2. ASSUME NEW t \in SUBSET (1..n), t # {}, f[t \ {Max(t)}] \in Graphs
        PROVE  f[t] = F[<<Max(t), f[t \ {Max(t)}]>>]
    <3>1. PICK k \in 1..n : k = Max(t)
      BY <2>2, Greatest
    <3>2. f[t] = Connect(Connect(f[t \ {k}], v, ws[k]), ws[k], sink)
      BY <2>1, <2>2, <3>1
    <3> QED
      BY <1>3, <2>2, <3>1, <3>2
  <2> QED
    BY <2>1, <2>2 DEF Folds
<1> HIDE DEF Step
<1>9. PICK r : Rounds(r, n, Graphs, h, F, f[1..n])
  BY <1>8, FoldRounds
<1>10. r \in [0..n -> Graphs] /\ r[0] = h /\ r[n] = f[1..n]
  BY <1>9 DEF Rounds
<1>11. ASSUME NEW k \in 1..n
       PROVE  r[k] = Connect(Connect(r[k - 1], v, ws[k]), ws[k], sink)
  <2>1. r[k] = F[<<k, r[k - 1]>>] /\ r[k - 1] \in Graphs
    <3>1. k - 1 \in 0..n
      OBVIOUS
    <3> QED
      BY <1>9, <1>10, <3>1 DEF Rounds
  <2> QED
    BY <1>3, <2>1
<1> QED
  BY <1>1, <1>7, <1>10, <1>11 DEF BranchesTaken

(* The graphs with the nodes of h                                          *)
SameNodes(h) == {m \in Graphs : m.nodes = h.nodes}

LEMMA ConnectStays ==
  ASSUME NEW m \in Graphs, NEW a \in NodeId, NEW b \in NodeId
  PROVE  Connect(m, a, b) \in Graphs /\ Connect(m, a, b).nodes = m.nodes
<1>1. PICK r : r = Connect(m, a, b)
  OBVIOUS
<1>2. r \in Graphs
  BY <1>1, ConnectIs
<1>3. r.nodes = m.nodes
  BY <1>1 DEF Connect, Graphs
<1> QED
  BY <1>1, <1>2, <1>3

LEMMA ConnectSameNodes ==
  ASSUME NEW h, NEW m \in SameNodes(h), NEW a \in NodeId, NEW b \in NodeId
  PROVE  Connect(m, a, b) \in SameNodes(h)
<1>1. m \in Graphs /\ m.nodes = h.nodes
  BY DEF SameNodes
<1>2. Connect(m, a, b) \in Graphs /\ Connect(m, a, b).nodes = m.nodes
  BY <1>1, ConnectStays
<1> QED
  BY <1>1, <1>2 DEF SameNodes

LEMMA CopyNodeRounds ==
  ASSUME NEW h \in Graphs, Indexed(h), NEW copy \in SameNodes(h), NEW u \in NodeId,
         NEW ws \in Seq(NodeId), ws = h.out[u], ToSet(ws) \subseteq InGraph(h)
  PROVE  \E r \in [0..Len(ws) -> SameNodes(h)] :
           /\ r[0] = copy /\ r[Len(ws)] = CopyNode(h, copy, u)
           /\ \A k \in 1..Len(ws) : r[k] = Connect(r[k - 1], u, NodeAt(r[k - 1], h.idx[ws[k]]))
<1>1. PICK n \in Nat : n = Len(ws)
  BY LenProperties
<1>2. DOMAIN ws = 1..n /\ \A k \in 1..n : ws[k] \in InGraph(h)
  BY <1>1, SequenceIs DEF ToSet
<1>3. PICK F \in [(1..n) \X SameNodes(h) -> SameNodes(h)] :
        \A k \in 1..n, m \in SameNodes(h) : F[<<k, m>>] = Connect(m, u, NodeAt(m, h.idx[ws[k]]))
  <2>1. ASSUME NEW k \in 1..n, NEW m \in SameNodes(h)
        PROVE  Connect(m, u, NodeAt(m, h.idx[ws[k]])) \in SameNodes(h)
    <3>1. m \in Graphs /\ m.nodes = h.nodes
      BY DEF SameNodes
    <3>2. ws[k] \in InGraph(h)
      BY <1>2
    <3>3. NodeAt(m, h.idx[ws[k]]) \in NodeId
      BY <3>1, <3>2, NodeHasIndex DEF NodeAt
    <3> QED
      BY <3>3, ConnectSameNodes
  <2>2. [p \in (1..n) \X SameNodes(h) |-> Connect(p[2], u, NodeAt(p[2], h.idx[ws[p[1]]]))] \in [(1..n) \X SameNodes(h) -> SameNodes(h)]
    BY <2>1
  <2> QED
    BY <2>2
<1>4. PICK i : IsFold(i, 1..n, SameNodes(h), copy, Latest(n), F)
  BY LoopExists
<1> DEFINE Step(iter) == [t \in SUBSET DOMAIN ws |->
                            IF t = {} THEN copy ELSE Connect(iter[t \ {Max(t)}], u, NodeAt(iter[t \ {Max(t)}], h.idx[ws[Max(t)]]))]
           f == CHOOSE iter : iter = Step(iter)
<1>5. i = Step(i)
  <2>1. ASSUME NEW t \in SUBSET (1..n), t # {}
        PROVE  i[t] = Connect(i[t \ {Max(t)}], u, NodeAt(i[t \ {Max(t)}], h.idx[ws[Max(t)]]))
    <3>1. PICK k \in 1..n : k = Max(t)
      BY <2>1, Greatest
    <3>2. Latest(n)[t] = k
      BY <3>1 DEF Latest
    <3>3. t \ {k} \in SUBSET (1..n)
      OBVIOUS
    <3>4. i[t] = F[<<k, i[t \ {k}]>>] /\ i[t \ {k}] \in SameNodes(h)
      BY <1>4, <2>1, <3>2, <3>3 DEF IsFold
    <3>5. F[<<k, i[t \ {k}]>>] = Connect(i[t \ {k}], u, NodeAt(i[t \ {k}], h.idx[ws[k]]))
      BY <1>3, <3>4
    <3> QED
      BY <3>1, <3>4, <3>5
  <2>2. i[{}] = copy /\ i = [t \in SUBSET (1..n) |-> i[t]]
    BY <1>4 DEF IsFold
  <2> QED
    BY <1>2, <2>1, <2>2
<1>6. f = Step(f)
  BY <1>5
<1>7. CopyNode(h, copy, u) = f[1..n]
  <2>1. CopyNode(h, copy, u) = f[DOMAIN ws]
    BY DEF CopyNode, FoldLeft, MapThenFoldSet
  <2> HIDE DEF f
  <2> QED
    BY <1>2, <2>1
<1> HIDE DEF f
<1>8. Folds(f, n, SameNodes(h), copy, F)
  <2>1. ASSUME NEW t \in SUBSET (1..n)
        PROVE  f[t] = IF t = {} THEN copy ELSE Connect(f[t \ {Max(t)}], u, NodeAt(f[t \ {Max(t)}], h.idx[ws[Max(t)]]))
    BY <1>2, <1>6
  <2> HIDE DEF Step
  <2>2. ASSUME NEW t \in SUBSET (1..n), t # {}, f[t \ {Max(t)}] \in SameNodes(h)
        PROVE  f[t] = F[<<Max(t), f[t \ {Max(t)}]>>]
    <3>1. PICK k \in 1..n : k = Max(t)
      BY <2>2, Greatest
    <3>2. f[t] = Connect(f[t \ {k}], u, NodeAt(f[t \ {k}], h.idx[ws[k]]))
      BY <2>1, <2>2, <3>1
    <3> QED
      BY <1>3, <2>2, <3>1, <3>2
  <2> QED
    BY <2>1, <2>2 DEF Folds
<1> HIDE DEF Step
<1>9. PICK r : Rounds(r, n, SameNodes(h), copy, F, f[1..n])
  BY <1>8, FoldRounds
<1>10. r \in [0..n -> SameNodes(h)] /\ r[0] = copy /\ r[n] = f[1..n]
  BY <1>9 DEF Rounds
<1>11. ASSUME NEW k \in 1..n
       PROVE  r[k] = Connect(r[k - 1], u, NodeAt(r[k - 1], h.idx[ws[k]]))
  <2>1. r[k] = F[<<k, r[k - 1]>>] /\ r[k - 1] \in SameNodes(h)
    <3>1. k - 1 \in 0..n
      OBVIOUS
    <3> QED
      BY <1>9, <1>10, <3>1 DEF Rounds
  <2> QED
    BY <1>3, <2>1
<1> QED
  BY <1>1, <1>7, <1>9, <1>10, <1>11

LEMMA OutWithin ==
  ASSUME NEW h \in Graphs, Within(h), NEW u \in NodeId
  PROVE  ToSet(h.out[u]) \subseteq InGraph(h) /\ ToSet(h.out[u]) \subseteq NodeId
<1>1. h.out[u] \in Seq(NodeId)
  BY GraphIs
<1>2. ASSUME NEW w \in ToSet(h.out[u])
      PROVE  w \in NodeId /\ w \in InGraph(h)
  <2>1. w \in NodeId
    BY <1>1, SequenceIs DEF ToSet
  <2>2. Contains(h.out[u], w)
    BY <1>1, OccurrencesAre
  <2> QED
    BY <2>1, <2>2 DEF Within
<1> QED
  BY <1>2

LEMMA CopyRounds ==
  ASSUME NEW h \in Graphs, Indexed(h), Within(h), NEW ws \in Seq(NodeId), ws = h.nodes,
         NEW empty \in SameNodes(h), empty = EmptyGraph(h.nodes)
  PROVE  \E r \in [0..Len(ws) -> SameNodes(h)] :
           /\ r[0] = empty /\ r[Len(ws)] = Copy(h)
           /\ \A k \in 1..Len(ws) : r[k] = CopyNode(h, r[k - 1], ws[k])
<1>1. PICK n \in Nat : n = Len(ws)
  BY LenProperties
<1>2. DOMAIN ws = 1..n /\ \A k \in 1..n : ws[k] \in NodeId
  BY <1>1, SequenceIs
<1>3. PICK F \in [(1..n) \X SameNodes(h) -> SameNodes(h)] :
        \A k \in 1..n, m \in SameNodes(h) : F[<<k, m>>] = CopyNode(h, m, ws[k])
  <2>1. ASSUME NEW k \in 1..n, NEW m \in SameNodes(h)
        PROVE  CopyNode(h, m, ws[k]) \in SameNodes(h)
    <3>1. PICK u \in NodeId : u = ws[k]
      BY <1>2
    <3>2. h.out[u] \in Seq(NodeId)
      BY GraphIs
    <3>3. ToSet(h.out[u]) \subseteq InGraph(h)
      BY <3>2, OutWithin
    <3>4. PICK r \in [0..Len(h.out[u]) -> SameNodes(h)] :
            r[Len(h.out[u])] = CopyNode(h, m, u)
      BY <3>2, <3>3, CopyNodeRounds
    <3>5. Len(h.out[u]) \in 0..Len(h.out[u])
      BY <3>2, LenProperties
    <3> QED
      BY <3>1, <3>4, <3>5
  <2>2. [p \in (1..n) \X SameNodes(h) |-> CopyNode(h, p[2], ws[p[1]])] \in [(1..n) \X SameNodes(h) -> SameNodes(h)]
    BY <2>1
  <2> QED
    BY <2>2
<1>4. PICK i : IsFold(i, 1..n, SameNodes(h), empty, Latest(n), F)
  BY LoopExists
<1> DEFINE Step(iter) == [t \in SUBSET DOMAIN ws |->
                            IF t = {} THEN empty ELSE CopyNode(h, iter[t \ {Max(t)}], ws[Max(t)])]
           f == CHOOSE iter : iter = Step(iter)
<1>5. i = Step(i)
  <2>1. ASSUME NEW t \in SUBSET (1..n), t # {}
        PROVE  i[t] = CopyNode(h, i[t \ {Max(t)}], ws[Max(t)])
    <3>1. PICK k \in 1..n : k = Max(t)
      BY <2>1, Greatest
    <3>2. Latest(n)[t] = k
      BY <3>1 DEF Latest
    <3>3. t \ {k} \in SUBSET (1..n)
      OBVIOUS
    <3>4. i[t] = F[<<k, i[t \ {k}]>>] /\ i[t \ {k}] \in SameNodes(h)
      BY <1>4, <2>1, <3>2, <3>3 DEF IsFold
    <3>5. F[<<k, i[t \ {k}]>>] = CopyNode(h, i[t \ {k}], ws[k])
      BY <1>3, <3>4
    <3> QED
      BY <3>1, <3>4, <3>5
  <2>2. i[{}] = empty /\ i = [t \in SUBSET (1..n) |-> i[t]]
    BY <1>4 DEF IsFold
  <2> QED
    BY <1>2, <2>1, <2>2
<1>6. f = Step(f)
  BY <1>5
<1>7. Copy(h) = f[1..n]
  <2>1. Copy(h) = f[DOMAIN ws]
    BY DEF Copy, FoldLeft, MapThenFoldSet
  <2> HIDE DEF f
  <2> QED
    BY <1>2, <2>1
<1> HIDE DEF f
<1>8. Folds(f, n, SameNodes(h), empty, F)
  <2>1. ASSUME NEW t \in SUBSET (1..n)
        PROVE  f[t] = IF t = {} THEN empty ELSE CopyNode(h, f[t \ {Max(t)}], ws[Max(t)])
    BY <1>2, <1>6
  <2> HIDE DEF Step
  <2>2. ASSUME NEW t \in SUBSET (1..n), t # {}, f[t \ {Max(t)}] \in SameNodes(h)
        PROVE  f[t] = F[<<Max(t), f[t \ {Max(t)}]>>]
    <3>1. PICK k \in 1..n : k = Max(t)
      BY <2>2, Greatest
    <3>2. f[t] = CopyNode(h, f[t \ {k}], ws[k])
      BY <2>1, <2>2, <3>1
    <3> QED
      BY <1>3, <2>2, <3>1, <3>2
  <2> QED
    BY <2>1, <2>2 DEF Folds
<1> HIDE DEF Step
<1>9. PICK r : Rounds(r, n, SameNodes(h), empty, F, f[1..n])
  BY <1>8, FoldRounds
<1>10. r \in [0..n -> SameNodes(h)] /\ r[0] = empty /\ r[n] = f[1..n]
  BY <1>9 DEF Rounds
<1>11. ASSUME NEW k \in 1..n
       PROVE  r[k] = CopyNode(h, r[k - 1], ws[k])
  <2>1. r[k] = F[<<k, r[k - 1]>>] /\ r[k - 1] \in SameNodes(h)
    <3>1. k - 1 \in 0..n
      OBVIOUS
    <3> QED
      BY <1>9, <1>10, <3>1 DEF Rounds
  <2> QED
    BY <1>3, <2>1
<1> QED
  BY <1>1, <1>7, <1>9, <1>10, <1>11

(* The insertions of an expansion: a node is inserted at a distance of v   *)
(* that is in range once those before it were inserted                     *)
Inserts(i, h, v, new, n) ==
  i = [t \in SUBSET (1..n) |->
         IF t = {} THEN h
         ELSE Insert(i[t \ {Max(t)}], i[t \ {Max(t)}].idx[v] + Max(t), new[Max(t)])]

LEMMA InsertAllExists ==
  ASSUME NEW h, NEW v, NEW new, NEW n \in Nat
  PROVE  \E i : Inserts(i, h, v, new, n)
<1> DEFINE Small(k) == {t \in SUBSET (1..n) : Cardinality(t) <= k}
           Exists(k) == \E i : i = [t \in Small(k) |->
                                     IF t = {} THEN h
                                     ELSE Insert(i[t \ {Max(t)}],
                                                 i[t \ {Max(t)}].idx[v] + Max(t), new[Max(t)])]
           S == {k \in 0..n : Exists(k)}
<1>1. \A t \in SUBSET (1..n) : IsFiniteSet(t) /\ Cardinality(t) \in 0..n
  <2>1. IsFiniteSet(1..n) /\ Cardinality(1..n) = n
    <3>1. IsFiniteSet(1..n) /\ Cardinality(1..n) = IF 1 > n THEN 0 ELSE n - 1 + 1
      BY FS_Interval
    <3> QED
      BY <3>1
  <2>2. ASSUME NEW t \in SUBSET (1..n)
        PROVE  IsFiniteSet(t) /\ Cardinality(t) \in 0..n
    <3>1. IsFiniteSet(t) /\ Cardinality(t) <= n
      BY <2>1, FS_Subset
    <3>2. Cardinality(t) \in Nat
      BY <3>1, FS_CardinalityType
    <3> QED
      BY <3>1, <3>2
  <2> QED
    BY <2>2
<1>2. \A t \in SUBSET (1..n) : t = {} <=> Cardinality(t) = 0
  BY <1>1, FS_EmptySet
<1>3. \A t \in SUBSET (1..n) : t # {} =>
        t \ {Max(t)} \in SUBSET (1..n) /\ Cardinality(t \ {Max(t)}) = Cardinality(t) - 1
  <2> TAKE t \in SUBSET (1..n)
  <2> HAVE t # {}
  <2>1. Max(t) \in t
    BY Greatest
  <2> QED
    BY <1>1, <2>1, FS_RemoveElement
<1>4. Exists(0)
  <2>1. Small(0) = {{}}
    BY <1>1, <1>2
  <2> HIDE DEF Small
  <2>2. [t \in Small(0) |-> h]
          = [t \in Small(0) |->
               IF t = {} THEN h
               ELSE Insert([u \in Small(0) |-> h][t \ {Max(t)}],
                           [u \in Small(0) |-> h][t \ {Max(t)}].idx[v] + Max(t), new[Max(t)])]
    BY <2>1
  <2> QED
    BY <2>2
<1>5. ASSUME NEW k \in 0..(n - 1), Exists(k)
      PROVE  Exists(k + 1)
  <2>1. PICK i : i = [t \in Small(k) |->
                       IF t = {} THEN h
                       ELSE Insert(i[t \ {Max(t)}], i[t \ {Max(t)}].idx[v] + Max(t), new[Max(t)])]
    BY <1>5
  <2>2. Small(k) \subseteq Small(k + 1)
    BY <1>1
  <2>3. \A t \in Small(k + 1) : t # {} => t \ {Max(t)} \in Small(k)
    <3> TAKE t \in Small(k + 1)
    <3> HAVE t # {}
    <3>1. t \in SUBSET (1..n) /\ Cardinality(t) <= k + 1 /\ Cardinality(t) \in Nat
      BY <1>1
    <3>2. t \ {Max(t)} \in SUBSET (1..n) /\ Cardinality(t \ {Max(t)}) = Cardinality(t) - 1
      BY <1>3, <3>1
    <3> QED
      BY <3>1, <3>2
  <2> DEFINE Step(iter) == [t \in Small(k + 1) |->
                              IF t = {} THEN h
                              ELSE Insert(iter[t \ {Max(t)}],
                                          iter[t \ {Max(t)}].idx[v] + Max(t), new[Max(t)])]
             j == Step(i)
  <2> HIDE DEF Small
  <2>4. \A t \in Small(k) : j[t] = i[t]
    BY <2>1, <2>2
  <2>5. j = Step(j)
    <3>1. \A t \in Small(k + 1) : t # {} => j[t \ {Max(t)}] = i[t \ {Max(t)}]
      BY <2>3, <2>4
    <3> HIDE DEF j
    <3>2. Step(i) = Step(j)
      BY <3>1
    <3> QED
      BY <3>2 DEF j
  <2> HIDE DEF j
  <2> QED
    BY <2>5
<1>6. n \in S
  <2> HIDE DEF Exists
  <2>1. 0 \in S /\ \A k \in 0..(n - 1) : k \in S => k + 1 \in S
    BY <1>4, <1>5
  <2> HIDE DEF S
  <2>2. 0..n \subseteq S
    BY <2>1, UpTo
  <2> QED
    BY <2>2
<1>7. Small(n) = SUBSET (1..n)
  BY <1>1
<1> HIDE DEF Small
<1> QED
  BY <1>6, <1>7 DEF Inserts

LEMMA InsertAllRounds ==
  ASSUME NEW h, NEW v, NEW new \in Seq(NodeId)
  PROVE  \E r : /\ r[0] = h /\ r[Len(new)] = InsertAll(h, v, new)
               /\ \A k \in 1..Len(new) :
                    r[k] = Insert(r[k - 1], r[k - 1].idx[v] + k, new[k])
<1>1. PICK n \in Nat : n = Len(new)
  BY LenProperties
<1>2. DOMAIN new = 1..n
  BY <1>1, LenProperties
<1> DEFINE s == [k \in DOMAIN new |-> k]
           Step(iter) == [t \in SUBSET DOMAIN s |->
                            IF t = {} THEN h
                            ELSE Insert(iter[t \ {Max(t)}],
                                        iter[t \ {Max(t)}].idx[v] + s[Max(t)], new[s[Max(t)]])]
           f == CHOOSE iter : iter = Step(iter)
<1>3. DOMAIN s = 1..n /\ \A k \in 1..n : s[k] = k
  BY <1>2
<1>4. InsertAll(h, v, new) = f[DOMAIN s]
  BY DEF InsertAll, FoldLeftDomain, FoldLeft, MapThenFoldSet
<1> HIDE DEF s
<1>5. PICK i : Inserts(i, h, v, new, n)
  <2> HIDE DEF f, Step
  <2> QED
    BY InsertAllExists
<1>6. \A t \in SUBSET (1..n) : t # {} => Max(t) \in 1..n /\ s[Max(t)] = Max(t)
  BY <1>3, Greatest
<1>7. i = Step(i)
  BY <1>3, <1>5, <1>6 DEF Inserts
<1>8. f = Step(f)
  BY <1>7
<1> HIDE DEF f
<1>9. \A t \in SUBSET (1..n) :
        f[t] = IF t = {} THEN h
               ELSE Insert(f[t \ {Max(t)}], f[t \ {Max(t)}].idx[v] + Max(t), new[Max(t)])
  BY <1>3, <1>6, <1>8
<1> HIDE DEF Step
<1> DEFINE r == [k \in 0..n |-> f[1..k]]
<1>10. r[0] = h
  <2>1. 1..0 = {} /\ {} \in SUBSET (1..n) /\ 0 \in 0..n
    OBVIOUS
  <2>2. f[{}] = h
    BY <1>9
  <2> QED
    BY <2>1, <2>2
<1>11. ASSUME NEW k \in 1..n
       PROVE  r[k] = Insert(r[k - 1], r[k - 1].idx[v] + k, new[k])
  <2>1. 1..k \in SUBSET (1..n) /\ 1..k # {} /\ (1..k) \ {k} = 1..(k - 1)
    OBVIOUS
  <2>2. Max(1..k) = k
    <3>1. k \in 1..k /\ \A j \in 1..k : k >= j
      OBVIOUS
    <3>2. \A j \in 1..k : (\A l \in 1..k : j >= l) => j = k
      BY <3>1
    <3> QED
      BY <3>1, <3>2 DEF Max
  <2>3. f[1..k] = Insert(f[1..(k - 1)], f[1..(k - 1)].idx[v] + k, new[k])
    BY <1>9, <2>1, <2>2
  <2>4. r[k] = f[1..k] /\ r[k - 1] = f[1..(k - 1)]
    OBVIOUS
  <2> QED
    BY <2>3, <2>4
<1>12. r[n] = InsertAll(h, v, new)
  BY <1>3, <1>4
<1> HIDE DEF r
<1> QED
  BY <1>1, <1>10, <1>11, <1>12

-----------------------------------------------------------------------------
Sound(h) == h \in Graphs /\ Indexed(h) /\ Linked(h)

(* The sound graphs with the array of h                                    *)
Relinked(h) == {m \in Graphs : Indexed(m) /\ Linked(m) /\ m.nodes = h.nodes /\ m.idx = h.idx}

LEMMA RelinkedIs ==
  ASSUME NEW h, NEW m \in Relinked(h)
  PROVE  /\ m \in Graphs /\ Indexed(m) /\ Linked(m) /\ Sound(m)
         /\ m.nodes = h.nodes /\ m.idx = h.idx /\ InGraph(m) = InGraph(h)
BY DEF Relinked, Sound, InGraph

LEMMA SoundIsRelinked ==
  ASSUME NEW h, Sound(h)
  PROVE  h \in Relinked(h)
BY DEF Relinked, Sound

(* What one connection does to the lists                                   *)
RootEnters(r, m, a, b) == r.out = [m.out EXCEPT ![a] = Cons(b, m.out[a])]

LEMMA ConnectRelinks ==
  ASSUME NEW h, NEW m \in Relinked(h), NEW a \in InGraph(h), NEW b \in InGraph(h),
         a \in NodeId, b \in NodeId, NEW r, r = Connect(m, a, b)
  PROVE  r \in Relinked(h) /\ RootEnters(r, m, a, b)
<1>1. /\ m \in Graphs /\ Indexed(m) /\ Linked(m)
      /\ m.nodes = h.nodes /\ m.idx = h.idx /\ InGraph(m) = InGraph(h)
  BY RelinkedIs
<1>2. r \in Graphs
  BY <1>1, ConnectIs
<1>3. r.nodes = m.nodes /\ r.idx = m.idx
  BY <1>1 DEF Connect, Graphs
<1>4. r.out = [m.out EXCEPT ![a] = Cons(b, m.out[a])]
  BY <1>1 DEF Connect, Graphs
<1>5. Linked(r)
  BY <1>1, ConnectKeeps, GraphOperationsAssumption
<1>6. Indexed(r)
  BY <1>1, <1>3 DEF Indexed
<1> QED
  BY <1>1, <1>2, <1>3, <1>4, <1>5, <1>6 DEF Relinked, RootEnters

RootsLeave(r, m, a, b) ==
  /\ r.out = [m.out EXCEPT ![a] = RemoveFirst(m.out[a], b)]
  /\ r.in = [m.in EXCEPT ![b] = RemoveFirst(m.in[b], a)]

LEMMA DisconnectRelinks ==
  ASSUME NEW h, NEW m \in Relinked(h), NEW a \in NodeId, NEW b \in NodeId,
         NEW r, r = Disconnect(m, a, b)
  PROVE  r \in Relinked(h) /\ RootsLeave(r, m, a, b)
<1>1. /\ m \in Graphs /\ Indexed(m) /\ Linked(m)
      /\ m.nodes = h.nodes /\ m.idx = h.idx /\ InGraph(m) = InGraph(h)
  BY RelinkedIs
<1>2. r \in Graphs
  BY <1>1, DisconnectIs
<1>3. r.nodes = m.nodes /\ r.idx = m.idx
  BY <1>1 DEF Disconnect, Graphs
<1>4. /\ r.out = [m.out EXCEPT ![a] = RemoveFirst(m.out[a], b)]
      /\ r.in = [m.in EXCEPT ![b] = RemoveFirst(m.in[b], a)]
  BY <1>1 DEF Disconnect, Graphs
<1>5. Linked(r)
  BY <1>1, DisconnectKeeps, GraphOperationsAssumption
<1>6. Indexed(r)
  BY <1>1, <1>3 DEF Indexed
<1> QED
  BY <1>1, <1>2, <1>3, <1>4, <1>5, <1>6 DEF Relinked, RootsLeave

-----------------------------------------------------------------------------
(* Isolation: as many rounds as the list has elements, of which each       *)
(* removes the root                                                        *)
LEMMA SubSeqEnds ==
  ASSUME NEW s \in Seq(NodeId)
  PROVE  SubSeq(s, 1, Len(s)) = s /\ SubSeq(s, Len(s) + 1, Len(s)) = <<>>
<1>1. PICK n \in Nat : n = Len(s)
  BY LenProperties
<1>2. \A k \in 1..n : s[k] \in NodeId
  BY <1>1, ElementOfSeq
<1>3. SubSeq(s, 1, n) = s
  <2>1. /\ SubSeq(s, 1, n) \in Seq(NodeId)
        /\ Len(SubSeq(s, 1, n)) = IF 1 <= n THEN n - 1 + 1 ELSE 0
        /\ \A k \in 1..(n - 1 + 1) : SubSeq(s, 1, n)[k] = s[1 + k - 1]
    BY <1>1, <1>2, SubSeqProperties
  <2>2. /\ Len(SubSeq(s, 1, n)) = n
        /\ \A k \in 1..n : SubSeq(s, 1, n)[k] = s[k]
    BY <2>1
  <2> QED
    BY <1>1, <2>1, <2>2, SeqEqual
<1>4. SubSeq(s, n + 1, n) = <<>>
  <2>1. Len(SubSeq(s, n + 1, n)) = 0 /\ SubSeq(s, n + 1, n) \in Seq(NodeId)
    BY <1>1, <1>2, SubSeqProperties
  <2> QED
    BY <2>1, EmptySeq
<1> QED
  BY <1>1, <1>3, <1>4

LEMMA DisconnectFromIs ==
  ASSUME NEW h, Sound(h), NEW v \in NodeId, NEW s \in Seq(NodeId), s = h.out[v],
         NEW r, r = DisconnectFrom(h, v, s)
  PROVE  /\ r \in Relinked(h) /\ r.out[v] = <<>>
         /\ \A w \in NodeId : w # v => r.out[w] = h.out[w]
<1>1. h \in Graphs /\ h \in Relinked(h)
  BY SoundIsRelinked DEF Sound
<1>2. PICK n \in Nat : n = Len(s)
  BY LenProperties
<1>3. PICK f \in [0..n -> Graphs] :
        /\ f[0] = h /\ f[n] = r
        /\ \A k \in 1..n : f[k] = Disconnect(f[k - 1], v, s[k])
  BY <1>1, <1>2, DisconnectFromRounds
<1> DEFINE S == {k \in 0..n : /\ f[k] \in Relinked(h) /\ f[k].out[v] = SubSeq(s, k + 1, n)
                              /\ \A w \in NodeId : w # v => f[k].out[w] = h.out[w]}
<1>4. 0 \in S
  <2>1. SubSeq(s, 1, n) = s
    BY <1>2, SubSeqEnds
  <2> QED
    BY <1>1, <1>3, <2>1
<1>5. ASSUME NEW k \in 0..(n - 1), k \in S
      PROVE  k + 1 \in S
  <2>1. PICK j \in 1..n : j = k + 1 /\ j - 1 = k /\ j \in 0..n
    OBVIOUS
  <2>2. PICK m \in Relinked(h) : 
          /\ m = f[k] /\ m.out[v] = SubSeq(s, j, n)
          /\ \A u \in NodeId : u # v => m.out[u] = h.out[u]
    BY <1>5, <2>1
  <2>3. PICK w \in NodeId : w = s[j]
    BY <1>2, ElementOfSeq
  <2>4. PICK q : q = f[j] /\ q = Disconnect(m, v, w)
    BY <1>3, <2>1, <2>2, <2>3
  <2>5. q \in Relinked(h) /\ RootsLeave(q, m, v, w)
    BY <2>4, DisconnectRelinks
  <2>6. m.out \in [NodeId -> Seq(NodeId)]
    BY RelinkedIs, GraphIs
  <2>7. q.out[v] = RemoveFirst(SubSeq(s, j, n), s[j])
    BY <2>2, <2>3, <2>5, <2>6 DEF RootsLeave
  <2>8. RemoveFirst(SubSeq(s, j, n), s[j]) = SubSeq(s, j + 1, n)
    BY <1>2, RemoveRoot
  <2>9. \A u \in NodeId : u # v => q.out[u] = h.out[u]
    BY <2>2, <2>5, <2>6 DEF RootsLeave
  <2> QED
    BY <2>1, <2>4, <2>5, <2>7, <2>8, <2>9
<1>6. n \in S
  <2> HIDE DEF S
  <2>1. 0..n \subseteq S
    BY <1>4, <1>5, UpTo
  <2> QED
    BY <2>1
<1>7. SubSeq(s, n + 1, n) = <<>>
  BY <1>2, SubSeqEnds
<1> QED
  BY <1>3, <1>6, <1>7

LEMMA DisconnectToIs ==
  ASSUME NEW h, Sound(h), NEW v \in NodeId, NEW s \in Seq(NodeId), s = h.in[v],
         h.out[v] = <<>>, NEW r, r = DisconnectTo(h, v, s)
  PROVE  r \in Relinked(h) /\ r.out[v] = <<>> /\ r.in[v] = <<>>
<1>1. h \in Graphs /\ h \in Relinked(h)
  BY SoundIsRelinked DEF Sound
<1>2. PICK n \in Nat : n = Len(s)
  BY LenProperties
<1>3. PICK f \in [0..n -> Graphs] :
        /\ f[0] = h /\ f[n] = r
        /\ \A k \in 1..n : f[k] = Disconnect(f[k - 1], s[k], v)
  BY <1>1, <1>2, DisconnectToRounds
<1>4. RemoveFirst(<<>>, v) = <<>>
  <2>1. <<>> \in Seq(NodeId) /\ Len(<<>>) = 0
    BY EmptySeq
  <2>2. ~Contains(<<>>, v)
    BY <2>1 DEF Contains
  <2> QED
    BY <2>1, <2>2, RemoveFirstIs
<1> DEFINE S == {k \in 0..n : /\ f[k] \in Relinked(h) /\ f[k].out[v] = <<>>
                              /\ f[k].in[v] = SubSeq(s, k + 1, n)}
<1>5. 0 \in S
  <2>1. SubSeq(s, 1, n) = s
    BY <1>2, SubSeqEnds
  <2> QED
    BY <1>1, <1>3, <2>1
<1>6. ASSUME NEW k \in 0..(n - 1), k \in S
      PROVE  k + 1 \in S
  <2>1. PICK j \in 1..n : j = k + 1 /\ j - 1 = k /\ j \in 0..n
    OBVIOUS
  <2>2. PICK m \in Relinked(h) : m = f[k] /\ m.out[v] = <<>> /\ m.in[v] = SubSeq(s, j, n)
    BY <1>6, <2>1
  <2>3. PICK w \in NodeId : w = s[j]
    BY <1>2, ElementOfSeq
  <2>4. PICK q : q = f[j] /\ q = Disconnect(m, w, v)
    BY <1>3, <2>1, <2>2, <2>3
  <2>5. q \in Relinked(h) /\ RootsLeave(q, m, w, v)
    BY <2>4, DisconnectRelinks
  <2>6. q.out = [m.out EXCEPT ![w] = RemoveFirst(m.out[w], v)]
    BY <2>5 DEF RootsLeave
  <2>7. q.in = [m.in EXCEPT ![v] = RemoveFirst(m.in[v], w)]
    BY <2>5 DEF RootsLeave
  <2>8. m.out \in [NodeId -> Seq(NodeId)] /\ m.in \in [NodeId -> Seq(NodeId)]
    BY RelinkedIs, GraphIs
  <2>9. q.in[v] = RemoveFirst(SubSeq(s, j, n), s[j])
    BY <2>2, <2>3, <2>7, <2>8
  <2>10. RemoveFirst(SubSeq(s, j, n), s[j]) = SubSeq(s, j + 1, n)
    BY <1>2, RemoveRoot
  <2>11. q.out[v] = <<>>
    BY <1>4, <2>2, <2>6, <2>8
  <2> QED
    BY <2>1, <2>4, <2>5, <2>9, <2>10, <2>11
<1>7. n \in S
  <2> HIDE DEF S
  <2>1. 0..n \subseteq S
    BY <1>5, <1>6, UpTo
  <2> QED
    BY <2>1
<1>8. SubSeq(s, n + 1, n) = <<>>
  BY <1>2, SubSeqEnds
<1> QED
  BY <1>3, <1>7, <1>8

LEMMA IsolateIs ==
  ASSUME NEW h, Sound(h), NEW v \in NodeId, NEW r, r = Isolate(h, v)
  PROVE  r \in Relinked(h) /\ r.out[v] = <<>> /\ r.in[v] = <<>>
<1>1. h \in Graphs
  BY DEF Sound
<1>2. PICK s \in Seq(NodeId) : s = h.out[v]
  BY <1>1, GraphIs
<1>3. PICK a : a = DisconnectFrom(h, v, s)
  OBVIOUS
<1>4. a \in Relinked(h) /\ a.out[v] = <<>>
  BY <1>2, <1>3, DisconnectFromIs
<1>5. Sound(a) /\ a \in Graphs /\ a.nodes = h.nodes /\ a.idx = h.idx
  BY <1>4, RelinkedIs
<1>6. PICK t \in Seq(NodeId) : t = a.in[v]
  BY <1>5, GraphIs
<1>7. r = DisconnectTo(a, v, t)
  BY <1>2, <1>3, <1>6 DEF Isolate
<1>8. r \in Relinked(a) /\ r.out[v] = <<>> /\ r.in[v] = <<>>
  BY <1>4, <1>5, <1>6, <1>7, DisconnectToIs
<1>9. Relinked(a) = Relinked(h)
  BY <1>5 DEF Relinked
<1> QED
  BY <1>8, <1>9

LEMMA DeleteIsSound ==
  ASSUME NEW h, Sound(h), NEW v \in InGraph(h), NEW r, r = Delete(h, v)
  PROVE  Sound(r)
<1>1. h \in Graphs /\ Indexed(h)
  BY DEF Sound
<1>2. v \in NodeId
  BY <1>1, NodeHasIndex
<1>3. PICK m : m = Isolate(h, v)
  OBVIOUS
<1>4. m \in Relinked(h) /\ m.out[v] = <<>> /\ m.in[v] = <<>>
  BY <1>2, <1>3, IsolateIs
<1>5. /\ m \in Graphs /\ Indexed(m) /\ Linked(m) /\ m.nodes = h.nodes /\ m.idx = h.idx
      /\ InGraph(m) = InGraph(h)
  BY <1>4, RelinkedIs
<1>6. /\ r.nodes = RemoveAt(m.nodes, m.idx[v] + 1)
      /\ r.idx = [w \in NodeId |-> IF w = v THEN 0
                                   ELSE IF w \in InGraph(m) /\ m.idx[w] > m.idx[v]
                                   THEN m.idx[w] - 1 ELSE m.idx[w]]
      /\ r.out = m.out /\ r.in = m.in /\ r.numOut = m.numOut /\ r.numIn = m.numIn
      /\ r.numConnections = m.numConnections
      /\ r = [nodes |-> r.nodes, idx |-> r.idx, out |-> r.out, in |-> r.in,
              numOut |-> r.numOut, numIn |-> r.numIn, numConnections |-> r.numConnections]
  BY <1>3, <1>5 DEF Delete, Graphs
<1>7. r \in Graphs /\ Indexed(r) /\ InGraph(m) \ {v} \subseteq InGraph(r)
  BY <1>5, <1>6, RemovalIs
<1>8. Mirrored(r) /\ Counted(r)
  BY <1>5, <1>6 DEF Linked, Mirrored, Counted
<1>9. Within(r)
  <2> SUFFICES ASSUME NEW a \in NodeId, NEW b \in NodeId, Contains(m.out[a], b)
               PROVE  a \in InGraph(r) /\ b \in InGraph(r)
    BY <1>6 DEF Within
  <2>1. a \in InGraph(m) /\ b \in InGraph(m)
    BY <1>5 DEF Linked, Within
  <2>2. <<>> \in Seq(NodeId) /\ \A w : ~Contains(<<>>, w)
    BY EmptySeq DEF Contains
  <2>3. a # v
    BY <1>4, <2>2
  <2>4. m.out[a] \in Seq(NodeId) /\ m.in[b] \in Seq(NodeId)
    BY <1>5, GraphIs
  <2>5. Contains(m.in[b], a)
    <3>1. Occurrences(m.out[a], b) # 0
      BY <2>4, OccurrencesAre
    <3>2. Occurrences(m.in[b], a) # 0
      BY <1>5, <3>1 DEF Linked, Mirrored
    <3> QED
      BY <2>4, <3>2, OccurrencesAre
  <2>6. b # v
    BY <1>4, <2>2, <2>5
  <2> QED
    BY <1>7, <2>1, <2>3, <2>6
<1> QED
  BY <1>7, <1>8, <1>9 DEF Sound, Linked

-----------------------------------------------------------------------------
(* Connecting a node to every node of a list gives it the reverse of that  *)
(* list                                                                    *)
LEMMA PrefixReversed ==
  ASSUME NEW s \in Seq(NodeId), NEW k \in 1..Len(s)
  PROVE  Cons(s[k], Reverse(SubSeq(s, 1, k - 1))) = Reverse(SubSeq(s, 1, k))
<1>1. PICK n \in Nat : n = Len(s)
  BY LenProperties
<1>2. \A i \in 1..n : s[i] \in NodeId
  BY <1>1, ElementOfSeq
<1>3. k \in 1..n /\ k - 1 \in 0..n /\ k \in 0..n
  BY <1>1
<1>4. ASSUME NEW e \in 0..n
      PROVE  /\ SubSeq(s, 1, e) \in Seq(NodeId) /\ Len(SubSeq(s, 1, e)) = e
             /\ \A i \in 1..e : SubSeq(s, 1, e)[i] = s[i]
  <2>1. /\ SubSeq(s, 1, e) \in Seq(NodeId)
        /\ Len(SubSeq(s, 1, e)) = IF 1 <= e THEN e - 1 + 1 ELSE 0
        /\ \A i \in 1..(e - 1 + 1) : SubSeq(s, 1, e)[i] = s[1 + i - 1]
    BY <1>2, SubSeqProperties
  <2> QED
    BY <2>1
<1>5. ASSUME NEW e \in 0..n
      PROVE  /\ Reverse(SubSeq(s, 1, e)) \in Seq(NodeId)
             /\ Len(Reverse(SubSeq(s, 1, e))) = e
             /\ \A i \in 1..e : Reverse(SubSeq(s, 1, e))[i] = s[(e - i) + 1]
  <2>1. PICK t \in Seq(NodeId) : t = SubSeq(s, 1, e)
    BY <1>4
  <2>2. Len(t) = e /\ \A i \in 1..e : t[i] = s[i]
    BY <1>4, <2>1
  <2>3. Reverse(t) = [i \in 1..e |-> t[(e - i) + 1]]
    BY <2>2 DEF Reverse
  <2>4. \A i \in 1..e : (e - i) + 1 \in 1..e
    OBVIOUS
  <2>5. Reverse(t) \in Seq(NodeId)
    BY OccurrencesReversed
  <2>6. Len(Reverse(t)) = e
    BY <2>3, <2>5, LenProperties
  <2>7. \A i \in 1..e : Reverse(t)[i] = s[(e - i) + 1]
    BY <2>2, <2>3, <2>4
  <2> QED
    BY <2>1, <2>5, <2>6, <2>7
<1>6. PICK x \in Seq(NodeId) : x = Reverse(SubSeq(s, 1, k - 1))
  BY <1>3, <1>5
<1>7. PICK y \in Seq(NodeId) : y = Reverse(SubSeq(s, 1, k))
  BY <1>3, <1>5
<1>8. Len(x) = k - 1 /\ \A i \in 1..(k - 1) : x[i] = s[((k - 1) - i) + 1]
  BY <1>3, <1>5, <1>6
<1>9. Len(y) = k /\ \A i \in 1..k : y[i] = s[(k - i) + 1]
  BY <1>3, <1>5, <1>7
<1>10. PICK e \in NodeId : e = s[k]
  BY <1>2, <1>3
<1>11. PICK c : c = Cons(e, x)
  OBVIOUS
<1>12. /\ c \in Seq(NodeId) /\ Len(c) = k /\ c[1] = e
       /\ \A i \in 1..(k - 1) : c[i + 1] = x[i]
  <2>1. /\ Cons(e, x) \in Seq(NodeId) /\ Len(Cons(e, x)) = Len(x) + 1 /\ Cons(e, x)[1] = e
        /\ \A i \in 1..Len(x) : Cons(e, x)[i + 1] = x[i]
    BY ConsIs
  <2> QED
    BY <1>3, <1>8, <1>11, <2>1
<1>13. ASSUME NEW i \in 1..k
       PROVE  c[i] = y[i]
  <2>1. CASE i = 1
    <3>1. y[1] = s[(k - 1) + 1] /\ (k - 1) + 1 = k
      BY <1>3, <1>9
    <3> QED
      BY <1>10, <1>12, <2>1, <3>1
  <2>2. CASE i # 1
    <3>1. PICK l \in 1..(k - 1) : i = l + 1
      <4>1. i - 1 \in 1..(k - 1) /\ i = (i - 1) + 1
        BY <1>3, <2>2
      <4> QED
        BY <4>1
    <3>2. c[i] = s[((k - 1) - l) + 1]
      BY <1>8, <1>12, <3>1
    <3>3. y[i] = s[(k - i) + 1] /\ (k - i) + 1 = ((k - 1) - l) + 1
      BY <1>3, <1>9, <3>1
    <3> QED
      BY <3>2, <3>3
  <2> QED
    BY <2>1, <2>2
<1>14. c = y
  BY <1>9, <1>12, <1>13, SeqEqual
<1> QED
  BY <1>6, <1>7, <1>10, <1>11, <1>14

LEMMA PrefixEnds ==
  ASSUME NEW s \in Seq(NodeId)
  PROVE  Reverse(SubSeq(s, 1, 0)) = <<>> /\ Reverse(SubSeq(s, 1, Len(s))) = Reverse(s)
<1>1. PICK n \in Nat : n = Len(s)
  BY LenProperties
<1>2. \A i \in 1..n : s[i] \in NodeId
  BY <1>1, ElementOfSeq
<1>3. SubSeq(s, 1, 0) = <<>>
  <2>1. Len(SubSeq(s, 1, 0)) = 0 /\ SubSeq(s, 1, 0) \in Seq(NodeId)
    BY <1>1, <1>2, SubSeqProperties
  <2> QED
    BY <2>1, EmptySeq
<1>4. Reverse(<<>>) = <<>>
  <2>1. Len(<<>>) = 0 /\ <<>> \in Seq(NodeId)
    BY EmptySeq
  <2>2. Reverse(<<>>) = [i \in 1..0 |-> <<>>[(0 - i) + 1]]
    BY <2>1 DEF Reverse
  <2>3. Reverse(<<>>) \in Seq(NodeId)
    BY <2>1, OccurrencesReversed
  <2>4. Len(Reverse(<<>>)) = 0
    BY <2>2, <2>3, LenProperties
  <2> QED
    BY <2>3, <2>4, EmptySeq
<1> QED
  BY <1>3, <1>4, SubSeqEnds

LEMMA ConnectFromIs ==
  ASSUME NEW h, Sound(h), NEW u \in InGraph(h), NEW s \in Seq(NodeId),
         ToSet(s) \subseteq InGraph(h), h.out[u] = <<>>, NEW r, r = ConnectFrom(h, u, s)
  PROVE  /\ r \in Relinked(h) /\ r.out[u] = Reverse(s)
         /\ \A w \in NodeId : w # u => r.out[w] = h.out[w]
<1>1. h \in Graphs /\ h \in Relinked(h) /\ Indexed(h)
  BY SoundIsRelinked DEF Sound
<1>2. PICK n \in Nat : n = Len(s)
  BY LenProperties
<1>3. u \in NodeId
  BY <1>1, NodeHasIndex
<1>4. PICK f \in [0..n -> Graphs] :
        /\ f[0] = h /\ f[n] = r
        /\ \A k \in 1..n : f[k] = Connect(f[k - 1], u, s[k])
  BY <1>1, <1>2, <1>3, ConnectFromRounds
<1> DEFINE S == {k \in 0..n : /\ f[k] \in Relinked(h) /\ f[k].out[u] = Reverse(SubSeq(s, 1, k))
                              /\ \A w \in NodeId : w # u => f[k].out[w] = h.out[w]}
<1>5. 0 \in S
  BY <1>1, <1>4, PrefixEnds
<1>6. ASSUME NEW k \in 0..(n - 1), k \in S
      PROVE  k + 1 \in S
  <2>1. PICK j \in 1..n : j = k + 1 /\ j - 1 = k /\ j \in 0..n
    OBVIOUS
  <2>2. PICK m \in Relinked(h) :
          /\ m = f[k] /\ m.out[u] = Reverse(SubSeq(s, 1, j - 1))
          /\ \A w \in NodeId : w # u => m.out[w] = h.out[w]
    BY <1>6, <2>1
  <2>3. PICK w \in NodeId : w = s[j] /\ w \in InGraph(h)
    BY <1>2, ElementOfSeq, SequenceIs DEF ToSet
  <2>4. PICK q : q = f[j] /\ q = Connect(m, u, w)
    BY <1>4, <2>1, <2>2, <2>3
  <2>5. q \in Relinked(h) /\ RootEnters(q, m, u, w)
    BY <1>3, <2>3, <2>4, ConnectRelinks
  <2>6. m.out \in [NodeId -> Seq(NodeId)]
    BY RelinkedIs, GraphIs
  <2>7. q.out[u] = Cons(w, Reverse(SubSeq(s, 1, j - 1)))
    BY <1>3, <2>2, <2>5, <2>6 DEF RootEnters
  <2>8. q.out[u] = Reverse(SubSeq(s, 1, j))
    BY <1>2, <2>3, <2>7, PrefixReversed
  <2>9. \A x \in NodeId : x # u => q.out[x] = h.out[x]
    BY <2>2, <2>5, <2>6 DEF RootEnters
  <2> QED
    BY <2>1, <2>4, <2>5, <2>8, <2>9
<1>7. n \in S
  <2> HIDE DEF S
  <2>1. 0..n \subseteq S
    BY <1>5, <1>6, UpTo
  <2> QED
    BY <2>1
<1>8. Reverse(SubSeq(s, 1, n)) = Reverse(s)
  BY <1>2, PrefixEnds
<1> QED
  BY <1>4, <1>7, <1>8

-----------------------------------------------------------------------------
(* The expansion of a node                                                 *)
Inserted(r, h, v, new, n) ==
  /\ r \in Graphs /\ Indexed(r) /\ Linked(r)
  /\ r.out = h.out
  /\ InGraph(r) = InGraph(h) \cup {new[j] : j \in 1..n}
  /\ r.idx[v] = h.idx[v]
  /\ Len(r.nodes) = Len(h.nodes) + n
  /\ \A j \in 1..n : r.nodes[h.idx[v] + 1 + j] = new[j]

LEMMA InsertAllIs ==
  ASSUME NEW h, Sound(h), NEW v \in InGraph(h), NEW n \in Nat, NEW new \in [1..n -> NodeId],
         \A j \in 1..n : new[j] \notin InGraph(h), IsInjective(new)
  PROVE  Inserted(InsertAll(h, v, new), h, v, new, n)
<1>1. h \in Graphs /\ Indexed(h) /\ Linked(h)
  BY DEF Sound
<1>2. new \in Seq(NodeId) /\ Len(new) = n
  <2>1. new \in Seq(NodeId)
    BY SeqDef
  <2> QED
    BY <2>1, LenProperties
<1>3. PICK f : /\ f[0] = h /\ f[n] = InsertAll(h, v, new)
               /\ \A k \in 1..n : f[k] = Insert(f[k - 1], f[k - 1].idx[v] + k, new[k])
  BY <1>2, InsertAllRounds
<1>4. PICK l \in Nat : l = Len(h.nodes)
  BY <1>1, GraphIs, LenProperties
<1>5. PICK i \in 0..(l - 1) : i = h.idx[v]
  BY <1>1, <1>4, NodeHasIndex
<1> DEFINE S == {k \in 0..n : Inserted(f[k], h, v, new, k)}
<1>6. 0 \in S
  <2>1. 1..0 = {} /\ l + 0 = l
    OBVIOUS
  <2> QED
    BY <1>1, <1>3, <1>4, <2>1 DEF Inserted
<1>7. ASSUME NEW k \in 0..(n - 1), k \in S
      PROVE  k + 1 \in S
  <2>1. PICK j \in 1..n : j = k + 1 /\ j - 1 = k /\ j \in 0..n
    OBVIOUS
  <2>2. PICK m : m = f[k] /\ Inserted(m, h, v, new, k)
    BY <1>7
  <2>3. /\ m \in Graphs /\ Indexed(m) /\ Linked(m) /\ m.out = h.out
        /\ InGraph(m) = InGraph(h) \cup {new[x] : x \in 1..k}
        /\ m.idx[v] = i /\ Len(m.nodes) = l + k
        /\ \A x \in 1..k : m.nodes[i + 1 + x] = new[x]
    BY <1>4, <1>5, <2>2 DEF Inserted
  <2>4. PICK w \in NodeId : w = new[j]
    OBVIOUS
  <2>5. w \notin InGraph(m)
    <3>1. \A x \in 1..k : x \in 1..n /\ x # j
      BY <2>1
    <3>2. \A x \in 1..k : new[x] # new[j]
      BY <3>1 DEF IsInjective
    <3> QED
      BY <2>3, <2>4, <3>2
  <2>6. PICK c \in 0..Len(m.nodes) : c = i + j
    <3>1. i + j \in 0..(l + k)
      BY <2>1
    <3> QED
      BY <2>3, <3>1
  <2>7. PICK q : q = f[j] /\ q = Insert(m, c, w)
    BY <1>3, <2>1, <2>2, <2>3, <2>4, <2>6
  <2>8. /\ q \in Graphs /\ Indexed(q) /\ InGraph(q) = InGraph(m) \cup {w}
        /\ q.out = m.out /\ q.in = m.in /\ q.numOut = m.numOut /\ q.numIn = m.numIn
        /\ q.numConnections = m.numConnections
        /\ Len(q.nodes) = Len(m.nodes) + 1
        /\ \A p \in 1..(Len(m.nodes) + 1) :
              q.nodes[p] = IF p < c + 1 THEN m.nodes[p]
                           ELSE IF p = c + 1 THEN w ELSE m.nodes[p - 1]
        /\ \A x \in InGraph(m) : q.idx[x] = IF m.idx[x] >= c THEN m.idx[x] + 1 ELSE m.idx[x]
    <3>1. m \in Graphs /\ Indexed(m)
      BY <2>3
    <3>2. q = Insert(m, c, w)
      BY <2>7
    <3> QED
      BY <2>5, <3>1, <3>2, InsertIs
  <2>9. \A p \in 1..(Len(m.nodes) + 1) :
              q.nodes[p] = IF p < c + 1 THEN m.nodes[p]
                           ELSE IF p = c + 1 THEN w ELSE m.nodes[p - 1]
    BY <2>8
  <2>10. \A x \in InGraph(m) : q.idx[x] = IF m.idx[x] >= c THEN m.idx[x] + 1 ELSE m.idx[x]
    BY <2>8
  <2>11. Linked(q)
    BY <2>3, <2>8, LinkedKept
  <2>12. q.idx[v] = i
    <3>1. v \in InGraph(m) /\ ~(i >= c)
      BY <2>3, <2>6
    <3> QED
      BY <2>3, <2>10, <3>1
  <2>13. \A x \in 1..j : q.nodes[i + 1 + x] = new[x]
    <3> TAKE x \in 1..j
    <3>1. i + 1 + x \in 1..((l + k) + 1)
      BY <2>1
    <3>2. CASE x = j
      <4>1. ~(i + 1 + x < c + 1) /\ i + 1 + x = c + 1
        BY <2>6, <3>2
      <4> QED
        BY <2>3, <2>4, <2>9, <3>1, <3>2, <4>1
    <3>3. CASE x # j
      <4>1. i + 1 + x < c + 1 /\ x \in 1..k
        BY <2>1, <2>6, <3>3
      <4> QED
        BY <2>3, <2>9, <3>1, <4>1
    <3> QED
      BY <3>2, <3>3
  <2>14. InGraph(q) = InGraph(h) \cup {new[x] : x \in 1..j}
    <3>1. {new[x] : x \in 1..j} = {new[x] : x \in 1..k} \cup {new[j]}
      <4>1. 1..j = (1..k) \cup {j}
        BY <2>1
      <4> QED
        BY <4>1
    <3> QED
      BY <2>3, <2>4, <2>8, <3>1
  <2>15. Len(q.nodes) = l + j
    BY <2>1, <2>3, <2>8
  <2>16. Inserted(q, h, v, new, j)
    BY <1>4, <1>5, <2>3, <2>8, <2>11, <2>12, <2>13, <2>14, <2>15 DEF Inserted
  <2> QED
    BY <2>1, <2>7, <2>16
<1>8. n \in S
  <2> HIDE DEF S
  <2>1. 0..n \subseteq S
    BY <1>6, <1>7, UpTo
  <2> QED
    BY <2>1
<1> QED
  BY <1>3, <1>8

LEMMA TransferOutIs ==
  ASSUME NEW h, Sound(h), NEW v \in InGraph(h), NEW u \in InGraph(h), u # v,
         h.out[u] = <<>>, NEW r, r = TransferOut(h, v, u)
  PROVE  /\ r \in Relinked(h) /\ r.out[u] = Reverse(h.out[v]) /\ r.out[v] = <<>>
         /\ \A w \in NodeId : w # u /\ w # v => r.out[w] = h.out[w]
<1>1. h \in Graphs /\ Indexed(h) /\ Within(h)
  BY DEF Sound, Linked
<1>2. v \in NodeId /\ u \in NodeId
  BY <1>1, NodeHasIndex
<1>3. PICK s \in Seq(NodeId) : s = h.out[v]
  BY <1>1, <1>2, GraphIs
<1>4. ToSet(s) \subseteq InGraph(h)
  BY <1>1, <1>2, <1>3, OutWithin
<1>5. PICK c : c = ConnectFrom(h, u, s)
  OBVIOUS
<1>6. /\ c \in Relinked(h) /\ c.out[u] = Reverse(s)
      /\ \A w \in NodeId : w # u => c.out[w] = h.out[w]
  BY <1>4, <1>5, ConnectFromIs
<1>7. Sound(c) /\ c \in Graphs /\ c.nodes = h.nodes /\ c.idx = h.idx
  BY <1>6, RelinkedIs
<1>8. c.out[v] = s
  BY <1>2, <1>3, <1>6
<1>9. r = DisconnectFrom(c, v, s)
  BY <1>3, <1>5, <1>8 DEF TransferOut
<1>10. /\ r \in Relinked(c) /\ r.out[v] = <<>>
       /\ \A w \in NodeId : w # v => r.out[w] = c.out[w]
  BY <1>2, <1>7, <1>8, <1>9, DisconnectFromIs
<1>11. Relinked(c) = Relinked(h)
  BY <1>7 DEF Relinked
<1> QED
  BY <1>2, <1>3, <1>6, <1>10, <1>11

(* What an expansion is to make of h: v and the new nodes take consecutive *)
(* positions, the last of them has what left v, the rest of the graph is   *)
(* unchanged, and the others are connected to nodes of the block           *)
Inner(v, new, n) == {v} \cup {new[j] : j \in 1..n}

IsBlock(m, h, v, new, n) ==
  /\ m \in Graphs /\ Indexed(m) /\ Linked(m)
  /\ Inner(v, new, n) \subseteq InGraph(m)
  /\ Len(m.nodes) = Len(h.nodes) + n
  /\ m.nodes[h.idx[v] + 1] = v
  /\ \A j \in 1..n : m.nodes[h.idx[v] + 1 + j] = new[j]
  /\ m.out[new[n]] = Reverse(h.out[v])
  /\ \A w \in InGraph(h) : w # v => m.out[w] = h.out[w]
  /\ \A w \in Inner(v, new, n - 1) : ToSet(m.out[w]) \subseteq Inner(v, new, n)

LEMMA NothingLeaves ==
  ASSUME NEW h, Sound(h), NEW w \in NodeId, w \notin InGraph(h)
  PROVE  h.out[w] = <<>>
<1>1. h \in Graphs /\ Within(h)
  BY DEF Sound, Linked
<1>2. PICK s \in Seq(NodeId) : s = h.out[w]
  BY <1>1, GraphIs
<1>3. Len(s) \in Nat
  BY LenProperties
<1>4. CASE Len(s) = 0
  BY <1>2, <1>4, EmptySeq
<1>5. CASE Len(s) # 0
  <2>1. 1 \in 1..Len(s)
    BY <1>3, <1>5
  <2>2. s[1] \in NodeId /\ s[1] \in ToSet(s)
    BY <2>1, SequenceIs DEF ToSet
  <2>3. Contains(s, s[1])
    BY <2>2, OccurrencesAre
  <2> QED
    BY <1>1, <1>2, <2>2, <2>3 DEF Within
<1> QED
  BY <1>4, <1>5

LEMMA BlockIs ==
  ASSUME NEW h, Sound(h), NEW v \in InGraph(h), NEW n \in Nat, n >= 1, NEW new \in [1..n -> NodeId],
         \A j \in 1..n : new[j] \notin InGraph(h), IsInjective(new)
  PROVE  IsBlock(Block(h, v, new), h, v, new, n)
<1>1. h \in Graphs /\ Indexed(h) /\ v \in NodeId
  BY NodeHasIndex DEF Sound
<1>2. new \in Seq(NodeId) /\ Len(new) = n /\ n \in 1..n
  <2>1. new \in Seq(NodeId)
    BY SeqDef
  <2> QED
    BY <2>1, LenProperties
<1>3. PICK m : m = InsertAll(h, v, new) /\ Inserted(m, h, v, new, n)
  BY InsertAllIs
<1>4. /\ Sound(m) /\ m \in Graphs /\ Indexed(m) /\ m.out = h.out
      /\ InGraph(m) = InGraph(h) \cup {new[j] : j \in 1..n}
      /\ m.idx[v] = h.idx[v] /\ Len(m.nodes) = Len(h.nodes) + n
      /\ \A j \in 1..n : m.nodes[h.idx[v] + 1 + j] = new[j]
  BY <1>3 DEF Inserted, Sound
<1>5. PICK u \in NodeId : u = new[n]
  BY <1>2
<1>6. v \in InGraph(m) /\ u \in InGraph(m) /\ u # v
  BY <1>2, <1>4, <1>5
<1>7. \A j \in 1..n : m.out[new[j]] = <<>>
  BY <1>4, NothingLeaves
<1>8. PICK r : r = TransferOut(m, v, u)
  OBVIOUS
<1>9. r = Block(h, v, new)
  BY <1>2, <1>3, <1>5, <1>8 DEF Block
<1>10. /\ r \in Relinked(m) /\ r.out[u] = Reverse(m.out[v]) /\ r.out[v] = <<>>
       /\ \A w \in NodeId : w # u /\ w # v => r.out[w] = m.out[w]
  <2>1. m.out[u] = <<>>
    BY <1>2, <1>5, <1>7
  <2> QED
    BY <1>4, <1>6, <1>8, <2>1, TransferOutIs
<1>11. /\ r \in Graphs /\ Indexed(r) /\ Linked(r) /\ r.nodes = m.nodes
       /\ InGraph(r) = InGraph(m)
  BY <1>10, RelinkedIs
<1>12. r.nodes[h.idx[v] + 1] = v
  BY <1>4, <1>6, <1>11, NodeHasIndex
<1>13. \A w \in InGraph(h) : w # v => r.out[w] = h.out[w]
  <2>1. \A w \in InGraph(h) : w \in NodeId /\ w # u
    BY <1>1, <1>2, <1>5, NodeHasIndex
  <2> QED
    BY <1>4, <1>10, <2>1
<1>14. \A w \in Inner(v, new, n - 1) : r.out[w] = <<>>
  <2>1. \A j \in 1..(n - 1) : j \in 1..n /\ j # n
    OBVIOUS
  <2>2. \A j \in 1..(n - 1) : new[j] # u /\ new[j] # v /\ new[j] \in NodeId
    BY <1>2, <1>5, <2>1 DEF IsInjective
  <2>3. \A j \in 1..(n - 1) : r.out[new[j]] = <<>>
    BY <1>7, <1>10, <2>1, <2>2
  <2> QED
    BY <1>10, <2>3 DEF Inner
<1>15. ToSet(<<>>) = {}
  BY EmptySeq DEF ToSet
<1>16. Inner(v, new, n) \subseteq InGraph(r)
  BY <1>4, <1>11 DEF Inner
<1> QED
  BY <1>4, <1>5, <1>9, <1>10, <1>11, <1>12, <1>13, <1>14, <1>15, <1>16 DEF IsBlock

LEMMA BlockGrows ==
  ASSUME NEW h \in Graphs, NEW v, NEW n \in Nat, NEW new \in [1..n -> NodeId], n >= 1,
         v \in InGraph(h), \A j \in 1..n : new[j] \notin InGraph(h), IsInjective(new),
         NEW m, IsBlock(m, h, v, new, n),
         NEW a \in Inner(v, new, n - 1), NEW b \in Inner(v, new, n)
  PROVE  IsBlock(Connect(m, a, b), h, v, new, n)
<1>1. /\ m \in Graphs /\ Indexed(m) /\ Linked(m) /\ Sound(m)
      /\ Inner(v, new, n) \subseteq InGraph(m)
      /\ Len(m.nodes) = Len(h.nodes) + n
      /\ m.nodes[h.idx[v] + 1] = v
      /\ \A j \in 1..n : m.nodes[h.idx[v] + 1 + j] = new[j]
      /\ m.out[new[n]] = Reverse(h.out[v])
      /\ \A w \in InGraph(h) : w # v => m.out[w] = h.out[w]
      /\ \A w \in Inner(v, new, n - 1) : ToSet(m.out[w]) \subseteq Inner(v, new, n)
  BY DEF IsBlock, Sound
<1>2. Inner(v, new, n - 1) \subseteq Inner(v, new, n)
  <2>1. \A j \in 1..(n - 1) : j \in 1..n
    OBVIOUS
  <2> QED
    BY <2>1 DEF Inner
<1>3. a \in InGraph(m) /\ b \in InGraph(m)
  BY <1>1, <1>2
<1>4. a \in NodeId /\ b \in NodeId
  BY <1>1, <1>3, NodeHasIndex
<1>5. PICK q : q = Connect(m, a, b)
  OBVIOUS
<1>6. q \in Relinked(m) /\ RootEnters(q, m, a, b)
  BY <1>1, <1>3, <1>4, <1>5, SoundIsRelinked, ConnectRelinks
<1>7. q \in Graphs /\ Indexed(q) /\ Linked(q) /\ q.nodes = m.nodes /\ InGraph(q) = InGraph(m)
  BY <1>6, RelinkedIs
<1>8. q.out[a] = Cons(b, m.out[a]) /\ \A w \in NodeId : w # a => q.out[w] = m.out[w]
  <2>1. m.out \in [NodeId -> Seq(NodeId)]
    BY <1>1, GraphIs
  <2> QED
    BY <1>4, <1>6, <2>1 DEF RootEnters
<1>9. a # new[n] /\ new[n] \in NodeId
  <2>1. n \in 1..n /\ \A j \in 1..(n - 1) : j \in 1..n /\ j # n
    OBVIOUS
  <2>2. \A j \in 1..(n - 1) : new[j] # new[n]
    BY <2>1 DEF IsInjective
  <2> QED
    BY <2>1, <2>2 DEF Inner
<1>10. \A w \in InGraph(h) : w # v => w # a /\ w \in NodeId
  <2>1. \A j \in 1..(n - 1) : j \in 1..n
    OBVIOUS
  <2>2. \A w \in InGraph(h) : w \in NodeId
    <3>1. h.nodes \in Seq(NodeId)
      BY GraphIs
    <3> QED
      BY <3>1, SequenceIs DEF InGraph, ToSet
  <2> QED
    BY <2>1, <2>2 DEF Inner
<1>11. ToSet(q.out[a]) \subseteq Inner(v, new, n)
  <2>1. PICK s \in Seq(NodeId) : s = m.out[a]
    BY <1>1, <1>4, GraphIs
  <2>2. ToSet(s) \subseteq Inner(v, new, n)
    BY <1>1, <2>1
  <2>3. PICK c : c = Cons(b, s)
    OBVIOUS
  <2>4. Len(s) \in Nat /\ DOMAIN s = 1..Len(s)
    BY LenProperties
  <2>5. /\ c \in Seq(NodeId) /\ Len(c) = Len(s) + 1 /\ c[1] = b
        /\ \A k \in 1..Len(s) : c[k + 1] = s[k]
    <3>1. /\ Cons(b, s) \in Seq(NodeId) /\ Len(Cons(b, s)) = Len(s) + 1 /\ Cons(b, s)[1] = b
          /\ \A k \in 1..Len(s) : Cons(b, s)[k + 1] = s[k]
      BY <1>4, ConsIs
    <3> QED
      BY <2>3, <3>1
  <2>6. ASSUME NEW k \in 1..(Len(s) + 1)
        PROVE  c[k] \in Inner(v, new, n)
    <3>1. CASE k = 1
      BY <2>5, <3>1
    <3>2. CASE k # 1
      <4>1. k - 1 \in 1..Len(s) /\ (k - 1) + 1 = k
        BY <2>4, <3>2
      <4>2. c[k] = s[k - 1] /\ s[k - 1] \in ToSet(s)
        BY <2>4, <2>5, <4>1 DEF ToSet
      <4> QED
        BY <2>2, <4>2
    <3> QED
      BY <3>1, <3>2
  <2>7. DOMAIN c = 1..(Len(s) + 1)
    BY <2>5, LenProperties
  <2>8. ToSet(c) \subseteq Inner(v, new, n)
    BY <2>6, <2>7 DEF ToSet
  <2> QED
    BY <1>8, <2>1, <2>3, <2>8
<1>12. \A w \in Inner(v, new, n - 1) : ToSet(q.out[w]) \subseteq Inner(v, new, n)
  <2> TAKE w \in Inner(v, new, n - 1)
  <2>1. w \in NodeId
    BY <1>1, <1>2, NodeHasIndex
  <2>2. CASE w = a
    BY <1>11, <2>2
  <2>3. CASE w # a
    BY <1>1, <1>8, <2>1, <2>3
  <2> QED
    BY <2>2, <2>3
<1>13. q.out[new[n]] = Reverse(h.out[v])
  BY <1>1, <1>8, <1>9
<1>14. \A w \in InGraph(h) : w # v => q.out[w] = h.out[w]
  BY <1>1, <1>8, <1>10
<1>15. IsBlock(q, h, v, new, n)
  BY <1>1, <1>7, <1>12, <1>13, <1>14 DEF IsBlock
<1> QED
  BY <1>5, <1>15

LEMMA ConnectAllGrows ==
  ASSUME NEW h \in Graphs, NEW v, NEW n \in Nat, NEW new \in [1..n -> NodeId], n >= 1,
         v \in InGraph(h), \A j \in 1..n : new[j] \notin InGraph(h), IsInjective(new),
         NEW m, IsBlock(m, h, v, new, n), NEW pairs \in Seq(NodeId \X NodeId),
         \A k \in 1..Len(pairs) : /\ pairs[k][1] \in Inner(v, new, n - 1)
                                  /\ pairs[k][2] \in Inner(v, new, n)
  PROVE  IsBlock(ConnectAll(m, pairs), h, v, new, n)
<1>1. PICK l \in Nat : l = Len(pairs)
  BY LenProperties
<1>2. m \in Graphs
  BY DEF IsBlock
<1>3. PICK f \in [0..l -> Graphs] :
        /\ f[0] = m /\ f[l] = ConnectAll(m, pairs)
        /\ \A k \in 1..l : f[k] = Connect(f[k - 1], pairs[k][1], pairs[k][2])
  BY <1>1, <1>2, ConnectAllRounds
<1> DEFINE S == {k \in 0..l : IsBlock(f[k], h, v, new, n)}
<1>4. 0 \in S
  BY <1>3
<1>5. ASSUME NEW k \in 0..(l - 1), k \in S
      PROVE  k + 1 \in S
  <2>1. PICK j \in 1..l : j = k + 1 /\ j - 1 = k /\ j \in 0..l
    OBVIOUS
  <2>2. PICK q : q = f[k] /\ IsBlock(q, h, v, new, n)
    BY <1>5
  <2>3. PICK a, b : /\ a = pairs[j][1] /\ a \in Inner(v, new, n - 1)
                    /\ b = pairs[j][2] /\ b \in Inner(v, new, n)
    BY <1>1
  <2>4. f[j] = Connect(q, a, b)
    BY <1>3, <2>1, <2>2, <2>3
  <2>5. IsBlock(Connect(q, a, b), h, v, new, n)
    BY <2>2, <2>3, BlockGrows
  <2> QED
    BY <2>1, <2>4, <2>5
<1>6. l \in S
  <2> HIDE DEF S
  <2>1. 0..l \subseteq S
    BY <1>4, <1>5, UpTo
  <2> QED
    BY <2>1
<1> QED
  BY <1>3, <1>6

LEMMA BranchesGrows ==
  ASSUME NEW h \in Graphs, NEW v \in NodeId, NEW n \in Nat, NEW new \in [1..n -> NodeId], n >= 1,
         v \in InGraph(h),
         \A j \in 1..n : new[j] \notin InGraph(h), IsInjective(new),
         NEW m, IsBlock(m, h, v, new, n), NEW middle \in Seq(NodeId), NEW sink \in NodeId,
         sink = new[n], \A k \in 1..Len(middle) : middle[k] \in Inner(v, new, n - 1)
  PROVE  IsBlock(Branches(m, v, middle, sink), h, v, new, n)
<1>1. PICK l \in Nat : l = Len(middle)
  BY LenProperties
<1>2. m \in Graphs
  BY DEF IsBlock
<1>3. PICK f \in [0..l -> Graphs] :
        /\ f[0] = m /\ f[l] = Branches(m, v, middle, sink)
        /\ \A k \in 1..l : f[k] = Connect(Connect(f[k - 1], v, middle[k]), middle[k], sink)
  <2>1. \E f : BranchesTaken(f, m, v, middle, sink)
    BY <1>2, BranchesRounds
  <2> QED
    BY <1>1, <2>1 DEF BranchesTaken
<1>4. /\ v \in Inner(v, new, n - 1) /\ sink \in Inner(v, new, n)
      /\ Inner(v, new, n - 1) \subseteq Inner(v, new, n)
  <2>1. n \in 1..n /\ \A j \in 1..(n - 1) : j \in 1..n
    OBVIOUS
  <2> QED
    BY <2>1 DEF Inner
<1> DEFINE S == {k \in 0..l : IsBlock(f[k], h, v, new, n)}
<1>5. 0 \in S
  BY <1>3
<1>6. ASSUME NEW k \in 0..(l - 1), k \in S
      PROVE  k + 1 \in S
  <2>1. PICK j \in 1..l : j = k + 1 /\ j - 1 = k /\ j \in 0..l
    OBVIOUS
  <2>2. PICK q : q = f[k] /\ IsBlock(q, h, v, new, n)
    BY <1>6
  <2>3. PICK w : w = middle[j] /\ w \in Inner(v, new, n - 1) /\ w \in Inner(v, new, n)
    BY <1>1, <1>4
  <2>4. f[j] = Connect(Connect(q, v, w), w, sink)
    BY <1>3, <2>1, <2>2, <2>3
  <2>5. PICK p : p = Connect(q, v, w)
    OBVIOUS
  <2>6. IsBlock(p, h, v, new, n)
    BY <1>4, <2>2, <2>3, <2>5, BlockGrows
  <2>7. IsBlock(Connect(p, w, sink), h, v, new, n)
    BY <1>4, <2>3, <2>6, BlockGrows
  <2> QED
    BY <2>1, <2>4, <2>5, <2>7
<1>7. l \in S
  <2> HIDE DEF S
  <2>1. 0..l \subseteq S
    BY <1>5, <1>6, UpTo
  <2> QED
    BY <2>1
<1> QED
  BY <1>3, <1>7

(* The nodes that malloc returns are not of the graph                      *)
LEMMA FreshAre ==
  ASSUME NEW k \in Nat, NEW new \in Fresh(k)
  PROVE  /\ new \in [1..k -> NodeId] /\ IsInjective(new)
         /\ \A j \in 1..k : new[j] \notin InGraph(g)
         /\ new \in Seq(NodeId) /\ Len(new) = k
<1>1. new \in [1..k -> NodeId] /\ IsInjective(new) /\ \A j \in 1..k : new[j] \notin InGraph(g)
  BY DEF Fresh, Free
<1>2. new \in Seq(NodeId)
  BY <1>1, SeqDef
<1>3. Len(new) = k
  BY <1>1, <1>2, LenProperties
<1> QED
  BY <1>1, <1>2, <1>3

LEMMA ExpandIs ==
  ASSUME Sound(g), NEW v \in InGraph(g), NEW n \in 1..3, NEW new \in Fresh(n), Expand(v, new)
  PROVE  IsBlock(g', g, v, new, n)
<1>1. /\ new \in [1..n -> NodeId] /\ IsInjective(new) /\ n \in Nat /\ n >= 1
      /\ \A j \in 1..n : new[j] \notin InGraph(g)
      /\ new \in Seq(NodeId) /\ Len(new) = n
  BY FreshAre
<1>2. g \in Graphs /\ v \in NodeId
  BY NodeHasIndex DEF Sound
<1>3. PICK m : m = Block(g, v, new) /\ IsBlock(m, g, v, new, n)
  BY <1>1, BlockIs
<1>4. ASSUME NEW pairs \in Seq(NodeId \X NodeId), g' = ConnectAll(m, pairs),
             \A k \in 1..Len(pairs) : /\ pairs[k][1] \in Inner(v, new, n - 1)
                                      /\ pairs[k][2] \in Inner(v, new, n)
      PROVE  IsBlock(g', g, v, new, n)
  <2>1. IsBlock(ConnectAll(m, pairs), g, v, new, n)
    BY <1>1, <1>2, <1>3, <1>4, ConnectAllGrows
  <2> QED
    BY <1>4, <2>1
<1>6. ASSUME NEW p \in NodeId \X NodeId, NEW q \in NodeId \X NodeId, NEW r \in NodeId \X NodeId,
             g' = ConnectAll(m, <<p, q, r>>),
             p[1] \in Inner(v, new, n - 1), p[2] \in Inner(v, new, n),
             q[1] \in Inner(v, new, n - 1), q[2] \in Inner(v, new, n),
             r[1] \in Inner(v, new, n - 1), r[2] \in Inner(v, new, n)
      PROVE  IsBlock(g', g, v, new, n)
  <2> DEFINE pairs == <<p, q, r>>
  <2>1. /\ pairs \in Seq(NodeId \X NodeId) /\ Len(pairs) = 3
        /\ pairs[1] = p /\ pairs[2] = q /\ pairs[3] = r
    OBVIOUS
  <2>2. \A k \in 1..3 : k = 1 \/ k = 2 \/ k = 3
    OBVIOUS
  <2>3. g' = ConnectAll(m, pairs)
    BY <1>6
  <2> HIDE DEF pairs
  <2>4. \A k \in 1..Len(pairs) : pairs[k][1] \in Inner(v, new, n - 1) /\ pairs[k][2] \in Inner(v, new, n)
    BY <1>6, <2>1, <2>2
  <2> QED
    BY <1>4, <2>1, <2>3, <2>4
<1>7. CASE Len(new) = 1 /\ g' = ExpandToSequence(g, v, new)
  <2>1. n = 1 /\ new[1] \in NodeId
    BY <1>1, <1>7
  <2>2. PICK pairs : pairs = << <<v, new[1]>> >>
    OBVIOUS
  <2>3. /\ pairs \in Seq(NodeId \X NodeId) /\ Len(pairs) = 1
        /\ pairs[1] = <<v, new[1]>>
    BY <1>2, <2>1, <2>2
  <2>4. v \in Inner(v, new, n - 1) /\ new[1] \in Inner(v, new, n)
    BY <2>1 DEF Inner
  <2>5. \A k \in 1..1 : k = 1
    OBVIOUS
  <2>6. \A k \in 1..Len(pairs) : pairs[k][1] \in Inner(v, new, n - 1) /\ pairs[k][2] \in Inner(v, new, n)
    BY <2>3, <2>4, <2>5
  <2>7. g' = ConnectAll(m, pairs)
    BY <1>3, <1>7, <2>2 DEF ExpandToSequence
  <2> QED
    BY <1>4, <2>3, <2>6, <2>7
<1>8. ASSUME n = 2
      PROVE  /\ new[1] \in NodeId /\ new[2] \in NodeId
             /\ v \in Inner(v, new, n - 1) /\ new[1] \in Inner(v, new, n - 1)
             /\ v \in Inner(v, new, n) /\ new[1] \in Inner(v, new, n) /\ new[2] \in Inner(v, new, n)
  BY <1>1, <1>8 DEF Inner
<1>9. CASE Len(new) = 2 /\ g' = ExpandToRepeat(g, v, new)
  <2>1. PICK p, q, r : p = <<v, new[1]>> /\ q = <<new[1], v>> /\ r = <<new[1], new[2]>>
    OBVIOUS
  <2>2. g' = ConnectAll(m, <<p, q, r>>)
    BY <1>3, <1>9, <2>1 DEF ExpandToRepeat
  <2>3. n = 2
    BY <1>1, <1>9
  <2>4. /\ p \in NodeId \X NodeId /\ p[1] \in Inner(v, new, n - 1) /\ p[2] \in Inner(v, new, n)
        /\ q \in NodeId \X NodeId /\ q[1] \in Inner(v, new, n - 1) /\ q[2] \in Inner(v, new, n)
        /\ r \in NodeId \X NodeId /\ r[1] \in Inner(v, new, n - 1) /\ r[2] \in Inner(v, new, n)
    BY <1>2, <1>8, <2>1, <2>3
  <2> QED
    BY <1>6, <2>2, <2>4
<1>10. CASE Len(new) = 2 /\ g' = ExpandToWhile(g, v, new)
  <2>1. PICK p, q, r : p = <<v, new[1]>> /\ q = <<new[1], v>> /\ r = <<v, new[2]>>
    OBVIOUS
  <2>2. g' = ConnectAll(m, <<p, q, r>>)
    BY <1>3, <1>10, <2>1 DEF ExpandToWhile
  <2>3. n = 2
    BY <1>1, <1>10
  <2>4. /\ p \in NodeId \X NodeId /\ p[1] \in Inner(v, new, n - 1) /\ p[2] \in Inner(v, new, n)
        /\ q \in NodeId \X NodeId /\ q[1] \in Inner(v, new, n - 1) /\ q[2] \in Inner(v, new, n)
        /\ r \in NodeId \X NodeId /\ r[1] \in Inner(v, new, n - 1) /\ r[2] \in Inner(v, new, n)
    BY <1>2, <1>8, <2>1, <2>3
  <2> QED
    BY <1>6, <2>2, <2>4
<1>11. CASE Len(new) = 2 /\ g' = ExpandToIfThen(g, v, new)
  <2>1. PICK p, q, r : p = <<v, new[1]>> /\ q = <<v, new[2]>> /\ r = <<new[1], new[2]>>
    OBVIOUS
  <2>2. g' = ConnectAll(m, <<p, q, r>>)
    BY <1>3, <1>11, <2>1 DEF ExpandToIfThen
  <2>3. n = 2
    BY <1>1, <1>11
  <2>4. /\ p \in NodeId \X NodeId /\ p[1] \in Inner(v, new, n - 1) /\ p[2] \in Inner(v, new, n)
        /\ q \in NodeId \X NodeId /\ q[1] \in Inner(v, new, n - 1) /\ q[2] \in Inner(v, new, n)
        /\ r \in NodeId \X NodeId /\ r[1] \in Inner(v, new, n - 1) /\ r[2] \in Inner(v, new, n)
    BY <1>2, <1>8, <2>1, <2>3
  <2> QED
    BY <1>6, <2>2, <2>4
<1>12. CASE Len(new) = 3 /\ g' = ExpandToPCase(g, v, new)
  <2>1. n = 3
    BY <1>1, <1>12
  <2>2. PICK middle : middle = Front(new)
    OBVIOUS
  <2>3. /\ middle \in Seq(NodeId) /\ Len(middle) = 2
        /\ \A k \in 1..2 : middle[k] = new[k]
    <3>1. \A i \in 1..3 : new[i] \in NodeId
      BY <1>1, <2>1
    <3>2. /\ SubSeq(new, 1, 2) \in Seq(NodeId) /\ Len(SubSeq(new, 1, 2)) = 2
          /\ \A k \in 1..2 : SubSeq(new, 1, 2)[k] = new[k]
      <4>1. /\ SubSeq(new, 1, 2) \in Seq(NodeId)
            /\ Len(SubSeq(new, 1, 2)) = IF 1 <= 2 THEN 2 - 1 + 1 ELSE 0
            /\ \A k \in 1..(2 - 1 + 1) : SubSeq(new, 1, 2)[k] = new[1 + k - 1]
        BY <1>1, <2>1, <3>1, SubSeqProperties
      <4> QED
        BY <4>1
    <3>3. middle = SubSeq(new, 1, 2)
      BY <1>1, <2>1, <2>2 DEF Front
    <3> QED
      BY <3>2, <3>3
  <2>4. PICK sink \in NodeId : sink = new[n]
    BY <1>1
  <2>5. g' = Branches(m, v, middle, sink)
    BY <1>1, <1>3, <1>12, <2>2, <2>4 DEF ExpandToPCase
  <2>6. \A k \in 1..Len(middle) : middle[k] \in Inner(v, new, n - 1)
    BY <2>1, <2>3 DEF Inner
  <2>7. IsBlock(Branches(m, v, middle, sink), g, v, new, n)
    BY <1>1, <1>2, <1>3, <2>3, <2>4, <2>6, BranchesGrows
  <2> QED
    BY <2>5, <2>7
<1> QED
  BY <1>7, <1>9, <1>10, <1>11, <1>12 DEF Expand

-----------------------------------------------------------------------------
(* The copy of a graph                                                     *)
LEMMA CopyNodeIs ==
  ASSUME NEW h, Sound(h), NEW e, e.nodes = h.nodes, NEW c \in Relinked(e),
         NEW u \in InGraph(h), c.out[u] = <<>>, NEW r, r = CopyNode(h, c, u)
  PROVE  /\ r \in Relinked(e) /\ r.out[u] = Reverse(h.out[u])
         /\ \A w \in NodeId : w # u => r.out[w] = c.out[w]
<1>1. h \in Graphs /\ Indexed(h) /\ Within(h) /\ u \in NodeId
  BY NodeHasIndex DEF Sound, Linked
<1>2. c \in Graphs /\ c.nodes = h.nodes /\ InGraph(c) = InGraph(h) /\ InGraph(e) = InGraph(h)
  <2>1. c \in Graphs /\ c.nodes = e.nodes
    BY RelinkedIs
  <2> QED
    BY <2>1 DEF InGraph
<1>3. PICK s \in Seq(NodeId) : s = h.out[u]
  BY <1>1, GraphIs
<1>4. ToSet(s) \subseteq InGraph(h)
  BY <1>1, <1>3, OutWithin
<1>5. PICK n \in Nat : n = Len(s)
  BY LenProperties
<1>6. c \in SameNodes(h)
  BY <1>2 DEF SameNodes
<1>7. PICK f \in [0..n -> SameNodes(h)] :
        /\ f[0] = c /\ f[n] = r
        /\ \A k \in 1..n : f[k] = Connect(f[k - 1], u, NodeAt(f[k - 1], h.idx[s[k]]))
  BY <1>1, <1>3, <1>4, <1>5, <1>6, CopyNodeRounds
<1> DEFINE S == {k \in 0..n : /\ f[k] \in Relinked(e) /\ f[k].out[u] = Reverse(SubSeq(s, 1, k))
                              /\ \A w \in NodeId : w # u => f[k].out[w] = c.out[w]}
<1>8. 0 \in S
  BY <1>7, PrefixEnds
<1>9. ASSUME NEW k \in 0..(n - 1), k \in S
      PROVE  k + 1 \in S
  <2>1. PICK j \in 1..n : j = k + 1 /\ j - 1 = k /\ j \in 0..n
    OBVIOUS
  <2>2. PICK m \in Relinked(e) :
          /\ m = f[k] /\ m.out[u] = Reverse(SubSeq(s, 1, j - 1))
          /\ \A w \in NodeId : w # u => m.out[w] = c.out[w]
    BY <1>9, <2>1
  <2>3. PICK w \in NodeId : w = s[j] /\ w \in InGraph(h)
    BY <1>4, <1>5, ElementOfSeq, SequenceIs DEF ToSet
  <2>4. NodeAt(m, h.idx[w]) = w
    <3>1. m.nodes = h.nodes
      BY RelinkedIs
    <3> QED
      BY <1>1, <2>3, <3>1, NodeHasIndex DEF NodeAt
  <2>5. PICK q : q = f[j] /\ q = Connect(m, u, w)
    BY <1>7, <2>1, <2>2, <2>3, <2>4
  <2>6. q \in Relinked(e) /\ RootEnters(q, m, u, w)
    BY <1>1, <1>2, <2>3, <2>5, ConnectRelinks
  <2>7. m.out \in [NodeId -> Seq(NodeId)]
    BY RelinkedIs, GraphIs
  <2>8. q.out[u] = Cons(w, Reverse(SubSeq(s, 1, j - 1)))
    BY <1>1, <2>2, <2>6, <2>7 DEF RootEnters
  <2>9. q.out[u] = Reverse(SubSeq(s, 1, j))
    BY <1>5, <2>3, <2>8, PrefixReversed
  <2>10. \A x \in NodeId : x # u => q.out[x] = c.out[x]
    BY <2>2, <2>6, <2>7 DEF RootEnters
  <2> QED
    BY <2>1, <2>5, <2>6, <2>9, <2>10
<1>10. n \in S
  <2> HIDE DEF S
  <2>1. 0..n \subseteq S
    BY <1>8, <1>9, UpTo
  <2> QED
    BY <2>1
<1>11. Reverse(SubSeq(s, 1, n)) = Reverse(s)
  BY <1>5, PrefixEnds
<1> QED
  BY <1>3, <1>7, <1>10, <1>11

LEMMA CopyIs ==
  ASSUME NEW h, Sound(h), NEW r, r = Copy(h)
  PROVE  /\ Sound(r) /\ r.nodes = h.nodes
         /\ r.out = [v \in NodeId |-> Reverse(h.out[v])]
<1>1. h \in Graphs /\ Indexed(h) /\ Within(h) /\ IsInjective(h.nodes)
  BY DEF Sound, Linked, Indexed
<1>2. PICK ws \in Seq(NodeId) : ws = h.nodes
  BY <1>1, GraphIs
<1>3. PICK n \in Nat : n = Len(ws)
  BY LenProperties
<1>4. PICK e : e = EmptyGraph(ws)
  OBVIOUS
<1>5. e \in Graphs /\ Indexed(e) /\ Linked(e) /\ e.nodes = ws /\ e.out = [v \in NodeId |-> <<>>]
  BY <1>1, <1>2, <1>4, EmptyIs, GraphOperationsAssumption
<1>6. e \in SameNodes(h) /\ e \in Relinked(e)
  BY <1>2, <1>5 DEF SameNodes, Relinked
<1>7. PICK f \in [0..n -> SameNodes(h)] :
        /\ f[0] = e /\ f[n] = r
        /\ \A k \in 1..n : f[k] = CopyNode(h, f[k - 1], ws[k])
  BY <1>1, <1>2, <1>3, <1>4, <1>6, CopyRounds
<1>8. /\ \A k \in 1..n : ws[k] \in NodeId /\ ws[k] \in InGraph(h)
      /\ \A j, k \in 1..n : ws[j] = ws[k] => j = k
      /\ InGraph(h) = {ws[k] : k \in 1..n}
  <2>1. DOMAIN ws = 1..n /\ \A k \in 1..n : ws[k] \in NodeId
    BY <1>3, SequenceIs
  <2>2. InGraph(h) = {ws[k] : k \in 1..n}
    BY <1>2, <2>1 DEF InGraph, ToSet
  <2> QED
    BY <1>1, <1>2, <2>1, <2>2 DEF IsInjective
<1> DEFINE Done(m, k) ==
             /\ \A j \in 1..k : m.out[ws[j]] = Reverse(h.out[ws[j]])
             /\ \A w \in NodeId : (\A j \in 1..k : w # ws[j]) => m.out[w] = <<>>
           S == {k \in 0..n : f[k] \in Relinked(e) /\ Done(f[k], k)}
<1>9. 0 \in S
  BY <1>5, <1>6, <1>7
<1>10. ASSUME NEW k \in 0..(n - 1), k \in S
       PROVE  k + 1 \in S
  <2>1. PICK j \in 1..n : j = k + 1 /\ j - 1 = k /\ j \in 0..n
    OBVIOUS
  <2>2. PICK m \in Relinked(e) : m = f[k] /\ Done(m, k)
    BY <1>10
  <2>3. PICK u \in InGraph(h) : u = ws[j] /\ u \in NodeId
    BY <1>8
  <2>4. \A i \in 1..k : i \in 1..n /\ i # j /\ u # ws[i] /\ ws[i] \in NodeId
    <3> TAKE i \in 1..k
    <3>1. i \in 1..n /\ i # j
      BY <2>1
    <3> QED
      BY <1>8, <2>3, <3>1
  <2>5. m.out[u] = <<>>
    BY <2>2, <2>3, <2>4
  <2>6. PICK q : q = f[j] /\ q = CopyNode(h, m, u)
    BY <1>7, <2>1, <2>2, <2>3
  <2>7. /\ q \in Relinked(e) /\ q.out[u] = Reverse(h.out[u])
        /\ \A w \in NodeId : w # u => q.out[w] = m.out[w]
    <3>1. e.nodes = h.nodes
      BY <1>2, <1>5
    <3> QED
      BY <2>5, <2>6, <3>1, CopyNodeIs
  <2>8. \A i \in 1..j : i \in 1..k \/ i = j
    BY <2>1
  <2>9. 1..k \subseteq 1..j /\ j \in 1..j
    BY <2>1
  <2>10. \A i \in 1..j : q.out[ws[i]] = Reverse(h.out[ws[i]])
    <3> TAKE i \in 1..j
    <3>1. CASE i = j
      BY <2>3, <2>7, <3>1
    <3>2. CASE i \in 1..k
      BY <2>2, <2>4, <2>7, <3>2
    <3> QED
      BY <2>8, <3>1, <3>2
  <2>11. \A w \in NodeId : (\A i \in 1..j : w # ws[i]) => q.out[w] = <<>>
    BY <2>2, <2>3, <2>7, <2>9
  <2> QED
    BY <2>1, <2>6, <2>7, <2>10, <2>11
<1>11. n \in S
  <2> HIDE DEF S
  <2>1. 0..n \subseteq S
    BY <1>9, <1>10, UpTo
  <2> QED
    BY <2>1
<1>12. r \in Relinked(e) /\ Done(r, n)
  BY <1>7, <1>11
<1>13. Sound(r) /\ r \in Graphs /\ r.nodes = h.nodes
  BY <1>2, <1>5, <1>12, RelinkedIs
<1>14. r.out = [v \in NodeId |-> Reverse(h.out[v])]
  <2>1. r.out \in [NodeId -> Seq(NodeId)]
    BY <1>13, GraphIs
  <2>2. ASSUME NEW v \in NodeId
        PROVE  r.out[v] = Reverse(h.out[v])
    <3>1. CASE v \in InGraph(h)
      BY <1>8, <1>12, <3>1
    <3>2. CASE v \notin InGraph(h)
      <4>1. h.out[v] = <<>>
        BY <3>2, NothingLeaves
      <4>2. \A j \in 1..n : v # ws[j]
        BY <1>8, <3>2
      <4>3. r.out[v] = <<>>
        BY <1>12, <4>2
      <4>4. Reverse(<<>>) = <<>>
        <5>1. <<>> \in Seq(NodeId) /\ Len(<<>>) = 0 /\ SubSeq(<<>>, 1, 0) = <<>>
          BY EmptySeq, SubSeqEnds
        <5> QED
          BY <5>1, PrefixEnds
      <4> QED
        BY <4>1, <4>3, <4>4
    <3> QED
      BY <3>1, <3>2
  <2> QED
    BY <2>1, <2>2
<1> QED
  BY <1>13, <1>14

-----------------------------------------------------------------------------
(* Every call leaves the graph sound                                       *)
LEMMA InitIsSound ==
  ASSUME Init
  PROVE  Sound(g)
<1>1. PICK k \in 1..MaxNodes :
        \E nodes \in [1..k -> NodeId] : IsInjective(nodes) /\ g = EmptyGraph(nodes)
  BY DEF Init
<1>2. PICK nodes \in [1..k -> NodeId] : IsInjective(nodes) /\ g = EmptyGraph(nodes)
  BY <1>1
<1>3. k \in Nat
  OBVIOUS
<1>4. nodes \in Seq(NodeId)
  BY <1>3, SeqDef
<1>5. g \in Graphs /\ Indexed(g) /\ Linked(g)
  BY <1>2, <1>4, EmptyIs, GraphOperationsAssumption
<1> QED
  BY <1>5 DEF Sound

LEMMA SoundKept ==
  ASSUME NEW h, Sound(h), NEW r, r \in Graphs, Indexed(r), InGraph(h) \subseteq InGraph(r),
         r.out = h.out, r.in = h.in, r.numOut = h.numOut, r.numIn = h.numIn,
         r.numConnections = h.numConnections
  PROVE  Sound(r)
BY LinkedKept DEF Sound

LEMMA NextIsSound ==
  ASSUME Sound(g), [Next]_g
  PROVE  Sound(g')
<1>1. g \in Graphs /\ Indexed(g) /\ g \in Relinked(g)
  BY SoundIsRelinked DEF Sound
<1>2. \A v \in InGraph(g) : v \in NodeId
  BY <1>1, NodeHasIndex
<1>3. \A r \in Relinked(g) : Sound(r)
  BY RelinkedIs
<1>4. CASE graph_add
  <2>1. PICK v \in Free : g' = Add(g, v)
    BY <1>4 DEF graph_add
  <2>2. v \in NodeId /\ v \notin InGraph(g)
    BY DEF Free
  <2>3. PICK r : r = g' /\ r = Add(g, v)
    BY <2>1
  <2>4. /\ r \in Graphs /\ Indexed(r) /\ InGraph(g) \subseteq InGraph(r)
        /\ r.out = g.out /\ r.in = g.in /\ r.numOut = g.numOut /\ r.numIn = g.numIn
        /\ r.numConnections = g.numConnections
    BY <1>1, <2>2, <2>3, AddIs
  <2> QED
    BY <2>3, <2>4, SoundKept
<1>5. CASE graph_insert
  <2>1. PICK v \in Free : \E k \in 0..Len(g.nodes) : g' = Insert(g, k, v)
    BY <1>5 DEF graph_insert
  <2>2. PICK k \in 0..Len(g.nodes) : g' = Insert(g, k, v)
    BY <2>1
  <2>3. v \in NodeId /\ v \notin InGraph(g)
    BY DEF Free
  <2>4. PICK r : r = g' /\ r = Insert(g, k, v)
    BY <2>2
  <2>5. /\ r \in Graphs /\ Indexed(r) /\ InGraph(r) = InGraph(g) \cup {v}
        /\ r.out = g.out /\ r.in = g.in /\ r.numOut = g.numOut /\ r.numIn = g.numIn
        /\ r.numConnections = g.numConnections
    BY <1>1, <2>3, <2>4, InsertIs
  <2> QED
    BY <2>4, <2>5, SoundKept
<1>6. CASE graph_swap
  <2>1. PICK a \in InGraph(g) : \E b \in InGraph(g) : a # b /\ g' = Swap(g, a, b)
    BY <1>6 DEF graph_swap
  <2>2. PICK b \in InGraph(g) : a # b /\ g' = Swap(g, a, b)
    BY <2>1
  <2>3. PICK r : r = g' /\ r = Swap(g, a, b)
    BY <2>2
  <2>4. /\ r \in Graphs /\ Indexed(r) /\ InGraph(r) = InGraph(g)
        /\ r.out = g.out /\ r.in = g.in /\ r.numOut = g.numOut /\ r.numIn = g.numIn
        /\ r.numConnections = g.numConnections
    BY <1>1, <2>2, <2>3, SwapIs
  <2> QED
    BY <2>3, <2>4, SoundKept
<1>7. CASE graph_isolate
  <2>1. PICK v \in InGraph(g) : g' = Isolate(g, v)
    BY <1>7 DEF graph_isolate
  <2> QED
    BY <1>2, <1>3, <2>1, IsolateIs
<1>8. CASE graph_delete
  <2>1. PICK v \in InGraph(g) : g' = Delete(g, v)
    BY <1>8 DEF graph_delete
  <2> QED
    BY <2>1, DeleteIsSound
<1>9. CASE graph_oriented_connect
  <2>1. PICK a \in InGraph(g), b \in InGraph(g) : g' = Connect(g, a, b)
    BY <1>9 DEF graph_oriented_connect
  <2>2. g' \in Relinked(g)
    BY <1>1, <1>2, <2>1, ConnectRelinks
  <2> QED
    BY <1>3, <2>2
<1>10. CASE graph_oriented_disconnect
  <2>1. PICK a \in InGraph(g), b \in InGraph(g) : g' = Disconnect(g, a, b)
    BY <1>10 DEF graph_oriented_disconnect
  <2>2. g' \in Relinked(g)
    BY <1>1, <1>2, <2>1, DisconnectRelinks
  <2> QED
    BY <1>3, <2>2
<1>11. CASE graph_copy
  BY <1>11, CopyIs DEF graph_copy
<1>12. CASE node_expand
  <2>1. PICK v \in InGraph(g) : \E k \in 1..3 : \E new \in Fresh(k) : Expand(v, new)
    BY <1>12 DEF node_expand
  <2>2. PICK k \in 1..3 : \E new \in Fresh(k) : Expand(v, new)
    BY <2>1
  <2>3. PICK new \in Fresh(k) : Expand(v, new)
    BY <2>2
  <2>4. IsBlock(g', g, v, new, k)
    BY <2>3, ExpandIs
  <2> QED
    BY <2>4 DEF IsBlock, Sound
<1>13. CASE UNCHANGED g
  BY <1>13
<1> QED
  BY <1>4, <1>5, <1>6, <1>7, <1>8, <1>9, <1>10, <1>11, <1>12, <1>13 DEF Next

LEMMA AlwaysSound == Spec => []Sound(g)
<1>1. Init => Sound(g)
  BY InitIsSound
<1>2. Sound(g) /\ [Next]_g => Sound(g)'
  <2> SUFFICES ASSUME Sound(g), [Next]_g
               PROVE  Sound(g')
    OBVIOUS
  <2> QED
    BY NextIsSound
<1> QED
  BY <1>1, <1>2, PTL DEF Spec

(* Every node of the array knows its index, and no node is there twice,    *)
(* whatever insertions, deletions, swaps and expansions were made          *)
(* (graph.c:70-74,84-86,104-107).                                          *)
THEOREM NodesKnowTheirIndexes == Spec => []IndexesAgree
<1>1. Sound(g) => IndexesAgree
  BY DEF Sound, Indexed, IndexesAgree
<1> QED
  BY <1>1, AlwaysSound, PTL

(* The list of the node that a connection leaves and the list of the node  *)
(* that it reaches hold it equally often, and both nodes are in the graph, *)
(* whatever calls were made (node.c:62-70,80-89).                          *)
THEOREM ListsAgree == Spec => []ListsMirrored
<1>1. Sound(g) => ListsMirrored
  BY DEF Sound, Linked, Mirrored, Within, ListsMirrored
<1> QED
  BY <1>1, AlwaysSound, PTL

(* The counts kept beside the lists are their lengths, and their total is  *)
(* the number of connections of the graph (node.c:63,68,92-93,             *)
(* graph.c:118,126).                                                       *)
THEOREM CountsAreLengths == Spec => []CountsAgree
<1>1. Sound(g) => CountsAgree
  BY DEF Sound, Linked, Counted, Total, CountsAgree
<1> QED
  BY <1>1, AlwaysSound, PTL

(* A copy has the connections of the original, every list of connections   *)
(* that leave a node reversed (graph.c:323-329).                           *)
THEOREM CopiesAreReversed == Spec => CopyReversesLists
<1>1. Sound(g) /\ [Next]_g => [graph_copy => /\ g'.nodes = g.nodes
                                             /\ g'.out = [v \in NodeId |-> Reverse(g.out[v])]]_g
  <2> SUFFICES ASSUME Sound(g), graph_copy
               PROVE  g'.nodes = g.nodes /\ g'.out = [v \in NodeId |-> Reverse(g.out[v])]
    OBVIOUS
  <2>1. PICK r : r = g' /\ r = Copy(g)
    BY DEF graph_copy
  <2>2. Sound(r) /\ r.nodes = g.nodes /\ r.out = [v \in NodeId |-> Reverse(g.out[v])]
    BY <2>1, CopyIs
  <2> QED
    BY <2>1, <2>2
<1> QED
  BY <1>1, AlwaysSound, PTL DEF Spec, CopyReversesLists

(* An expansion replaces a node by a block of consecutive nodes: what      *)
(* reached the node still does, what left it leaves the last of the block, *)
(* and no other connection joins the block to the rest (node.c:261-329).   *)
THEOREM ExpansionsMakeBlocks == Spec => ExpansionIsABlock
<1> DEFINE A == \A v \in InGraph(g) : \A k \in 1..3 : \A new \in Fresh(k) :
                  Expand(v, new) =>
                    LET inner == {v} \cup ToSet(new)
                        sink == new[k]
                    IN  /\ SubSeq(g'.nodes, g.idx[v] + 1, g.idx[v] + k + 1) = <<v>> \o new
                        /\ \A w \in InGraph(g) :
                             /\ Occurrences(g'.out[sink], w) = Occurrences(g.out[v], w)
                             /\ w # v => g'.out[w] = g.out[w]
                        /\ \A w \in inner \ {sink} : ToSet(g'.out[w]) \subseteq inner
<1>1. Sound(g) => A
  <2> SUFFICES ASSUME Sound(g), NEW v \in InGraph(g), NEW k \in 1..3, NEW new \in Fresh(k),
                      Expand(v, new)
               PROVE  /\ SubSeq(g'.nodes, g.idx[v] + 1, g.idx[v] + k + 1) = <<v>> \o new
                      /\ \A w \in InGraph(g) :
                           /\ Occurrences(g'.out[new[k]], w) = Occurrences(g.out[v], w)
                           /\ w # v => g'.out[w] = g.out[w]
                      /\ \A w \in ({v} \cup ToSet(new)) \ {new[k]} :
                           ToSet(g'.out[w]) \subseteq {v} \cup ToSet(new)
    OBVIOUS
  <2>1. PICK r : r = g' /\ IsBlock(r, g, v, new, k)
    BY ExpandIs
  <2>2. /\ r \in Graphs /\ Inner(v, new, k) \subseteq InGraph(r)
        /\ Len(r.nodes) = Len(g.nodes) + k
        /\ r.nodes[g.idx[v] + 1] = v
        /\ \A j \in 1..k : r.nodes[g.idx[v] + 1 + j] = new[j]
        /\ r.out[new[k]] = Reverse(g.out[v])
        /\ \A w \in InGraph(g) : w # v => r.out[w] = g.out[w]
        /\ \A w \in Inner(v, new, k - 1) : ToSet(r.out[w]) \subseteq Inner(v, new, k)
    BY <2>1 DEF IsBlock
  <2>3. /\ new \in [1..k -> NodeId] /\ new \in Seq(NodeId) /\ Len(new) = k /\ DOMAIN new = 1..k
    BY FreshAre
  <2>4. g \in Graphs /\ v \in NodeId /\ g.idx[v] \in 0..(Len(g.nodes) - 1)
    BY NodeHasIndex DEF Sound
  <2>5. PICK l \in Nat : l = Len(g.nodes)
    BY <2>4, GraphIs, LenProperties
  <2>6. PICK i \in 0..(l - 1) : i = g.idx[v]
    BY <2>4, <2>5
  <2>7. SubSeq(r.nodes, i + 1, i + k + 1) = <<v>> \o new
    <3>1. PICK s \in Seq(NodeId) : s = r.nodes
      BY <2>2, GraphIs
    <3>2. Len(s) = l + k /\ \A p \in 1..(l + k) : s[p] \in NodeId
      BY <2>2, <2>5, <3>1, SequenceIs
    <3>3. PICK a \in Int, b \in Int : a = i + 1 /\ b = i + k + 1 /\ a <= b /\ a >= 1 /\ b <= l + k
      OBVIOUS
    <3>4. PICK t : t = SubSeq(s, a, b)
      OBVIOUS
    <3>5. /\ t \in Seq(NodeId) /\ Len(t) = k + 1
          /\ \A p \in 1..(k + 1) : t[p] = s[i + p]
      <4>1. \A p \in a..b : s[p] \in NodeId
        BY <3>2, <3>3
      <4>2. /\ SubSeq(s, a, b) \in Seq(NodeId)
            /\ Len(SubSeq(s, a, b)) = IF a <= b THEN b - a + 1 ELSE 0
            /\ \A p \in 1..(b - a + 1) : SubSeq(s, a, b)[p] = s[a + p - 1]
        BY <3>1, <4>1, SubSeqProperties
      <4>3. b - a + 1 = k + 1 /\ \A p \in 1..(k + 1) : a + p - 1 = i + p
        BY <3>3
      <4> QED
        BY <3>3, <3>4, <4>2, <4>3
    <3>6. PICK c : c = <<v>> \o new
      OBVIOUS
    <3>7. /\ <<v>> \in Seq(NodeId) /\ Len(<<v>>) = 1 /\ <<v>>[1] = v
      BY <2>4
    <3>8. /\ c \in Seq(NodeId) /\ Len(c) = k + 1
          /\ \A p \in 1..(k + 1) : c[p] = IF p <= 1 THEN v ELSE new[p - 1]
      <4> DEFINE root == <<v>>
      <4> HIDE DEF root
      <4>1. root \in Seq(NodeId) /\ Len(root) = 1 /\ root[1] = v /\ c = root \o new
        BY <3>6, <3>7 DEF root
      <4>2. /\ root \o new \in Seq(NodeId)
            /\ Len(root \o new) = Len(root) + Len(new)
            /\ \A p \in 1..(Len(root) + Len(new)) :
                 (root \o new)[p] = IF p <= Len(root) THEN root[p] ELSE new[p - Len(root)]
        BY <2>3, <4>1, ConcatProperties
      <4> QED
        BY <2>3, <4>1, <4>2
    <3>9. ASSUME NEW p \in 1..(k + 1)
          PROVE  t[p] = c[p]
      <4>1. CASE p = 1
        BY <2>2, <2>6, <3>1, <3>5, <3>8, <4>1
      <4>2. CASE p # 1
        <5>1. PICK j \in 1..k : p = j + 1 /\ p - 1 = j
          <6>1. p - 1 \in 1..k /\ p = (p - 1) + 1
            BY <4>2
          <6> QED
            BY <6>1
        <5>2. t[p] = s[i + 1 + j]
          BY <3>5, <5>1
        <5>3. c[p] = new[j]
          BY <3>8, <4>2, <5>1
        <5> QED
          BY <2>2, <2>6, <3>1, <5>2, <5>3
      <4> QED
        BY <4>1, <4>2
    <3>10. t = c
      BY <3>5, <3>8, <3>9, SeqEqual
    <3> QED
      BY <3>1, <3>3, <3>4, <3>6, <3>10
  <2>8. \A w : Occurrences(r.out[new[k]], w) = Occurrences(g.out[v], w)
    <3>1. PICK s \in Seq(NodeId) : s = g.out[v]
      BY <2>4, GraphIs
    <3>2. \A w : Occurrences(Reverse(s), w) = Occurrences(s, w)
      BY OccurrencesReversed
    <3> QED
      BY <2>2, <3>1, <3>2
  <2>9. ToSet(new) = {new[j] : j \in 1..k}
    BY <2>3 DEF ToSet
  <2>10. \A w \in ({v} \cup ToSet(new)) \ {new[k]} : w \in Inner(v, new, k - 1)
    <3>1. \A j \in 1..k : j = k \/ j \in 1..(k - 1)
      OBVIOUS
    <3> QED
      BY <2>9, <3>1 DEF Inner
  <2>11. \A w \in ({v} \cup ToSet(new)) \ {new[k]} : ToSet(r.out[w]) \subseteq {v} \cup ToSet(new)
    BY <2>2, <2>9, <2>10 DEF Inner
  <2> QED
    BY <2>1, <2>2, <2>6, <2>7, <2>8, <2>11
<1>2. ExpansionIsABlock <=> [][A]_g
  BY DEF ExpansionIsABlock
<1>3. Sound(g) => [A]_g
  BY <1>1
<1> HIDE DEF A
<1> QED
  BY <1>2, <1>3, AlwaysSound, PTL DEF Spec

=============================================================================
