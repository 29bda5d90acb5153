------------------------- MODULE TopologicalSortProofs -------------------------
(***************************************************************************)
(* Proofs about the loader of dot files and the sort of what it loads, for *)
(* any number of nodes, lines and buckets.                                 *)
(*                                                                         *)
(* The loader: a name is in the chain of its bucket, once, with the number *)
(* it was given when it was first met.                                     *)
(*                                                                         *)
(* The sort: the nodes met are those on the stack and those placed, each   *)
(* node of the stack is reached from those below it, and what a node that  *)
(* was placed is connected to was placed before it, so that it comes       *)
(* after, or was on the stack when it was left.                            *)
(***************************************************************************)
EXTENDS TopologicalSort, FiniteSetTheorems, SequenceTheorems, TLAPS

-----------------------------------------------------------------------------
(* Sequences without repetitions                                           *)
LEMMA Smallest ==
  ASSUME NEW S \in SUBSET Nat, S # {}
  PROVE  \E m \in S : \A k \in S : m <= k
<1> DEFINE R == {p \in Nat \X Nat : p[1] < p[2]}
<1>1. IsWellFoundedOn(R, Nat)
  BY NatLessThanWellFounded DEF OpToRel
<1>2. \E m \in S : \A k \in S : <<k, m>> \notin R
  <2> HIDE DEF R
  <2> QED
    BY <1>1, WFMin
<1>3. PICK m \in S : \A k \in S : <<k, m>> \notin R
  BY <1>2
<1>4. ASSUME NEW k \in S
      PROVE  m <= k
  <2>1. <<k, m>> \notin R /\ k \in Nat /\ m \in Nat
    BY <1>3
  <2>2. ~(k < m)
    BY <2>1
  <2> QED
    BY <2>1, <2>2
<1> QED
  BY <1>4

LEMMA Largest ==
  ASSUME NEW N \in Nat, NEW S \in SUBSET (0..N), S # {}
  PROVE  \E m \in S : \A k \in S : k <= m
<1> DEFINE T == {j \in 0..N : N - j \in S}
<1>1. T \in SUBSET Nat
  OBVIOUS
<1>2. \A k \in S : k \in 0..N /\ N - k \in 0..N /\ N - (N - k) = k
  OBVIOUS
<1>3. \A k \in S : N - k \in T
  BY <1>2
<1>4. T # {}
  BY <1>3
<1>5. PICK m \in T : \A k \in T : m <= k
  <2> HIDE DEF T
  <2> QED
    BY <1>1, <1>4, Smallest
<1>6. \A k \in S : m <= N - k
  BY <1>3, <1>5
<1>7. N - m \in S /\ m \in 0..N
  BY <1>5
<1>8. \A k \in S : k <= N - m
  BY <1>2, <1>6, <1>7
<1> QED
  BY <1>7, <1>8

LEMMA InjectiveSize ==
  ASSUME NEW S, NEW s \in Seq(S), IsInjective(s)
  PROVE  IsFiniteSet(ToSet(s)) /\ Cardinality(ToSet(s)) = Len(s)
<1>1. /\ Len(s) \in Nat /\ DOMAIN s = 1..Len(s)
      /\ s \in [1..Len(s) -> S]
  BY LenProperties
<1>2. s \in Bijection(1..Len(s), ToSet(s))
  <2>1. s \in [1..Len(s) -> ToSet(s)]
    BY <1>1 DEF ToSet
  <2>2. \A a, b \in 1..Len(s) : s[a] = s[b] => a = b
    BY <1>1 DEF IsInjective
  <2>3. \A t \in ToSet(s) : \E a \in 1..Len(s) : s[a] = t
    BY <1>1 DEF ToSet
  <2> QED
    BY <2>1, <2>2, <2>3 DEF Bijection, Injection, Surjection, IsInjective
<1>3. ExistsBijection(1..Len(s), ToSet(s))
  BY <1>2 DEF ExistsBijection
<1>4. IsFiniteSet(1..Len(s)) /\ Cardinality(1..Len(s)) = Len(s)
  <2>1. /\ IsFiniteSet(1..Len(s))
        /\ Cardinality(1..Len(s)) = IF 1 > Len(s) THEN 0 ELSE Len(s) - 1 + 1
    BY <1>1, FS_Interval
  <2> QED
    BY <1>1, <2>1
<1> QED
  BY <1>3, <1>4, FS_Bijection

-----------------------------------------------------------------------------
(* The chains of the map with k names, where b is the bucket of each       *)
Entries == [key : Nat, data : Nat]

ChainsFit(c, b, k) ==
  /\ c \in [Bucket -> Seq(Entries)]
  /\ \A x \in Bucket : \A j \in DOMAIN c[x] :
       /\ c[x][j].key \in 1..k /\ b[c[x][j].key] = x
       /\ c[x][j] = Entry(c[x][j].key, c[x][j].key - 1)
  /\ \A x \in Bucket : \A j, l \in DOMAIN c[x] : c[x][j].key = c[x][l].key => j = l
  /\ \A name \in 1..k :
       b[name] \in Bucket /\ \E j \in DOMAIN c[b[name]] : c[b[name]][j].key = name

LEMMA FindOld ==
  ASSUME NEW c, NEW b, NEW k \in Nat, ChainsFit(c, b, k), NEW name \in 1..k
  PROVE  Find(c, b[name], name) = {Entry(name, name - 1)}
<1> DEFINE x == b[name]
           matches == {j \in DOMAIN c[x] : c[x][j].key = name}
<1>1. x \in Bucket
  BY DEF ChainsFit
<1>2. PICK j \in DOMAIN c[x] : c[x][j].key = name
  BY DEF ChainsFit
<1>3. c[x][j] = Entry(name, name - 1)
  BY <1>1, <1>2 DEF ChainsFit
<1>4. matches = {j}
  BY <1>1, <1>2 DEF ChainsFit
<1>5. c[x] \in Seq(Entries)
  BY <1>1 DEF ChainsFit
<1>6. j \in Nat
  BY <1>2, <1>5, LenProperties
<1>7. {i \in matches : \A l \in matches : i <= l} = {j}
  <2> HIDE DEF matches
  <2> QED
    BY <1>4, <1>6
<1>8. Find(c, x, name) = {c[x][i] : i \in {i \in matches : \A l \in matches : i <= l}}
  BY DEF Find
<1> HIDE DEF matches, x
<1>9. Find(c, x, name) = {Entry(name, name - 1)}
  BY <1>3, <1>7, <1>8
<1> QED
  BY <1>9 DEF x

LEMMA FindNew ==
  ASSUME NEW c, NEW b, NEW k \in Nat, ChainsFit(c, b, k), NEW name, name \notin 1..k,
         NEW x \in Bucket
  PROVE  Find(c, x, name) = {} /\ {j \in DOMAIN c[x] : j > 1 /\ c[x][j].key = name} = {}
<1>1. \A j \in DOMAIN c[x] : c[x][j].key # name
  BY DEF ChainsFit
<1> QED
  BY <1>1 DEF Find

LEMMA SetNew ==
  ASSUME NEW c, NEW b, NEW k \in Nat, ChainsFit(c, b, k), b[k + 1] \in Bucket
  PROVE  ChainsFit(Set(c, b[k + 1], k + 1, k), b, k + 1)
<1> DEFINE x == b[k + 1]
           d == Set(c, x, k + 1, k)
           e == Entry(k + 1, k)
<1>1. x \in Bucket /\ k + 1 \in Nat /\ k + 1 \notin 1..k
  OBVIOUS
<1>2. d = [c EXCEPT ![x] = Append(@, e)]
  <2>1. {j \in DOMAIN c[x] : j > 1 /\ c[x][j].key = k + 1} = {}
    BY <1>1, FindNew
  <2> QED
    BY <2>1 DEF Set
<1>3. e \in Entries /\ e.key = k + 1 /\ e = Entry(k + 1, (k + 1) - 1)
  BY DEF Entry, Entries
<1> HIDE DEF d, e, x
<1>4. c \in [Bucket -> Seq(Entries)]
  BY DEF ChainsFit
<1>5. /\ Append(c[x], e) \in Seq(Entries) /\ Len(c[x]) \in Nat
      /\ Len(Append(c[x], e)) = Len(c[x]) + 1
      /\ \A j \in 1..Len(c[x]) : Append(c[x], e)[j] = c[x][j]
      /\ Append(c[x], e)[Len(c[x]) + 1] = e
  BY <1>1, <1>3, <1>4, AppendProperties, LenProperties
<1>6. d \in [Bucket -> Seq(Entries)] /\ d[x] = Append(c[x], e)
      /\ \A y \in Bucket : y # x => d[y] = c[y]
  BY <1>1, <1>2, <1>4, <1>5
<1>7. /\ DOMAIN c[x] = 1..Len(c[x]) /\ DOMAIN d[x] = 1..(Len(c[x]) + 1)
      /\ \A j \in 1..Len(c[x]) : d[x][j] = c[x][j]
      /\ d[x][Len(c[x]) + 1] = e
  BY <1>1, <1>4, <1>5, <1>6, LenProperties
<1>8. ASSUME NEW y \in Bucket, NEW j \in DOMAIN d[y]
      PROVE  \/ j \in DOMAIN c[y] /\ d[y][j] = c[y][j]
             \/ y = x /\ j = Len(c[x]) + 1 /\ d[y][j] = e
  BY <1>5, <1>6, <1>7, <1>8
<1>9. \A y \in Bucket : \A j \in DOMAIN c[y] :
        /\ c[y][j].key \in 1..k /\ b[c[y][j].key] = y
        /\ c[y][j] = Entry(c[y][j].key, c[y][j].key - 1)
  BY DEF ChainsFit
<1>10. ASSUME NEW y \in Bucket, NEW j \in DOMAIN d[y]
       PROVE  /\ d[y][j].key \in 1..(k + 1) /\ b[d[y][j].key] = y
              /\ d[y][j] = Entry(d[y][j].key, d[y][j].key - 1)
  <2>1. CASE j \in DOMAIN c[y] /\ d[y][j] = c[y][j]
    BY <1>9, <2>1
  <2>2. CASE y = x /\ d[y][j] = e
    BY <1>1, <1>3, <2>2 DEF x
  <2> QED
    BY <1>8, <2>1, <2>2
<1>11. ASSUME NEW y \in Bucket, NEW j \in DOMAIN d[y], NEW l \in DOMAIN d[y],
              d[y][j].key = d[y][l].key
       PROVE  j = l
  <2>1. \A i \in DOMAIN c[y] : c[y][i].key # k + 1
    BY <1>9
  <2>2. \A i, h \in DOMAIN c[y] : c[y][i].key = c[y][h].key => i = h
    BY DEF ChainsFit
  <2>3. \/ j \in DOMAIN c[y] /\ d[y][j] = c[y][j]
        \/ y = x /\ j = Len(c[x]) + 1 /\ d[y][j] = e
    BY <1>8
  <2>4. \/ l \in DOMAIN c[y] /\ d[y][l] = c[y][l]
        \/ y = x /\ l = Len(c[x]) + 1 /\ d[y][l] = e
    BY <1>8
  <2> QED
    BY <1>3, <1>11, <2>1, <2>2, <2>3, <2>4
<1>12. ASSUME NEW name \in 1..(k + 1)
       PROVE  b[name] \in Bucket /\ \E j \in DOMAIN d[b[name]] : d[b[name]][j].key = name
  <2>1. CASE name = k + 1
    <3>1. Len(c[x]) + 1 \in DOMAIN d[x]
      BY <1>5, <1>7
    <3> QED
      BY <1>1, <1>3, <1>7, <2>1, <3>1 DEF x
  <2>2. CASE name \in 1..k
    <3>1. PICK j \in DOMAIN c[b[name]] : c[b[name]][j].key = name
      BY <2>2 DEF ChainsFit
    <3>2. b[name] \in Bucket
      BY <2>2 DEF ChainsFit
    <3>3. j \in DOMAIN d[b[name]] /\ d[b[name]][j] = c[b[name]][j]
      <4>1. CASE b[name] = x
        <5>1. j \in 1..Len(c[x])
          BY <1>7, <3>1, <4>1
        <5>2. j \in 1..(Len(c[x]) + 1)
          BY <1>5, <5>1
        <5> QED
          BY <1>7, <4>1, <5>1, <5>2
      <4>2. CASE b[name] # x
        BY <1>6, <3>1, <3>2, <4>2
      <4> QED
        BY <4>1, <4>2
    <3> QED
      BY <3>1, <3>2, <3>3
  <2> QED
    BY <2>1, <2>2
<1>13. ChainsFit(d, b, k + 1)
  BY <1>6, <1>10, <1>11, <1>12 DEF ChainsFit
<1> QED
  BY <1>13 DEF d, x

(* A name that the map does not have yet is the next one                   *)
LEMMA NumberFits ==
  ASSUME NEW c, NEW b, NEW k \in Nat, ChainsFit(c, b, k),
         NEW name \in 1..(k + 1), b[name] \in Bucket,
         NEW m, m = Number([chains |-> c, n |-> k], b, name)
  PROVE  /\ ChainsFit(m.chains, b, m.n)
         /\ m.n = IF name = k + 1 THEN k + 1 ELSE k
         /\ m = [chains |-> m.chains, n |-> m.n]
<1>1. CASE name = k + 1
  <2>1. Find(c, b[name], name) = {}
    BY <1>1, FindNew
  <2>2. m = [chains |-> Set(c, b[name], name, k), n |-> k + 1]
    BY <2>1 DEF Number
  <2>3. m.chains = Set(c, b[k + 1], k + 1, k) /\ m.n = k + 1
    BY <1>1, <2>2
  <2>4. ChainsFit(Set(c, b[k + 1], k + 1, k), b, k + 1)
    BY <1>1, SetNew
  <2>5. ChainsFit(m.chains, b, m.n)
    BY <2>3, <2>4
  <2> QED
    BY <1>1, <2>2, <2>3, <2>5
<1>2. CASE name \in 1..k
  <2>1. Find(c, b[name], name) # {}
    <3>1. Find(c, b[name], name) = {Entry(name, name - 1)}
      BY <1>2, FindOld
    <3> QED
      BY <3>1
  <2>2. m = [chains |-> c, n |-> k]
    BY <2>1 DEF Number
  <2> QED
    BY <1>2, <2>2
<1> QED
  BY <1>1, <1>2

LEMMA IndexIsNumber ==
  ASSUME NEW m, NEW b, NEW k \in Nat, k = m.n, ChainsFit(m.chains, b, k),
         NEW name \in 1..k
  PROVE  IndexOf(m, b, name) = name - 1
<1>1. PICK c : c = m.chains
  OBVIOUS
<1>2. Find(c, b[name], name) = {Entry(name, name - 1)}
  BY <1>1, FindOld
<1>3. (CHOOSE e \in Find(c, b[name], name) : TRUE) = Entry(name, name - 1)
  BY <1>2
<1>4. Entry(name, name - 1).data = name - 1
  BY DEF Entry
<1> QED
  BY <1>1, <1>3, <1>4 DEF IndexOf

-----------------------------------------------------------------------------
(* The graph that is loaded                                                *)
Graphs ==
  [nodes : Seq(NodeId), idx : [NodeId -> Int],
   out : [NodeId -> Seq(NodeId)], in : [NodeId -> Seq(NodeId)],
   numOut : [NodeId -> Int], numIn : [NodeId -> Int], numConnections : Int]

Indexed(h) ==
  IsInjective(h.nodes) /\ \A k \in DOMAIN h.nodes : h.idx[h.nodes[k]] = k - 1

Closed(h) == \A v \in NodeId : ToSet(h.out[v]) \subseteq InGraph(h)

(* The names met have the numbers that follow one another, and as many     *)
(* nodes are connected                                                     *)
NamesFit ==
  /\ DOMAIN bucketOf = 1..numNodes
  /\ ChainsFit(chains, bucketOf, numNodes)
  /\ phase = "overrun" <=> numNodes > MaxNodes

FirstNodes == [j \in 1..MaxNodes |-> j - 1]
NamedOnly == \A v \in NodeId : ToSet(g.out[v]) \subseteq 0..(numNodes - 1)

LoaderInv ==
  /\ g \in Graphs /\ Indexed(g) /\ numNodes \in Nat
  /\ phase \in {"read", "overrun"} => NamesFit
  /\ phase = "read" => g.nodes = FirstNodes /\ NamedOnly
  /\ phase \notin {"read", "overrun"} => Closed(g)

LEMMA FirstNodesFit ==
  /\ MaxNodes \in Nat /\ FirstNodes \in Seq(NodeId) /\ IsInjective(FirstNodes)
  /\ Len(FirstNodes) = MaxNodes /\ DOMAIN FirstNodes = 1..MaxNodes
  /\ \A k \in 1..MaxNodes : FirstNodes[k] = k - 1 /\ k - 1 \in NodeId
<1>1. MaxNodes \in Nat /\ \A k \in 1..MaxNodes : k - 1 \in NodeId
  <2>1. MaxNodes \in Nat /\ 0..(MaxNodes - 1) \subseteq NodeId
    BY DotFileAssumption
  <2>2. \A k \in 1..MaxNodes : k - 1 \in 0..(MaxNodes - 1)
    BY <2>1
  <2> QED
    BY <2>1, <2>2
<1>2. FirstNodes \in [1..MaxNodes -> NodeId]
  BY <1>1 DEF FirstNodes
<1>3. FirstNodes \in Seq(NodeId)
  BY <1>1, <1>2, SeqDef
<1>4. DOMAIN FirstNodes = 1..MaxNodes /\ \A k \in 1..MaxNodes : FirstNodes[k] = k - 1
  BY DEF FirstNodes
<1>5. Len(FirstNodes) = MaxNodes
  BY <1>1, <1>3, <1>4, LenProperties
<1>6. IsInjective(FirstNodes)
  BY <1>1, <1>4 DEF IsInjective
<1> QED
  BY <1>1, <1>3, <1>4, <1>5, <1>6

LEMMA InitLoader == LoaderInit => LoaderInv
<1> SUFFICES ASSUME LoaderInit
             PROVE  LoaderInv
  OBVIOUS
<1>1. g = EmptyGraph(FirstNodes) /\ chains = NoChains /\ bucketOf = <<>>
      /\ numNodes = 0 /\ phase = "read"
  BY DEF LoaderInit, FirstNodes
<1> DEFINE at == [v \in NodeId |-> IF v \in ToSet(FirstNodes)
                               THEN (CHOOSE k \in DOMAIN FirstNodes : FirstNodes[k] = v) - 1
                               ELSE 0]
<1>2. at \in [NodeId -> Int] /\ \A k \in DOMAIN FirstNodes : at[FirstNodes[k]] = k - 1
  <2>1. ASSUME NEW k \in DOMAIN FirstNodes
        PROVE  /\ FirstNodes[k] \in NodeId /\ FirstNodes[k] \in ToSet(FirstNodes)
               /\ (CHOOSE j \in DOMAIN FirstNodes : FirstNodes[j] = FirstNodes[k]) = k
    <3>1. \A j \in DOMAIN FirstNodes : FirstNodes[j] = FirstNodes[k] => j = k
      BY FirstNodesFit DEF IsInjective
    <3>2. FirstNodes[k] \in NodeId /\ FirstNodes[k] \in ToSet(FirstNodes)
      BY FirstNodesFit DEF ToSet
    <3> QED
      BY <3>1, <3>2
  <2>2. \A k \in DOMAIN FirstNodes : at[FirstNodes[k]] = k - 1
    BY <2>1
  <2>3. ASSUME NEW v \in NodeId
        PROVE  at[v] \in Int
    <3>1. CASE v \in ToSet(FirstNodes)
      <4>1. PICK k \in DOMAIN FirstNodes : FirstNodes[k] = v
        BY <3>1 DEF ToSet
      <4> QED
        BY <2>2, <4>1, FirstNodesFit
    <3>2. CASE v \notin ToSet(FirstNodes)
      BY <3>2
    <3> QED
      BY <3>1, <3>2
  <2> QED
    BY <2>2, <2>3
<1> HIDE DEF at
<1>3. /\ g = [nodes |-> FirstNodes, idx |-> at, out |-> [v \in NodeId |-> <<>>],
              in |-> [v \in NodeId |-> <<>>], numOut |-> [v \in NodeId |-> 0],
              numIn |-> [v \in NodeId |-> 0], numConnections |-> 0]
  BY <1>1 DEF EmptyGraph, at
<1>4. <<>> \in Seq(NodeId)
  BY EmptySeq
<1>5. g \in Graphs
  BY <1>2, <1>3, <1>4, FirstNodesFit DEF Graphs
<1>6. g.nodes = FirstNodes /\ g.idx = at /\ g.out = [v \in NodeId |-> <<>>]
  BY <1>3
<1>7. Indexed(g)
  BY <1>2, <1>6, FirstNodesFit DEF Indexed
<1>8. NamedOnly
  <2>1. \A v \in NodeId : ToSet(g.out[v]) = {}
    BY <1>6 DEF ToSet
  <2> QED
    BY <2>1 DEF NamedOnly
<1>9. NamesFit
  <2>1. ChainsFit(NoChains, <<>>, 0)
    <3>1. <<>> \in Seq(Entries)
      BY EmptySeq
    <3>2. NoChains \in [Bucket -> Seq(Entries)]
      BY <3>1 DEF NoChains
    <3>3. \A x \in Bucket : DOMAIN NoChains[x] = {}
      BY DEF NoChains
    <3> QED
      BY <3>2, <3>3 DEF ChainsFit
  <2>2. DOMAIN <<>> = 1..0
    OBVIOUS
  <2> QED
    BY <1>1, <2>1, <2>2, FirstNodesFit DEF NamesFit
<1> QED
  BY <1>1, <1>5, <1>6, <1>7, <1>8, <1>9 DEF LoaderInv

LEMMA ConnectStays ==
  ASSUME NEW h \in Graphs, NEW a \in NodeId, NEW b \in NodeId,
         NEW r, r = Connect(h, a, b)
  PROVE  /\ r \in Graphs /\ r.nodes = h.nodes /\ r.idx = h.idx
         /\ \A v \in NodeId : ToSet(r.out[v]) \subseteq ToSet(h.out[v]) \cup {b}
<1>1. /\ h.out \in [NodeId -> Seq(NodeId)] /\ h.in \in [NodeId -> Seq(NodeId)]
      /\ h.numOut \in [NodeId -> Int] /\ h.numIn \in [NodeId -> Int]
      /\ h.numConnections \in Int /\ h.nodes \in Seq(NodeId) /\ h.idx \in [NodeId -> Int]
  BY DEF Graphs
<1>2. r = [nodes |-> h.nodes, idx |-> h.idx,
           out |-> [h.out EXCEPT ![a] = Cons(b, @)],
           in |-> [h.in EXCEPT ![b] = Cons(a, @)],
           numOut |-> [h.numOut EXCEPT ![a] = @ + 1],
           numIn |-> [h.numIn EXCEPT ![b] = @ + 1],
           numConnections |-> h.numConnections + 1]
  BY DEF Connect, Graphs
<1>3. \A s \in Seq(NodeId), v \in NodeId :
        Cons(v, s) \in Seq(NodeId) /\ ToSet(Cons(v, s)) = ToSet(s) \cup {v}
  <2> SUFFICES ASSUME NEW s \in Seq(NodeId), NEW v \in NodeId
               PROVE  Cons(v, s) \in Seq(NodeId) /\ ToSet(Cons(v, s)) = ToSet(s) \cup {v}
    OBVIOUS
  <2>1. <<v>> \in Seq(NodeId) /\ Len(<<v>>) = 1 /\ <<v>>[1] = v
    OBVIOUS
  <2>2. /\ Cons(v, s) \in Seq(NodeId) /\ Len(Cons(v, s)) = 1 + Len(s) /\ Len(s) \in Nat
        /\ \A i \in 1..(1 + Len(s)) : Cons(v, s)[i] = IF i <= 1 THEN <<v>>[i] ELSE s[i - 1]
    BY <2>1, ConcatProperties, LenProperties DEF Cons
  <2>3. DOMAIN Cons(v, s) = 1..(1 + Len(s)) /\ DOMAIN s = 1..Len(s)
    BY <2>2, LenProperties
  <2>4. Cons(v, s)[1] = v /\ \A i \in 1..Len(s) : Cons(v, s)[i + 1] = s[i]
    BY <2>1, <2>2
  <2>5. \A i \in 1..(1 + Len(s)) : i = 1 \/ (i - 1 \in 1..Len(s) /\ Cons(v, s)[i] = s[i - 1])
    BY <2>2
  <2>6. ToSet(Cons(v, s)) \subseteq ToSet(s) \cup {v}
    BY <2>3, <2>4, <2>5 DEF ToSet
  <2>7. \A i \in 1..Len(s) : i + 1 \in 1..(1 + Len(s))
    BY <2>2
  <2>8. ToSet(s) \cup {v} \subseteq ToSet(Cons(v, s))
    <3>1. v \in ToSet(Cons(v, s))
      <4>1. 1 \in 1..(1 + Len(s))
        BY <2>2
      <4> QED
        BY <2>3, <2>4, <4>1 DEF ToSet
    <3>2. ASSUME NEW i \in 1..Len(s)
          PROVE  s[i] \in ToSet(Cons(v, s))
      BY <2>3, <2>4, <2>7 DEF ToSet
    <3> QED
      BY <2>3, <3>1, <3>2 DEF ToSet
  <2> QED
    BY <2>2, <2>6, <2>8
<1>4. r.out = [h.out EXCEPT ![a] = Cons(b, @)]
  BY <1>2
<1>5. r \in Graphs
  <2>1. /\ r.out \in [NodeId -> Seq(NodeId)]
        /\ [h.in EXCEPT ![b] = Cons(a, @)] \in [NodeId -> Seq(NodeId)]
    <3>1. \A f \in [NodeId -> Seq(NodeId)], v \in NodeId, s \in Seq(NodeId) :
            [f EXCEPT ![v] = s] \in [NodeId -> Seq(NodeId)]
      OBVIOUS
    <3>2. Cons(b, h.out[a]) \in Seq(NodeId) /\ Cons(a, h.in[b]) \in Seq(NodeId)
      BY <1>1, <1>3
    <3>3. [h.out EXCEPT ![a] = Cons(b, h.out[a])] \in [NodeId -> Seq(NodeId)]
      BY <1>1, <3>1, <3>2
    <3>4. [h.in EXCEPT ![b] = Cons(a, h.in[b])] \in [NodeId -> Seq(NodeId)]
      BY <1>1, <3>1, <3>2
    <3> QED
      BY <1>4, <3>3, <3>4
  <2>2. /\ [h.numOut EXCEPT ![a] = @ + 1] \in [NodeId -> Int]
        /\ [h.numIn EXCEPT ![b] = @ + 1] \in [NodeId -> Int]
        /\ h.numConnections + 1 \in Int
    BY <1>1
  <2> QED
    BY <1>1, <1>2, <1>4, <2>1, <2>2 DEF Graphs
<1>6. \A v \in NodeId : ToSet(r.out[v]) \subseteq ToSet(h.out[v]) \cup {b}
  BY <1>1, <1>3, <1>4
<1> QED
  BY <1>2, <1>5, <1>6

(* A port is left out of the name                                          *)
LEMMA KeyIsName ==
  ASSUME NEW v
  PROVE  Key(Plain(v))[1] = v /\ Key(Port(v))[1] = v
<1>1. Key(Plain(v)) = <<v>>
  BY DEF Key, Plain
<1>2. Key(Port(v)) = SubSeq(<<v, "port">>, 1, 1)
  BY DEF Key, Port, Front
<1>3. SubSeq(<<v, "port">>, 1, 1)[1] = v
  <2>1. \A i \in 1..1 : <<v, "port">>[i] \in {v}
    OBVIOUS
  <2>2. /\ Len(SubSeq(<<v, "port">>, 1, 1)) = 1
        /\ SubSeq(<<v, "port">>, 1, 1) \in Seq({v})
    BY <2>1, SubSeqProperties
  <2> QED
    BY <2>2, ElementOfSeq
<1> QED
  BY <1>1, <1>2, <1>3

(* A line that connects the names v and w, of which one may be new, or     *)
(* both                                                                    *)
LEMMA LineKeeps ==
  ASSUME LoaderInv, phase = "read",
         NEW v \in 1..(numNodes + 1),
         NEW w \in 1..(IF v > numNodes THEN v + 1 ELSE numNodes + 1),
         NEW from, NEW to, Key(from)[1] = v, Key(to)[1] = w,
         ReadLine(from, to)
  PROVE  LoaderInv'
<1>1. /\ numNodes \in Nat /\ NamesFit /\ g \in Graphs /\ Indexed(g)
      /\ g.nodes = FirstNodes /\ NamedOnly
  BY DEF LoaderInv
<1>2. numNodes <= MaxNodes /\ MaxNodes \in Nat /\ v \in Nat /\ w \in Nat
  BY <1>1, FirstNodesFit DEF NamesFit
<1>3. PICK b \in [{v, w} \ DOMAIN bucketOf -> Bucket] :
        LET bucket == [name \in DOMAIN bucketOf \cup {v, w} |->
                        IF name \in DOMAIN bucketOf THEN bucketOf[name] ELSE b[name]]
            m == Number(Number([chains |-> chains, n |-> numNodes], bucket, v), bucket, w)
            i == IndexOf(m, bucket, v)
            j == IndexOf(m, bucket, w)
        IN  /\ bucketOf' = bucket
            /\ chains' = m.chains
            /\ numNodes' = m.n
            /\ IF i >= MaxNodes \/ j >= MaxNodes
               THEN phase' = "overrun" /\ UNCHANGED g
               ELSE /\ g' = Connect(g, NodeAt(g, i), NodeAt(g, j))
                    /\ UNCHANGED phase
  BY DEF ReadLine
<1> DEFINE bucket == [name \in DOMAIN bucketOf \cup {v, w} |->
                        IF name \in DOMAIN bucketOf THEN bucketOf[name] ELSE b[name]]
           one == Number([chains |-> chains, n |-> numNodes], bucket, v)
           m == Number(one, bucket, w)
<1>4. /\ DOMAIN bucket = (1..numNodes) \cup {v, w}
      /\ \A name \in 1..numNodes : bucket[name] = bucketOf[name]
      /\ \A name \in {v, w} : name \notin 1..numNodes => bucket[name] \in Bucket
  <2>1. bucket = [name \in DOMAIN bucketOf \cup {v, w} |->
                    IF name \in DOMAIN bucketOf THEN bucketOf[name] ELSE b[name]]
    OBVIOUS
  <2>2. DOMAIN bucketOf = 1..numNodes /\ DOMAIN b = {v, w} \ (1..numNodes)
    BY <1>1 DEF NamesFit
  <2>3. \A name \in DOMAIN b : b[name] \in Bucket
    OBVIOUS
  <2> HIDE DEF bucket
  <2> QED
    BY <2>1, <2>2, <2>3
<1>5. \A name \in 1..numNodes : bucketOf[name] \in Bucket
  BY <1>1 DEF NamesFit, ChainsFit
<1>6. bucket[v] \in Bucket /\ bucket[w] \in Bucket
  BY <1>4, <1>5
<1>7. bucketOf' = bucket /\ chains' = m.chains /\ numNodes' = m.n
  BY <1>3
<1>8. IF IndexOf(m, bucket, v) >= MaxNodes \/ IndexOf(m, bucket, w) >= MaxNodes
      THEN phase' = "overrun" /\ UNCHANGED g
      ELSE /\ g' = Connect(g, NodeAt(g, IndexOf(m, bucket, v)), NodeAt(g, IndexOf(m, bucket, w)))
           /\ UNCHANGED phase
  BY <1>3
<1> HIDE DEF bucket
<1>9. ChainsFit(chains, bucket, numNodes)
  <2>1. ChainsFit(chains, bucketOf, numNodes)
    BY <1>1 DEF NamesFit
  <2>2. \A x \in Bucket : \A j \in DOMAIN chains[x] :
          /\ chains[x][j].key \in 1..numNodes /\ bucket[chains[x][j].key] = x
          /\ chains[x][j] = Entry(chains[x][j].key, chains[x][j].key - 1)
    BY <1>4, <2>1 DEF ChainsFit
  <2>3. \A name \in 1..numNodes :
          /\ bucket[name] \in Bucket
          /\ \E j \in DOMAIN chains[bucket[name]] : chains[bucket[name]][j].key = name
    BY <1>4, <2>1 DEF ChainsFit
  <2> QED
    BY <2>1, <2>2, <2>3 DEF ChainsFit
<1>10. /\ ChainsFit(one.chains, bucket, one.n)
       /\ one.n = (IF v = numNodes + 1 THEN numNodes + 1 ELSE numNodes)
       /\ one = [chains |-> one.chains, n |-> one.n]
  <2> HIDE DEF one
  <2>1. one = Number([chains |-> chains, n |-> numNodes], bucket, v)
    BY DEF one
  <2> QED
    BY <1>1, <1>6, <1>9, <2>1, NumberFits
<1> HIDE DEF one
<1>11. one.n \in Nat /\ w \in 1..(one.n + 1)
  BY <1>1, <1>2, <1>10
<1>12. /\ ChainsFit(m.chains, bucket, m.n)
       /\ m.n = (IF w = one.n + 1 THEN one.n + 1 ELSE one.n)
  <2> HIDE DEF m
  <2>1. PICK c : c = one.chains
    OBVIOUS
  <2>5. PICK k \in Nat : k = one.n
    BY <1>11
  <2>2. ChainsFit(c, bucket, k) /\ w \in 1..(k + 1) /\ one = [chains |-> c, n |-> k]
    BY <1>10, <1>11, <2>1, <2>5
  <2>3. m = Number([chains |-> c, n |-> k], bucket, w)
    BY <2>2 DEF m
  <2>4. ChainsFit(m.chains, bucket, m.n) /\ m.n = (IF w = k + 1 THEN k + 1 ELSE k)
    BY <1>6, <2>2, <2>3, NumberFits
  <2> QED
    BY <2>4, <2>5
<1> HIDE DEF m
<1>13. /\ m.n \in Nat /\ v \in 1..m.n /\ w \in 1..m.n
       /\ 1..m.n = (1..numNodes) \cup {v, w}
       /\ m.n > MaxNodes <=> v > MaxNodes \/ w > MaxNodes
  BY <1>1, <1>2, <1>10, <1>11, <1>12
<1>14. IndexOf(m, bucket, v) = v - 1 /\ IndexOf(m, bucket, w) = w - 1
  <2>1. PICK k \in Nat : k = m.n
    BY <1>13
  <2> QED
    BY <1>12, <1>13, <2>1, IndexIsNumber
<1>15. CASE v > MaxNodes \/ w > MaxNodes
  <2>1. phase' = "overrun" /\ g' = g
    BY <1>2, <1>8, <1>14, <1>15
  <2>2. NamesFit'
    BY <1>4, <1>7, <1>12, <1>13, <1>15, <2>1 DEF NamesFit
  <2> QED
    BY <1>1, <1>7, <1>13, <2>1, <2>2 DEF LoaderInv
<1>16. CASE ~(v > MaxNodes \/ w > MaxNodes)
  <2>1. phase' = "read" /\ g' = Connect(g, NodeAt(g, v - 1), NodeAt(g, w - 1))
    BY <1>2, <1>8, <1>14, <1>16
  <2>2. /\ v - 1 \in NodeId /\ w - 1 \in NodeId
        /\ NodeAt(g, v - 1) = v - 1 /\ NodeAt(g, w - 1) = w - 1
    <3>1. v \in 1..MaxNodes /\ w \in 1..MaxNodes /\ (v - 1) + 1 = v /\ (w - 1) + 1 = w
      BY <1>2, <1>16
    <3> QED
      BY <1>1, <3>1, FirstNodesFit DEF NodeAt
  <2>3. g' = Connect(g, v - 1, w - 1)
    BY <2>1, <2>2
  <2>4. /\ g' \in Graphs /\ g'.nodes = g.nodes /\ g'.idx = g.idx
        /\ \A u \in NodeId :
             ToSet(g'.out[u]) \subseteq ToSet(g.out[u]) \cup {w - 1}
    <3>1. PICK r : r = g'
      OBVIOUS
    <3>2. PICK a \in NodeId, c \in NodeId : a = v - 1 /\ c = w - 1
      BY <2>2
    <3>3. r = Connect(g, a, c)
      BY <2>3, <3>1, <3>2
    <3>5. PICK h \in Graphs : h = g
      BY <1>1
    <3>6. /\ r \in Graphs /\ r.nodes = h.nodes /\ r.idx = h.idx
          /\ \A u \in NodeId : ToSet(r.out[u]) \subseteq ToSet(h.out[u]) \cup {c}
      <4>1. r = Connect(h, a, c)
        BY <3>3, <3>5
      <4> QED
        <5>1. r \in Graphs
          BY <4>1, ConnectStays
        <5>2. r.nodes = h.nodes /\ r.idx = h.idx
          BY <4>1, ConnectStays
        <5>3. \A u \in NodeId : ToSet(r.out[u]) \subseteq ToSet(h.out[u]) \cup {c}
          BY <4>1, ConnectStays
        <5> QED
          BY <5>1, <5>2, <5>3
    <3>4. /\ r \in Graphs /\ r.nodes = g.nodes /\ r.idx = g.idx
          /\ \A u \in NodeId :
               ToSet(r.out[u]) \subseteq ToSet(g.out[u]) \cup {c}
      BY <3>5, <3>6
    <3> QED
      BY <3>1, <3>2, <3>4
  <2>5. NamesFit'
    BY <1>4, <1>7, <1>12, <1>13, <1>16, <2>1 DEF NamesFit
  <2>6. NamedOnly'
    <3>1. w - 1 \in 0..(m.n - 1) /\ 0..(numNodes - 1) \subseteq 0..(m.n - 1)
      BY <1>1, <1>2, <1>10, <1>11, <1>12, <1>13
    <3>2. \A u \in NodeId : ToSet(g'.out[u]) \subseteq 0..(m.n - 1)
      BY <1>1, <2>4, <3>1 DEF NamedOnly
    <3> QED
      BY <1>7, <3>2 DEF NamedOnly
  <2>7. Indexed(g')
    BY <1>1, <2>4 DEF Indexed
  <2>8. FirstNodes' = FirstNodes
    BY DEF FirstNodes
  <2> QED
    BY <1>1, <1>7, <1>13, <2>1, <2>4, <2>5, <2>6, <2>7, <2>8 DEF LoaderInv
<1> QED
  BY <1>15, <1>16

LEMMA ReadKeeps == LoaderInv /\ Read => LoaderInv'
<1> SUFFICES ASSUME LoaderInv, Read
             PROVE  LoaderInv'
  OBVIOUS
<1>1. phase = "read"
  BY DEF Read, ReadLine
<1>2. Names = numNodes
  <2>1. DOMAIN bucketOf = 1..numNodes /\ numNodes \in Nat
    BY <1>1 DEF LoaderInv, NamesFit
  <2>2. Cardinality(1..numNodes) = IF 1 > numNodes THEN 0 ELSE numNodes - 1 + 1
    BY <2>1, FS_Interval
  <2> QED
    BY <2>1, <2>2 DEF Names
<1>3. PICK v \in 1..(numNodes + 1) :
        \E w \in 1..(IF v > numNodes THEN v + 1 ELSE numNodes + 1) :
          ReadLine(Plain(v), Plain(w)) \/ ReadLine(Port(v), Plain(w))
  BY <1>2 DEF Read
<1>4. PICK w \in 1..(IF v > numNodes THEN v + 1 ELSE numNodes + 1) :
        ReadLine(Plain(v), Plain(w)) \/ ReadLine(Port(v), Plain(w))
  BY <1>3
<1>5. Key(Plain(v))[1] = v /\ Key(Port(v))[1] = v /\ Key(Plain(w))[1] = w
  BY KeyIsName
<1>6. CASE ReadLine(Plain(v), Plain(w))
  BY <1>1, <1>5, <1>6, LineKeeps
<1>7. CASE ReadLine(Port(v), Plain(w))
  BY <1>1, <1>5, <1>7, LineKeeps
<1> QED
  BY <1>4, <1>6, <1>7

LEMMA LoadKeeps == LoaderInv /\ Load => LoaderInv'
<1> SUFFICES ASSUME LoaderInv, Load
             PROVE  LoaderInv'
  OBVIOUS
<1>1. /\ phase = "read" /\ phase' = "loaded" /\ numNodes' = numNodes
      /\ g' = [g EXCEPT !.nodes = SubSeq(@, 1, numNodes)]
  BY DEF Load
<1>2. /\ numNodes \in Nat /\ NamesFit /\ g \in Graphs /\ Indexed(g)
      /\ g.nodes = FirstNodes /\ NamedOnly
  BY <1>1 DEF LoaderInv
<1>3. numNodes <= MaxNodes /\ MaxNodes \in Nat
  BY <1>1, <1>2, FirstNodesFit DEF NamesFit
<1>4. /\ SubSeq(FirstNodes, 1, numNodes) \in Seq(NodeId)
      /\ Len(SubSeq(FirstNodes, 1, numNodes)) = numNodes
      /\ \A k \in 1..numNodes : SubSeq(FirstNodes, 1, numNodes)[k] = k - 1
  <2>1. \A k \in 1..numNodes : k \in 1..MaxNodes /\ FirstNodes[k] \in NodeId /\ 1 + k - 1 = k
    BY <1>2, <1>3, FirstNodesFit
  <2>2. /\ SubSeq(FirstNodes, 1, numNodes) \in Seq(NodeId)
        /\ Len(SubSeq(FirstNodes, 1, numNodes)) = IF 1 <= numNodes THEN numNodes - 1 + 1 ELSE 0
        /\ \A k \in 1..(numNodes - 1 + 1) :
             SubSeq(FirstNodes, 1, numNodes)[k] = FirstNodes[1 + k - 1]
    BY <1>2, <2>1, SubSeqProperties
  <2>3. numNodes - 1 + 1 = numNodes
    BY <1>2
  <2> QED
    BY <1>2, <2>1, <2>2, <2>3, FirstNodesFit
<1>5. /\ g' \in Graphs /\ g'.nodes = SubSeq(FirstNodes, 1, numNodes)
      /\ g'.idx = g.idx /\ g'.out = g.out
  BY <1>1, <1>2, <1>4 DEF Graphs
<1>6. DOMAIN g'.nodes = 1..numNodes /\ \A k \in 1..numNodes : g'.nodes[k] = k - 1
  BY <1>2, <1>4, <1>5, LenProperties
<1>7. Indexed(g')
  <2>1. \A k \in 1..numNodes : k \in DOMAIN FirstNodes /\ FirstNodes[k] = k - 1
    BY <1>2, <1>3, FirstNodesFit
  <2>2. \A k \in 1..numNodes : g.idx[k - 1] = k - 1
    BY <1>2, <2>1 DEF Indexed
  <2>3. IsInjective(g'.nodes)
    BY <1>2, <1>6 DEF IsInjective
  <2> QED
    BY <1>5, <1>6, <2>2, <2>3 DEF Indexed
<1>8. Closed(g')
  <2>1. \A k \in 0..(numNodes - 1) : k + 1 \in 1..numNodes /\ (k + 1) - 1 = k
    BY <1>2
  <2>2. 0..(numNodes - 1) \subseteq InGraph(g')
    BY <1>6, <2>1 DEF InGraph, ToSet
  <2> QED
    BY <1>2, <1>5, <2>2 DEF Closed, NamedOnly
<1> QED
  BY <1>1, <1>2, <1>5, <1>7, <1>8 DEF LoaderInv

-----------------------------------------------------------------------------
(* Paths                                                                   *)
ClosedSets(out, v) ==
  {S \in SUBSET NodeId : v \in S /\ \A x \in S : ToSet(out[x]) \subseteq S}

LEMMA ReachedIs ==
  ASSUME NEW out, NEW v, NEW u
  PROVE  u \in Reached(out, v) <=> u \in NodeId /\ \A S \in ClosedSets(out, v) : u \in S
BY DEF Reached, ClosedSets

LEMMA ReachesItself ==
  ASSUME NEW out, NEW v \in NodeId
  PROVE  v \in Reached(out, v)
BY ReachedIs DEF ClosedSets

LEMMA ReachesOn ==
  ASSUME NEW out, NEW v, NEW u \in Reached(out, v), NEW w \in Reached(out, u)
  PROVE  w \in Reached(out, v)
<1>1. u \in NodeId /\ w \in NodeId /\ \A S \in ClosedSets(out, v) : u \in S
  BY ReachedIs
<1>2. \A S \in ClosedSets(out, u) : w \in S
  BY ReachedIs
<1>3. ASSUME NEW S \in ClosedSets(out, v)
      PROVE  w \in S
  <2>1. S \in ClosedSets(out, u)
    BY <1>1 DEF ClosedSets
  <2> QED
    BY <1>2, <2>1
<1> QED
  BY <1>1, <1>3, ReachedIs

LEMMA ReachesNext ==
  ASSUME NEW out \in [NodeId -> Seq(NodeId)], NEW v \in NodeId, NEW w \in ToSet(out[v])
  PROVE  w \in NodeId /\ w \in Reached(out, v)
<1>1. out[v] \in Seq(NodeId)
  OBVIOUS
<1>2. w \in NodeId
  <2>1. PICK i \in DOMAIN out[v] : out[v][i] = w
    BY DEF ToSet
  <2>2. i \in 1..Len(out[v])
    BY <1>1, <2>1, LenProperties
  <2> QED
    BY <1>1, <2>1, <2>2, ElementOfSeq
<1>3. \A S \in ClosedSets(out, v) : w \in S
  BY DEF ClosedSets
<1> QED
  BY <1>2, <1>3, ReachedIs

LEMMA ReachesWithin ==
  ASSUME NEW out, NEW S \in SUBSET NodeId, NEW v \in S,
         \A x \in S : ToSet(out[x]) \subseteq S
  PROVE  Reached(out, v) \subseteq S
<1>1. S \in ClosedSets(out, v)
  BY DEF ClosedSets
<1> QED
  BY <1>1, ReachedIs

(* The nodes and their indexes                                             *)
LEMMA NodesFit ==
  ASSUME NEW h \in Graphs, Indexed(h)
  PROVE  /\ Len(h.nodes) \in Nat /\ DOMAIN h.nodes = 1..Len(h.nodes)
         /\ InGraph(h) \subseteq NodeId
         /\ \A k \in 0..(Len(h.nodes) - 1) :
              NodeAt(h, k) \in InGraph(h) /\ h.idx[NodeAt(h, k)] = k
         /\ \A v \in InGraph(h) :
              h.idx[v] \in 0..(Len(h.nodes) - 1) /\ NodeAt(h, h.idx[v]) = v
<1>1. h.nodes \in Seq(NodeId)
  BY DEF Graphs
<1>2. Len(h.nodes) \in Nat /\ DOMAIN h.nodes = 1..Len(h.nodes)
  BY <1>1, LenProperties
<1>3. \A k \in 1..Len(h.nodes) : h.nodes[k] \in NodeId
  BY <1>1, ElementOfSeq
<1>4. InGraph(h) \subseteq NodeId
  BY <1>2, <1>3 DEF InGraph, ToSet
<1>5. ASSUME NEW k \in 0..(Len(h.nodes) - 1)
      PROVE  NodeAt(h, k) \in InGraph(h) /\ h.idx[NodeAt(h, k)] = k
  <2>1. k + 1 \in DOMAIN h.nodes /\ (k + 1) - 1 = k
    BY <1>2
  <2> QED
    BY <2>1 DEF NodeAt, InGraph, ToSet, Indexed
<1>6. ASSUME NEW v \in InGraph(h)
      PROVE  h.idx[v] \in 0..(Len(h.nodes) - 1) /\ NodeAt(h, h.idx[v]) = v
  <2>1. PICK k \in 1..Len(h.nodes) : h.nodes[k] = v
    BY <1>2 DEF InGraph, ToSet
  <2>2. h.idx[v] = k - 1 /\ (k - 1) + 1 = k /\ k - 1 \in 0..(Len(h.nodes) - 1)
    BY <1>2, <2>1 DEF Indexed
  <2> QED
    BY <2>1, <2>2 DEF NodeAt
<1> QED
  BY <1>2, <1>4, <1>5, <1>6

LEMMA SourceFits ==
  ASSUME g \in Graphs, Indexed(g), g.nodes # <<>>
  PROVE  SourceIdx \in 0..(Len(g.nodes) - 1) /\ 0 \in 0..(Len(g.nodes) - 1)
<1> DEFINE Sources == {k \in 0..(Len(g.nodes) - 1) : g.numIn[NodeAt(g, k)] = 0}
<1>1. Len(g.nodes) \in Nat \ {0}
  <2>1. g.nodes \in Seq(NodeId)
    BY DEF Graphs
  <2> QED
    BY <2>1, EmptySeq
<1>2. SourceIdx = IF Sources = {} THEN 0 ELSE CHOOSE k \in Sources : \A j \in Sources : j <= k
  BY DEF SourceIdx
<1>3. Sources \in SUBSET (0..(Len(g.nodes) - 1)) /\ Len(g.nodes) - 1 \in Nat
  BY <1>1
<1> HIDE DEF Sources
<1>4. Sources # {} => \E k \in Sources : \A j \in Sources : j <= k
  BY <1>3, Largest
<1>5. Sources # {} => SourceIdx \in Sources
  BY <1>2, <1>4
<1>6. 0 \in 0..(Len(g.nodes) - 1)
  BY <1>3
<1>7. SourceIdx \in 0..(Len(g.nodes) - 1)
  <2>1. CASE Sources = {}
    BY <1>2, <1>6, <2>1
  <2>2. CASE Sources # {}
    BY <1>3, <1>5, <2>2
  <2> QED
    BY <2>1, <2>2
<1> QED
  BY <1>6, <1>7

LEMMA SwapStays ==
  ASSUME NEW h \in Graphs, Indexed(h),
         NEW j \in 1..Len(h.nodes), NEW k \in 1..Len(h.nodes), j # k,
         NEW a, a = h.nodes[j], NEW b, b = h.nodes[k],
         NEW r, r = Swap(h, a, b)
  PROVE  /\ r \in Graphs /\ Indexed(r)
         /\ r.out = h.out /\ Len(r.nodes) = Len(h.nodes) /\ InGraph(r) = InGraph(h)
<1>1. /\ h.nodes \in Seq(NodeId) /\ h.idx \in [NodeId -> Int]
      /\ Len(h.nodes) \in Nat /\ DOMAIN h.nodes = 1..Len(h.nodes)
      /\ h.nodes \in [1..Len(h.nodes) -> NodeId]
  <2>1. h.nodes \in Seq(NodeId) /\ h.idx \in [NodeId -> Int]
    BY DEF Graphs
  <2> QED
    BY <2>1, LenProperties
<1>2. a \in NodeId /\ b \in NodeId /\ a # b /\ h.idx[a] = j - 1 /\ h.idx[b] = k - 1
  BY <1>1 DEF Indexed, IsInjective
<1>3. r = [h EXCEPT !.nodes[j] = b, !.nodes[k] = a, !.idx[a] = k - 1, !.idx[b] = j - 1]
  <2>1. h.idx[a] + 1 = j /\ h.idx[b] + 1 = k
    BY <1>2
  <2> QED
    BY <1>2, <2>1 DEF Swap
<1>4. /\ r.nodes = [[h.nodes EXCEPT ![j] = b] EXCEPT ![k] = a]
      /\ r.idx = [[h.idx EXCEPT ![a] = k - 1] EXCEPT ![b] = j - 1]
      /\ r.out = h.out /\ r.in = h.in /\ r.numOut = h.numOut /\ r.numIn = h.numIn
      /\ r.numConnections = h.numConnections
      /\ r = [nodes |-> r.nodes, idx |-> r.idx, out |-> r.out, in |-> r.in,
              numOut |-> r.numOut, numIn |-> r.numIn, numConnections |-> r.numConnections]
  BY <1>3 DEF Graphs
<1>5. r.nodes \in [1..Len(h.nodes) -> NodeId] /\ r.idx \in [NodeId -> Int]
  <2>1. \A D, S : \A f \in [D -> S], d, e \in D, x, y \in S :
          [[f EXCEPT ![d] = x] EXCEPT ![e] = y] \in [D -> S]
    OBVIOUS
  <2>2. j - 1 \in Int /\ k - 1 \in Int
    OBVIOUS
  <2>3. [[h.nodes EXCEPT ![j] = b] EXCEPT ![k] = a] \in [1..Len(h.nodes) -> NodeId]
    BY <1>1, <1>2, <2>1
  <2>4. [[h.idx EXCEPT ![a] = k - 1] EXCEPT ![b] = j - 1] \in [NodeId -> Int]
    BY <1>1, <1>2, <2>1, <2>2
  <2> QED
    BY <1>4, <2>3, <2>4
<1>6. /\ r.nodes[j] = b /\ r.nodes[k] = a
      /\ \A l \in 1..Len(h.nodes) : l # j /\ l # k => r.nodes[l] = h.nodes[l]
  BY <1>1, <1>4
<1>7. /\ r.idx[a] = k - 1 /\ r.idx[b] = j - 1
      /\ \A v \in NodeId : v # a /\ v # b => r.idx[v] = h.idx[v]
  BY <1>1, <1>2, <1>4
<1>8. r.nodes \in Seq(NodeId)
  <2>1. PICK n \in Nat : n = Len(h.nodes)
    BY <1>1
  <2>2. r.nodes \in [1..n -> NodeId]
    BY <1>5, <2>1
  <2> QED
    BY <2>2, SeqDef
<1>9. DOMAIN r.nodes = 1..Len(h.nodes)
  BY <1>5
<1>10. Len(r.nodes) = Len(h.nodes)
  BY <1>1, <1>8, <1>9, LenProperties
<1>11. r \in Graphs
  <2>1. /\ h.out \in [NodeId -> Seq(NodeId)] /\ h.in \in [NodeId -> Seq(NodeId)]
        /\ h.numOut \in [NodeId -> Int] /\ h.numIn \in [NodeId -> Int]
        /\ h.numConnections \in Int
    BY DEF Graphs
  <2> QED
    BY <1>4, <1>5, <1>8, <2>1 DEF Graphs
<1>12. \A l, m \in 1..Len(h.nodes) : h.nodes[l] = h.nodes[m] => l = m
  BY <1>1 DEF Indexed, IsInjective
<1>13. IsInjective(r.nodes)
  <2> SUFFICES ASSUME NEW l \in 1..Len(h.nodes), NEW m \in 1..Len(h.nodes),
                      r.nodes[l] = r.nodes[m]
               PROVE  l = m
    BY <1>9 DEF IsInjective
  <2> QED
    BY <1>2, <1>6, <1>12
<1>14. \A l \in 1..Len(h.nodes) : r.idx[r.nodes[l]] = l - 1
  <2> SUFFICES ASSUME NEW l \in 1..Len(h.nodes), l # j, l # k
               PROVE  r.idx[r.nodes[l]] = l - 1
    BY <1>6, <1>7
  <2>1. r.nodes[l] = h.nodes[l] /\ h.nodes[l] \in NodeId /\ h.nodes[l] # a /\ h.nodes[l] # b
    BY <1>1, <1>6, <1>12
  <2> QED
    BY <1>1, <1>7, <2>1 DEF Indexed
<1>15. InGraph(r) = InGraph(h)
  <2>1. \A l \in 1..Len(h.nodes) : \E m \in 1..Len(h.nodes) : r.nodes[l] = h.nodes[m]
    BY <1>6
  <2>2. \A l \in 1..Len(h.nodes) : \E m \in 1..Len(h.nodes) : h.nodes[l] = r.nodes[m]
    BY <1>6
  <2>5. /\ InGraph(r) = {r.nodes[l] : l \in 1..Len(h.nodes)}
        /\ InGraph(h) = {h.nodes[l] : l \in 1..Len(h.nodes)}
    BY <1>1, <1>9 DEF InGraph, ToSet
  <2>3. InGraph(r) \subseteq InGraph(h)
    BY <2>1, <2>5
  <2>4. InGraph(h) \subseteq InGraph(r)
    BY <2>2, <2>5
  <2> QED
    BY <2>3, <2>4
<1>16. Indexed(r)
  BY <1>9, <1>13, <1>14 DEF Indexed
<1> QED
  BY <1>4, <1>10, <1>11, <1>15, <1>16

-----------------------------------------------------------------------------
(* The search                                                              *)
Source == NodeAt(g, 0)
OnStack == {NodeAt(g, stack[k]) : k \in DOMAIN stack}

SearchTyped ==
  /\ g.nodes # <<>>
  /\ stack \in Seq(0..(Len(g.nodes) - 1)) /\ IsInjective(stack)
  /\ ordered \in Seq(NodeId) /\ IsInjective(ordered)
  /\ checkNext \in [NodeId -> Seq(NodeId)]

(* The nodes met are on the stack or placed, and not both                  *)
SearchMarked ==
  /\ marked = OnStack \cup ToSet(ordered)
  /\ OnStack \cap ToSet(ordered) = {}
  /\ marked \subseteq InGraph(g)

(* The source is the first to be met and the last to be left               *)
SearchSource ==
  /\ stack # <<>> => stack[1] = 0
  /\ stack = <<>> => ordered # <<>> /\ ordered[1] = Source

(* The stack is a path                                                     *)
SearchPaths ==
  /\ marked \subseteq Reached(g.out, Source)
  /\ \A k, l \in DOMAIN stack :
       k <= l => NodeAt(g, stack[l]) \in Reached(g.out, NodeAt(g, stack[k]))

(* What was not met is still to be looked at                               *)
SearchNext ==
  /\ \A v \in NodeId : ToSet(checkNext[v]) \subseteq ToSet(g.out[v])
  /\ \A v \in NodeId : ToSet(g.out[v]) \subseteq marked \cup ToSet(checkNext[v])
  /\ \A v \in ToSet(ordered) : ToSet(g.out[v]) \subseteq marked

(* A node is placed before those it is connected to, or on a cycle         *)
SearchOrder ==
  \A k \in DOMAIN ordered : \A w \in ToSet(g.out[ordered[k]]) :
    \/ \E l \in DOMAIN ordered : k < l /\ ordered[l] = w
    \/ ordered[k] \in Reached(g.out, w)

SearchInv ==
  /\ SearchTyped /\ SearchMarked /\ SearchSource
  /\ SearchPaths /\ SearchNext /\ SearchOrder

TSInv ==
  /\ LoaderInv
  /\ phase \in {"read", "overrun", "loaded", "searching", "returned", "crashed"}
  /\ phase \in {"read", "overrun", "loaded"} => stack = <<>> /\ ordered = <<>>
  /\ phase = "searching" => SearchInv
  /\ phase \in {"returned", "crashed"} => OnlyCyclesGoBack /\ ReachedNodesArePlaced

(* What any step of the search finds                                       *)
LEMMA SearchFits ==
  ASSUME TSInv, phase = "searching"
  PROVE  /\ SearchInv /\ g \in Graphs /\ Indexed(g) /\ Closed(g) /\ numNodes \in Nat
         /\ Len(g.nodes) \in Nat /\ DOMAIN g.nodes = 1..Len(g.nodes)
         /\ Len(stack) \in Nat /\ DOMAIN stack = 1..Len(stack)
         /\ \A k \in DOMAIN stack : stack[k] \in 0..(Len(g.nodes) - 1)
         /\ Len(ordered) \in Nat /\ DOMAIN ordered = 1..Len(ordered)
         /\ \A k \in DOMAIN ordered : ordered[k] \in NodeId
         /\ g.out \in [NodeId -> Seq(NodeId)]
<1>1. /\ SearchInv /\ g \in Graphs /\ Indexed(g) /\ Closed(g) /\ numNodes \in Nat
  BY DEF TSInv, LoaderInv
<1>2. /\ stack \in Seq(0..(Len(g.nodes) - 1)) /\ ordered \in Seq(NodeId)
  BY <1>1 DEF SearchInv, SearchTyped
<1>3. Len(g.nodes) \in Nat /\ DOMAIN g.nodes = 1..Len(g.nodes)
  BY <1>1, NodesFit
<1>4. Len(stack) \in Nat /\ DOMAIN stack = 1..Len(stack)
  BY <1>2, LenProperties
<1>5. Len(ordered) \in Nat /\ DOMAIN ordered = 1..Len(ordered)
  BY <1>2, LenProperties
<1>6. \A k \in 1..Len(stack) : stack[k] \in 0..(Len(g.nodes) - 1)
  BY <1>2, ElementOfSeq
<1>7. \A k \in 1..Len(ordered) : ordered[k] \in NodeId
  BY <1>2, ElementOfSeq
<1>8. g.out \in [NodeId -> Seq(NodeId)]
  BY <1>1 DEF Graphs
<1> QED
  BY <1>1, <1>3, <1>4, <1>5, <1>6, <1>7, <1>8

LEMMA TopFits ==
  ASSUME TSInv, Searching
  PROVE  /\ Len(stack) \in 1..Len(stack) /\ Top = NodeAt(g, stack[Len(stack)])
         /\ Top \in InGraph(g) /\ Top \in NodeId /\ Top \in marked /\ Top \in OnStack
<1>1. /\ SearchInv /\ g \in Graphs /\ Indexed(g) /\ phase = "searching"
      /\ Len(stack) \in Nat /\ DOMAIN stack = 1..Len(stack) /\ stack # <<>>
      /\ \A k \in DOMAIN stack : stack[k] \in 0..(Len(g.nodes) - 1)
  BY SearchFits DEF Searching
<1>2. Len(stack) # 0
  BY <1>1, EmptySeq DEF SearchInv, SearchTyped
<1>3. Len(stack) \in 1..Len(stack)
  BY <1>1, <1>2
<1>4. Top = NodeAt(g, stack[Len(stack)])
  BY DEF Top, Last
<1>5. Top \in InGraph(g) /\ Top \in NodeId
  BY <1>1, <1>3, <1>4, NodesFit
<1>6. Top \in OnStack
  BY <1>1, <1>3, <1>4 DEF OnStack
<1>7. Top \in marked
  BY <1>1, <1>6 DEF SearchInv, SearchMarked
<1> QED
  BY <1>3, <1>4, <1>5, <1>6, <1>7

LEMMA LoaderStays ==
  ASSUME TSInv, phase = "searching", UNCHANGED loaderVars
  PROVE  LoaderInv'
<1>1. g' = g /\ numNodes' = numNodes /\ phase' = "searching"
  BY DEF loaderVars
<1>2. g \in Graphs /\ Indexed(g) /\ Closed(g) /\ numNodes \in Nat
  BY SearchFits
<1> QED
  BY <1>1, <1>2 DEF LoaderInv

(* A node is met                                                           *)
LEMMA VisitKeeps ==
  ASSUME TSInv, Visit
  PROVE  TSInv'
<1> DEFINE v == Top
           N == Len(stack)
<1>1. Searching /\ g' = g /\ phase' = phase /\ ordered' = ordered /\ UNCHANGED loaderVars
  BY DEF Visit, loaderVars
<1>2. /\ phase = "searching" /\ SearchInv
      /\ g \in Graphs /\ Indexed(g) /\ Closed(g)
      /\ N \in Nat /\ DOMAIN stack = 1..N
      /\ \A k \in 1..N : stack[k] \in 0..(Len(g.nodes) - 1)
      /\ g.out \in [NodeId -> Seq(NodeId)]
  BY <1>1, SearchFits DEF Searching
<1>3. /\ N \in 1..N /\ v = NodeAt(g, stack[N])
      /\ v \in InGraph(g) /\ v \in NodeId /\ v \in marked
  BY <1>1, TopFits
<1>4. PICK j \in Unmarked(v) :
        /\ \A k \in Unmarked(v) : j <= k
        /\ marked' = marked \cup {checkNext[v][j]}
        /\ stack' = Append(stack, g.idx[checkNext[v][j]])
        /\ checkNext' = [checkNext EXCEPT ![v] = SubSeq(@, j + 1, Len(@))]
  BY DEF Visit
<1> HIDE DEF v
<1>5. checkNext \in [NodeId -> Seq(NodeId)]
  BY <1>2 DEF SearchInv, SearchTyped
<1>6. PICK c \in Seq(NodeId) : c = checkNext[v]
  BY <1>3, <1>5
<1>7. Len(c) \in Nat /\ DOMAIN c = 1..Len(c) /\ \A i \in 1..Len(c) : c[i] \in NodeId
  BY LenProperties, ElementOfSeq
<1>8. /\ j \in 1..Len(c) /\ c[j] \notin marked
      /\ \A i \in 1..Len(c) : i < j => c[i] \in marked
  BY <1>4, <1>6, <1>7 DEF Unmarked
<1>9. PICK w \in NodeId : w = c[j]
  BY <1>7, <1>8
<1>10. /\ marked' = marked \cup {w} /\ stack' = Append(stack, g.idx[w])
       /\ checkNext' = [checkNext EXCEPT ![v] = SubSeq(c, j + 1, Len(c))]
       /\ w \notin marked /\ w # v
  BY <1>3, <1>4, <1>6, <1>8, <1>9
<1>11. w \in ToSet(g.out[v])
  <2>1. w \in ToSet(checkNext[v])
    BY <1>6, <1>7, <1>8, <1>9 DEF ToSet
  <2> QED
    BY <1>2, <1>3, <2>1 DEF SearchInv, SearchNext
<1>12. /\ w \in InGraph(g) /\ g.idx[w] \in 0..(Len(g.nodes) - 1)
       /\ NodeAt(g, g.idx[w]) = w
  <2>1. w \in InGraph(g)
    BY <1>2, <1>3, <1>11 DEF Closed
  <2> QED
    BY <1>2, <2>1, NodesFit
<1>13. /\ stack \in Seq(0..(Len(g.nodes) - 1))
       /\ ordered \in Seq(NodeId) /\ IsInjective(ordered) /\ IsInjective(stack)
       /\ g.nodes # <<>>
  BY <1>2 DEF SearchInv, SearchTyped
<1>14. /\ stack' \in Seq(0..(Len(g.nodes) - 1)) /\ Len(stack') = N + 1
       /\ DOMAIN stack' = 1..(N + 1)
       /\ \A k \in 1..N : stack'[k] = stack[k]
       /\ stack'[N + 1] = g.idx[w]
  <2>1. /\ stack' \in Seq(0..(Len(g.nodes) - 1)) /\ Len(stack') = N + 1
        /\ \A k \in 1..N : stack'[k] = stack[k]
        /\ stack'[N + 1] = g.idx[w]
    BY <1>10, <1>12, <1>13, AppendProperties
  <2> QED
    BY <2>1, LenProperties
<1> HIDE DEF N
<1>15. /\ \A k \in 1..N : NodeAt(g, stack[k]) # w
  <2>1. \A k \in 1..N : NodeAt(g, stack[k]) \in marked
    BY <1>2 DEF SearchInv, SearchMarked, OnStack
  <2> QED
    BY <1>10, <2>1
<1>16. OnStack' = OnStack \cup {w}
  <2>1. OnStack' = {NodeAt(g, stack'[k]) : k \in 1..(N + 1)}
    BY <1>1, <1>14 DEF OnStack, NodeAt
  <2>2. OnStack = {NodeAt(g, stack[k]) : k \in 1..N}
    BY <1>2 DEF OnStack
  <2>3. \A k \in 1..(N + 1) : k \in 1..N \/ k = N + 1
    BY <1>2
  <2>4. N + 1 \in 1..(N + 1) /\ \A k \in 1..N : k \in 1..(N + 1)
    BY <1>2
  <2>5. OnStack' \subseteq OnStack \cup {w}
    BY <1>12, <1>14, <2>1, <2>2, <2>3
  <2>6. OnStack \cup {w} \subseteq OnStack'
    <3>1. w \in OnStack'
      BY <1>12, <1>14, <2>1, <2>4
    <3>2. ASSUME NEW k \in 1..N
          PROVE  NodeAt(g, stack[k]) \in OnStack'
      BY <1>14, <2>1, <2>4
    <3> QED
      BY <2>2, <3>1, <3>2
  <2> QED
    BY <2>5, <2>6
<1>17. /\ checkNext' \in [NodeId -> Seq(NodeId)]
       /\ checkNext'[v] = SubSeq(c, j + 1, Len(c))
       /\ \A u \in NodeId : u # v => checkNext'[u] = checkNext[u]
  <2>1. \A i \in (j + 1)..Len(c) : c[i] \in NodeId
    BY <1>7, <1>8
  <2>2. j + 1 \in Int /\ Len(c) \in Int
    BY <1>7, <1>8
  <2>3. SubSeq(c, j + 1, Len(c)) \in Seq(NodeId)
    BY <2>1, <2>2, SubSeqProperties
  <2> QED
    BY <1>3, <1>5, <1>10, <2>3
<1>18. ToSet(SubSeq(c, j + 1, Len(c))) = {c[i] : i \in (j + 1)..Len(c)}
  <2>1. \A i \in (j + 1)..Len(c) : c[i] \in NodeId
    BY <1>7, <1>8
  <2>2. j + 1 \in Int /\ Len(c) \in Int
    BY <1>7, <1>8
  <2>3. /\ SubSeq(c, j + 1, Len(c)) \in Seq(NodeId)
        /\ Len(SubSeq(c, j + 1, Len(c)))
             = IF j + 1 <= Len(c) THEN Len(c) - (j + 1) + 1 ELSE 0
        /\ \A i \in 1..(Len(c) - (j + 1) + 1) :
             SubSeq(c, j + 1, Len(c))[i] = c[(j + 1) + i - 1]
    BY <2>1, <2>2, SubSeqProperties
  <2>4. PICK s \in Seq(NodeId) : s = SubSeq(c, j + 1, Len(c))
    BY <2>3
  <2>5. DOMAIN s = 1..(Len(c) - j) /\ \A i \in 1..(Len(c) - j) : s[i] = c[j + i]
    <3>1. PICK n \in Nat : n = Len(c)
      BY <1>7
    <3>2. j \in Nat /\ j <= n /\ n - (j + 1) + 1 = n - j
      BY <1>8, <3>1
    <3>3. Len(s) = IF j + 1 <= n THEN n - (j + 1) + 1 ELSE 0
      BY <2>3, <2>4, <3>1
    <3>4. Len(s) = n - j
      BY <3>2, <3>3
    <3>5. \A i \in 1..(n - (j + 1) + 1) : s[i] = c[(j + 1) + i - 1]
      BY <2>3, <2>4, <3>1
    <3>6. \A i \in 1..(n - j) : (j + 1) + i - 1 = j + i
      BY <3>2
    <3>7. \A i \in 1..(n - j) : s[i] = c[j + i]
      BY <3>2, <3>5, <3>6
    <3> QED
      BY <3>1, <3>4, <3>7, LenProperties
  <2>6. ToSet(s) \subseteq {c[i] : i \in (j + 1)..Len(c)}
    <3>1. \A i \in 1..(Len(c) - j) : j + i \in (j + 1)..Len(c)
      BY <1>7, <1>8
    <3> QED
      BY <2>5, <3>1 DEF ToSet
  <2>7. {c[i] : i \in (j + 1)..Len(c)} \subseteq ToSet(s)
    <3>1. \A i \in (j + 1)..Len(c) : i - j \in 1..(Len(c) - j) /\ j + (i - j) = i
      BY <1>7, <1>8
    <3> QED
      BY <2>5, <3>1 DEF ToSet
  <2> QED
    BY <2>4, <2>6, <2>7
<1>19. ToSet(c) \subseteq marked \cup {w} \cup {c[i] : i \in (j + 1)..Len(c)}
  <2>1. ASSUME NEW i \in 1..Len(c)
        PROVE  c[i] \in marked \cup {w} \cup {c[l] : l \in (j + 1)..Len(c)}
    <3>1. i < j \/ i = j \/ i \in (j + 1)..Len(c)
      BY <1>7, <1>8
    <3> QED
      BY <1>8, <1>9, <3>1
  <2> QED
    BY <1>7, <2>1 DEF ToSet
<1>20. SearchTyped'
  <2>1. IsInjective(stack')
    <3> SUFFICES ASSUME NEW k \in 1..(N + 1), NEW l \in 1..(N + 1), stack'[k] = stack'[l]
                 PROVE  k = l
      BY <1>14 DEF IsInjective
    <3>1. \A i \in 1..(N + 1) : i \in 1..N \/ i = N + 1
      BY <1>2
    <3>2. \A i \in 1..N : stack'[i] # stack'[N + 1]
      BY <1>12, <1>14, <1>15
    <3>3. \A i, m \in 1..N : stack'[i] = stack'[m] => i = m
      BY <1>2, <1>13, <1>14 DEF IsInjective
    <3> QED
      BY <3>1, <3>2, <3>3
  <2> QED
    BY <1>1, <1>13, <1>14, <1>17, <2>1 DEF SearchTyped
<1>21. SearchMarked'
  <2>1. /\ marked = OnStack \cup ToSet(ordered) /\ OnStack \cap ToSet(ordered) = {}
        /\ marked \subseteq InGraph(g)
    BY <1>2 DEF SearchInv, SearchMarked
  <2>2. /\ marked' = OnStack' \cup ToSet(ordered) /\ OnStack' \cap ToSet(ordered) = {}
        /\ marked' \subseteq InGraph(g)
    BY <1>10, <1>12, <1>16, <2>1
  <2> QED
    BY <1>1, <2>2 DEF SearchMarked
<1>22. SearchSource'
  <2>1. stack # <<>> => stack[1] = 0
    BY <1>2 DEF SearchInv, SearchSource
  <2>2. stack # <<>>
    BY <1>1 DEF Searching
  <2>3. stack'[1] = stack[1]
    BY <1>3, <1>14
  <2>4. stack' # <<>>
    BY <1>2, <1>14
  <2> QED
    BY <2>1, <2>2, <2>3, <2>4 DEF SearchSource
<1>23. SearchPaths'
  <2>1. /\ marked \subseteq Reached(g.out, Source)
        /\ \A k, l \in 1..N :
             k <= l => NodeAt(g, stack[l]) \in Reached(g.out, NodeAt(g, stack[k]))
    BY <1>2 DEF SearchInv, SearchPaths
  <2>2. w \in Reached(g.out, v)
    BY <1>2, <1>3, <1>11, ReachesNext
  <2>3. marked' \subseteq Reached(g.out, Source)
    <3>1. v \in Reached(g.out, Source)
      BY <1>3, <2>1
    <3>2. w \in Reached(g.out, Source)
      BY <2>2, <3>1, ReachesOn
    <3> QED
      BY <1>10, <2>1, <3>2
  <2>4. \A k \in 1..N : w \in Reached(g.out, NodeAt(g, stack[k]))
    <3> TAKE k \in 1..N
    <3>1. v \in Reached(g.out, NodeAt(g, stack[k]))
      BY <1>2, <1>3, <2>1
    <3> QED
      BY <2>2, <3>1, ReachesOn
  <2>5. w \in Reached(g.out, w)
    BY ReachesItself
  <2>6. /\ \A k \in 1..N : NodeAt(g, stack'[k]) = NodeAt(g, stack[k])
        /\ NodeAt(g, stack'[N + 1]) = w
    BY <1>12, <1>14
  <2>7. ASSUME NEW k \in 1..(N + 1), NEW l \in 1..(N + 1), k <= l
        PROVE  NodeAt(g, stack'[l]) \in Reached(g.out, NodeAt(g, stack'[k]))
    <3>1. CASE l = N + 1 /\ k = N + 1
      BY <2>5, <2>6, <3>1
    <3>2. CASE l = N + 1 /\ k \in 1..N
      BY <2>4, <2>6, <3>2
    <3>3. CASE l \in 1..N
      <4>1. k \in 1..N
        BY <1>2, <2>7, <3>3
      <4> QED
        BY <2>1, <2>6, <2>7, <3>3, <4>1
    <3> QED
      BY <1>2, <3>1, <3>2, <3>3
  <2> QED
    BY <1>1, <1>14, <2>3, <2>7 DEF SearchPaths, Source, NodeAt
<1>24. SearchNext'
  <2>1. /\ \A u \in NodeId : ToSet(checkNext[u]) \subseteq ToSet(g.out[u])
        /\ \A u \in NodeId : ToSet(g.out[u]) \subseteq marked \cup ToSet(checkNext[u])
        /\ \A u \in ToSet(ordered) : ToSet(g.out[u]) \subseteq marked
    BY <1>2 DEF SearchInv, SearchNext
  <2>2. /\ ToSet(checkNext'[v]) \subseteq ToSet(c)
        /\ ToSet(c) \subseteq marked' \cup ToSet(checkNext'[v])
    <3>1. \A i \in (j + 1)..Len(c) : i \in 1..Len(c)
      BY <1>7, <1>8
    <3>2. {c[i] : i \in (j + 1)..Len(c)} \subseteq ToSet(c)
      BY <1>7, <3>1 DEF ToSet
    <3> QED
      BY <1>10, <1>17, <1>18, <1>19, <3>2
  <2>3. ASSUME NEW u \in NodeId
        PROVE  /\ ToSet(checkNext'[u]) \subseteq ToSet(g.out[u])
               /\ ToSet(g.out[u]) \subseteq marked' \cup ToSet(checkNext'[u])
    <3>1. CASE u = v
      BY <1>6, <1>10, <2>1, <2>2, <3>1
    <3>2. CASE u # v
      BY <1>10, <1>17, <2>1, <3>2
    <3> QED
      BY <3>1, <3>2
  <2>4. \A u \in ToSet(ordered) : ToSet(g.out[u]) \subseteq marked'
    BY <1>10, <2>1
  <2> QED
    BY <1>1, <2>3, <2>4 DEF SearchNext
<1>25. SearchOrder'
  BY <1>1, <1>2 DEF SearchInv, SearchOrder
<1>26. LoaderInv'
  BY <1>1, <1>2, LoaderStays
<1> QED
  BY <1>1, <1>2, <1>20, <1>21, <1>22, <1>23, <1>24, <1>25, <1>26 DEF TSInv, SearchInv

(* The top of the stack is left                                            *)
LEMMA LeaveKeeps ==
  ASSUME TSInv, Leave
  PROVE  TSInv'
<1> DEFINE v == Top
           N == Len(stack)
           M == Len(ordered)
<1>1. /\ Searching /\ g' = g /\ phase' = phase /\ marked' = marked /\ UNCHANGED loaderVars
      /\ ordered' = Cons(v, ordered) /\ stack' = Front(stack)
      /\ checkNext' = [checkNext EXCEPT ![v] = <<>>]
      /\ Unmarked(v) = {}
  BY DEF Leave, loaderVars
<1>2. /\ phase = "searching" /\ SearchInv
      /\ g \in Graphs /\ Indexed(g) /\ Closed(g)
      /\ N \in Nat /\ DOMAIN stack = 1..N
      /\ \A k \in 1..N : stack[k] \in 0..(Len(g.nodes) - 1)
      /\ M \in Nat /\ DOMAIN ordered = 1..M
      /\ \A k \in 1..M : ordered[k] \in NodeId
      /\ g.out \in [NodeId -> Seq(NodeId)]
  BY <1>1, SearchFits DEF Searching
<1>3. /\ N \in 1..N /\ v = NodeAt(g, stack[N])
      /\ v \in InGraph(g) /\ v \in NodeId /\ v \in marked /\ v \in OnStack
  BY <1>1, TopFits
<1> HIDE DEF v
<1>4. /\ g.nodes # <<>> /\ stack \in Seq(0..(Len(g.nodes) - 1)) /\ IsInjective(stack)
      /\ ordered \in Seq(NodeId) /\ IsInjective(ordered)
      /\ checkNext \in [NodeId -> Seq(NodeId)]
  BY <1>2 DEF SearchInv, SearchTyped
<1>5. /\ stack' \in Seq(0..(Len(g.nodes) - 1)) /\ DOMAIN stack' = 1..(N - 1)
      /\ \A k \in 1..(N - 1) : stack'[k] = stack[k] /\ k \in 1..N
  <2>1. \A k \in 1..(N - 1) : k \in 1..N /\ stack[k] \in 0..(Len(g.nodes) - 1)
    BY <1>2
  <2>2. stack' = SubSeq(stack, 1, N - 1) /\ N - 1 \in Int
    BY <1>1, <1>2 DEF Front
  <2>3. /\ stack' \in Seq(0..(Len(g.nodes) - 1))
        /\ Len(stack') = IF 1 <= N - 1 THEN N - 1 - 1 + 1 ELSE 0
        /\ \A k \in 1..(N - 1 - 1 + 1) : stack'[k] = stack[1 + k - 1]
    BY <2>1, <2>2, SubSeqProperties
  <2>4. Len(stack') = N - 1 /\ N - 1 - 1 + 1 = N - 1 /\ N - 1 \in Nat
    <3>1. PICK n \in Nat : n = N
      BY <1>2
    <3>2. 1 <= n
      BY <1>3, <3>1
    <3>3. Len(stack') = IF 1 <= n - 1 THEN n - 1 - 1 + 1 ELSE 0
      BY <2>3, <3>1
    <3>4. Len(stack') = n - 1 /\ n - 1 - 1 + 1 = n - 1 /\ n - 1 \in Nat
      BY <3>2, <3>3
    <3> QED
      BY <3>1, <3>4
  <2>5. \A k \in 1..(N - 1) : 1 + k - 1 = k
    OBVIOUS
  <2>6. DOMAIN stack' = 1..(N - 1)
    BY <2>3, <2>4, LenProperties
  <2> QED
    BY <2>1, <2>3, <2>4, <2>5, <2>6
<1>6. /\ ordered' \in Seq(NodeId) /\ DOMAIN ordered' = 1..(M + 1)
      /\ ordered'[1] = v /\ \A k \in 1..M : ordered'[k + 1] = ordered[k]
      /\ \A k \in 1..(M + 1) : k = 1 \/ (k - 1 \in 1..M /\ ordered'[k] = ordered[k - 1])
  <2>1. <<v>> \in Seq(NodeId) /\ Len(<<v>>) = 1 /\ <<v>>[1] = v
    BY <1>3
  <2>2. /\ ordered' \in Seq(NodeId) /\ Len(ordered') = 1 + M
        /\ \A i \in 1..(1 + M) : ordered'[i] = IF i <= 1 THEN <<v>>[i] ELSE ordered[i - 1]
    BY <1>1, <1>4, <2>1, ConcatProperties DEF Cons
  <2>3. DOMAIN ordered' = 1..(1 + M) /\ 1 + M = M + 1
    BY <1>2, <2>2, LenProperties
  <2>4. ordered'[1] = v /\ \A k \in 1..M : ordered'[k + 1] = ordered[k]
    <3>1. 1 \in 1..(1 + M) /\ \A k \in 1..M : k + 1 \in 1..(1 + M) /\ ~(k + 1 <= 1)
                                              /\ (k + 1) - 1 = k
      BY <1>2
    <3>2. ordered'[1] = v
      BY <2>1, <2>2, <3>1
    <3> QED
      BY <2>2, <3>1, <3>2
  <2>5. \A k \in 1..(1 + M) : k = 1 \/ (k - 1 \in 1..M /\ ordered'[k] = ordered[k - 1])
    BY <1>2, <2>2
  <2> QED
    BY <2>2, <2>3, <2>4, <2>5
<1> HIDE DEF N, M
<1>7. ToSet(ordered') = ToSet(ordered) \cup {v}
  <2>1. ToSet(ordered') = {ordered'[k] : k \in 1..(M + 1)}
    BY <1>6 DEF ToSet
  <2>2. ToSet(ordered) = {ordered[k] : k \in 1..M}
    BY <1>2 DEF ToSet
  <2>3. ToSet(ordered') \subseteq ToSet(ordered) \cup {v}
    BY <1>6, <2>1, <2>2
  <2>4. 1 \in 1..(M + 1) /\ \A k \in 1..M : k + 1 \in 1..(M + 1)
    BY <1>2
  <2>5. v \in ToSet(ordered')
    BY <1>6, <2>1, <2>4
  <2>6. \A k \in 1..M : ordered[k] \in ToSet(ordered')
    BY <1>6, <2>1, <2>4
  <2> QED
    BY <2>2, <2>3, <2>5, <2>6
<1>8. \A k \in 1..(N - 1) : NodeAt(g, stack[k]) # v
  <2> TAKE k \in 1..(N - 1)
  <2>1. k \in 1..N /\ k # N
    BY <1>2
  <2>2. stack[k] # stack[N]
    BY <1>2, <1>3, <1>4, <2>1 DEF IsInjective
  <2>3. /\ g.idx[NodeAt(g, stack[k])] = stack[k]
        /\ g.idx[NodeAt(g, stack[N])] = stack[N]
    BY <1>2, <1>3, <2>1, NodesFit
  <2> QED
    BY <1>3, <2>2, <2>3
<1>9. OnStack' = OnStack \ {v}
  <2>1. OnStack' = {NodeAt(g, stack'[k]) : k \in 1..(N - 1)}
    BY <1>1, <1>5 DEF OnStack, NodeAt
  <2>2. OnStack = {NodeAt(g, stack[k]) : k \in 1..N}
    BY <1>2 DEF OnStack
  <2>3. OnStack' \subseteq OnStack \ {v}
    BY <1>5, <1>8, <2>1, <2>2
  <2>4. \A k \in 1..N : k \in 1..(N - 1) \/ k = N
    BY <1>2
  <2>5. ASSUME NEW k \in 1..N, NodeAt(g, stack[k]) # v
        PROVE  NodeAt(g, stack[k]) \in OnStack'
    BY <1>3, <1>5, <2>1, <2>4, <2>5
  <2> QED
    BY <2>2, <2>3, <2>5
<1>10. ToSet(g.out[v]) \subseteq marked
  <2>1. PICK c \in Seq(NodeId) : c = checkNext[v]
    BY <1>3, <1>4
  <2>2. \A i \in DOMAIN c : c[i] \in marked
    BY <1>1, <2>1 DEF Unmarked
  <2>3. ToSet(checkNext[v]) \subseteq marked
    BY <2>1, <2>2 DEF ToSet
  <2> QED
    BY <1>2, <1>3, <2>3 DEF SearchInv, SearchNext
<1>11. /\ marked = OnStack \cup ToSet(ordered) /\ OnStack \cap ToSet(ordered) = {}
       /\ marked \subseteq InGraph(g)
  BY <1>2 DEF SearchInv, SearchMarked
<1>12. SearchTyped'
  <2>1. IsInjective(stack')
    <3>1. \A k, l \in 1..N : stack[k] = stack[l] => k = l
      BY <1>2, <1>4 DEF IsInjective
    <3> QED
      BY <1>5, <3>1 DEF IsInjective
  <2>2. IsInjective(ordered')
    <3>1. \A k \in 1..M : ordered[k] # v
      <4>1. \A k \in 1..M : ordered[k] \in ToSet(ordered)
        BY <1>2 DEF ToSet
      <4> QED
        BY <1>3, <1>11, <4>1
    <3>2. \A k, l \in 1..M : ordered[k] = ordered[l] => k = l
      BY <1>2, <1>4 DEF IsInjective
    <3> SUFFICES ASSUME NEW k \in 1..(M + 1), NEW l \in 1..(M + 1),
                        ordered'[k] = ordered'[l]
                 PROVE  k = l
      BY <1>6 DEF IsInjective
    <3>3. k = 1 \/ (k - 1 \in 1..M /\ ordered'[k] = ordered[k - 1])
      BY <1>6
    <3>4. l = 1 \/ (l - 1 \in 1..M /\ ordered'[l] = ordered[l - 1])
      BY <1>6
    <3>5. CASE k = 1 \/ l = 1
      BY <1>6, <3>1, <3>3, <3>4, <3>5
    <3>6. CASE k # 1 /\ l # 1
      <4>1. k - 1 = l - 1
        BY <3>2, <3>3, <3>4, <3>6
      <4> QED
        BY <1>2, <4>1
    <3> QED
      BY <3>5, <3>6
  <2>3. checkNext' \in [NodeId -> Seq(NodeId)]
    <3>1. <<>> \in Seq(NodeId)
      BY EmptySeq
    <3> QED
      BY <1>1, <1>4, <3>1
  <2> QED
    BY <1>1, <1>4, <1>5, <1>6, <2>1, <2>2, <2>3 DEF SearchTyped
<1>13. SearchMarked'
  <2>1. /\ marked = OnStack' \cup ToSet(ordered') /\ OnStack' \cap ToSet(ordered') = {}
        /\ marked \subseteq InGraph(g)
    BY <1>3, <1>7, <1>9, <1>11
  <2> QED
    BY <1>1, <2>1 DEF SearchMarked
<1>14. SearchSource'
  <2>1. stack[1] = 0
    <3>1. stack # <<>> => stack[1] = 0
      BY <1>2 DEF SearchInv, SearchSource
    <3> QED
      BY <1>1, <3>1 DEF Searching
  <2>2. CASE N = 1
    <3>1. v = Source
      BY <1>3, <2>1, <2>2 DEF Source
    <3>2. DOMAIN stack' = {}
      BY <1>5, <2>2
    <3>3. stack' = <<>>
      BY <1>5, <3>2, EmptySeq, LenProperties
    <3>4. ordered' # <<>> /\ ordered'[1] = Source
      <4>1. 1 \in DOMAIN ordered'
        BY <1>2, <1>6
      <4>2. ordered' # <<>>
        BY <4>1
      <4> QED
        BY <1>6, <3>1, <4>2
    <3> QED
      BY <1>1, <3>3, <3>4 DEF SearchSource, Source, NodeAt
  <2>3. CASE N # 1
    <3>1. 1 \in 1..(N - 1)
      BY <1>2, <1>3, <2>3
    <3>2. stack' # <<>> /\ stack'[1] = 0
      <4>1. 1 \in DOMAIN stack' /\ stack'[1] = 0
        BY <1>5, <2>1, <3>1
      <4> QED
        BY <4>1
    <3> QED
      BY <3>2 DEF SearchSource
  <2> QED
    BY <2>2, <2>3
<1>15. SearchPaths'
  <2>1. /\ marked \subseteq Reached(g.out, Source)
        /\ \A k, l \in 1..N :
             k <= l => NodeAt(g, stack[l]) \in Reached(g.out, NodeAt(g, stack[k]))
    BY <1>2 DEF SearchInv, SearchPaths
  <2>2. \A k, l \in 1..(N - 1) :
             k <= l => NodeAt(g, stack'[l]) \in Reached(g.out, NodeAt(g, stack'[k]))
    BY <1>5, <2>1
  <2> QED
    BY <1>1, <1>5, <2>1, <2>2 DEF SearchPaths, Source, NodeAt
<1>16. SearchNext'
  <2>1. /\ \A u \in NodeId : ToSet(checkNext[u]) \subseteq ToSet(g.out[u])
        /\ \A u \in NodeId : ToSet(g.out[u]) \subseteq marked \cup ToSet(checkNext[u])
        /\ \A u \in ToSet(ordered) : ToSet(g.out[u]) \subseteq marked
    BY <1>2 DEF SearchInv, SearchNext
  <2>2. checkNext'[v] = <<>> /\ \A u \in NodeId : u # v => checkNext'[u] = checkNext[u]
    BY <1>1, <1>3, <1>4
  <2>3. ToSet(checkNext'[v]) = {}
    BY <2>2 DEF ToSet
  <2>4. ASSUME NEW u \in NodeId
        PROVE  /\ ToSet(checkNext'[u]) \subseteq ToSet(g.out[u])
               /\ ToSet(g.out[u]) \subseteq marked \cup ToSet(checkNext'[u])
    <3>1. CASE u = v
      BY <1>10, <2>3, <3>1
    <3>2. CASE u # v
      BY <2>1, <2>2, <3>2
    <3> QED
      BY <3>1, <3>2
  <2>5. \A u \in ToSet(ordered') : ToSet(g.out[u]) \subseteq marked
    BY <1>7, <1>10, <2>1
  <2> QED
    BY <1>1, <2>4, <2>5 DEF SearchNext
<1>17. SearchOrder'
  <2>1. \A k \in 1..M : \A w \in ToSet(g.out[ordered[k]]) :
          \/ \E l \in 1..M : k < l /\ ordered[l] = w
          \/ ordered[k] \in Reached(g.out, w)
    BY <1>2 DEF SearchInv, SearchOrder
  <2>2. ASSUME NEW w \in ToSet(g.out[v])
        PROVE  \/ \E l \in 1..(M + 1) : 1 < l /\ ordered'[l] = w
               \/ v \in Reached(g.out, w)
    <3>1. CASE w \in OnStack
      <4>1. PICK k \in 1..N : w = NodeAt(g, stack[k])
        BY <1>2, <3>1 DEF OnStack
      <4>2. k <= N
        BY <1>2
      <4>3. \A i, l \in 1..N :
              i <= l => NodeAt(g, stack[l]) \in Reached(g.out, NodeAt(g, stack[i]))
        BY <1>2 DEF SearchInv, SearchPaths
      <4> QED
        BY <1>3, <4>1, <4>2, <4>3
    <3>2. CASE w \in ToSet(ordered)
      <4>1. PICK k \in 1..M : w = ordered[k]
        BY <1>2, <3>2 DEF ToSet
      <4>2. k + 1 \in 1..(M + 1) /\ 1 < k + 1
        BY <1>2
      <4> QED
        BY <1>6, <4>1, <4>2
    <3> QED
      BY <1>10, <1>11, <3>1, <3>2
  <2>3. ASSUME NEW k \in 1..(M + 1), NEW w \in ToSet(g.out[ordered'[k]])
        PROVE  \/ \E l \in 1..(M + 1) : k < l /\ ordered'[l] = w
               \/ ordered'[k] \in Reached(g.out, w)
    <3>1. CASE k = 1
      BY <1>6, <2>2, <2>3, <3>1
    <3>2. CASE k # 1
      <4>1. k - 1 \in 1..M /\ ordered'[k] = ordered[k - 1]
        BY <1>6, <3>2
      <4>2. CASE \E l \in 1..M : k - 1 < l /\ ordered[l] = w
        <5>1. PICK l \in 1..M : k - 1 < l /\ ordered[l] = w
          BY <4>2
        <5>2. l + 1 \in 1..(M + 1) /\ k < l + 1 /\ ordered'[l + 1] = w
          BY <1>2, <1>6, <5>1
        <5> QED
          BY <5>2
      <4>3. CASE ordered[k - 1] \in Reached(g.out, w)
        BY <4>1, <4>3
      <4> QED
        BY <2>1, <2>3, <4>1, <4>2, <4>3
    <3> QED
      BY <3>1, <3>2
  <2> QED
    BY <1>1, <1>6, <2>3 DEF SearchOrder
<1>18. LoaderInv'
  BY <1>1, <1>2, LoaderStays
<1> QED
  BY <1>1, <1>2, <1>12, <1>13, <1>14, <1>15, <1>16, <1>17, <1>18 DEF TSInv, SearchInv

(* Before the search                                                       *)
LEMMA SizesWithoutSearch ==
  ASSUME g \in Graphs, Indexed(g), stack = <<>>, ordered = <<>>
  PROVE  /\ Len(stack) <= Len(g.nodes) /\ Len(ordered) <= Len(g.nodes)
         /\ IsInjective(ordered)
<1>1. Len(stack) = 0 /\ Len(ordered) = 0 /\ DOMAIN ordered = {}
  OBVIOUS
<1>2. Len(g.nodes) \in Nat
  BY NodesFit
<1> QED
  BY <1>1, <1>2 DEF IsInjective

LEMMA LinePhase ==
  ASSUME NEW from, NEW to, ReadLine(from, to)
  PROVE  phase = "read" /\ phase' \in {"read", "overrun"}
BY DEF ReadLine

LEMMA LoadGraphKeeps == TSInv /\ LoadGraph => TSInv'
<1> SUFFICES ASSUME TSInv, LoadGraph
             PROVE  TSInv'
  OBVIOUS
<1>1. LoaderInv'
  BY ReadKeeps, LoadKeeps DEF LoadGraph, TSInv
<1>2. phase = "read" /\ phase' \in {"read", "overrun", "loaded"}
  <2>1. CASE Load
    BY <2>1 DEF Load
  <2>2. CASE Read
    <3>1. PICK from, to : ReadLine(from, to)
      BY <2>2 DEF Read
    <3> QED
      BY <3>1, LinePhase
  <2> QED
    BY <2>1, <2>2 DEF LoadGraph
<1>3. stack' = <<>> /\ ordered' = <<>>
  BY <1>2 DEF LoadGraph, TSInv, searchVars
<1> QED
  BY <1>1, <1>2, <1>3 DEF TSInv

LEMMA ReturnEmptyKeeps ==
  ASSUME TSInv, ReturnEmpty
  PROVE  TSInv'
<1>1. /\ phase = "loaded" /\ phase' = "returned" /\ g.nodes = <<>>
      /\ g' = g /\ numNodes' = numNodes /\ stack' = stack /\ ordered' = ordered
  BY DEF ReturnEmpty, mapVars, searchVars
<1>2. /\ g \in Graphs /\ Indexed(g) /\ Closed(g) /\ numNodes \in Nat
      /\ stack = <<>> /\ ordered = <<>>
  BY <1>1 DEF TSInv, LoaderInv
<1>3. LoaderInv'
  BY <1>1, <1>2 DEF LoaderInv
<1>4. InGraph(g) = {}
  <2>1. DOMAIN g.nodes = {}
    BY <1>1
  <2> QED
    BY <2>1 DEF InGraph, ToSet
<1>5. OnlyCyclesGoBack'
  BY <1>1, <1>4 DEF OnlyCyclesGoBack
<1>6. ReachedNodesArePlaced'
  BY <1>1, <1>2, SizesWithoutSearch DEF ReachedNodesArePlaced
<1> QED
  BY <1>1, <1>3, <1>5, <1>6 DEF TSInv

(* The source is met                                                       *)
LEMMA StartKeeps ==
  ASSUME TSInv, Start
  PROVE  TSInv'
<1>1. /\ phase = "loaded" /\ phase' = "searching" /\ g.nodes # <<>>
      /\ g' = IF SourceIdx = 0 THEN g ELSE Swap(g, NodeAt(g, 0), NodeAt(g, SourceIdx))
      /\ stack' = <<0>> /\ marked' = {NodeAt(g', 0)} /\ checkNext' = g.out
      /\ numNodes' = numNodes /\ ordered' = ordered
  BY DEF Start, mapVars
<1>2. /\ g \in Graphs /\ Indexed(g) /\ Closed(g) /\ numNodes \in Nat /\ ordered = <<>>
  BY <1>1 DEF TSInv, LoaderInv
<1>3. SourceIdx \in 0..(Len(g.nodes) - 1) /\ 0 \in 0..(Len(g.nodes) - 1)
      /\ Len(g.nodes) \in Nat
  BY <1>1, <1>2, SourceFits, NodesFit
<1>4. /\ g' \in Graphs /\ Indexed(g') /\ g'.out = g.out
      /\ Len(g'.nodes) = Len(g.nodes) /\ InGraph(g') = InGraph(g)
  <2>1. CASE SourceIdx = 0
    BY <1>1, <1>2, <2>1
  <2>2. CASE SourceIdx # 0
    <3>1. PICK r : r = g'
      OBVIOUS
    <3>2. PICK h \in Graphs : h = g
      BY <1>2
    <3>3. PICK k \in 1..Len(h.nodes) : k = SourceIdx + 1
      BY <1>3, <3>2
    <3>4. 1 \in 1..Len(h.nodes) /\ k # 1
      BY <1>3, <2>2, <3>2, <3>3
    <3>5. NodeAt(g, 0) = h.nodes[1] /\ NodeAt(g, SourceIdx) = h.nodes[k]
      BY <3>2, <3>3 DEF NodeAt
    <3>6. r = Swap(h, h.nodes[1], h.nodes[k]) /\ Indexed(h)
      BY <1>1, <1>2, <2>2, <3>1, <3>2, <3>5
    <3>7. r \in Graphs /\ Indexed(r)
      BY <3>4, <3>6, SwapStays
    <3>8. r.out = h.out /\ Len(r.nodes) = Len(h.nodes)
      BY <3>4, <3>6, SwapStays
    <3>9. InGraph(r) = InGraph(h)
      BY <3>4, <3>6, SwapStays
    <3> QED
      BY <3>1, <3>2, <3>7, <3>8, <3>9
  <2> QED
    BY <2>1, <2>2
<1> DEFINE s == NodeAt(g', 0)
<1>5. s \in InGraph(g') /\ s \in NodeId
  <2>1. PICK h \in Graphs : h = g'
    BY <1>4
  <2>2. Indexed(h) /\ 0 \in 0..(Len(h.nodes) - 1)
    BY <1>3, <1>4, <2>1
  <2>3. NodeAt(h, 0) \in InGraph(h) /\ InGraph(h) \subseteq NodeId
    BY <2>2, NodesFit
  <2> QED
    BY <2>1, <2>3
<1>6. Source' = s
  BY DEF Source, NodeAt
<1> HIDE DEF s
<1>7. DOMAIN stack' = {1} /\ stack'[1] = 0 /\ stack' # <<>>
  BY <1>1
<1>8. OnStack' = {s}
  BY <1>6, <1>7 DEF OnStack, Source, NodeAt
<1>9. ordered' = <<>> /\ DOMAIN ordered' = {} /\ ToSet(ordered') = {}
  BY <1>1, <1>2 DEF ToSet
<1>10. SearchTyped'
  <2>1. g'.nodes # <<>>
    <3>1. g'.nodes \in Seq(NodeId)
      BY <1>4 DEF Graphs
    <3> QED
      BY <1>3, <1>4, <3>1, EmptySeq
  <2>2. stack' \in Seq(0..(Len(g'.nodes) - 1)) /\ IsInjective(stack')
    <3>1. 0 \in 0..(Len(g'.nodes) - 1)
      BY <1>3, <1>4
    <3>2. \A S : \A x \in S : <<x>> \in Seq(S)
      OBVIOUS
    <3>3. stack' \in Seq(0..(Len(g'.nodes) - 1))
      BY <1>1, <3>1, <3>2
    <3>4. IsInjective(stack')
      BY <1>7 DEF IsInjective
    <3> QED
      BY <3>3, <3>4
  <2>3. ordered' \in Seq(NodeId) /\ IsInjective(ordered')
    BY <1>9, EmptySeq DEF IsInjective
  <2>4. checkNext' \in [NodeId -> Seq(NodeId)]
    BY <1>1, <1>2 DEF Graphs
  <2> QED
    BY <2>1, <2>2, <2>3, <2>4 DEF SearchTyped
<1>11. marked' = {s}
  BY <1>1 DEF s
<1>12. SearchMarked'
  BY <1>5, <1>8, <1>9, <1>11 DEF SearchMarked
<1>13. SearchSource'
  BY <1>7 DEF SearchSource
<1>14. SearchPaths'
  <2>1. s \in Reached(g'.out, s)
    BY <1>5, ReachesItself
  <2>2. NodeAt(g', stack'[1]) = s
    BY <1>7 DEF s
  <2>3. \A k, l \in DOMAIN stack' :
          k <= l => NodeAt(g', stack'[l]) \in Reached(g'.out, NodeAt(g', stack'[k]))
    BY <1>7, <2>1, <2>2
  <2>4. marked' \subseteq Reached(g'.out, s)
    BY <1>11, <2>1
  <2> QED
    BY <1>6, <2>3, <2>4 DEF SearchPaths, NodeAt
<1>15. SearchNext'
  BY <1>1, <1>4, <1>9 DEF SearchNext
<1>16. SearchOrder'
  BY <1>9 DEF SearchOrder
<1>17. LoaderInv'
  BY <1>1, <1>2, <1>4 DEF LoaderInv, Closed
<1> QED
  BY <1>1, <1>10, <1>12, <1>13, <1>14, <1>15, <1>16, <1>17 DEF TSInv, SearchInv

(* The search is over: what was met is what the source reaches             *)
LEMMA ReturnKeeps ==
  ASSUME TSInv, Return
  PROVE  TSInv'
<1> DEFINE M == Len(ordered)
           N == Len(g.nodes)
<1>1. /\ phase = "searching" /\ stack = <<>>
      /\ IF M < N
         THEN phase' = "crashed" /\ g' = g
         ELSE /\ phase' = "returned"
              /\ g' = [g EXCEPT !.nodes = ordered,
                                !.idx = [v \in NodeId |-> IF v \in ToSet(ordered)
                                                          THEN (CHOOSE k \in DOMAIN ordered :
                                                                  ordered[k] = v) - 1
                                                          ELSE @[v]]]
      /\ numNodes' = numNodes /\ stack' = stack /\ ordered' = ordered
  BY DEF Return, mapVars, searchVars
<1>2. /\ SearchInv
      /\ g \in Graphs /\ Indexed(g) /\ Closed(g) /\ numNodes \in Nat
      /\ N \in Nat /\ DOMAIN g.nodes = 1..N /\ InGraph(g) \subseteq NodeId
      /\ M \in Nat /\ DOMAIN ordered = 1..M
      /\ \A k \in 1..M : ordered[k] \in NodeId
      /\ g.out \in [NodeId -> Seq(NodeId)]
  <2>1. InGraph(g) \subseteq NodeId
    BY <1>1, SearchFits, NodesFit
  <2> QED
    BY <1>1, <2>1, SearchFits
<1>3. ordered \in Seq(NodeId) /\ IsInjective(ordered) /\ g.nodes # <<>>
  BY <1>2 DEF SearchInv, SearchTyped
<1>4. ordered # <<>> /\ ordered[1] = Source
  BY <1>1, <1>2 DEF SearchInv, SearchSource
<1>5. marked = ToSet(ordered)
  <2>1. OnStack = {}
    <3>1. DOMAIN stack = {}
      BY <1>1
    <3> QED
      BY <3>1 DEF OnStack
  <2> QED
    BY <1>2, <2>1 DEF SearchInv, SearchMarked
<1>6. \A v \in ToSet(ordered) : ToSet(g.out[v]) \subseteq ToSet(ordered)
  BY <1>2, <1>5 DEF SearchInv, SearchNext
<1>7. ToSet(ordered) = Reached(g.out, ordered[1])
  <2>1. 1 \in 1..M
    <3>1. M # 0
      BY <1>3, <1>4, EmptySeq
    <3> QED
      BY <1>2, <3>1
  <2>2. ordered[1] \in ToSet(ordered)
    BY <1>2, <2>1 DEF ToSet
  <2>3. ToSet(ordered) \in SUBSET NodeId
    BY <1>2 DEF ToSet
  <2>4. Reached(g.out, ordered[1]) \subseteq ToSet(ordered)
    BY <1>6, <2>2, <2>3, ReachesWithin
  <2>5. ToSet(ordered) \subseteq Reached(g.out, ordered[1])
    BY <1>2, <1>4, <1>5 DEF SearchInv, SearchPaths
  <2> QED
    BY <2>4, <2>5
<1>8. ToSet(ordered) \subseteq InGraph(g)
  BY <1>2, <1>5 DEF SearchInv, SearchMarked
<1>9. /\ IsFiniteSet(ToSet(ordered)) /\ Cardinality(ToSet(ordered)) = M
      /\ IsFiniteSet(InGraph(g)) /\ Cardinality(InGraph(g)) = N
  <2>1. IsFiniteSet(ToSet(ordered)) /\ Cardinality(ToSet(ordered)) = M
    BY <1>3, InjectiveSize
  <2>2. g.nodes \in Seq(NodeId) /\ IsInjective(g.nodes)
    BY <1>2 DEF Graphs, Indexed
  <2>3. IsFiniteSet(ToSet(g.nodes)) /\ Cardinality(ToSet(g.nodes)) = N
    BY <2>2, InjectiveSize
  <2> QED
    BY <2>1, <2>3 DEF InGraph
<1>10. M <= N /\ (M = N => ToSet(ordered) = InGraph(g))
  <2>1. ToSet(ordered) \in SUBSET InGraph(g)
    BY <1>8
  <2>2. /\ Cardinality(ToSet(ordered)) <= Cardinality(InGraph(g))
        /\ Cardinality(ToSet(ordered)) = Cardinality(InGraph(g))
             => ToSet(ordered) = InGraph(g)
    BY <1>9, <2>1, FS_Subset
  <2> QED
    BY <1>9, <2>2
<1>11. Len(stack) = 0
  BY <1>1
<1> HIDE DEF M, N
<1>12. CASE M < N
  <2>1. phase' = "crashed" /\ g' = g
    BY <1>1, <1>12
  <2>2. Reached(g.out, ordered[1]) # InGraph(g)
    BY <1>2, <1>7, <1>9, <1>12
  <2>3. Len(stack) <= Len(g.nodes) /\ Len(ordered) <= Len(g.nodes)
    BY <1>2, <1>10, <1>11 DEF M, N
  <2>4. ReachedNodesArePlaced'
    BY <1>1, <1>3, <1>7, <2>1, <2>2, <2>3 DEF ReachedNodesArePlaced
  <2>5. OnlyCyclesGoBack'
    BY <2>1 DEF OnlyCyclesGoBack
  <2>6. LoaderInv'
    BY <1>1, <1>2, <2>1 DEF LoaderInv
  <2> QED
    BY <2>1, <2>4, <2>5, <2>6 DEF TSInv
<1>13. CASE ~(M < N)
  <2> DEFINE at == [v \in NodeId |-> IF v \in ToSet(ordered)
                                     THEN (CHOOSE k \in DOMAIN ordered : ordered[k] = v) - 1
                                     ELSE g.idx[v]]
  <2>1. phase' = "returned" /\ g' = [g EXCEPT !.nodes = ordered, !.idx = at]
    BY <1>1, <1>13
  <2>2. M = N /\ ToSet(ordered) = InGraph(g)
    BY <1>2, <1>10, <1>13
  <2>3. \A k \in 1..M : at[ordered[k]] = k - 1
    <3> TAKE k \in 1..M
    <3>1. \A j \in DOMAIN ordered : ordered[j] = ordered[k] => j = k
      BY <1>2, <1>3 DEF IsInjective
    <3>2. ordered[k] \in NodeId /\ ordered[k] \in ToSet(ordered) /\ k \in DOMAIN ordered
      BY <1>2 DEF ToSet
    <3>3. (CHOOSE j \in DOMAIN ordered : ordered[j] = ordered[k]) = k
      BY <3>1, <3>2
    <3> QED
      BY <3>2, <3>3
  <2>4. at \in [NodeId -> Int]
    <3>1. ASSUME NEW v \in NodeId
          PROVE  at[v] \in Int
      <4>1. CASE v \in ToSet(ordered)
        <5>1. PICK k \in 1..M : ordered[k] = v
          BY <1>2, <4>1 DEF ToSet
        <5> HIDE DEF at
        <5>2. at[v] = k - 1
          BY <2>3, <5>1
        <5>3. k - 1 \in Int
          OBVIOUS
        <5> QED
          BY <5>2, <5>3
      <4>2. CASE v \notin ToSet(ordered)
        <5>1. g.idx \in [NodeId -> Int]
          BY <1>2 DEF Graphs
        <5> QED
          BY <4>2, <5>1
      <4> QED
        BY <4>1, <4>2
    <3> QED
      BY <3>1
  <2> HIDE DEF at
  <2>5. /\ g' \in Graphs /\ g'.nodes = ordered /\ g'.idx = at /\ g'.out = g.out
    BY <1>2, <1>3, <2>1, <2>4 DEF Graphs
  <2>6. InGraph(g') = ToSet(ordered)
    BY <2>5 DEF InGraph
  <2>7. Indexed(g')
    BY <1>2, <1>3, <2>3, <2>5 DEF Indexed
  <2>8. LoaderInv'
    <3>1. Closed(g')
      BY <1>2, <2>2, <2>5, <2>6 DEF Closed
    <3> QED
      BY <1>1, <1>2, <2>1, <2>5, <2>7, <3>1 DEF LoaderInv
  <2>9. ReachedNodesArePlaced'
    <3>1. Len(stack) <= Len(ordered) /\ Len(ordered) <= Len(ordered)
      BY <1>2, <1>11 DEF M
    <3>2. Reached(g'.out, ordered[1]) = ToSet(ordered)
      BY <1>7, <2>5
    <3> QED
      BY <1>1, <1>3, <2>1, <2>5, <2>6, <3>1, <3>2 DEF ReachedNodesArePlaced
  <2>10. ASSUME NEW v \in ToSet(ordered), NEW w \in ToSet(g.out[v]), at[w] <= at[v]
         PROVE  v \in Reached(g.out, w)
    <3>1. PICK k \in 1..M : ordered[k] = v
      BY <1>2 DEF ToSet
    <3>2. w \in ToSet(ordered)
      BY <1>6
    <3>3. PICK m \in 1..M : ordered[m] = w
      BY <1>2, <3>2 DEF ToSet
    <3>4. m <= k
      <4>1. at[w] = m - 1 /\ at[v] = k - 1
        BY <2>3, <3>1, <3>3
      <4> QED
        BY <2>10, <4>1
    <3>5. ~\E l \in 1..M : k < l /\ ordered[l] = w
      <4>1. \A l \in 1..M : ordered[l] = w => l = m
        BY <1>2, <1>3, <3>3 DEF IsInjective
      <4> QED
        BY <3>4, <4>1
    <3>6. \/ \E l \in 1..M : k < l /\ ordered[l] = w
          \/ v \in Reached(g.out, w)
      BY <1>2, <3>1 DEF SearchInv, SearchOrder
    <3> QED
      BY <3>5, <3>6
  <2>11. OnlyCyclesGoBack'
    BY <2>5, <2>6, <2>10 DEF OnlyCyclesGoBack
  <2> QED
    BY <2>1, <2>8, <2>9, <2>11 DEF TSInv
<1> QED
  BY <1>12, <1>13

LEMMA RestKeeps ==
  ASSUME TSInv, UNCHANGED vars
  PROVE  TSInv'
BY DEF TSInv, LoaderInv, NamesFit, NamedOnly, SearchInv, SearchTyped, SearchMarked,
       SearchSource, SearchPaths, SearchNext, SearchOrder, OnStack, Source,
       OnlyCyclesGoBack, ReachedNodesArePlaced, vars, loaderVars, searchVars

LEMMA Inductive == Spec => []TSInv
<1>1. Init => TSInv
  <2> SUFFICES ASSUME Init
               PROVE  TSInv
    OBVIOUS
  <2>1. LoaderInv
    BY InitLoader DEF Init
  <2> QED
    BY <2>1 DEF Init, LoaderInit, TSInv
<1>2. TSInv /\ [Next]_vars => TSInv'
  <2> SUFFICES ASSUME TSInv, [Next]_vars
               PROVE  TSInv'
    OBVIOUS
  <2>1. CASE LoadGraph
    BY <2>1, LoadGraphKeeps
  <2>2. CASE ReturnEmpty
    BY <2>2, ReturnEmptyKeeps
  <2>3. CASE Start
    BY <2>3, StartKeeps
  <2>4. CASE Visit
    BY <2>4, VisitKeeps
  <2>5. CASE Leave
    BY <2>5, LeaveKeeps
  <2>6. CASE Return
    BY <2>6, ReturnKeeps
  <2>7. CASE Rest
    BY <2>7, RestKeeps DEF Rest
  <2>8. CASE UNCHANGED vars
    BY <2>8, RestKeeps
  <2> QED
    BY <2>1, <2>2, <2>3, <2>4, <2>5, <2>6, <2>7, <2>8 DEF Next
<1> QED
  BY <1>1, <1>2, PTL DEF Spec

-----------------------------------------------------------------------------
(* graph_create_from_dot gives each name it meets the node of its own      *)
(* number, whichever names share a chain of the hash map, whatever port a  *)
(* line writes, and whether the chain had it already; the array of nodes   *)
(* is overrun exactly when there are more names than nodes.                *)
THEOREM NamesHaveTheirNodes == Spec => []NamesAreNodes
<1>1. TSInv => NamesAreNodes
  <2> SUFFICES ASSUME TSInv, phase \in {"read", "overrun"}
               PROVE  /\ numNodes = Names
                      /\ \A name \in DOMAIN bucketOf :
                           Find(chains, bucketOf[name], name) = {Entry(name, name - 1)}
                      /\ phase = "overrun" <=> Names > MaxNodes
    BY DEF NamesAreNodes
  <2>1. /\ DOMAIN bucketOf = 1..numNodes /\ numNodes \in Nat
        /\ ChainsFit(chains, bucketOf, numNodes)
        /\ phase = "overrun" <=> numNodes > MaxNodes
    BY DEF TSInv, LoaderInv, NamesFit
  <2>2. Cardinality(1..numNodes) = IF 1 > numNodes THEN 0 ELSE numNodes - 1 + 1
    BY <2>1, FS_Interval
  <2>3. numNodes = Names
    BY <2>1, <2>2 DEF Names
  <2>4. \A name \in 1..numNodes :
          Find(chains, bucketOf[name], name) = {Entry(name, name - 1)}
    BY <2>1, FindOld
  <2> QED
    BY <2>1, <2>3, <2>4
<1> QED
  BY <1>1, Inductive, PTL

(* graph_topological_sort orders the nodes "topologically, ignoring back   *)
(* edges" (graph.h:71): a connection to a node that is not placed after    *)
(* its origin is on a cycle.                                               *)
THEOREM OrderIsTopological == Spec => []OnlyCyclesGoBack
<1>1. TSInv => OnlyCyclesGoBack
  BY DEF TSInv, OnlyCyclesGoBack
<1> QED
  BY <1>1, Inductive, PTL

(* The stack and the array of graph_topological_sort have room for every   *)
(* node; those the source reaches are placed once, and the loop over the   *)
(* array meets an entry that was not filled exactly if there is another.   *)
THEOREM SearchPlacesWhatItReaches == Spec => []ReachedNodesArePlaced
<1>1. ASSUME TSInv, phase = "searching"
      PROVE  ReachedNodesArePlaced
  <2>1. /\ SearchInv /\ g \in Graphs /\ Indexed(g)
        /\ Len(g.nodes) \in Nat /\ DOMAIN g.nodes = 1..Len(g.nodes)
        /\ Len(stack) \in Nat /\ DOMAIN stack = 1..Len(stack)
        /\ \A k \in DOMAIN stack : stack[k] \in 0..(Len(g.nodes) - 1)
    BY <1>1, SearchFits
  <2>2. /\ stack \in Seq(0..(Len(g.nodes) - 1)) /\ IsInjective(stack)
        /\ ordered \in Seq(NodeId) /\ IsInjective(ordered)
    BY <2>1 DEF SearchInv, SearchTyped
  <2>3. Len(stack) <= Len(g.nodes)
    <3>1. Cardinality(ToSet(stack)) = Len(stack)
      BY <2>2, InjectiveSize
    <3>2. ToSet(stack) \in SUBSET (0..(Len(g.nodes) - 1))
      BY <2>1 DEF ToSet
    <3>3. PICK n \in Nat : n = Len(g.nodes)
      BY <2>1
    <3>4. /\ IsFiniteSet(0..(n - 1))
          /\ Cardinality(0..(n - 1)) = IF 0 > n - 1 THEN 0 ELSE n - 1 - 0 + 1
      <4>1. 0 \in Int /\ n - 1 \in Int
        OBVIOUS
      <4> QED
        BY <4>1, FS_Interval
    <3>5. Cardinality(0..(n - 1)) = n
      BY <3>3, <3>4
    <3>6. Cardinality(ToSet(stack)) <= Cardinality(0..(n - 1))
      BY <3>2, <3>3, <3>4, FS_Subset
    <3> QED
      BY <3>1, <3>3, <3>5, <3>6
  <2>4. Len(ordered) <= Len(g.nodes)
    <3>1. Cardinality(ToSet(ordered)) = Len(ordered)
      BY <2>2, InjectiveSize
    <3>2. ToSet(ordered) \in SUBSET ToSet(g.nodes)
      BY <2>1 DEF SearchInv, SearchMarked, InGraph
    <3>3. g.nodes \in Seq(NodeId) /\ IsInjective(g.nodes)
      BY <2>1 DEF Graphs, Indexed
    <3>4. IsFiniteSet(ToSet(g.nodes)) /\ Cardinality(ToSet(g.nodes)) = Len(g.nodes)
      BY <3>3, InjectiveSize
    <3>5. Cardinality(ToSet(ordered)) <= Cardinality(ToSet(g.nodes))
      BY <3>2, <3>4, FS_Subset
    <3> QED
      BY <3>1, <3>4, <3>5
  <2> QED
    BY <1>1, <2>2, <2>3, <2>4 DEF ReachedNodesArePlaced
<1>2. TSInv => ReachedNodesArePlaced
  <2>1. ASSUME TSInv, phase \in {"read", "overrun", "loaded"}
        PROVE  ReachedNodesArePlaced
    <3>1. g \in Graphs /\ Indexed(g) /\ stack = <<>> /\ ordered = <<>>
      BY <2>1 DEF TSInv, LoaderInv
    <3> QED
      BY <2>1, <3>1, SizesWithoutSearch DEF ReachedNodesArePlaced
  <2> QED
    BY <1>1, <2>1 DEF TSInv
<1> QED
  BY <1>2, Inductive, PTL

=============================================================================
