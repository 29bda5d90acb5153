--------------------------- MODULE PrimeContraction ---------------------------
(***************************************************************************)
(* dijkstra_check and dijkstra_get_code: a graph is a structured program   *)
(* if its blocks (the prime subgraphs) can be contracted, from the last    *)
(* node to the first, until one block is left.  The code of a block is     *)
(* written while it is contracted.                                         *)
(*                                                                         *)
(* Both functions contract alike; the codes, which dijkstra_check does not *)
(* keep, decide nothing.  One action is one contraction, or the move to    *)
(* the node before.  A string is a sequence of digits, <<>> once freed.    *)
(*                                                                         *)
(* The order of a list matters: which of two connections comes first is    *)
(* not the same in a graph and in its copy.  No connection is there twice. *)
(***************************************************************************)
EXTENDS Integers, SequencesExt

VARIABLES
  out,                              \* the connections that leave each node
  node,                             \* the node contracted next
  sink,                             \* the last node of the block of a node
  code, codeLen                     \* codes[], and the size of each

contractionVars == <<out, node, sink, code, codeLen>>

Nodes == DOMAIN out
NumNodes == Cardinality(Nodes)
NumConnections == FoldFunction(LAMBDA s, k : k + Len(s), 0, out)

(* graph_get_connection, and the connections by direction *)
Connected(u, w) == Contains(out[u], w)
OutBackedges(v) == SelectSeq(out[v], LAMBDA w : w < v)
Backedge(v) == OutBackedges(v)[1]
InBackedges(v) == {u \in Nodes : u > v /\ Connected(u, v)}
InForward(v) == {u \in Nodes : u <= v /\ Connected(u, v)}

(* The locals before the loop *)
LastNode == NumNodes - 1
OwnSinks == [v \in Nodes |-> v]
TrivialCodes == [v \in Nodes |-> <<1>>]
TrivialLens == [v \in Nodes |-> 2]

(* A graph with too many connections is refused, one without any is a node *)
TooDense == NumConnections >= 2 * NumNodes - 1

-----------------------------------------------------------------------------
(* STATEMENT_GRAPH, by the digit that stands for it in a code *)
INVALID == 0
TRIVIAL == 1
SEQUENCE == 2
IF_THEN == 3
WHILE == 4
REPEAT == 5
IF_THEN_ELSE == 6
P_CASE == 7

Prime(type, last) == [type |-> type, sink |-> last]
NoPrime == Prime(INVALID, 0)

(* Every connection of t leads to a block of one exit, and to one node *)
PCaseOrIfElse(t) ==
  LET Goal(w) == sink[out[sink[w]][1]]
  IN  IF /\ Len(out[t]) >= 2
         /\ \A w \in ToSet(out[t]) : Len(out[sink[w]]) = 1
         /\ \A w \in ToSet(out[t]) : Goal(w) = Goal(out[t][1])
      THEN Prime(IF Len(out[t]) = 2 THEN IF_THEN_ELSE ELSE P_CASE, Goal(out[t][1]))
      ELSE NoPrime

IfThen(t) ==
  LET a == out[t][1]
      b == out[t][2]
  IN  IF Len(out[t]) = 2 /\ Connected(sink[a], b) THEN Prime(IF_THEN, sink[b])
      ELSE IF Len(out[t]) = 2 /\ Connected(sink[b], a) THEN Prime(IF_THEN, sink[a])
      ELSE NoPrime

(* The block after t can be appended although it goes back: it is the      *)
(* inside of a while whose head is the node it goes back to ...            *)
InsideWhile(source, last) ==
  LET head == sink[Backedge(last)]
  IN  Len(out[last]) = 1 /\ Connected(head, source) /\ Len(out[head]) = 2

(* ... or the start of a repeat within this one *)
InsideRepeat(source, next, last) ==
  /\ Len(out[last]) = 1
  /\ Cardinality(InBackedges(source)) = 1
  /\ LET middle == sink[out[last][1]]
     IN  /\ OutBackedges(middle) # <<>>
         /\ middle = next
         /\ Backedge(middle) = source

(* MUTANT: any block is appended, also one that closes a loop *)
SequenceAlways(source, t) ==
  IF Len(out[t]) = 1 /\ OutBackedges(t) = <<>> /\ Cardinality(InForward(out[t][1])) = 1
  THEN Prime(SEQUENCE, sink[out[t][1]])
  ELSE NoPrime

Sequence(source, t) ==
  LET next == out[t][1]
      last == sink[next]
  IN  IF /\ Len(out[t]) = 1
         /\ OutBackedges(t) = <<>>
         /\ Cardinality(InForward(next)) = 1
         /\ \/ OutBackedges(last) = <<>>
            \/ InsideWhile(source, last)
            \/ InsideRepeat(source, next, last)
      THEN Prime(SEQUENCE, last)
      ELSE NoPrime

While(source, t) ==
  LET a == out[t][1]
      b == out[t][2]
      Shape == /\ Len(out[t]) - Len(OutBackedges(t)) = 2
               /\ InBackedges(source) # {}
  IN  IF Shape /\ Connected(sink[a], source) THEN Prime(WHILE, sink[b])
      ELSE IF Shape /\ Connected(sink[b], source) THEN Prime(WHILE, sink[a])
      ELSE NoPrime

(* MUTANT: the exit is the first connection of the middle block *)
RepeatFirst(source, t) ==
  LET middle == sink[out[t][1]]
  IN  IF /\ Len(out[t]) = 1
         /\ InBackedges(source) # {}
         /\ Len(out[middle]) = 2
         /\ Len(OutBackedges(middle)) = 1
         /\ Backedge(middle) = source
      THEN Prime(REPEAT, sink[out[middle][1]])
      ELSE NoPrime

Repeat(source, t) ==
  LET middle == sink[out[t][1]]
  IN  IF /\ Len(out[t]) = 1
         /\ InBackedges(source) # {}
         /\ Len(out[middle]) = 2
         /\ Len(OutBackedges(middle)) = 1
         /\ Backedge(middle) = source
      THEN Prime(REPEAT, sink[IF out[middle][1] < middle THEN out[middle][2]
                                                         ELSE out[middle][1]])
      ELSE NoPrime

(* dijkstra_is_non_trivial_prime: the first of the five tests that holds *)
NonTrivialPrime(v) ==
  LET t == sink[v]
      primes == SelectSeq(<<PCaseOrIfElse(t), IfThen(t), Sequence(v, t),
                            While(v, t), Repeat(v, t)>>,
                          LAMBDA p : p.type # INVALID)
  IN  IF out[t] = <<>> \/ primes = <<>> THEN NoPrime ELSE primes[1]

-----------------------------------------------------------------------------
Digits(k) == IF k < 10 THEN <<k>> ELSE <<k \div 10, k % 10>>

(* The blocks whose codes follow that of node v, the last one at the end *)
Parts(v, type) ==
  LET t == sink[v]
      a == out[t][1]
      b == out[t][2]
      m == sink[a]
  IN  CASE type = SEQUENCE -> <<a>>
        [] type = IF_THEN -> IF Connected(m, b) THEN <<a, b>> ELSE <<b, a>>
        [] type = WHILE   -> IF Connected(m, v) THEN <<a, b>> ELSE <<b, a>>
        [] type = REPEAT  -> <<a, IF out[m][1] # v THEN out[m][1] ELSE out[m][2]>>
        [] type \in {IF_THEN_ELSE, P_CASE} -> out[t] \o <<out[m][1]>>

(* What says which block this is *)
Name(v, type) ==
  IF type \in {IF_THEN_ELSE, P_CASE} THEN Digits(Len(out[sink[v]]) + 4) ELSE <<type>>

(* MUTANT: the head of a repeat is forgotten when it was expanded *)
MergedMiddle(v, type) ==
  LET codes == [k \in DOMAIN Parts(v, type) |-> code[Parts(v, type)[k]]]
  IN  IF type = REPEAT
      THEN <<1>> \o Name(v, type) \o codes[1] \o codes[2]
      ELSE code[v] \o Name(v, type) \o FlattenSeq(codes)

(* dijkstra_update_code: in a repeat, only the part that was expanded, the *)
(* head or the middle, is written                                          *)
Merged(v, type) ==
  LET codes == [k \in DOMAIN Parts(v, type) |-> code[Parts(v, type)[k]]]
  IN  IF type = REPEAT
      THEN <<1>> \o Name(v, type)
                 \o (IF code[v] # <<1>> THEN code[v] ELSE codes[1]) \o codes[2]
      ELSE code[v] \o Name(v, type) \o FlattenSeq(codes)

(* MUTANT: the digits that name the block are not counted *)
MergedLenUnnamed(v, type) ==
  FoldLeft(LAMBDA l, w : l + codeLen[w] - 1, codeLen[v], Parts(v, type))

(* The bytes allocated for it: the parts' ends of string are not repeated *)
MergedLen(v, type) ==
  FoldLeft(LAMBDA l, w : l + codeLen[w] - 1,
           codeLen[v] + Len(Name(v, type)), Parts(v, type))

(* The block at the node becomes larger, and its parts' codes are freed *)
Contract ==
  /\ node >= 0
  /\ LET p == NonTrivialPrime(node)
     IN  /\ p.type # INVALID
         /\ sink' = [sink EXCEPT ![node] = p.sink]
         /\ code' = [v \in Nodes |->
                       IF v = node THEN Merged(node, p.type)
                       ELSE IF v \in ToSet(Parts(node, p.type)) THEN <<>>
                       ELSE code[v]]
         /\ codeLen' = [codeLen EXCEPT ![node] = MergedLen(node, p.type)]
  /\ UNCHANGED <<out, node>>

(* No block starts at the node any more *)
PreviousNode ==
  /\ node >= 0
  /\ NonTrivialPrime(node) = NoPrime
  /\ node' = node - 1
  /\ UNCHANGED <<out, sink, code, codeLen>>

Step == Contract \/ PreviousNode

Contracted == node < 0

(* What dijkstra_check and dijkstra_get_code return for a graph with       *)
(* connections, and not too many                                           *)
IsDijkstraGraph == sink[0] = NumNodes - 1
Code == code[0]

=============================================================================
