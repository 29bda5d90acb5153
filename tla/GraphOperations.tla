--------------------------- MODULE GraphOperations ---------------------------
(***************************************************************************)
(* Every sequence of calls to the operations on one GRAPH.  The program    *)
(* calls them from the tests, the loader of dot files, the encoders, the   *)
(* attacks and the expansion of codes.                                     *)
(***************************************************************************)
EXTENDS GraphLists, FiniteSets

CONSTANTS
  MaxNodes, MaxConnections,         \* bounds on the graph
  MaxConnected                      \* bound on what graph_oriented_connect adds

(* The memory of the program is finite                                     *)
ASSUME GraphOperationsAssumption == IsFiniteSet(NodeId)

VARIABLE g

Free == NodeId \ InGraph(g)

(* The nodes that successive calls of malloc return *)
Fresh(k) == {new \in [1..k -> Free] : IsInjective(new)}

HasRoom(nodes, connections) ==
  /\ Len(g.nodes) + nodes <= MaxNodes
  /\ g.numConnections + connections <= MaxConnections

Init ==
  \E k \in 1..MaxNodes :
    \E nodes \in [1..k -> NodeId] : IsInjective(nodes) /\ g = EmptyGraph(nodes)

graph_add == HasRoom(1, 0) /\ \E v \in Free : g' = Add(g, v)

graph_insert ==
  /\ HasRoom(1, 0)
  /\ \E v \in Free : \E k \in 0..Len(g.nodes) : g' = Insert(g, k, v)

graph_swap == \E a, b \in InGraph(g) : a # b /\ g' = Swap(g, a, b)

graph_isolate == \E v \in InGraph(g) : g' = Isolate(g, v)

graph_delete == \E v \in InGraph(g) : g' = Delete(g, v)

graph_oriented_connect ==
  g.numConnections < MaxConnected /\ \E a, b \in InGraph(g) : g' = Connect(g, a, b)

graph_oriented_disconnect ==
  \E a, b \in InGraph(g) : g' = Disconnect(g, a, b)

graph_copy == g' = Copy(g)

(* node_expand_to_sequence, _repeat, _while, _if_then, _p_case: node v is  *)
(* replaced by a block of v and the nodes new                              *)
Expand(v, new) ==
  \/ Len(new) = 1 /\ HasRoom(1, 1) /\ g' = ExpandToSequence(g, v, new)
  \/ Len(new) = 2 /\ HasRoom(2, 3) /\ g' = ExpandToRepeat(g, v, new)
  \/ Len(new) = 2 /\ HasRoom(2, 3) /\ g' = ExpandToWhile(g, v, new)
  \/ Len(new) = 2 /\ HasRoom(2, 3) /\ g' = ExpandToIfThen(g, v, new)
  \/ Len(new) = 3 /\ HasRoom(3, 4) /\ g' = ExpandToPCase(g, v, new)

node_expand ==
  \E v \in InGraph(g) : \E k \in 1..3 : \E new \in Fresh(k) : Expand(v, new)

Next ==
  \/ graph_add
  \/ graph_insert
  \/ graph_swap
  \/ graph_isolate
  \/ graph_delete
  \/ graph_oriented_connect
  \/ graph_oriented_disconnect
  \/ graph_copy
  \/ node_expand

Spec == Init /\ [][Next]_g

-----------------------------------------------------------------------------
(* Every node of the array knows its index, and no node is there twice.    *)
(* Insertion, deletion and swap each shift part of the array and part of   *)
(* the indexes (graph.c:70-74,84-86,104-107); all the tests "backedge or   *)
(* forward edge" compare graph_idx.                                        *)
IndexesAgree ==
  /\ IsInjective(g.nodes)
  /\ \A k \in DOMAIN g.nodes : g.idx[g.nodes[k]] = k - 1

(* A connection is in the list of the node it leaves as often as in the    *)
(* list of the node it reaches: connecting, disconnecting, isolating,      *)
(* deleting and transferring each update two lists of two nodes            *)
(* (node.c:62-70,80-89).                                                   *)
ListsMirrored ==
  \A a, b \in NodeId :
    /\ Occurrences(g.out[a], b) = Occurrences(g.in[b], a)
    /\ Contains(g.out[a], b) => {a, b} \subseteq InGraph(g)

(* The counts kept beside the lists are their lengths, whatever sequence   *)
(* of calls was made: num_in_neighbours and num_out_neighbours decide in   *)
(* the decoder and in the recognition what a node is, num_connections      *)
(* whether a graph is looked at (node.c:63,68,92-93, graph.c:118,126).     *)
CountsAgree ==
  /\ \A v \in NodeId : g.numOut[v] = Len(g.out[v]) /\ g.numIn[v] = Len(g.in[v])
  /\ g.numConnections = FoldFunctionOnSet(+, 0, g.numOut, NodeId)

(* A copy has the connections of the original, with every list of          *)
(* connections that leave a node reversed (graph.c:323-329): an algorithm  *)
(* that depends on that order may see a copy differently.                  *)
CopyReversesLists ==
  [][graph_copy => /\ g'.nodes = g.nodes
                   /\ g'.out = [v \in NodeId |-> Reverse(g.out[v])]]_g

(* Expanding a node replaces it by a block with one entry, the node, and   *)
(* one exit, the last new node, that takes consecutive indexes: what       *)
(* reached the node still does, what left it now leaves the exit, and no   *)
(* other connection joins the block to the rest (node.c:261-329).          *)
ExpansionIsABlock ==
  [][\A v \in InGraph(g) : \A k \in 1..3 : \A new \in Fresh(k) :
       Expand(v, new) =>
         LET inner == {v} \cup ToSet(new)
             sink == new[k]
         IN  /\ SubSeq(g'.nodes, g.idx[v] + 1, g.idx[v] + k + 1) = <<v>> \o new
             /\ \A w \in InGraph(g) :
                  /\ Occurrences(g'.out[sink], w) = Occurrences(g.out[v], w)
                  /\ w # v => g'.out[w] = g.out[w]
             /\ \A w \in inner \ {sink} : ToSet(g'.out[w]) \subseteq inner]_g

(* A graph read back from its serialization has its connections            *)
RoundTripKeepsConnections ==
  \A v \in NodeId :
    LET back == Deserialize(g.nodes, Serialize(g))
    IN  (\A w \in InGraph(g) : Len(g.out[w]) <= Len(g.nodes))
          => ToSet(back.out[v]) = ToSet(g.out[v])

=============================================================================
