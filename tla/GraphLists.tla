------------------------------ MODULE GraphLists ------------------------------
(***************************************************************************)
(* The GRAPH of graph.c, node.c and connection.c: an array of nodes, and   *)
(* for each node the list of the connections that leave it, the list of    *)
(* those that reach it, and the counts kept beside them.                   *)
(*                                                                         *)
(* A linked list is the sequence of the nodes it names, its root first.    *)
(* Index k of the array nodes is position k + 1 of g.nodes.  Memory that   *)
(* is not allocated to a node of the graph has the values of node_empty.   *)
(***************************************************************************)
EXTENDS Integers, SequencesExt

CONSTANT NodeId                     \* the nodes that malloc may return

EmptyGraph(nodes) ==
  [nodes |-> nodes,
   idx   |-> [v \in NodeId |-> IF v \in ToSet(nodes)
                               THEN (CHOOSE k \in DOMAIN nodes : nodes[k] = v) - 1
                               ELSE 0],
   out   |-> [v \in NodeId |-> <<>>],
   in    |-> [v \in NodeId |-> <<>>],
   numOut |-> [v \in NodeId |-> 0],
   numIn  |-> [v \in NodeId |-> 0],
   numConnections |-> 0]

InGraph(g) == ToSet(g.nodes)
NodeAt(g, k) == g.nodes[k + 1]

Occurrences(s, v) == Cardinality({k \in DOMAIN s : s[k] = v})

-----------------------------------------------------------------------------
(* graph_oriented_connect: new connections become the roots of their lists *)
Connect(g, a, b) ==
  [g EXCEPT !.out[a] = Cons(b, @), !.numOut[a] = @ + 1,
            !.in[b]  = Cons(a, @), !.numIn[b]  = @ + 1,
            !.numConnections = @ + 1]

(* MUTANT: only the list of the origin is searched *)
DisconnectOut(g, a, b) ==
  IF Contains(g.out[a], b)
  THEN [g EXCEPT !.out[a] = RemoveFirst(@, b), !.numOut[a] = @ - 1,
                 !.numConnections = @ - 1]
  ELSE g

(* MUTANT: the total is counted down whether or not they were connected *)
DisconnectAlways(g, a, b) ==
  LET One(found) == IF found THEN 1 ELSE 0
  IN  [g EXCEPT !.out[a] = RemoveFirst(@, b), !.numOut[a] = @ - One(Contains(g.out[a], b)),
                !.in[b]  = RemoveFirst(@, a), !.numIn[b]  = @ - One(Contains(g.in[b], a)),
                !.numConnections = @ - 1]

(* graph_oriented_disconnect: each list loses its first match, if any *)
Disconnect(g, a, b) ==
  LET leaves  == Contains(g.out[a], b)
      reaches == Contains(g.in[b], a)
      One(found) == IF found THEN 1 ELSE 0
  IN  [g EXCEPT !.out[a] = RemoveFirst(@, b), !.numOut[a] = @ - One(leaves),
                !.in[b]  = RemoveFirst(@, a), !.numIn[b]  = @ - One(reaches),
                !.numConnections = @ - One(leaves \/ reaches)]

(* Loops over the nodes ws *)
DisconnectFrom(g, v, ws) == FoldLeft(LAMBDA h, w : Disconnect(h, v, w), g, ws)
DisconnectTo(g, v, ws) == FoldLeft(LAMBDA h, w : Disconnect(h, w, v), g, ws)
ConnectFrom(g, v, ws) == FoldLeft(LAMBDA h, w : Connect(h, v, w), g, ws)

(* graph_isolate: both loops disconnect the root until the list is empty *)
Isolate(g, v) ==
  LET alone == DisconnectFrom(g, v, g.out[v])
  IN  DisconnectTo(alone, v, alone.in[v])

(* MUTANT: the connections are copied and not removed *)
CopyOut(g, from, to) == ConnectFrom(g, to, g.out[from])

(* node_transfer_out_connections: all are copied, then all are removed *)
TransferOut(g, from, to) ==
  LET copied == ConnectFrom(g, to, g.out[from])
  IN  DisconnectFrom(copied, from, copied.out[from])

-----------------------------------------------------------------------------
(* MUTANT: the node found at the position keeps its index *)
InsertShifted(g, k, v) ==
  [g EXCEPT !.nodes = InsertAt(@, k + 1, v),
            !.idx = [w \in NodeId |-> IF w = v THEN k
                                      ELSE IF w \in InGraph(g) /\ g.idx[w] > k
                                      THEN g.idx[w] + 1 ELSE g.idx[w]]]

(* graph_insert of a node v just allocated, at an index in range *)
Insert(g, k, v) ==
  [g EXCEPT !.nodes = InsertAt(@, k + 1, v),
            !.idx = [w \in NodeId |-> IF w = v THEN k
                                      ELSE IF w \in InGraph(g) /\ g.idx[w] >= k
                                      THEN g.idx[w] + 1 ELSE g.idx[w]]]

(* graph_add *)
Add(g, v) ==
  [g EXCEPT !.nodes = Append(@, v), !.idx[v] = Len(g.nodes)]

(* graph_swap *)
Swap(g, a, b) ==
  [g EXCEPT !.nodes[g.idx[a] + 1] = b, !.nodes[g.idx[b] + 1] = a,
            !.idx[a] = g.idx[b], !.idx[b] = g.idx[a]]

(* graph_delete: the nodes after it move down, and its memory is freed *)
Delete(g, v) ==
  LET alone == Isolate(g, v)
  IN  [alone EXCEPT
         !.nodes = RemoveAt(@, g.idx[v] + 1),
         !.idx = [w \in NodeId |-> IF w = v THEN 0
                                   ELSE IF w \in InGraph(g) /\ g.idx[w] > g.idx[v]
                                   THEN g.idx[w] - 1 ELSE g.idx[w]]]

-----------------------------------------------------------------------------
(* node_expand_to_...: the node v becomes a block of consecutive nodes, v  *)
(* itself, then new[1], new[2] ..., of which the last takes over what      *)
(* left v.                                                                 *)
InsertAll(g, v, new) ==
  FoldLeftDomain(LAMBDA h, k : Insert(h, h.idx[v] + k, new[k]), g, new)

Block(g, v, new) == TransferOut(InsertAll(g, v, new), v, new[Len(new)])

ConnectAll(g, pairs) == FoldLeft(LAMBDA h, e : Connect(h, e[1], e[2]), g, pairs)

ExpandToSequence(g, v, new) ==
  ConnectAll(Block(g, v, new), <<<<v, new[1]>>>>)

ExpandToRepeat(g, v, new) ==
  ConnectAll(Block(g, v, new),
             <<<<v, new[1]>>, <<new[1], v>>, <<new[1], new[2]>>>>)

ExpandToWhile(g, v, new) ==
  ConnectAll(Block(g, v, new), <<<<v, new[1]>>, <<new[1], v>>, <<v, new[2]>>>>)

ExpandToIfThen(g, v, new) ==
  ConnectAll(Block(g, v, new), <<<<v, new[1]>>, <<v, new[2]>>, <<new[1], new[2]>>>>)

(* p middle nodes and a sink *)
Branches(g, v, middle, sink) ==
  FoldLeft(LAMBDA h, m : Connect(Connect(h, v, m), m, sink), g, middle)

ExpandToPCase(g, v, new) == Branches(Block(g, v, new), v, Front(new), new[Len(new)])

-----------------------------------------------------------------------------
(* MUTANT: a connection that the copy already has is not repeated *)
CopyOnce(g) ==
  FoldLeft(LAMBDA h, u :
             FoldLeft(LAMBDA m, w : IF Contains(m.out[u], w) THEN m
                                    ELSE Connect(m, u, NodeAt(m, g.idx[w])),
                      h, g.out[u]),
           EmptyGraph(g.nodes), g.nodes)

(* graph_copy: the node of the copy at an index bears here the name of the *)
(* node of the original at that index                                      *)
CopyNode(g, copy, u) ==
  FoldLeft(LAMBDA h, w : Connect(h, u, NodeAt(h, g.idx[w])), copy, g.out[u])

Copy(g) == FoldLeft(LAMBDA h, u : CopyNode(g, h, u), EmptyGraph(g.nodes), g.nodes)

(* graph_serialize: per node, the indexes of the nodes it is connected to *)
Serialize(g) ==
  [k \in DOMAIN g.nodes |->
     LET v == g.nodes[k] IN [j \in DOMAIN g.out[v] |-> g.idx[g.out[v][j]]]]

(* graph_deserialize: reads each neighbour's index but connects to the     *)
(* node numbered like the position of that neighbour in the list           *)
Deserialize(nodes, serialized) ==
  FoldLeftDomain(LAMBDA h, k :
                   FoldLeftDomain(LAMBDA m, j : Connect(m, nodes[k], NodeAt(m, j - 1)),
                                  h, serialized[k]),
                 EmptyGraph(nodes), nodes)

=============================================================================
