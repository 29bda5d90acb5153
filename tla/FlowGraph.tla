------------------------------ MODULE FlowGraph ------------------------------
(***************************************************************************)
(* The flow graphs that the encoder builds and the decoders and the        *)
(* checker read, seen through the queries of graph.c.  A node is the index *)
(* it has in graph->nodes, a connection from node u to node v is the pair  *)
(* <<u, v>>, and a graph is the set of its connections.                    *)
(*                                                                         *)
(* The code keeps a linked list per node.  A query that returns the first  *)
(* connection of the list with some property is modelled by the set of the *)
(* nodes it may return: no node the encoder makes has two backedges or two *)
(* forward edges, so that set has at most one element.                     *)
(***************************************************************************)
EXTENDS Integers, FiniteSets

(* The nodes reached by a connection that leaves v, and those that reach v *)
Successors(E, v) == {e[2] : e \in {f \in E : f[1] = v}}
Predecessors(E, v) == {e[1] : e \in {f \in E : f[2] = v}}

(* graph_get_connection *)
Connected(E, u, v) == <<u, v>> \in E

(* graph_get_backedge: a connection that goes to a node with lower index *)
BackedgeTargets(E, v) == {w \in 0..(v - 1) : Connected(E, v, w)}
HasBackedge(E, v) == BackedgeTargets(E, v) # {}

(* graph_get_forward: a connection to a node with greater index, but not   *)
(* immediately after                                                       *)
HasForward(E, v) == \E e \in E : e[1] = v /\ e[2] > v + 1

(* The hamiltonian path over nodes 0..k-1 *)
HamiltonianPath(k) == {<<v, v + 1>> : v \in 0..(k - 2)}

(* The connections outside the hamiltonian path, those that an attack on a *)
(* watermark removes (get_list_of_non_hamiltonian_edges)                   *)
NonHamiltonianEdges(E) == {e \in E : e[2] # e[1] + 1}

=============================================================================
