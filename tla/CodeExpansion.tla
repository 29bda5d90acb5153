---------------------------- MODULE CodeExpansion ----------------------------
(***************************************************************************)
(* dijkstra_generate: the graph that a code stands for.                    *)
(*                                                                         *)
(* dijkstra_generate_recursive calls itself for the nodes of the block it  *)
(* has just made, and each call returns the place from which the next one  *)
(* reads.  pending is the stack of the calls still to be made, one action  *)
(* is the part of a call that comes before those it makes.                 *)
(***************************************************************************)
EXTENDS GraphLists

VARIABLES
  g,                                \* the graph
  rest,                             \* what is left of the code
  pending,                          \* the nodes whose codes come next
  failed                            \* a call has returned NULL

expansionVars == <<g, rest, pending, failed>>

(* graph_create(1), and the call for its node *)
FirstGraph == EmptyGraph(<<0>>)
FirstCall == <<0>>

(* malloc, of which only the identity of the nodes matters *)
New(k) == [j \in 1..k |-> Len(g.nodes) + j - 1]

Expanding == pending # <<>> /\ ~failed
WellFormed == rest # <<>> /\ rest[1] = 1

source == Head(pending)

(* The digit after the 1; a 1 at the end of the code is a trivial node too *)
type == IF Len(rest) > 1 THEN rest[2] ELSE 1

(* The block of new nodes is made, and the nodes in calls are next *)
Make(graph, calls) ==
  /\ g' = graph
  /\ rest' = SubSeq(rest, 3, Len(rest))
  /\ pending' = calls \o Tail(pending)
  /\ UNCHANGED failed

Leaf ==
  /\ Expanding /\ WellFormed /\ type = 1
  /\ rest' = Tail(rest)
  /\ pending' = Tail(pending)
  /\ UNCHANGED <<g, failed>>

Sequence ==
  /\ Expanding /\ WellFormed /\ type = 2
  /\ Make(ExpandToSequence(g, source, New(1)), New(1))

IfThen ==
  /\ Expanding /\ WellFormed /\ type = 3
  /\ Make(ExpandToIfThen(g, source, New(2)), New(2))

While ==
  /\ Expanding /\ WellFormed /\ type = 4
  /\ Make(ExpandToWhile(g, source, New(2)), New(2))

(* MUTANT: the middle node is expanded *)
RepeatMiddle ==
  /\ Expanding /\ WellFormed /\ type = 5
  /\ Make(ExpandToRepeat(g, source, New(2)), New(2))

(* The head is expanded, never the middle node *)
Repeat ==
  /\ Expanding /\ WellFormed /\ type = 5
  /\ Make(ExpandToRepeat(g, source, New(2)), <<source, New(2)[2]>>)

(* The middle nodes are expanded in the order of the list of the source *)
PCase ==
  /\ Expanding /\ WellFormed /\ type >= 6
  /\ LET p == type - 4
         graph == ExpandToPCase(g, source, New(p + 1))
     IN  Make(graph, graph.out[source] \o <<New(p + 1)[p + 1]>>)

(* The code is not that of a graph *)
Fail ==
  /\ Expanding
  /\ ~(WellFormed /\ type # 0)
  /\ failed' = TRUE
  /\ UNCHANGED <<g, rest, pending>>

Step == Leaf \/ Sequence \/ IfThen \/ While \/ Repeat \/ PCase \/ Fail

Expanded == ~Expanding

(* The connections of the graph, between indexes *)
Generated ==
  UNION {{<<g.idx[v], g.idx[w]>> : w \in ToSet(g.out[v])} : v \in InGraph(g)}

=============================================================================
