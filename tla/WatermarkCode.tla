---------------------------- MODULE WatermarkCode ----------------------------
(***************************************************************************)
(* A watermark is built, it or a copy of it loses some connections, the    *)
(* code of what is left is computed, and a graph is generated from it.     *)
(* CodeReading adds the graphs and codes that no watermark has.            *)
(***************************************************************************)
EXTENDS Encoder, SequencesExt

CONSTANTS
  MaxRemoved,                       \* how many connections may be lost
  MaxNode                           \* bound on the nodes generated from a code

ASSUME MaxRemovedAssumption == MaxRemoved \in Nat

VARIABLES
  phase,                            \* "encode", "contract", "generate", "done";
                                    \* "expand", "name", "read", "rename" in CodeReading
  removed,                          \* the connections lost
  out, node, sink, code, codeLen,   \* of dijkstra_get_code
  g, rest, pending, failed          \* of dijkstra_generate

P == INSTANCE PrimeContraction
X == INSTANCE CodeExpansion WITH NodeId <- 0..MaxNode

contractionVars == <<out, node, sink, code, codeLen>>
expansionVars == <<g, rest, pending, failed>>
watermarkVars == <<vars, phase, removed, contractionVars, expansionVars>>

(* The list of the connections that leave v, as the encoder's calls leave  *)
(* it: each new connection becomes the root, so the one outside the path   *)
(* comes first.  A copy has its lists reversed.                            *)
OutList(E, v) ==
  SetToSeq(Successors(E, v) \ {v + 1})
  \o (IF Connected(E, v, v + 1) THEN <<v + 1>> ELSE <<>>)

Lists(E) == [v \in 0..(numNodes - 1) |-> OutList(E, v)]
CopiedLists(E) == [v \in 0..(numNodes - 1) |-> Reverse(OutList(E, v))]

LocalsInit ==
  /\ removed = {}
  /\ out = Lists(edges)
  /\ node = P!LastNode /\ sink = P!OwnSinks
  /\ code = P!TrivialCodes /\ codeLen = P!TrivialLens
  /\ g = X!FirstGraph /\ pending = X!FirstCall /\ failed = FALSE

WCInit ==
  /\ Init
  /\ LocalsInit
  /\ phase = "encode" /\ rest = <<>>

Encode ==
  /\ phase = "encode" /\ ~Encoded
  /\ Next
  /\ UNCHANGED <<phase, removed, contractionVars, expansionVars>>

(* When a block is contracted *)
Contracting == {"contract", "name", "rename"}

StartContracting ==
  /\ phase = "encode" /\ Encoded
  /\ \E R \in SUBSET NonHamiltonianEdges(edges) :
       /\ Cardinality(R) <= MaxRemoved
       /\ removed' = R
       /\ out' \in {Lists(edges \ R), CopiedLists(edges \ R)}
  /\ node' = P!LastNode' /\ sink' = P!OwnSinks'
  /\ code' = P!TrivialCodes' /\ codeLen' = P!TrivialLens'
  /\ phase' = "contract"
  /\ UNCHANGED <<vars, expansionVars>>

Contract ==
  /\ phase = "contract"
  /\ ~P!TooDense
  /\ P!Step
  /\ UNCHANGED <<vars, phase, removed, expansionVars>>

StartGenerating ==
  /\ phase = "contract" /\ P!Contracted
  /\ phase' = "generate"
  /\ rest' = P!Code
  /\ UNCHANGED <<vars, removed, contractionVars, g, pending, failed>>

Generate ==
  /\ phase = "generate"
  /\ X!Step
  /\ UNCHANGED <<vars, phase, removed, contractionVars>>

Return ==
  /\ phase = "generate" /\ X!Expanded
  /\ phase' = "done"
  /\ UNCHANGED <<vars, removed, contractionVars, expansionVars>>

Rest ==
  /\ phase = "done" \/ (phase = "contract" /\ P!TooDense)
  /\ UNCHANGED watermarkVars

WCNext ==
  \/ Encode \/ StartContracting \/ Contract
  \/ StartGenerating \/ Generate \/ Return \/ Rest

-----------------------------------------------------------------------------
(* Every watermark, and every copy of one, is a structured program that    *)
(* dijkstra_check accepts (test.c:540-553 tries some keys): the tests of   *)
(* the loop tell while and repeat blocks apart by the directions of their  *)
(* connections alone (dijkstra.c:111-147), in whichever order these come.  *)
WatermarksAreRecognised ==
  phase = "contract" /\ removed = {} =>
    /\ ~P!TooDense
    /\ P!Contracted => P!IsDijkstraGraph

(* Each contraction moves the sink of its block forward, whatever has been *)
(* lost: the loop at a node (dijkstra.c:262,419) has no other bound.       *)
SinksMoveOn ==
  [][(phase \in Contracting) /\ P!Contract => sink'[node] > sink[node]]_watermarkVars

(* dijkstra_get_code reads only codes that it has not freed, each part has *)
(* been contracted into one block only and there once, and the string      *)
(* written fits in the bytes allocated for it, end of string included      *)
(* (dijkstra.c:280-298,309-368), whatever has been lost.                   *)
CodesAreLive ==
  [][(phase \in Contracting) /\ P!Contract =>
       /\ Len(code'[node]) < codeLen'[node]
       /\ LET p == P!NonTrivialPrime(node)
              parts == P!Parts(node, p.type)
          IN  /\ IsInjective(parts)
              /\ \A w \in ToSet(parts) : w # node /\ code[w] # <<>>]_watermarkVars

(* The graph generated from the code of a watermark, intact or still a     *)
(* structured program after its losses, has the same connections between   *)
(* the same indexes: the watermark can be decoded from it (test.c:654-664).*)
CodeIsTheGraph ==
  phase = "done" /\ P!IsDijkstraGraph =>
    /\ ~failed /\ rest = <<>>
    /\ X!Generated = edges \ removed

=============================================================================
