----------------------------- MODULE CodeReading -----------------------------
(***************************************************************************)
(* Beside the codes of watermarks, those that no watermark has: codes a    *)
(* user types in the menu of watermark.c, and those of the graphs that the *)
(* tests build by expanding the nodes of a graph again and again.  A graph *)
(* is generated from the code, and the code of that graph is computed.     *)
(***************************************************************************)
EXTENDS WatermarkCode, StructuredCodes

CONSTANTS
  MaxBlocks,                        \* the blocks of a well-formed code
  MaxLength,                        \* the length of any other code
  MaxExpansions,                    \* how often nodes are expanded
  MaxCases                          \* the branches of a case

VARIABLES
  origin,                           \* "watermark", "typed" or "computed"
  given,                            \* the code
  expansions

readingVars == <<origin, given, expansions>>
allVars == <<watermarkVars, readingVars>>

TypedCodes == CodesOf(MaxBlocks, 2..7) \cup BoundedSeq(0..7, MaxLength)

(* "read" generates the graph of the given code, "name" and "rename"       *)
(* compute the code of a graph: of an expanded one, and of a generated one *)
CRInit ==
  \/ WCInit /\ origin = "watermark" /\ given = <<>> /\ expansions = 0
  \/ /\ data = [k \in 0..(NumBits - 1) |-> 0] /\ Init /\ LocalsInit
     /\ \/ phase = "read" /\ origin = "typed" /\ given \in TypedCodes
        \/ phase = "expand" /\ origin = "computed" /\ given = <<>>
     /\ rest = given /\ expansions = 0

OfWatermark == WCNext /\ origin = "watermark" /\ UNCHANGED readingVars

(* node_expand_to_... of any node *)
Expand ==
  /\ phase = "expand" /\ expansions < MaxExpansions
  /\ \E v \in X!InGraph(g) :
       \/ g' = X!ExpandToSequence(g, v, X!New(1))
       \/ g' = X!ExpandToIfThen(g, v, X!New(2))
       \/ g' = X!ExpandToWhile(g, v, X!New(2))
       \/ g' = X!ExpandToRepeat(g, v, X!New(2))
       \/ \E p \in 2..MaxCases : g' = X!ExpandToPCase(g, v, X!New(p + 1))
  /\ expansions' = expansions + 1
  /\ UNCHANGED <<vars, removed, phase, origin, given, rest, pending, failed, contractionVars>>

(* The connections of the graph, by index *)
ListsByIndex == [k \in 0..(Len(g.nodes) - 1) |->
            LET v == X!NodeAt(g, k) IN [j \in DOMAIN g.out[v] |-> g.idx[g.out[v][j]]]]

StartNaming(next) ==
  /\ phase' = next
  /\ out' = ListsByIndex
  /\ node' = P!LastNode' /\ sink' = P!OwnSinks'
  /\ code' = P!TrivialCodes' /\ codeLen' = P!TrivialLens'
  /\ UNCHANGED <<vars, removed, origin, given, expansions, expansionVars>>

Name == phase = "expand" /\ expansions > 0 /\ StartNaming("name")

ContractNamed ==
  /\ phase \in {"name", "rename"}
  /\ ~P!TooDense /\ P!NumConnections > 0
  /\ P!Step
  /\ UNCHANGED <<vars, removed, phase, origin, given, expansions, expansionVars>>

StartReading ==
  /\ phase = "name" /\ P!Contracted /\ P!IsDijkstraGraph
  /\ phase' = "read"
  /\ given' = P!Code
  /\ g' = X!FirstGraph /\ rest' = P!Code
  /\ UNCHANGED <<vars, removed, origin, expansions, pending, failed, contractionVars>>

Read ==
  /\ phase = "read"
  /\ X!Step
  /\ UNCHANGED <<vars, removed, phase, origin, given, expansions, contractionVars>>

CodeAgain ==
  phase = "read" /\ X!Expanded /\ ~failed /\ StartNaming("rename")

Finished == phase = "rename" /\ (P!NumConnections = 0 \/ P!Contracted)

RestRead ==
  /\ Finished \/ failed \/ (phase = "name" /\ P!Contracted /\ ~P!IsDijkstraGraph)
  /\ UNCHANGED allVars

CRNext ==
  \/ OfWatermark
  \/ Expand \/ Name \/ ContractNamed \/ StartReading
  \/ Read \/ CodeAgain \/ RestRead

CRSpec == CRInit /\ [][CRNext]_allVars

-----------------------------------------------------------------------------
(* A code from which a graph was generated to its last character is the    *)
(* code of that graph, and the graph is recognised; a code computed from a *)
(* graph can always be generated from.  Both functions are recursions over *)
(* lists whose order the expansions decide (dijkstra.c:360,464), and each  *)
(* has its own idea of which part of a repeat was expanded                 *)
(* (dijkstra.c:291,491).                                                   *)
CodeIsReadBack ==
  /\ Finished /\ (rest = <<>> \/ origin = "computed") =>
       /\ P!Code = given
       /\ P!NumConnections = 0 \/ P!IsDijkstraGraph
  /\ origin = "computed" => ~failed

=============================================================================
