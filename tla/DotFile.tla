-------------------------------- MODULE DotFile --------------------------------
(***************************************************************************)
(* graph_create_from_dot: a line of the file connects two nodes by their   *)
(* names, and a hash map gives a name the number it had when it was first  *)
(* met.  The files are those a compiler writes of a function: a line may   *)
(* be repeated, and an origin may carry the port its connection leaves     *)
(* from.  What is scanned without being a connection is left out.          *)
(*                                                                         *)
(* Names are numbered here as they are first met.  The bucket of a name is *)
(* arbitrary and chosen then.                                              *)
(***************************************************************************)
EXTENDS GraphLists, HashMap, FiniteSets

CONSTANTS
  MaxNodes,                         \* HASHMAP_SIZE, the nodes allocated
  MaxLines                          \* bound on the lines

ASSUME DotFileAssumption ==
  /\ MaxNodes \in Nat /\ 0..(MaxNodes - 1) \subseteq NodeId
  /\ Bucket # {}

VARIABLES
  g,
  chains,                           \* HASHMAP.hashmap
  bucketOf,                         \* the bucket of each name met
  numNodes,
  phase                             \* "read", "overrun", "loaded" ...

loaderVars == <<g, chains, bucketOf, numNodes, phase>>

LoaderInit ==
  /\ g = EmptyGraph([j \in 1..MaxNodes |-> j - 1])
  /\ chains = NoChains
  /\ bucketOf = <<>>
  /\ numNodes = 0
  /\ phase = "read"

Names == Cardinality(DOMAIN bucketOf)

(* What strrchr leaves of a string: all up to its last colon *)
Key(string) == IF Len(string) > 1 THEN Front(string) ELSE string
Plain(name) == <<name>>
Port(name) == <<name, "port">>

(* The map m.chains and the count m.n after a name was looked up and, if   *)
(* it was not there, given the next number                                 *)
Number(m, bucket, name) ==
  IF Find(m.chains, bucket[name], name) # {} THEN m
  ELSE [chains |-> Set(m.chains, bucket[name], name, m.n), n |-> m.n + 1]

IndexOf(m, bucket, name) ==
  (CHOOSE e \in Find(m.chains, bucket[name], name) : TRUE).data

(* A line of the file.  An index past the allocated nodes is used as any.  *)
ReadLine(from, to) ==
  /\ phase = "read"
  /\ g.numConnections < MaxLines
  /\ \E b \in [{Key(from)[1], Key(to)[1]} \ DOMAIN bucketOf -> Bucket] :
       LET v == Key(from)[1]
           w == Key(to)[1]
           bucket == [name \in DOMAIN bucketOf \cup {v, w} |->
                        IF name \in DOMAIN bucketOf THEN bucketOf[name] ELSE b[name]]
           m == Number(Number([chains |-> chains, n |-> numNodes], bucket, v), bucket, w)
           i == IndexOf(m, bucket, v)
           j == IndexOf(m, bucket, w)
       IN  /\ bucketOf' = bucket
           /\ chains' = m.chains
           /\ numNodes' = m.n
           /\ IF i >= MaxNodes \/ j >= MaxNodes
              THEN phase' = "overrun" /\ UNCHANGED g
              ELSE /\ g' = Connect(g, NodeAt(g, i), NodeAt(g, j))
                   /\ UNCHANGED phase

Read ==
  \E v \in 1..(Names + 1) : \E w \in 1..(IF v > Names THEN v + 1 ELSE Names + 1) :
    \/ ReadLine(Plain(v), Plain(w))
    \/ ReadLine(Port(v), Plain(w))

(* The map is freed, and so are the nodes that no name was given *)
Load ==
  /\ phase = "read"
  /\ phase' = "loaded"
  /\ g' = [g EXCEPT !.nodes = SubSeq(@, 1, numNodes)]
  /\ chains' = NoChains /\ bucketOf' = <<>>
  /\ UNCHANGED numNodes

-----------------------------------------------------------------------------
(* Each name met has one node, its own, from the line that first names it  *)
(* to the last, whichever names share its chain and whatever port it is    *)
(* written with; the array is overrun only by more names than it has nodes *)
(* (graph.c:486,490,495, hashmap.c:83).                                    *)
NamesAreNodes ==
  phase \in {"read", "overrun"} =>
    /\ numNodes = Names
    /\ \A name \in DOMAIN bucketOf :
         Find(chains, bucketOf[name], name) = {Entry(name, name - 1)}
    /\ phase = "overrun" <=> Names > MaxNodes

=============================================================================
