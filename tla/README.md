# Verification of software-watermark

TLA+ models of the watermarking library in `src/` and of the program built on
it: the encoder that writes a key as a control-flow graph, the decoders and the
checkers that read it, with and without Reed-Solomon parity; the graph library
and the dot loader below them; the recognition and generation of structured
("Dijkstra") graphs and of C programs above them; and the program's two larger
loops, the measurement by threads and the comparison with a C file. TLC checks
the models on small instances, and TLAPS proves the safety properties of the
encoder, both decoders, the checker, the parity's framing, the graph library,
the dot loader, the sort and the harness for keys, graphs and files of every
size.

1. [The system](#1-the-system)
2. [Modules and their code](#2-modules-and-their-code)
3. [Runs](#3-runs)
4. [Proofs](#4-proofs)
5. [Findings](#5-findings)
6. [Abstractions](#6-abstractions)
7. [Not modelled, and the plan](#7-not-modelled-and-the-plan)

## 1. The system

A watermark is a key written as a flow graph: a hamiltonian path (node k is
followed by node k+1) and, node by node, one bit per node. A bit is the parity
of the length of a backedge, or a forward edge over one node. The node a
forward edge leads to is *mute*: it carries no bit. Two stacks, one for nodes
of even and one for nodes of odd index, hold the nodes a later backedge may
reach so that the blocks nest; `history[v]` is the count of the other stack
when v was pushed.

| Component (source, below `src/`) | State it keeps | Operations | Hard part |
|---|---|---|---|
| encoder (`src/encoder/encoder.c`) | graph, two stacks, `history`, `i`, `idx` | `watermark_encode` (+ `..8`, `rs`, `2014`) | arrays sized before it is known how many nodes are visited; the loop takes back its step on mute nodes; `rand()` picks destinations |
| plain decoder (`src/decoder/decoder.c`) | node, bits | `watermark_decode` | last bit when the path ends at a forward edge |
| improved decoder (same file) | as the encoder, and what is left to be found | `watermark_decode_improved` | guesses lost connections with the key's size; a wrong guess shifts all that follows |
| checker (`src/checker/checker.c`) | as the encoder, and positions of nodes in the stacks | `watermark_check`, `watermark_check_analysis` (+ `rs`) | must never refuse a copy that lost little; looks one bit ahead; its loop exists twice |
| Reed-Solomon framing (`src/rs_api/rs.c`, `src/utils/utils.c`) | bits, bytes, symbols | `append_rs_code`, `remove_rs_code`, `remove_rs_code8`, left zeros, merging | a bit read at the wrong place is a wrong symbol; lengths are rounded in several ways |
| stacks, bit helpers (`src/utils/utils.c`) | array and count | push, pop, pop until, `get_backedge_index`... | "pop until" assigns the count |
| graph, node, connection (`src/graph/graph.c`, `src/node/node.c`, `src/connection/connection.c`) | array of nodes, index in each node, list of connections out and in, counts | add, insert, swap, isolate, delete, connect, disconnect, copy, expansions, (de)serialize | one connection is in two lists and three counts |
| topological sort (`src/graph/graph.c`) | marks, lists still to follow, stack, result | `graph_topological_sort` | cycles, nodes out of reach |
| structured programs (`src/dijkstra/dijkstra.c`) | sink and code of each block | `dijkstra_check`, `dijkstra_get_code`, `dijkstra_generate` | contraction decides from local shape; buffers sized apart from what is written |
| dot loader (`src/graph/graph.c`), hash map (`src/hashmap/hashmap.c`) | names to indexes, chains | `graph_create_from_dot`, `hashmap_set`, `hashmap_get` | chains of many names; fixed number of nodes |
| sequence alignment (`src/sequence_alignment/`) | table of scores | `watermark_needleman_wunsch` | each cell needs three filled before it |
| code generation (`src/code_generation/`) | place in the code, table of identifiers | `watermark_generate_code` | recursion that consumes what it reads and does not notice a call that failed; declarations are written apart from uses |
| comparison (`watermark.c`, `ask_for_comparison`) | best code and score | compare files, write programs | files come in any order |
| attack harness (`watermark.c`, `attack`) | matrix of worst cases, shared by OpenMP threads | removal of all combinations, counting | threads, one critical section for the count and the codec, combinations, the size of the matrix |
| set (`src/set`), Reed-Solomon codec, menus, examples, tests, build | | | |

How they interact: all calls are direct and synchronous, and the only
concurrency is the parallel loop of the harness. Encoder, decoders and checker
share one convention, what each stack holds at each node, but not its state:
each replays it from the graph alone, so an error of one shows when their
states are compared along the same graph. The harness hands the keys of one
length to threads; a thread encodes a key, copies the graph, removes
connections, decodes, and raises a count of the shared matrix; with Reed-Solomon
it encodes and decodes through `rs.c`, whose steps enter the section that guards
the matrix, as neither has a name. The recognition
contracts a graph from its last node to its first and writes a code; the
generator expands a code with the same `node_expand_to_...` operations that the
tests use; the order of the lists, which a copy reverses, connects the two with
the graph library. A graph of a dot file is sorted before it is recognised; the
codes of the functions of a C file are aligned with the code of a watermark,
and the C program of a code is written.

What makes each part correct:

- **encoder**: stays in its arrays; blocks nest; a closed block is never
  entered again; the graph is one the block grammar derives for the key.
- **decoders**: an intact graph gives the key; after losses, what can be
  recovered is, one loss costs at most one bit, and no guess leaves the arrays.
- **checker**: the graph's own key is refused only if a connection that stood
  for a 1 is gone; a wrong key is accepted only within a stated distance.
- **graph library**: indexes, mirrored lists and counts agree after any
  sequence of calls; an expansion is a block with one entry and one exit.
- **parity**: the bits read come back to the places of the key, whatever zeros
  it starts with, so that one wrong bit costs one symbol; what cannot be read is
  reported.
- **loader and sort**: a name is one node, whichever names share its chain; only
  connections that close a cycle go back.
- **structured programs**: every watermark, and every copy, is recognised;
  code and graph determine each other; contraction ends; buffers are large
  enough and nothing freed is read.
- **alignment, comparison**: the score is that of the best alignment; the choice
  does not depend on the order of the files.
- **code generation**: braces enclose exactly what the reader of the code takes
  for a part; what is used is declared.
- **harness**: every key is counted once, every set of connections is removed
  once, and no thread waits for ever.

`PROJECT.json` lists the hazards of the code, each at its line, with the
properties that cover it or the reason why none does yet.

## 2. Modules and their code

```
FlowGraph <- BackedgeStacks <- Encoder <- EncoderGrammar  (refines BlockGrammar)
                  |               |  \--- EncoderProofs
                  |               |------ RoundTrip       (Decoder; EncoderGrammar; refines KeyChannel)
                  |               |------ KeyedDecoding   (ImprovedDecoder), with RsFraming
                  |               |------ KeyCheck        (Checker <- CheckAnalysis), with RsFraming
                  |               \------ WatermarkCode   (PrimeContraction, CodeExpansion)
                  |                            \--------- CodeReading, with StructuredCodes
GraphLists <- GraphOperations <- MCGraphOperations
     |\----- DotFile, with HashMap <- TopologicalSort
     \------ CodeExpansion
SequenceAlignment, StructuredCodes, CodeGeneration <- Comparison

EncoderProofs <- RoundTripProofs
EncoderProofs, RsFramingProofs <- KeyCheckProofs, KeyedDecodingProofs
GraphOperationsProofs
TopologicalSortProofs
AttackProofs
```

An arrow is EXTENDS, and so is "with"; the modules in parentheses are instances.
A module `XProofs` extends `X` and holds the proofs about it; `EncoderProofs`
also holds those about `EncoderGrammar`, and `GraphOperationsProofs` those about
`GraphLists`.
The encoder, the decoders and the checker are loops over nodes: **one action is
one iteration, for one outcome of its conditions**, the locals of the function
are the variables, and the state before the loop is `Init` (or the initial
operators of the instance). Lines are in `PROJECT.json`, "map".

| Module | Models | State and actions |
|---|---|---|
| `FlowGraph` | queries of `graph.c` that the loops use | a graph is the set of its connections `<<u, v>>` |
| `BackedgeStacks` | `STACK`, `has_possible_backedge`, `get_backedge_index` | a stack is `mem` and a count `n`; what is popped stays in `mem` |
| `Encoder` | `watermark_encode` | `VisitMute` (`i--`), `BuildWhile`, `BuildIf` (inside a forward edge), `BuildRepeat` (backedge to any position `rand()` may give, both stacks cut), `OpenForward` (a node added), `VisitZero` |
| `BlockGrammar` | what a key's graph is, without stacks | abstract specification: `Join`, `Repeat`, `Open`, `CloseWhile`, `CloseIf`, `Straight` |
| `EncoderGrammar` | encoder and grammar side by side | refinement mapping |
| `Decoder` | `watermark_decode` | `SkipMute`, `ReadForward`, `ReadBackedge`, `Result` |
| `RoundTrip` | encode, then decode | phases; fairness of the whole next-state relation |
| `KeyChannel` | what a watermark is for | abstract specification: `Deliver`, once and surely |
| `ImprovedDecoder` | `watermark_decode_improved` | one action per branch: `SkipMute`, `ReadForward`, `ReadBackedge`, `ReadLostBackedge`, `ReadLostForward` (rule 2.6), `AssumeForward` (2.7, 2.9), `ReadZero` (2.8, 2.10, 2.11), with the count of forward edges still missing and the flags kept between iterations |
| `RsFraming` | `rs.c`, and the conversions of `utils.c` between bits, bytes and symbols | operators on blocks of memory: left zeros removed and added, symbols merged and unmerged, what a correction may give |
| `KeyedDecoding` | encode, lose connections, decode with the key, correct: `_test_with_removed_connections`, `watermark_rs_decode_improved` | `Encode`, `Remove`, `Decode`, `Correct` |
| `Checker` | `watermark_check` | status of a node, verdict |
| `CheckAnalysis` | `watermark_check_analysis`, the loop once more | marks instead of a verdict: `AnalyseMute`, `AnalyseZero`, `AnalyseBackedge`, `AnalyseWrongBackedge`, `AnalyseForward` |
| `KeyCheck` | encode, lose connections, check a key, analyse, correct | `Encode`, `StartChecking`, `Check`, `StartAnalysing`, `Analyse`, `RsCheck`; when the sizes differ `ReturnNoMarks`, and `RsCheckNoMarks` (NULL is followed) |
| `GraphLists` | graph, node and connection operations as functions on one record; each loop of them is a fold with a name of its own | `nodes`, `idx`, `out`, `in`, `numOut`, `numIn`, `numConnections` |
| `GraphOperations` | any sequence of calls | one action per function |
| `HashMap` | `hashmap_find`, `hashmap_set` | chains of entries |
| `DotFile` | `graph_create_from_dot` | `ReadLine` for each line of any file, `Load` |
| `TopologicalSort` | `graph_topological_sort` on the graph of a dot file | `ReturnEmpty`, `Start`, `Visit`, `Leave`, `Return` |
| `PrimeContraction` | `dijkstra_check` and `dijkstra_get_code` | `Contract` and the move to the previous node |
| `CodeExpansion` | `dijkstra_generate` | one action per digit read; recursion is the list of pending calls |
| `WatermarkCode` | a watermark (or its copy) loses connections, is recognised, and generated again | phases over the two above |
| `StructuredCodes` | the codes there are, and how they are read (`dijkstra_generate_recursive`) | the set of codes of a number of blocks, with numbers of one or two digits; `ReadTo`: where reading goes on after a node, or NULL |
| `CodeReading` | as `WatermarkCode`, and codes that are typed, or computed from graphs made by expansions | phases over the same machines |
| `SequenceAlignment` | `watermark_needleman_wunsch` | a function: the table filled in the order of the code |
| `CodeGeneration` | `watermark_generate_code` | one action per kind of block, and `Fail`, a call that returns NULL; frames are the calls that wait; the identifiers drawn |
| `Comparison` | `ask_for_comparison`, for a watermark that is computed or typed | `Compare` with any file, then the two programs |
| `Attack` | `attack`, and `rs_encode` and `rs_decode` as far as they enter its critical section | a thread's `Take`, `Test`, `Enter`, `Raise`; for the codec `GetRsStruct`, `ExitInRsStruct`, `Code`, `FreeRs`; `NextRound`, `WriteReport` |

The operators marked `MUTANT` are plausible errors of the definition that
follows them; `PROJECT.json`, "mutants", names for each property the error
that violates it.

## 3. Runs

States are distinct states found by TLC.

| Run | Instance | Shows |
|---|---|---|
| `round_trip` | all 10-bit data, every draw; 36 755 states | the encoder: `MemorySafe`: no access leaves `nodes`, `history` or the stacks; `BlocksNest`; `RewindsOnlyPop`: closing a block never brings destinations back; `ImplementsGrammar`: every step is one the grammar of blocks allows. `DecodedKey`: the plain decoder returns the key exactly; `ImplementsChannel`: both loops end although mute nodes take back their step |
| `keyed_decoding` | all 10-bit data, any set of up to 3 lost connections; with parity, one symbol of 2 bits and four parity symbols; 862 109 states | lost forward edges are all recovered (whatever their number); one loss costs at most one bit, and only a 1 whose backedge was lost; wrong guesses keep stacks and bits in bounds; with parity, up to two losses that do not hide each other cost nothing |
| `decoder_stacks` | all 8-bit data, intact | **violation**: the improved decoder raises a stack's count (finding 2) |
| `key_check` | all 8-bit data, keys that differ in up to 2 bits, up to 2 losses, two parity bytes of two bits; 1 254 683 states | the graph's key is refused only if something that stood for a 1 is gone; an intact graph accepts another key only if it has a single additional 1; rewinds and accesses stay in bounds; the analysis marks nothing exactly when the check accepts, one mark at most for each loss and each wrong bit; of as many losses as the parity is good for none is left after correction if no forward edge is among them, and if one is there are no marks and NULL is followed (finding 5) |
| `key_check_sound` | intact, up to 1 bit differs | **violation**: an intact graph passes for another key (finding 1) |
| `graph_lists` | 4 nodes, up to 6 connections, multi-edges and self loops; 40 930 states up to symmetry | indexes, lists and counts agree after every sequence of calls; a copy reverses the lists; an expansion is a block |
| `graph_serialize` | 3 nodes, 3 connections | **violation**: a graph read back has other connections (finding 3) |
| `topological_sort` | every dot file of up to 5 lines with repeated lines and ports, chains of names in two buckets, 4 nodes allocated; 546 195 states | a name is one node, and only a fifth name overruns the array; only connections that close a cycle go back; the sort fails exactly when a node is out of reach |
| `code_reading` | all watermarks of 8 bits, original and copy, up to 2 losses; codes of up to 3 blocks, strings of up to 5 digits, graphs of up to 3 expansions with up to 5 branches; 926 266 states | every watermark is recognised and its code gives the graph back; generating and computing a code are inverse; contraction moves on; buffers suffice and freed codes are not read |
| `code_reading_cases` | one expansion, 6 branches | **violation**: the code of six branches is misread (finding 4) |
| `attack` | 2 threads, keys of up to 3 bits, or of one symbol of 2 bits and two of parity, without 1 or 2 of up to 3 connections; also three of parity, for which there is no codec; 832 532 states | no count is lost or made twice; every set of connections is removed once; only a failed correction can count beside the matrix; unless the process exits, the report is written in the end or the section is kept by the return of `rs.c:53` (finding 6) |
| `comparison` | 12 watermarks of up to one block, some with text after the end; up to 2 files with functions of up to 2 blocks, a switch of six branches among them, codes of up to 14 characters, 3 identifiers; 279 495 states | the score is the best of all alignments; the function chosen does not depend on the order; braces enclose what the reader of the code takes for a part, however far that goes (finding 7); identifiers are declared unless the table was used up |

**Why the bounds are enough.** Data of `NumBits` bits include all shorter
keys, as leading zeros are dropped; all-zero data stand for a key one bit
longer. TLC gives the shortest keys on which the interesting cases happen: two
blocks nest from 5 bits on, four backedges are there from 7 bits on, and
backedges nest three deep at 10 bits. A stack that is cut wrongly shows from 5
bits on in the encoder and from 6 bits on in the decoder (finding 2); the
checker's error (finding 1) needs 2 bits. The runs have 8 to 10 bits. Rules
2.6, 2.7 and 2.9 of the decoder look at a few neighbours of a node, at the
stacks and at the number of forward edges still missing, and three losses are
more than a single guess can meet; a run with all losses would be nearly as
large as the set of all graphs. Four nodes
make a list with a first, a middle and a last element, with moves over more
than one index, and the largest expansion (case, three new nodes). Expansion is
bounded by `MaxConnected`, the connections that are added one by one, so that
the rest of the bound is there for expansions. The code of a case has one digit
up to five branches: the bound is the last value before the failing one.

A byte of eight bits would hold all of a small key, so the width of a byte is a
parameter of `RsFraming` (`ByteBits`): with two bits to a byte, a key of 8 bits
has zeros that fill bytes and zeros that do not, in the payload, which is where
the conversions differ. Two parity bytes correct one, and a symbol of several
bits can be hit twice; in `keyed_decoding` four parity symbols correct two, as
it takes two losses for one to hide the other. The loader allocates 512 nodes and has 512 chains, of
which nearly all names use five: `MaxNodes` and `Bucket` stand for them, and five
lines name six nodes, enough for chains of three, for repeated names and for one
name too many. Five connections on four nodes make two cycles that share a node,
and a component out of reach. Two threads interleave in every way there is to
raise one count; keys of three bits are four, so that a thread comes back while
the other is still busy, and the rows of three lengths are filled; three
connections leave combinations of every kind (first, middle, last), and one or
two the set of all of them. A symbol of 2 bits allows three symbols, so that two
of parity are as many as there may be and three are one too many. In `comparison` a
function of two blocks draws more identifiers than the three of the table, so
that it wraps; two files have both orders; and 14 characters are enough for a
switch of six branches alone, in line with another block, or inside a switch of
two, where a call gets NULL.

**Symmetry** is used in `graph_lists` only: `NodeId` is what `malloc` returns,
and nothing in the module orders its elements; no property there is a liveness
property. `TopologicalSort` takes numbers and no symmetry.

**Deadlock** is checked in every run: a function that has returned stays in its
last state by an action of its own (`Stop`, `Rest`).

**Fairness.** Every modelled function but `attack` is sequential and its caller
waits for it. `RoundTrip` assumes weak fairness of its whole next-state
relation, that a program that can take a step takes one; no choice is fair, so
termination does not depend on `rand()`. `Attack` assumes weak fairness of each
thread, as the scheduler of an operating system gives it, and of the sequential
code between the parallel loops. It does not assume that the critical section
is fair (OpenMP does not promise it): no thread comes back to it for ever, so a
thread that waits gets in when there are no keys left for the others. A thread
that still has the section when it wants to enter it is not helped by any
fairness (finding 6). The other
specifications have no fairness; that the contraction ends is shown as an action
property (`SinksMoveOn`: every contraction moves a bounded number up).

## 4. Proofs

Theorems hold for every value of the constants that satisfies the assumptions
of the modules they are about, and for every choice that a specification
leaves open:

| Modules | Hold for | Assumption |
|---|---|---|
| `EncoderProofs`, `RoundTripProofs` | keys of every length, all data, every draw of `rand()` | `NumBitsAssumption`: there is a bit (no caller encodes none) |
| `KeyCheckProofs` | the same, any lost connections, any key asked about, parity of any length | `KeyCheckAssumption`, `ByteBitsAssumption`: bytes have bits, and parity leaves some for the key |
| `KeyedDecodingProofs` | the same, any connections outside the path lost, symbols of any size, parity of any length | `KeyedDecodingAssumption`: symbols fill the key, and parity leaves some for the payload |
| `RsFramingProofs` (lemmas for both) | bytes and symbols of every size | `ByteBitsAssumption`: bytes have bits |
| `GraphOperationsProofs` | graphs of any size, multi-edges and self loops, any sequence of calls | `GraphOperationsAssumption`: memory is finite |
| `TopologicalSortProofs` | files of any length, any number of nodes, names and chains | `DotFileAssumption`: the nodes are 0 to `MaxNodes` − 1, and there is a chain |
| `AttackProofs` | any set of threads, keys of any length, symbols of any size | `AttackAssumption`: sizes are positive |

| Theorem | Property | States |
|---|---|---|
| `TypeCorrect` | `TypeOK` | types of the encoder's state |
| `AccessesInBounds` | `MemorySafe` | no access of the encoder leaves its array |
| `SavedCountsValid` | | a count in `history` is valid as long as its node is in a stack |
| `NothingComesBack` | `RewindsOnlyPop` | closing a block never raises a count |
| `StacksHoldOpenNodes` | | the stacks hold exactly the open nodes |
| `EncoderFollowsGrammar` | `ImplementsGrammar` | refinement of the grammar of blocks |
| `EveryGraphIsStructured` | `BlocksNest` | blocks nest, and are entered and left at their ends |
| `NodesMeanTheirBits` | | the nodes can be numbered with the bits they stand for |
| `KeyIsReadBack` | `DecodedKey` | the plain decoder returns the key |
| `RoundTripIsSafeChannel` | | the safety part of `ImplementsChannel`: both lead to a state or a step of `KeyChannel` |
| `StacksFollowTheGraph` | | the checker's stacks never lack a node that a backedge still leads to |
| `CheckerOnlyPops` | `CheckerRewindsOnlyPop` | a backedge that is accepted leads into the stack |
| `CheckerStaysInBounds` | `CheckerMemorySafe` | stacks and key of the check |
| `AnalysisStaysInBounds` | `AnalysisKeepsBounds` | stacks, key and marks of the analysis |
| `KeyIsNeverRefused` | `RefusalNeedsALostOne` | the graph's own key is refused only if something that stood for a 1 is lost |
| `WrongKeysAreClose` | `WrongKeyAddsOneBit` | an intact graph passes only for its key or for one with a single further 1 |
| `AnalysisRepeatsTheCheck` | `AnalysisAgreesWithVerdict` | the second copy of the loop marks nothing exactly if the first accepts |
| `FaultsAreNotMultiplied` | `EachFaultCostsOneMark` | no more marks than connections lost and bits that differ |
| `LostBackedgesAreForgiven` | `RsForgivesLostBackedges` | of as many losses as the parity is good for no mark is left if no forward edge is among them; there are no marks to correct only if one is |
| `DecoderDoesNotFallBehind` | | whatever is lost, the improved decoder is never behind the key |
| `DecoderStaysInBounds` | `DecoderKeepsBounds` | its stacks, its bits, and the length of what it returns |
| `DecoderStaysInStep` | | unless losses hide each other it is at the bit of its node, and a wrong bit is a lost backedge |
| `LostForwardsAreFound` | `LostForwardEdgesAreRecovered` | any number of forward edges lost cost nothing |
| `OneLossIsOneBit` | `OneLossCostsOneBit` | one loss costs at most one bit, a 1 whose backedge was lost |
| `PayloadsAreRepaired` | `LossesAreRepaired` | losses within half the parity that do not hide each other cost the payload nothing |
| `NodesKnowTheirIndexes` | `IndexesAgree` | array and indexes agree |
| `ListsAgree` | `ListsMirrored` | a connection is as often in the one list as in the other, and both ends are in the graph |
| `CountsAreLengths` | `CountsAgree` | the three counts |
| `CopiesAreReversed` | `CopyReversesLists` | a copy has the lists reversed |
| `ExpansionsMakeBlocks` | `ExpansionIsABlock` | an expansion is entered at its first and left at its last node, and touches nothing else |
| `NamesHaveTheirNodes` | `NamesAreNodes` | a name is one node, whoever shares its chain |
| `OrderIsTopological` | `OnlyCyclesGoBack` | only what closes a cycle leads back |
| `SearchPlacesWhatItReaches` | `ReachedNodesArePlaced` | exactly what the source reaches is placed, once |
| `NoCountIsLost` | `EveryKeyIsCounted` | no key is counted twice or forgotten, whatever the interleaving |
| `OverrunsAreFailures` | `OnlyFailedCorrectionsOverrun` | only a failed correction is counted beside the matrix |
| `EverySetIsTested` | `EverySetIsRemoved` | every set of connections is removed, once |

### Encoder

`Inductive`, `Spec => []IInv`, is the invariant under the first two.

**No access leaves its array.** `history` has 2n entries for a key of n bits
and is indexed by node, and nodes are added while the loop runs, so the number
of nodes visited has to be bounded. Each forward edge makes one mute node and
stands, with the node inside it, for two bits; so if forward edges do not
overlap there are at most half as many mute nodes as bits. They do not overlap
because the node that opens one is pushed on the very stack in which a 1 at the
next node looks, so that a backedge is possible there and no forward edge is
opened. The parts of `IInv`:

- `Shape`: a connection leads one or two nodes on, or back, and those not of
  the path start before the current node;
- `Apart`: forward edges do not overlap or follow each other at once;
- `OpenStart`: the start of an open forward edge is in its stack, and it has no
  backedge of its own (this gives `ForwardEdgesDoNotOverlap`, and so `Apart`);
- `NodeCount`: the nodes of the graph are those of the bits and one for each
  mute node, visited or ahead, so nodes idx+1 and idx+2 exist;
- `MuteCount`: the mute nodes are at most half the bits read, so
  2·idx ≤ 3·n − 4 and `history[idx]` exists;
- `StackBound`, `HistoryBound`: a stack holds nodes of one parity, all before
  the current one, so neither stack can be full; a saved count is as small.

`MemorySafe` is not inductive without them: nothing in it limits `idx`.

**Closing a block only pops.** `stack_pop_until` assigns the count. A saved
count outlives many changes of the stack it is about; it is still valid when it
is used because the two stacks agree on what each has saved. `SavedInv` says,
of the entries of both stacks: what an entry saved does not exceed the other
stack (`SavedFits`); the entries it counted had saved at most its own position
(`SavedCross`); later entries of a stack saved no less (`SavedOrdered`). A pop
uses the second and third to keep the first: of what remains below the position
popped to, nothing had saved more than the count restored, and conversely.

**The encoder implements the grammar.** `BlockGrammar` lets a node go back to
whatever the graph leaves open, which takes all its edges to tell; an iteration
of the code looks at one stack. `StacksHoldOpenNodes` says that they agree:

- `Sorted`, `OwnParity`: the entries of a stack are ordered, and of one parity;
- `Split`: the count saved with a node separates the entries of the other stack
  that come before the node from those after it. So cutting one stack at a
  position and the other at the count saved there is cutting the nodes from
  there on, and this is what the repeat block just closed covers;
- `ExactlyOpen`: a node is in a stack if and only if it is open;
- `OnPath`, `BackedgeEnds`, `Nested`: what the edges look like, of which
  `BlocksNest` is a consequence. A backedge to an open node cannot cross one
  that is there.

It needs `SavedInv` (to push an entry the count saved must be within the other
stack) and `IInv`. Given it, each action maps to one of the grammar:
`VisitMute` to `Join`, `BuildWhile` to `CloseWhile`, `BuildIf` to `CloseIf`,
`BuildRepeat` to `Repeat`, `OpenForward` to `Open`, `VisitZero` to `Straight` or
`CloseIf` (a 0 inside a forward edge when the stack it looks in is empty). The
last two need the converse, `NoneToGoBackTo`: where the code finds no entry in
the stack of the bit's parity, no open node has that parity.

### Decoder and checker

**The key is read back.** What the encoder leaves behind for a reader is a
numbering of nodes (`Numbers`, in `EncoderProofs`): node 1 has the first
bit, the node after the end of a forward edge has the number of that end, every
other node the next number, and the graph shows at each node the bit of its
number (`Meaning`: a 1 is a forward edge or a backedge of odd length).
`ReadsBack`, that there is such a numbering, is inductive given `IInv`,
`SavedInv` and `BlocksInv`: an iteration adds connections of the current node
only, and a later one changes no meaning. `ReadAlong` says that the decoder is
at the number of its node and has read the bits before it. The end needs a case
of its own: the last bit may open a forward edge that nothing is inside of, and
the decoder's loop stops by the size of the graph (`LastNodes`, `ResultIsKey`).
The channel is refined for safety with the same invariant (`ChannelStep`).

**The checker's stacks.** It walks over a graph that lost connections, for a key
that may be another, so its stacks are not those of the encoder: a backedge
that is gone pops nothing. `KCInv` compares them with the intact graph, in one
direction. `Alive` is a node gone past that no repeat block of the intact graph
encloses so far; `WalkStacks` says that an alive node is in its stack, at the
position it remembers (`Holds`), and that of two of them cutting at the later
keeps the earlier one (`Before`). Blocks of the intact graph nest
(`EveryGraphIsStructured`), so a backedge that is left leads to a node that is
alive: this gives `CheckerRewindsOnlyPop`. More entries than those may be in a
stack, which is why its count is bounded apart (`WalkBound`: every second node
at most), and compared with the bits by the size test of the function
(`Room`). The check and the analysis are the same walk (`Walk`), so that one
set of lemmas (`PushKeepsStacks`, `PopKeepsStacks`) serves both loops.

**The marks of the analysis.** Their number is the bits passed; nodes and bits
differ by the forward edges whose end was passed (`Crossed`), and in the end by
all of them. `MarksInv` says that of every iteration. It holds for any losses,
as the size test counts the forward edges that are left, and at most one of the
three nodes at the end of the graph starts one (`LeftApart`, `BitsLeft`).

**The own key is never refused.** `VerdictInv` has, while the key is the graph's
and nothing that stood for a 1 is lost: forward edges are all left, so the size
agrees; the checker is at the bit of its node (`AlongKey`, with the encoder's
numbering of the *intact* graph); and every node that ends no block was pushed
(`Visited`). A node of each status then means a bit that the test of that
status passes (`NeverRefused`). Lost backedges that stood for zeros leave the
status "zero" and a 0; the bit that the status looks up in the key is
the graph's, so the guesses for lost forward edges see a 1 nowhere they could
go wrong.

**A wrong key is close.** Checker and graph are side by side while the bits
agree (`InStep`: the stacks hold nothing but what the graph leaves open, the
converse of `WalkStacks`). A node without connections (`WasBare`) stands for a
0; where the key has a 1 instead, one of the last two tests of
`checker.c:32-43` has to let it pass (`GuessIsLate`). The one is about the
second to last bit. The other wants no connections at the next node either, and
an open node at an odd distance. That is at an even distance from the next node,
and a 0 there would have become a backedge to it: `ForcedInv` (in
`EncoderProofs`) says of the encoder that a node is bare only if there was
nowhere to go back to, or if the node before goes back. So the next node is
past the last bit. Either way nothing is left that could disagree (`OneMore`).

**Two copies of one loop.** The analysis runs after the check, when the locals
of the check are gone. `After` is what an iteration leaves that does not
disagree, in either copy; `Ran` lists the iterations of the check from the
first one. An analysis that has marked nothing is at one of them
(`SameRunInv`), and it ends, or marks, where the check stopped. Any
connections may be lost: of the graph it is only used that a node has one
backedge at most.

**Each mark has a cause.** The function returns 0 at once unless the sizes agree,
which they do, for a key as long as the graph's, if and only if no forward edge
is lost (`SizeKeepsForward`). Then the analysis never loses the node of its bit, and a
backedge that is left leads to a node that was visited and has a position
(`FaultsInv`). So the mark j stands at the node numbered j − 1 of the intact
graph, and is charged to the bit of the key that differs there or to the
backedge that this node has lost (`Charged`). No two marks are charged to the
same.

**Parity forgives lost backedges.** The corrected phase is reached only if the
sizes agree, that is without a lost forward edge, and the crash only if they do
not (`OnlyForwardEdgesLeaveNoMarks`). A mark is x or the bit it is written for
(`WrittenInv`), so that only marked bits of what is read differ from the key, and
a symbol with no marked bit is right. There are no more wrong symbols than marks
and no more marks than losses; the codec does the rest (`FewFaultsAreCorrected`).
What takes work is where a bit is: `BytesForBits` and `BitsOfSymbols` follow it
through zeros that fill a byte, for bytes and symbols of every size.

**The improved decoder is never behind.** It has no way back from a wrong guess:
a node it takes for a mute one shifts all bits after it. Its loop ends by the
bits it has written, so if it could fall behind the key it would run off the
graph. `NotBehind` says that it has written as many bits as the key has before
its node, and more when a wrong guess is pending. Rule 2.6 is certain of its
forward edge (`PathTells`). Rule 2.9 wants a 1 and no possible backedge; but a node
that went back for a 1 could have gone to the node just before, which the
decoder has pushed unless that one goes back itself, or is mute
(`BeforeIsStacked`, `RepeatIsPossible`). So a wrong guess at a node with a bit
means that the 1 is not the bit of the node, that is, that the decoder is ahead
already (`GuessInStep`; rule 2.7 acts on the last nodes only, where a node
skipped does no harm). What the stacks hold plays no part in it, which is
why cutting them at the wrong count (finding 2) does no harm; their counts grow
no faster than half the index in any case (`DecoderStacks`), and the entries of
`history` are as small, whichever is read.

**It is in step unless losses hide each other.** A forward edge was opened only
because the node before it goes back (`ApartInv` of the encoder, `IntactBlocks`
here). Where a forward edge is lost, the decoder sees it by that backedge, by
one that starts inside, or, at the end of the graph, by the forward edges still
missing (`Left`). If the forward edge and all that tells of it are lost
together, the bits shift; `LossesApart` excludes just that. TLC gives an
example when it is left out of `LossesAreRepaired`: two losses, with
parity for two, and a payload that does not come back. Under it every lost
forward edge is guessed (`LostForwardIsGuessed`) and the decoder is at the bit of
its node (`InStep`, inductive given `BoundsInv`); each bit is the key's or is
explained by an odd backedge that its node has lost (`Explained`). The other
theorems follow at the end of the loop: `LostForwardsAreFound`, because nothing
explains a wrong bit; `OneLossIsOneBit`, because one connection explains one.

**The payload comes back.** What was read is put into bytes, rid of zeros, and
given as many as the key had (`ZerosAreRemoved`, `ZerosAreAdded`), next to the
payload with its parity (`RsCodeAppended`). `BitsAreBack`: a bit that is wrong
there was read wrong. Wrong bits have different lost connections
(`WrongBitsAreLost`), so there are no more wrong symbols than losses.

### Graph library

`Sound(g)` is `Indexed(g)` and `Linked(g)`, and is inductive (`NextIsSound`, one
lemma per operation):

- `Indexed`: a node is in the array once, and its index is where it is;
- `Mirrored`: a is as often in the incoming list of b as b in the outgoing
  list of a. As *often*, because there are multi-edges, and a list loses one of
  several equal entries;
- `Within`: both ends of a connection are in the array. The deletion of a node
  needs it: it isolates the node and frees it, and nothing else looks for
  connections that are left. It is the reason why lists of freed nodes are
  empty when `malloc` returns them again;
- `Counted`: the counts of a node are the lengths of its lists, and their total
  is the graph's. The total of a function that changes at one node is proved
  once, from the folds of the community modules.

Every operation is a loop: disconnecting both lists, moving connections to
another node, inserting and connecting branches, shifting indexes. Each is a
fold, and the folds are recursive functions; that they exist is proved by
induction on the size of a finite set, after which a loop
can be taken round by round (the lemmas named `...Rounds`), and what a round
preserves the loop preserves. `Relinked(h)`, the sound graphs with the array of
`h`, is what the loops over connections stay in.

A copy is proved more exactly: after k rounds of the loop over the nodes, the
first k have their lists reversed and the others none (`CopyNodeIs`, `CopyIs`;
`connect` puts a connection first, so that a list filled front to back is
reversed). For an expansion, `Inserted` says what the new nodes are and that the
others kept their connections, `BlockGrows` and `BranchesGrows` what connections
inside may do to a block: `IsBlock` says that only the first node is entered
from outside, only the last left, and that nodes outside have the connections
they had.

### Loader and sort

`LoaderInv` says that the names met so far are in their chains, each once and
with its number (`NamesFit`; a chain holds other names too, and `FindOld`,
`FindNew` say what following it gives), and that connections are between nodes
of names. `SearchInv` of the depth-first search: what is met is on the stack or
placed (`SearchMarked`); the stack is a path (`SearchPaths`); what a node
connects to is met or still in its list of what to look at (`SearchNext`), and
of a placed node all is met. `SearchOrder` is the point: a placed node comes
before those it connects to, unless it lies on a cycle with one. A connection
to a node still on the stack closes one, by `SearchPaths`. At the end the
marked nodes are closed under connections, so they are all that the source
reaches (`Reached` is the least such set), and the array is renumbered by the
order.

### Harness

**No count is lost.** The threads of `attack` read a count and write it
back one higher in two steps, inside a critical section, while others take keys
and test. `EveryKeyIsCounted` speaks of the rounds that are over and says
nothing of the one in progress; `CountInv` adds:

- `Exclusive`: a thread about to write has the section to itself, and what it
  read is still the count (without this a count could be lost);
- `OwnKeys`: a thread at work has a key of its own, of the current round, that
  is not counted yet (without this one could be counted twice);
- `NoneForgotten`: a key that was handed out is counted or in work, and the
  keys of a round start where those of the last ended;
- `ColumnsCount`: the column of a round, finished or not, holds each key
  counted so far in the row of its worst case;
- `WorstInBounds`: the worst case is an error count that a test can give, from
  which `OverrunsAreFailures`: only a failed correction of a key of the last
  round is counted beside the matrix.

The codec's steps are taken when no thread is in the section, so that none is
about to write, and they lead to no write: a thread that keeps the section by
its return only keeps the others out (`CodecMoves`, `CodecCounts`).

`CountInvariant` is `Spec => []CountInv`; TLC has found its parts to hold in the
instance of the run `attack`.

The invariants were checked by TLC before they were proved, with their
quantifiers over numbers bounded: `IInv` and `SavedInv` for 10 bits, `BlocksInv`,
`ReadsBack` and the decoder's for 6, `KCInv`, `AnalysisInv` and `VerdictInv` for 6
bits with up to two losses and one wrong bit, `WrongKeyInv` for 6 bits of which
three may differ, the improved decoder's for 7 bits with up to three losses,
`TSInv` for files of four lines, `Sound` on the instance of `graph_lists`. Of
`SameRunInv` and `FaultsInv`, which quantify over lists of iterations, TLC has
only checked the properties that follow.

**Every set is removed once.** `CombinationsListed` is about the recursion of
`get_list_of_combinations`: `Lists(s, A)` says that the sequences of s, as sets,
are those of A, each once. The sets of k connections from the l-th on are split
by their smallest element (`SubsetsBySmallest`), which is the order of the
recursion; what is put at the end of each combination is the smallest. It is
proved by induction on k, after the existence of the recursive functions
(`OfExists`, and `FlatExists` for the concatenation). `RemovalInv` then says
that what a thread has still to test is all sets without those tested.

### Only model-checked

- `ImplementsChannel` as a whole and `OnlyTheReturnHangs`: liveness under fairness,
  which is outside what the prover does (for the first, safety is proved).
- `CodeReading`, `WatermarkCode`, `Comparison`: their codes, alignments and
  trees are recursive functions of whole programs, and their theorems would need
  an induction over the structure of a program.

## 5. Findings

1. **A wrong key is accepted** (`key_check_sound`). `checker.c:39` takes a 1
   for an if block that lost its forward edge when a backedge *could* have been
   removed; the comment at `checker.c:36-38` and rule 2.9 of the decoder
   (`decoder.c:133`) have the opposite condition. An intact graph passes for a
   key with one more 1, and for no other: `WrongKeyAddsOneBit` is proved
   (`WrongKeysAreClose`).
2. **The improved decoder reads history at a position** (`decoder_stacks`).
   `decoder.c:108` uses `history[backedge_index]`, where encoder and checker use
   the history of the *node*. The count of a stack may rise, which "pop" does
   not. It costs no bit: `OneLossCostsOneBit`, `LostForwardEdgesAreRecovered`
   and `DecoderKeepsBounds` are proved of the code as it is.
3. **Deserialization connects other nodes** (`graph_serialize`).
   `graph.c:453` uses the loop counter instead of the index it read.
4. **A case with six branches or more has a code that is misread**
   (`code_reading_cases`). `dijkstra.c:355` writes two digits, `dijkstra.c:457`
   reads one: the code 1101111111 gives a single node.

The first four are counterexamples. The next three are outcomes that a model has
as such, and that a property of a passing run pins to their cause:

5. **The corrected check follows NULL** (phase "crashed" of `key_check`). The
   analysis returns 0 for a graph that lost a forward edge (`checker.c:236`), and
   leaves the number of bytes where its caller expects that of the bits;
   `watermark_rs_check` uses both (`checker.c:193-212`). So the parity makes good
   any backedges lost, but is of no use for a single forward edge, while
   `watermark_check` only refuses: `RsForgivesLostBackedges` says exactly when
   the one and when the other, and is proved (`LostBackedgesAreForgiven`).
6. **A critical section is left by `return`** (`KeptByReturn` of `attack`).
   `get_rs_struct` returns at `rs.c:53`, inside the block of `#pragma omp
   critical`, which OpenMP forbids: a compiler may refuse it, leave the section
   or keep it locked. Modelled as either of the last two; if it stays locked,
   the thread waits for itself at its next step, as all sections without a name
   are one, and the measurement with Reed-Solomon never ends.
   `OnlyTheReturnHangs` says that nothing else keeps it from its end.
7. **A program breaks off** (`Fail` of `comparison`). As a consequence of
   finding 4 the generation takes the first digit of a six-branch switch inside
   another for a node, and gets NULL for the second (`code_generation.c:212`,
   `:268`), which no caller notices: braces are closed, and what should follow
   is missing. `BracesEncloseParts` says that it breaks off where
   `dijkstra_generate` does, and never for codes with one digit to a block.

## 6. Abstractions

- **Connections of a node** are a set in `FlowGraph` and a list in
  `GraphLists` and `PrimeContraction`. The loops of encoder, decoders and
  checker never depend on the order, as no node has two backedges or two
  forward edges; contraction does, and gets the lists in the order the encoder
  leaves them (the connection outside the path first) and in the order of a copy.
- **`rand()`** is any draw that the caller can make of it; `get_backedge_index`
  is the set of positions it may return.
- **Bits** are functions or sequences of 0 and 1; a block of memory is a
  function from bit numbers, so that packing, padding and the zeros in front are
  those of the code. What the loops read past the last bit of a key is 0 in the
  checker's decision and any bit in the analysis.
- **The codec** is what its callers expect of it: it corrects up to half as many
  wrong symbols as there are of parity, and reports more of them or returns any
  other data. The parity of a key is any, so the models never compute one.
- **Names** of a dot file are numbered as they are first met (which name it is
  makes no difference to the loader), and the bucket of a name is arbitrary.
- **Codes** are those of functions of bounded size, with any number a block may
  have, and for the watermark any that `dijkstra_generate` makes a graph of,
  complete or followed by more; strings it refuses do not reach the comparison.
- **Programs** are their braces and their identifiers. Values and operators are
  drawn from tables in the same way, but nothing is declared for them.
- **A test of the harness** is one step, and its number of errors is any that a
  decoder can give; what the decoder gives is the subject of `KeyedDecoding`.
  The count that `#pragma omp critical` protects is read and written in two steps.
  With Reed-Solomon a test is preceded by the steps of the codec (one call for
  the graph of a key, two for a test: the key is encoded again, the result
  decoded), each of which enters the same section; what the codec computes in
  it is left out. The early return of `decoder.c:269` is never taken: the
  decoder returns as many bits as the key has (`DecoderKeepsBounds`).
- **Integers.** The only arithmetic that wraps is `starting_idx = ULONG_MAX` for
  data without a positive bit; it is −1, which gives the same loop.
- **Memory.** `malloc` returns any node not in use and never fails. Freed codes
  are `<<>>`, so that a read of one is seen (`CodesAreLive`).
- **`marked`, `ordered`** of the sort: entries never filled are null pointers;
  following one is the phase "crashed".
- The data and the `INFO_NODE` chain of a node, printing and file formats are
  left out.

## 7. Not modelled, and the plan

Not modelled, with the reason:

- `watermark2014_encode`, `watermark2014_decode`: the algorithm this one
  replaced; only the tests call them.
- `watermark_decode_analysis`: a copy of `watermark_decode` that also writes
  labels at the nodes, which nothing reads.
- the data of a node and its `INFO_NODE` chain (`node_alloc`, `node_load_info`,
  `node_unload_info`), `graph_deep_copy`, `node_transfer_in_connections`: the
  sort, the checkers and the recognition attach one value to each node and take
  it off again, and the others have no caller. The models keep what is attached
  as variables (`position`, `marked`, `sink`).
- numeric strings, inverted sequences, `QUEUE`: input and output, or no caller.
- `hashmap_destroy`, all of `set.c`: no caller.
- the Reed-Solomon codec (`reed_solomon.c`, `rslib.h`, `list.h`: third-party
  code; the decoder proper is a library outside the repository).
- menus and reports: terminal input and output; no state between two choices.
- tests (read as statements about the program) and build files.

Met while reading, in code that no caller reaches or that is outside the models,
and therefore without a property:

- `dijkstra.c:159`: a while whose head and body were both expanded by
  `node_expand_to_sequence` is not recognised; `dijkstra.c:294`: of a repeat
  with both nodes expanded only the head's code is written. No watermark and no
  graph of the generator has either shape.
- `dijkstra.c:454`: what follows a complete code is ignored (11 gives a graph);
  the programs of such codes break off at the same place, which
  `BracesEncloseParts` covers.
- `hashmap.c:83` compares no key with the first of a chain and overwrites the
  entry before the one found; the loader sets only names it has not found.
- `hashmap.c:102` follows `prev`, which is never set; `set.c:23` tests data that
  `set_add` never stores; neither has a caller.
- `node.c:22` keeps the pointer to data it freed when the length stays the same;
  `node.c:179` takes any data for an `INFO_NODE`; `graph.c:410` copies from the
  address of a pointer.
- `watermark.c:407` with no removals asked for reads a list that is NULL;
  `watermark.c:468` shifts ints; `watermark.c:715` encodes with symbols of 0
  bits; `watermark.c:831` falls through to the next choice.
- `code_generation.c:67` reads a text that is out of scope, in a branch that is
  never taken; `decoder.c:312` compares a bit with a character.

What the plan has left:

1. sort followed by recognition: a while is recognised or not depending on the
   order of the lines of a dot file (the order is already free in
   `DotFile`);
2. the data of a node, should a caller ever rely on it.
