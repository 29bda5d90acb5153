------------------------------- MODULE Encoder -------------------------------
(***************************************************************************)
(* watermark_encode: the flow graph that stands for a sequence of bits.    *)
(*                                                                         *)
(* The function is sequential.  Init is the state before its loop, each    *)
(* action is one iteration of the loop for one of the outcomes of its      *)
(* conditions.  rand() is a choice.                                        *)
(*                                                                         *)
(* Widths: unsigned long arithmetic that wraps does so only in             *)
(* starting_idx = ULONG_MAX for data without a positive bit; ULONG_MAX is  *)
(* written -1, which gives the same n and the same first i.                *)
(***************************************************************************)
EXTENDS BackedgeStacks

CONSTANT NumBits                    \* the argument n_bits

ASSUME NumBitsAssumption == NumBits \in Nat \ {0}

VARIABLES
  data,                             \* the bits given
  start,                            \* starting_idx
  i, idx,                           \* next bit, next node
  edges, numNodes,                  \* the graph
  stack,                            \* odd_stack and even_stack
  history

vars == <<data, start, i, idx, edges, numNodes, stack, history>>

Bit == {0, 1}

(* get_first_positive_bit_index *)
FirstPositiveBitIndex(d) ==
  {s \in 0..(NumBits - 1) : d[s] = 1 /\ \A j \in 0..(s - 1) : d[j] = 0}
  \cup {s \in {-1} : \A j \in 0..(NumBits - 1) : d[j] = 0}

(* MUTANT: the leading bit is not counted *)
nWithoutFirstBit == NumBits - start - 1

(* The number of bits the graph stands for *)
n == NumBits - start

Init ==
  /\ data \in [0..(NumBits - 1) -> Bit]
  /\ start \in FirstPositiveBitIndex(data)
  /\ i = start + 1
  /\ idx = 1
  /\ edges = HamiltonianPath(n + 2)
  /\ numNodes = n + 2
  /\ stack = [odd |-> StackPush(StackCreate(n), 0), even |-> StackCreate(n)]
  /\ history = [v \in 0..(2 * n - 1) |-> 0]

-----------------------------------------------------------------------------
Looping == i < NumBits

(* A forward edge points to the current node: it stands for no bit *)
Mute == idx > 1 /\ Connected(edges, idx - 2, idx)

(* The current node is inside the forward edge of the previous one *)
Inner == Connected(edges, idx - 1, idx + 1)

Possible == PossibleBackedges(idx, data[i])
CanGoBack == HasPossibleBackedge(edges, stack[Possible], idx)

(* MUTANT: nodes inside a forward edge become destinations too *)
SaveStacksAlways(E) ==
  LET own == OwnStack(idx)
  IN  /\ stack' = [stack EXCEPT ![own] = StackPush(@, idx)]
      /\ history' = [history EXCEPT ![idx] = stack[OtherStack(own)].n]

(* The end of an iteration that does not continue: the node becomes a      *)
(* possible destination unless it is inside a forward edge.                *)
SaveStacks(E) ==
  IF HasForward(E, idx - 1)
  THEN UNCHANGED <<stack, history>>
  ELSE LET own == OwnStack(idx)
       IN  /\ stack' = [stack EXCEPT ![own] = StackPush(@, idx)]
           /\ history' = [history EXCEPT ![idx] = stack[OtherStack(own)].n]

ReadBit == i' = i + 1 /\ idx' = idx + 1 /\ UNCHANGED <<data, start>>

VisitMute ==
  /\ Looping /\ Mute
  /\ SaveStacks(edges)
  /\ idx' = idx + 1
  /\ UNCHANGED <<data, start, i, edges, numNodes>>

BuildWhile ==
  /\ Looping /\ ~Mute /\ CanGoBack /\ Inner
  /\ data[i] = 1
  /\ edges' = (edges \cup {<<idx, idx - 1>>}) \ {<<idx, idx + 1>>}
  /\ ReadBit
  /\ UNCHANGED <<numNodes, stack, history>>

BuildIf ==
  /\ Looping /\ ~Mute /\ CanGoBack /\ Inner
  /\ data[i] = 0
  /\ ReadBit
  /\ UNCHANGED <<edges, numNodes, stack, history>>

(* MUTANT: the other stack is left as it is *)
PopOneStack(p) == [stack EXCEPT ![Possible] = StackPopUntil(@, p)]

(* MUTANT: history is read at the position instead of the node *)
PopByPosition(p) ==
  [stack EXCEPT ![Possible] = StackPopUntil(@, p),
                ![OtherStack(Possible)] = StackPopUntil(@, history[p])]

(* A backedge to the entry at position p: it and all above it are popped,  *)
(* and the other stack is cut to what it was when that node was pushed     *)
PopStacks(p) ==
  [stack EXCEPT ![Possible] = StackPopUntil(@, p),
                ![OtherStack(Possible)] =
                    StackPopUntil(@, history[stack[Possible].mem[p]])]

BuildRepeat ==
  /\ Looping /\ ~Mute /\ CanGoBack /\ ~Inner
  /\ \E p \in BackedgeIndexes(edges, stack[Possible], idx) :
       /\ edges' = edges \cup {<<idx, stack[Possible].mem[p]>>}
       /\ stack' = PopStacks(p)
  /\ ReadBit
  /\ UNCHANGED <<numNodes, history>>

(* MUTANT: no node is added to the graph *)
OpenForwardWithoutNode ==
  /\ Looping /\ ~Mute /\ ~CanGoBack
  /\ data[i] = 1
  /\ edges' = edges \cup {<<idx, idx + 2>>}
  /\ SaveStacks(edges')
  /\ ReadBit
  /\ UNCHANGED numNodes

OpenForward ==
  /\ Looping /\ ~Mute /\ ~CanGoBack
  /\ data[i] = 1
  /\ numNodes' = numNodes + 1
  /\ edges' = edges \cup {<<numNodes - 1, numNodes>>, <<idx, idx + 2>>}
  /\ SaveStacks(edges')
  /\ ReadBit

VisitZero ==
  /\ Looping /\ ~Mute /\ ~CanGoBack
  /\ data[i] = 0
  /\ SaveStacks(edges)
  /\ ReadBit
  /\ UNCHANGED <<edges, numNodes>>

Encoded == ~Looping
Stop == Encoded /\ UNCHANGED vars

Next ==
  \/ VisitMute
  \/ BuildWhile
  \/ BuildIf
  \/ BuildRepeat
  \/ OpenForward
  \/ VisitZero
  \/ Stop

Spec == Init /\ [][Next]_vars

-----------------------------------------------------------------------------
TypeOK ==
  /\ data \in [0..(NumBits - 1) -> Bit]
  /\ start \in -1..(NumBits - 1)
  /\ i \in (start + 1)..NumBits
  /\ idx \in Nat \ {0}
  /\ numNodes \in Nat
  /\ edges \subseteq (0..(numNodes - 1)) \X (0..(numNodes - 1))
  /\ stack \in [StackNames -> [mem : [0..(n - 1) -> Nat], n : 0..n]]
  /\ history \in [0..(2 * n - 1) -> Nat]

(* Every access of an iteration stays inside its array: the nodes up to    *)
(* idx+2 exist (encoder.c:98,105,132), history has an entry idx            *)
(* (encoder.c:143,147), the stack that the node would be pushed on is not  *)
(* full (utils.c:33), and the nodes in the stacks, whose history entries   *)
(* an iteration may read (encoder.c:120), come before idx.                 *)
MemorySafe ==
  Looping => /\ idx + 2 < numNodes
             /\ idx < 2 * n
             /\ stack[OwnStack(idx)].n < n
             /\ \A s \in StackNames : \A v \in Entries(stack[s]) : v < idx

(* Closing a repeat block only discards destinations.  stack_pop_until     *)
(* would as well raise the count of a stack (utils.c:39), and bring back   *)
(* nodes that an earlier block had enclosed.                               *)
RewindsOnlyPop ==
  [][BuildRepeat => \A s \in StackNames : stack'[s].n <= stack[s].n]_vars

=============================================================================
