---------------------------- MODULE BackedgeStacks ----------------------------
(***************************************************************************)
(* The two stacks of possible backedge destinations that the encoder, the  *)
(* improved decoder and the checker keep, with the STACK of utils.c they   *)
(* are made of.                                                            *)
(*                                                                         *)
(* A STACK is a calloc'ed array and a count.  stack_pop_until only sets    *)
(* the count: what lies above it stays in the array, and a "pop" to a size *)
(* larger than the count brings stale entries back.                        *)
(***************************************************************************)
EXTENDS FlowGraph

StackCreate(capacity) == [mem |-> [p \in 0..(capacity - 1) |-> 0], n |-> 0]
StackPush(s, v) == [mem |-> [s.mem EXCEPT ![s.n] = v], n |-> s.n + 1]
StackPopUntil(s, size) == [mem |-> s.mem, n |-> size]
Entries(s) == {s.mem[p] : p \in 0..(s.n - 1)}

StackNames == {"odd", "even"}

(* The code numbers nodes from one when it names them: is_odd = !(idx&1)   *)
IsOdd(v) == v % 2 = 0

(* The stack that node v is itself pushed on *)
OwnStack(v) == IF IsOdd(v) THEN "odd" ELSE "even"

(* The stack of the nodes that v reaches with a backedge meaning bit       *)
PossibleBackedges(v, bit) ==
  IF (IsOdd(v) /\ bit = 1) \/ (~IsOdd(v) /\ bit = 0) THEN "even" ELSE "odd"

OtherStack(name) == IF name = "even" THEN "odd" ELSE "even"

(* has_possible_backedge *)
HasPossibleBackedge(E, s, v) ==
  /\ ~HasBackedge(E, v - 1)
  /\ s.n > 0
  /\ ~(s.n = 1 /\ Connected(E, v - 1, s.mem[0]))

(* get_backedge_index: the positions of the stack that it may return.  The *)
(* position drawn is moved when it equals the index of the node that the   *)
(* previous node's backedge goes to.                                       *)
BackedgeIndexes(E, s, v) ==
  LET Moved(r) ==
        IF r \notin BackedgeTargets(E, v - 1) THEN {r}
        ELSE IF r = 0 THEN {1}
        ELSE IF r = s.n - 1 THEN {r - 1}
        ELSE {r - 1, r + 1}
  IN  UNION {Moved(r) : r \in 0..(s.n - 1)}

=============================================================================
