---------------------------- MODULE CodeGeneration ----------------------------
(***************************************************************************)
(* watermark_generate_code: a C program with the blocks of a code.  The    *)
(* calls that wait for the body of a block are kept in frames; a call in   *)
(* tail position has none.  Of the text, the model keeps which part of the *)
(* code is written in which braces and which identifiers are used; values, *)
(* operators and data types are drawn from tables like that of identifiers *)
(* but never declared, and are left out.                                   *)
(*                                                                         *)
(* A call that fails returns NULL, position 0, and no caller looks: braces *)
(* are closed, further cases opened, and the next call fails at once.      *)
(***************************************************************************)
EXTENDS Integers, SequencesExt

CONSTANT NumIdentifiers             \* the length of the table of identifiers

VARIABLES
  given,                            \* the code
  at,                               \* dijkstra_code, as a position
  frames,                           \* the last is that of the innermost body
  calling,                          \* whether a call starts or returns
  table                             \* next, and the identifiers used and wasted

generationVars == <<given, at, frames, calling, table>>

FreshTable == [next |-> 0, used |-> {}, wrapped |-> FALSE]

Begin(c) ==
  /\ given' = c /\ at' = 1 /\ frames' = <<>>
  /\ calling' = TRUE /\ table' = FreshTable

-----------------------------------------------------------------------------
Use(t, k) == [t EXCEPT !.used = @ \cup {k}]

(* code_gen_repeatable_new: after the last of the table, the first again; *)
(* so code_gen_new_identifier never makes up a name                       *)
RepeatableNew(t) ==
  IF t.next < NumIdentifiers
  THEN [Use(t, t.next) EXCEPT !.next = @ + 1]
  ELSE [Use(t, 0) EXCEPT !.next = 1, !.wrapped = TRUE]

(* MUTANT: the first identifier is not counted *)
TryOldUncounted(t) ==
  IF t.next = 0 THEN {Use(t, 0)} ELSE {Use(t, k) : k \in 0..(t.next - 1)}

(* code_gen_try_old *)
TryOld(t) ==
  IF t.next = 0 THEN {[Use(t, 0) EXCEPT !.next = 1]}
  ELSE {Use(t, k) : k \in 0..(t.next - 1)}

GetIdentifier(t) == {RepeatableNew(t)} \cup TryOld(t)
ValueOrVariable(t) == {t} \cup TryOld(t)

Condition(t) == UNION {ValueOrVariable(u) : u \in GetIdentifier(t)}

(* With the shorthand operator there is one operand less *)
Expression(t) == UNION {ValueOrVariable(u) : u \in Condition(t)} \cup Condition(t)

-----------------------------------------------------------------------------
Type == given[at + 1]
Calling == calling /\ at \in DOMAIN given /\ given[at] = 1

(* NULL is returned: no code is left, no node begins here, or its type is  *)
(* INVALID                                                                 *)
Fail ==
  /\ calling
  /\ Calling => at < Len(given) /\ Type = 0
  /\ at' = 0 /\ calling' = FALSE
  /\ UNCHANGED <<given, frames, table>>

LastTrivial ==
  /\ Calling /\ at = Len(given)
  /\ at' = at + 1 /\ calling' = FALSE
  /\ UNCHANGED <<given, frames, table>>

Trivial ==
  /\ Calling /\ at < Len(given) /\ Type = 1
  /\ at' = at + 1 /\ calling' = FALSE
  /\ table' \in Expression(table)
  /\ UNCHANGED <<given, frames>>

Sequence ==
  /\ Calling /\ at < Len(given) /\ Type = 2
  /\ at' = at + 2
  /\ UNCHANGED <<given, frames, calling, table>>

(* The body of a block, or the first of its bodies, is written *)
Open(bodies) ==
  /\ frames' = Append(frames, [type |-> Type, left |-> bodies, start |-> at + 2])
  /\ at' = at + 2
  /\ UNCHANGED <<given, calling>>

OpenBlock ==
  /\ Calling /\ at < Len(given) /\ Type \in {3, 4, 5}
  /\ table' \in (IF Type = 5 THEN {table} ELSE Condition(table))
  /\ Open(1)

(* MUTANT: the default of a switch is a case too *)
OpenSwitchWithDefault ==
  /\ Calling /\ at < Len(given) /\ Type >= 6
  /\ table' \in TryOld(table)
  /\ Open(Type - 3)

OpenSwitch ==
  /\ Calling /\ at < Len(given) /\ Type >= 6
  /\ table' \in TryOld(table)
  /\ Open(Type - 4)

NextCase ==
  /\ ~calling /\ frames # <<>> /\ Last(frames).left > 1
  /\ frames' = [frames EXCEPT ![Len(frames)].left = @ - 1, ![Len(frames)].start = at]
  /\ calling' = TRUE
  /\ UNCHANGED <<given, at, table>>

Close ==
  /\ ~calling /\ frames # <<>> /\ Last(frames).left = 1
  /\ table' \in (CASE Last(frames).type = 4 -> Expression(table)
                   [] Last(frames).type = 5 -> Condition(table)
                   [] OTHER -> {table})
  /\ frames' = Front(frames)
  /\ calling' = TRUE
  /\ UNCHANGED <<given, at>>

Returned == ~calling /\ frames = <<>>

GenerateStep ==
  \/ Fail \/ LastTrivial \/ Trivial \/ Sequence
  \/ OpenBlock \/ OpenSwitch \/ NextCase \/ Close

=============================================================================
