---------------------------- MODULE StructuredCodes ----------------------------
(***************************************************************************)
(* The codes of structured programs: a block is "1", its number, and its   *)
(* parts; "1" alone is a node without a block.  Strings are sequences of   *)
(* characters, of which only the digits matter: a switch of six branches   *)
(* or more has a number of two, and those who read a code take one.        *)
(***************************************************************************)
EXTENDS Integers, SequencesExt

(* The parts that the block of a number has (dijkstra.h:8-17) *)
PartsOf(number) ==
  CASE number < 2      -> 0
    [] number = 2      -> 1
    [] number \in 3..5 -> 2
    [] number > 5      -> number - 3

(* As sprintf writes it *)
Decimal(number) == IF number < 10 THEN <<number>> ELSE <<number \div 10, number % 10>>

(* The codes of at most max blocks, named by these numbers *)
CodesOf(max, numbers) ==
  LET Most == PartsOf(Max(numbers))
      Codes[k \in 0..max] ==                    \* of k blocks
        LET Parts[m \in 0..Most, b \in 0..(k - 1)] ==   \* m parts, of b blocks in all
              IF m = 0 THEN (IF b = 0 THEN {<<>>} ELSE {})
              ELSE UNION {{c \o s : c \in Codes[j], s \in Parts[m - 1, b - j]} : j \in 0..b}
        IN  IF k = 0 THEN {<<1>>}
            ELSE UNION {{<<1>> \o Decimal(d) \o s : s \in Parts[PartsOf(d), k - 1]} : d \in numbers}
  IN  UNION {Codes[k] : k \in 0..max}

(* dijkstra_generate_recursive: where it goes on reading after the node    *)
(* that begins at a position, 0 for NULL                                   *)
ReadTo(s) ==
  LET End[p \in 0..(Len(s) + 1)] ==
        LET After[m \in 0..PartsOf(s[p + 1])] ==     \* m parts of a block
              IF m = 0 THEN p + 2 ELSE End[After[m - 1]]
        IN  CASE p \notin DOMAIN s \/ s[p] # 1 -> 0
              [] p = Len(s)                    -> p + 1
              [] s[p + 1] = 0                  -> 0
              [] s[p + 1] = 1                  -> p + 1
              [] OTHER                         -> After[PartsOf(s[p + 1])]
  IN  End

=============================================================================
