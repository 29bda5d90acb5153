-------------------------------- MODULE Attack --------------------------------
(***************************************************************************)
(* attack, the loop that measures the watermark: every key of each number  *)
(* of bits is encoded, every set of connections of its graph is removed    *)
(* and decoded, and a matrix counts the keys by the errors of their worst  *)
(* case.  The keys of one number of bits are handed out to threads, which  *)
(* share the matrix (OpenMP: parallel for, schedule(dynamic), critical).   *)
(*                                                                         *)
(* A thread tests one set of removals per step.  The graph of a key, and   *)
(* the errors of a test, are any that encoder and decoder may give; what   *)
(* they give is the subject of KeyedDecoding.  With Reed-Solomon both call *)
(* the codec first, rs_encode and rs_decode, whose steps enter the same    *)
(* critical section as the count: it has no name, so there is only one.    *)
(***************************************************************************)
EXTENDS Integers, SequencesExt, FiniteSetsExt

CONSTANTS
  Thread,
  MaxBits,                          \* n_bits, without Reed-Solomon
  MaxSymbols,                       \* n_bits, when it counts symbols
  SymSize,
  ParityCounts,                     \* what n_parity_symbols may be
  MaxRemovals,                      \* bound on n_removal
  MaxEdges                          \* bound on the connections of a graph

ASSUME AttackAssumption ==
  /\ {MaxBits, MaxSymbols, SymSize, MaxRemovals} \subseteq Nat \ {0}
  /\ ParityCounts \subseteq Nat /\ MaxEdges \in Nat

VARIABLES
  method, numRemovals, parity,      \* the arguments
  bits,                             \* current_n_bits
  nextKey,                          \* the first key that no thread has taken
  matrix,
  overrun,                          \* something beside the matrix was counted up
  critical,                         \* the threads in the critical section
  report,                           \* the file, <<>> before it is written
  exited,                           \* the process has given up
  pc, key, edges, left,             \* of each thread; left: combinations
  calls,                            \* of the codec, before the next test
  worst, read,                      \* worst_case, and the count it is to raise
  tried, worstOf                    \* history: sets tested, results by key

args == <<method, numRemovals, parity>>
main == <<args, bits, nextKey>>
counts == <<matrix, overrun, worstOf>>
outcome == <<report, exited>>
locals == <<key, edges, left, worst, read, tried>>
vars == <<main, counts, critical, outcome, pc, calls, locals>>

Rs == method = "improved with rs"
NumBits == IF Rs THEN MaxSymbols ELSE MaxBits
BitsOf(n) == IF Rs THEN n * SymSize ELSE n

(* MUTANT: the matrix has no row for as many errors as bits less one *)
SmallMatrixSize == BitsOf(NumBits) - 1

MatrixSize == BitsOf(NumBits)

(* The keys with a given number of bits, or of symbols *)
LowerBound(n) == IF Rs THEN 2 ^ ((n - 1) * SymSize) ELSE 2 ^ (n - 1)
UpperBound(n) == IF Rs THEN 2 ^ (n * SymSize) ELSE 2 ^ n
Keys(n) == LowerBound(n)..(UpperBound(n) - 1)

(* MUTANT: the last connection is left out of the single ones *)
CombinationsShort(count, size) ==
  LET Of[k \in 1..size] == [first \in 1..(count + 1) |->
        IF k = 1 THEN [j \in 1..(count - first) |-> <<first + j - 1>>]
        ELSE FlattenSeq([j \in 1..(count - first + 1) |->
               [c \in DOMAIN Of[k - 1][first + j] |->
                  Append(Of[k - 1][first + j][c], first + j - 1)]])]
  IN  Of[size][1]

(* get_list_of_combinations of the connections first..count, k at a time:  *)
(* those of the connections after each one, which is put at the end        *)
Combinations(count, size) ==
  LET Of[k \in 1..size] == [first \in 1..(count + 1) |->
        IF k = 1 THEN [j \in 1..(count - first + 1) |-> <<first + j - 1>>]
        ELSE FlattenSeq([j \in 1..(count - first + 1) |->
               [c \in DOMAIN Of[k - 1][first + j] |->
                  Append(Of[k - 1][first + j][c], first + j - 1)]])]
  IN  Of[size][1]

-----------------------------------------------------------------------------
Init ==
  /\ method \in {"original", "improved", "improved with rs"}
  /\ numRemovals \in 1..MaxRemovals
  /\ parity \in IF Rs THEN ParityCounts ELSE {0}
  /\ bits = 1 /\ nextKey = LowerBound(1)
  /\ matrix = [cell \in (0..(MatrixSize - 1)) \X (0..(MatrixSize - 1)) |-> 0]
  /\ overrun = FALSE /\ critical = {} /\ report = <<>> /\ exited = FALSE
  /\ pc = [t \in Thread |-> "take"] /\ calls = [t \in Thread |-> 0]
  /\ key = [t \in Thread |-> 0] /\ edges = [t \in Thread |-> 0]
  /\ left = [t \in Thread |-> <<>>]
  /\ worst = [t \in Thread |-> 0] /\ read = [t \in Thread |-> 0]
  /\ tried = [t \in Thread |-> {}] /\ worstOf = <<>>

Running == bits <= NumBits

At(t, place) == pc[t] = place /\ ~exited

(* The connections that a graph may have outside its path: no more than    *)
(* one for each bit after the first                                        *)
EdgeCounts ==
  LET graphBits == IF Rs THEN BitsOf(bits + parity) ELSE bits
  IN  0..Min({MaxEdges, graphBits - 1})

(* What a thread that has tests ahead does next: with Reed-Solomon a test  *)
(* decodes with a key that is encoded once more                            *)
BeforeTest(t, ahead, encodings) ==
  LET due == IF ~Rs THEN 0 ELSE IF ahead = <<>> THEN encodings ELSE encodings + 2
  IN  /\ calls' = [calls EXCEPT ![t] = due]
      /\ pc' = [pc EXCEPT ![t] = IF due = 0 THEN "test" ELSE "rs"]

(* The iteration for a key begins: it is encoded and its removals listed.  *)
(* A graph without such connections is not tested.                         *)
Take(t) ==
  /\ Running /\ At(t, "take") /\ nextKey < UpperBound(bits)
  /\ nextKey' = nextKey + 1
  /\ key' = [key EXCEPT ![t] = nextKey]
  /\ \E count \in EdgeCounts :
       /\ edges' = [edges EXCEPT ![t] = count]
       /\ left' = [left EXCEPT ![t] =
                     IF count = 0 THEN <<>>
                     ELSE Combinations(count, Min({count, numRemovals}))]
  /\ BeforeTest(t, left'[t], 1)
  /\ UNCHANGED <<args, bits, counts, critical, outcome, worst, read, tried>>

(* The data and its parity are no longer than a symbol can count *)
Fits == bits + parity <= 2 ^ SymSize - 1

(* get_rs_struct makes the codec in the critical section and returns from  *)
(* inside of it, which OpenMP does not allow: a compiler that takes it     *)
(* leaves the section or not                                               *)
GetRsStruct(t) ==
  /\ At(t, "rs") /\ critical = {} /\ Fits
  /\ critical' \in {{}, {t}}
  /\ pc' = [pc EXCEPT ![t] = "code"]
  /\ UNCHANGED <<main, counts, outcome, calls, locals>>

(* The process ends when there is no such codec *)
ExitInRsStruct(t) ==
  /\ At(t, "rs") /\ critical = {} /\ ~Fits
  /\ exited' = TRUE
  /\ UNCHANGED <<main, counts, critical, report, pc, calls, locals>>

(* encode_rs_char, decode_rs_char: the section protects nothing else *)
Code(t) ==
  /\ At(t, "code") /\ critical = {}
  /\ pc' = [pc EXCEPT ![t] = "free"]
  /\ UNCHANGED <<main, counts, critical, outcome, calls, locals>>

(* free_rs_char, in the section too, and the call of the codec is over *)
FreeRs(t) ==
  /\ At(t, "free") /\ critical = {}
  /\ calls' = [calls EXCEPT ![t] = @ - 1]
  /\ pc' = [pc EXCEPT ![t] = IF calls[t] = 1 THEN "test" ELSE "rs"]
  /\ UNCHANGED <<main, counts, critical, outcome, locals>>

(* The errors a test may count: the first bits compared are both 1, unless *)
(* a correction failed or gave another payload                             *)
ErrorCounts == 0..(BitsOf(bits) - (IF Rs THEN 0 ELSE 1))

(* _test_with_removed_connections, and the worst case so far *)
Test(t) ==
  /\ At(t, "test") /\ left[t] # <<>>
  /\ \E errors \in ErrorCounts :
       worst' = [worst EXCEPT ![t] = Max({@, errors})]
  /\ tried' = [tried EXCEPT ![t] = @ \cup {ToSet(Head(left[t]))}]
  /\ left' = [left EXCEPT ![t] = Tail(@)]
  /\ BeforeTest(t, left'[t], 0)
  /\ UNCHANGED <<main, counts, critical, outcome, key, edges, read>>

Cell(t) == <<worst[t], bits - 1>>

(* MUTANT: the matrix is raised outside the critical section *)
EnterAlways(t) ==
  /\ At(t, "test") /\ left[t] = <<>>
  /\ critical' = critical \cup {t}
  /\ read' = [read EXCEPT ![t] = IF Cell(t) \in DOMAIN matrix THEN matrix[Cell(t)] ELSE 0]
  /\ pc' = [pc EXCEPT ![t] = "raise"]
  /\ UNCHANGED <<main, counts, outcome, calls, key, edges, left, worst, tried>>

(* The critical section: the count is read *)
Enter(t) ==
  /\ At(t, "test") /\ left[t] = <<>> /\ critical = {}
  /\ critical' = {t}
  /\ read' = [read EXCEPT ![t] = IF Cell(t) \in DOMAIN matrix THEN matrix[Cell(t)] ELSE 0]
  /\ pc' = [pc EXCEPT ![t] = "raise"]
  /\ UNCHANGED <<main, counts, outcome, calls, key, edges, left, worst, tried>>

(* The variables of an iteration end with it *)
Forget(t) ==
  /\ key' = [key EXCEPT ![t] = 0] /\ edges' = [edges EXCEPT ![t] = 0]
  /\ worst' = [worst EXCEPT ![t] = 0] /\ read' = [read EXCEPT ![t] = 0]
  /\ tried' = [tried EXCEPT ![t] = {}]
  /\ UNCHANGED left

(* MUTANT: the critical section is not left *)
RaiseAndStay(t) ==
  /\ At(t, "raise")
  /\ IF Cell(t) \in DOMAIN matrix
     THEN matrix' = [matrix EXCEPT ![Cell(t)] = read[t] + 1] /\ UNCHANGED overrun
     ELSE overrun' = TRUE /\ UNCHANGED matrix
  /\ worstOf' = [k \in DOMAIN worstOf \cup {key[t]} |->
                   IF k = key[t] THEN worst[t] ELSE worstOf[k]]
  /\ pc' = [pc EXCEPT ![t] = "take"]
  /\ Forget(t)
  /\ UNCHANGED <<main, critical, outcome, calls>>

(* The count is written, and the section left *)
Raise(t) ==
  /\ At(t, "raise")
  /\ IF Cell(t) \in DOMAIN matrix
     THEN matrix' = [matrix EXCEPT ![Cell(t)] = read[t] + 1] /\ UNCHANGED overrun
     ELSE overrun' = TRUE /\ UNCHANGED matrix
  /\ critical' = critical \ {t}
  /\ worstOf' = [k \in DOMAIN worstOf \cup {key[t]} |->
                   IF k = key[t] THEN worst[t] ELSE worstOf[k]]
  /\ pc' = [pc EXCEPT ![t] = "take"]
  /\ Forget(t)
  /\ UNCHANGED <<main, outcome, calls>>

(* MUTANT: the threads are not waited for *)
NextRoundAtOnce ==
  /\ Running /\ nextKey = UpperBound(bits)
  /\ bits' = bits + 1
  /\ nextKey' = LowerBound(bits + 1)
  /\ UNCHANGED <<args, counts, critical, outcome, pc, calls, locals>>

(* The parallel loop ends when all its iterations have *)
NextRound ==
  /\ Running /\ nextKey = UpperBound(bits)
  /\ \A t \in Thread : pc[t] = "take"
  /\ bits' = bits + 1
  /\ nextKey' = LowerBound(bits + 1)
  /\ UNCHANGED <<args, counts, critical, outcome, pc, calls, locals>>

(* write_to_report_matrix *)
WriteReport ==
  /\ ~Running /\ report = <<>>
  /\ report' = matrix
  /\ UNCHANGED <<main, counts, critical, exited, pc, calls, locals>>

(* The thread that returned from the section still has it, and its next    *)
(* step is to enter it                                                     *)
KeptByReturn == \E t \in critical : pc[t] = "code"

(* The program is over, or everyone waits for a section that is never left *)
Rest == (report # <<>> \/ exited \/ KeptByReturn) /\ UNCHANGED vars

ThreadStep(t) ==
  \/ Take(t)
  \/ GetRsStruct(t) \/ ExitInRsStruct(t) \/ Code(t) \/ FreeRs(t)
  \/ Test(t) \/ Enter(t) \/ Raise(t)

Next ==
  \/ \E t \in Thread : ThreadStep(t)
  \/ NextRound
  \/ WriteReport
  \/ Rest

(* A thread that can take a step takes one some time.  A critical section  *)
(* need not be fair: no thread comes back to it for ever.                  *)
Spec ==
  /\ Init /\ [][Next]_vars
  /\ \A t \in Thread : WF_vars(ThreadStep(t))
  /\ WF_vars(NextRound) /\ WF_vars(WriteReport)

-----------------------------------------------------------------------------
(* No count is lost and none is counted twice, whatever the threads do at  *)
(* the same time: the column of a number of bits that is done holds each   *)
(* of its keys once, in the row of its worst case (watermark.c:515-521).   *)
EveryKeyIsCounted ==
  ~overrun =>
    \A n \in 1..Min({bits - 1, NumBits}) :
      /\ Keys(n) \subseteq DOMAIN worstOf
      /\ \A r \in 0..(MatrixSize - 1) :
           matrix[<<r, n - 1>>] = Cardinality({k \in Keys(n) : worstOf[k] = r})

(* A key is tested without each set of as many of its connections as were  *)
(* asked for, or all of them if there are fewer, and never twice without   *)
(* the same one (watermark.c:346-382,407).                                 *)
EverySetIsRemoved ==
  \A t \in Thread : pc[t] # "take" =>
    LET all == kSubset(Min({edges[t], numRemovals}), 1..edges[t])
    IN  IF edges[t] = 0 THEN tried[t] = {}
        ELSE /\ Len(left[t]) = Cardinality(all) - Cardinality(tried[t])
             /\ left[t] = <<>> => tried[t] = all

(* The matrix has as many rows as keys have bits, and the worst case of    *)
(* all errors has none: it occurs in the last column only, and only where  *)
(* a correction may fail (watermark.c:290,444,521).                        *)
OnlyFailedCorrectionsOverrun ==
  overrun => /\ Rs
             /\ \E k \in DOMAIN worstOf :
                  k \in Keys(NumBits) /\ worstOf[k] = BitsOf(NumBits)

(* The measurement comes to its end, or exits as there is no codec: no     *)
(* thread is kept out of the critical section for ever, none waits for     *)
(* keys that are all taken, and nothing but the return from inside the     *)
(* section (rs.c:53) makes it wait for itself (rs.c:41-103, watermark.c:474-522). *)
OnlyTheReturnHangs == <>(report # <<>> \/ exited \/ KeptByReturn)

=============================================================================
