------------------------------ MODULE Comparison ------------------------------
(***************************************************************************)
(* ask_for_comparison: the functions of a C file are compared with a       *)
(* watermark, and example programs are written for the watermark and for   *)
(* the function that fits it best.                                         *)
(*                                                                         *)
(* cfg.sh leaves one dot file per function, visited in any order.  A file  *)
(* whose graph is not a structured program is skipped; of any other, what  *)
(* matters is its code.  What is printed but the programs is left out.     *)
(*                                                                         *)
(* The watermark is computed from an encoded graph, or typed: any string   *)
(* that dijkstra_generate makes a graph of, be it followed by more.        *)
(***************************************************************************)
EXTENDS SequenceAlignment, StructuredCodes, CodeGeneration

CONSTANTS
  WatermarkBlocks,                  \* bound on the blocks of a watermark
  FunctionBlocks,                   \* bound on those of a function
  MaxLength,                        \* bound on its code
  MaxFiles                          \* bound on the files

VARIABLES
  phase,                            \* "compare", "watermark", "function", "done"
  watermark,                        \* dijkstra_code
  best,                             \* highest_score_code and highest_score
  seen                              \* the codes of the files so far

vars == <<phase, watermark, best, seen, generationVars>>

(* Those that are typed include all that are computed *)
WatermarkCodes ==
  {s \in {c \o more : c \in CodesOf(WatermarkBlocks, 2..6), more \in {<<>>, <<0>>, <<1>>}} :
     ReadTo(s)[1] # 0}

(* A switch of up to three branches, or of six *)
FunctionCodes ==
  {c \in CodesOf(FunctionBlocks, (2..7) \cup {10}) : Len(c) <= MaxLength}

Scores == [c \in FunctionCodes, w \in WatermarkCodes |-> NeedlemanWunsch(c, w)]

(* LONG_MIN, lower than any score *)
LongMin == -1000

Init ==
  /\ phase = "compare"
  /\ watermark \in WatermarkCodes
  /\ best = [code |-> <<>>, score |-> LongMin]
  /\ seen = <<>>
  /\ given = <<>> /\ at = 0 /\ frames = <<>> /\ calling = FALSE /\ table = FreshTable

(* strlen(current) > SIZE_PERCENTAGE * strlen(watermark) *)
Fits(c) == 10 * Len(c) > 8 * Len(watermark)

(* MUTANT: the last of the functions that fit *)
BetterLast(c) == TRUE

Better(c) == Scores[c, watermark] > best.score

Compare ==
  /\ phase = "compare" /\ Len(seen) < MaxFiles
  /\ \E c \in FunctionCodes :
       /\ seen' = Append(seen, c)
       /\ best' = IF Fits(c) /\ Better(c)
                  THEN [code |-> c, score |-> Scores[c, watermark]] ELSE best
  /\ UNCHANGED <<phase, watermark, generationVars>>

StartWatermark ==
  /\ phase = "compare" /\ best.code # <<>>
  /\ phase' = "watermark" /\ seen' = <<>>
  /\ Begin(watermark)
  /\ UNCHANGED <<watermark, best>>

NoCandidate ==
  /\ phase = "compare" /\ best.code = <<>>
  /\ phase' = "done"
  /\ UNCHANGED <<watermark, best, seen, generationVars>>

Generate ==
  /\ phase \in {"watermark", "function"} /\ GenerateStep
  /\ UNCHANGED <<phase, watermark, best, seen>>

StartFunction ==
  /\ phase = "watermark" /\ Returned
  /\ phase' = "function"
  /\ Begin(best.code)
  /\ UNCHANGED <<watermark, best, seen>>

Finish ==
  /\ phase = "function" /\ Returned
  /\ phase' = "done"
  /\ UNCHANGED <<watermark, best, seen, generationVars>>

Rest == phase = "done" /\ UNCHANGED vars

Next ==
  \/ Compare \/ StartWatermark \/ NoCandidate
  \/ Generate \/ StartFunction \/ Finish \/ Rest

Spec == Init /\ [][Next]_vars

-----------------------------------------------------------------------------
(* The sequences of k characters of a code, in order *)
Subsequences(s, k) ==
  LET Kept(A) == SelectSeq([j \in DOMAIN s |-> j], LAMBDA j : j \in A)
  IN  {[j \in 1..k |-> s[Kept(A)[j]]] : A \in kSubset(k, DOMAIN s)}

LongestWatermark == Max({Len(w) : w \in WatermarkCodes})

AllSubsequences ==
  [s \in FunctionCodes \cup WatermarkCodes |->
     [k \in 0..LongestWatermark |-> Subsequences(s, k)]]

(* An alignment pairs some characters of one code with as many of the      *)
(* other, in order, and leaves gaps for the others                         *)
BestScore(a, b) ==
  LET Score(x, y) ==
        LET equal == Cardinality({j \in DOMAIN x : x[j] = y[j]})
        IN  MATCH * equal + MISMATCH * (Len(x) - equal) + GAP * (Len(a) + Len(b) - 2 * Len(x))
  IN  Max(UNION {{Score(x, y) : x \in AllSubsequences[a][k], y \in AllSubsequences[b][k]} :
                   k \in 0..LongestWatermark})

BestScores == [c \in FunctionCodes, w \in WatermarkCodes |-> BestScore(c, w)]

(* The score is that of the best alignment, found by trying them all: the  *)
(* order in which the table is filled (sequence_alignment.c:56-69) reads   *)
(* no cell too early.                                                      *)
ScoreIsTheBest ==
  best.code # <<>> => best.score = BestScores[best.code, watermark]

(* Whatever the order of the files, one is chosen that no other of those   *)
(* long enough beats, and if one has the code of the watermark then that   *)
(* code is chosen (watermark.c:576-589).                                   *)
TheFunctionItselfIsFound ==
  /\ \A k \in DOMAIN seen : Fits(seen[k]) => Scores[seen[k], watermark] <= best.score
  /\ watermark \in ToSet(seen) => best.code = watermark

(* Each pair of braces, and the whole program, has the text of what the    *)
(* reader of the code makes a part of the graph of (dijkstra.c:447-500),   *)
(* neither more nor less, and breaks off where the reader would; of a code *)
(* with one digit for each block all is written.  What a call consumes is  *)
(* left to the call to find out (code_generation.c:212-268).               *)
BracesEncloseParts ==
  phase \in {"watermark", "function"} /\ ~calling =>
    /\ at = ReadTo(given)[IF frames = <<>> THEN 1 ELSE Last(frames).start]
    /\ given \in CodesOf(FunctionBlocks, 2..7) /\ frames = <<>> => at = Len(given) + 1

(* The program declares every identifier it uses, unless the table was     *)
(* used up: then next starts again from 1, the declarations are those      *)
(* before it (code_generation.c:60,182), and others may have been used.    *)
UndeclaredOnlyAfterWrap ==
  table.used \subseteq 0..(table.next - 1) \/ table.wrapped

=============================================================================
