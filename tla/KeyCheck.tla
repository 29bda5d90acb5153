------------------------------ MODULE KeyCheck ------------------------------
(***************************************************************************)
(* A key is encoded, the graph may lose connections outside the            *)
(* hamiltonian path, and the checker compares it with a key, first to      *)
(* decide (watermark_check), then bit by bit (watermark_check_analysis).   *)
(* A key may end in its Reed-Solomon parity, and what the analysis marks   *)
(* is then corrected (watermark_rs_check, watermark_rs_check_analysis).    *)
(***************************************************************************)
EXTENDS Encoder, RsFraming

CONSTANTS
  MaxRemoved,                       \* how many connections may be lost
  MaxFlipped,                       \* in how many bits the keys may differ
  ParityBytes                       \* num_parity_symbols

ASSUME KeyCheckAssumption ==
  /\ MaxRemoved \in Nat /\ MaxFlipped \in Nat /\ ParityBytes \in Nat
  /\ NumBits % ByteBits = 0 /\ NumBits > ByteBits * ParityBytes

VARIABLES
  phase,                            \* "encode", "check", then "analyse", "corrected",
                                    \* or "no marks", "crashed" if the sizes differ
  removed,                          \* the connections lost
  claim, claimStart,                \* the key that the graph is checked for
  cIdx, cI, cStack, cHistory, position, verdict,
  marks,                            \* of the analysis, which starts afresh
  finalData                         \* final_data, once corrected

C == INSTANCE Checker WITH
       key <- claim, keyStart <- claimStart,
       graphIdx <- cIdx, i <- cI, stack <- cStack, history <- cHistory

(* The analysis never gives a verdict *)
A == INSTANCE CheckAnalysis WITH
       key <- claim, keyStart <- claimStart, verdict <- "none",
       graphIdx <- cIdx, i <- cI, stack <- cStack, history <- cHistory

checkerVars ==
  <<claim, claimStart, cIdx, cI, cStack, cHistory, position, verdict, marks>>
allVars == <<vars, phase, removed, checkerVars, finalData>>

KCInit ==
  /\ Init
  /\ phase = "encode" /\ removed = {}
  /\ claim = data /\ claimStart = start
  /\ cIdx = 1 /\ cI = start + 1
  /\ cStack = C!FirstStack /\ cHistory = C!FirstHistory
  /\ position = C!FirstPosition
  /\ verdict = "none" /\ marks = A!FirstMarks /\ finalData = NULL

Encode ==
  /\ phase = "encode" /\ ~Encoded
  /\ Next
  /\ UNCHANGED <<phase, removed, checkerVars, finalData>>

Flipped(c) == {j \in 0..(NumBits - 1) : c[j] # data[j]}

(* Connections are lost and watermark_check is called, which returns at    *)
(* once when the graph cannot stand for as many bits as the key has        *)
StartChecking ==
  /\ phase = "encode" /\ Encoded
  /\ \E R \in SUBSET NonHamiltonianEdges(edges) :
       /\ Cardinality(R) <= MaxRemoved
       /\ removed' = R
       /\ edges' = edges \ R
  /\ phase' = "check"
  /\ claim' \in {c \in [0..(NumBits - 1) -> Bit] : Cardinality(Flipped(c)) <= MaxFlipped}
  /\ claimStart' \in FirstPositiveBitIndex(claim')
  /\ cI' = claimStart' + 1
  /\ UNCHANGED <<data, start, i, idx, numNodes, stack, history, cIdx, marks, finalData>>
  /\ cStack' = C!FirstStack'
  /\ cHistory' = C!FirstHistory'
  /\ position' = C!FirstPosition'
  /\ verdict' = IF C!SizeMatches' THEN "none" ELSE "reject"

Check ==
  /\ phase = "check"
  /\ C!Step
  /\ UNCHANGED <<data, start, i, idx, stack, history, phase, removed, marks, finalData>>

(* watermark_check_analysis, when the sizes agree *)
StartAnalysing ==
  /\ phase = "check" /\ verdict # "none" /\ C!SizeMatches
  /\ phase' = "analyse"
  /\ cIdx' = 1 /\ cI' = claimStart + 1
  /\ cStack' = C!FirstStack /\ cHistory' = C!FirstHistory
  /\ position' = C!FirstPosition
  /\ UNCHANGED <<vars, removed, claim, claimStart, verdict, marks, finalData>>

(* watermark_check_analysis returns 0 when the sizes differ, and leaves    *)
(* its last argument as it is: the number of bytes, not of bits            *)
ReturnNoMarks ==
  /\ phase = "check" /\ verdict # "none" /\ ~C!SizeMatches
  /\ phase' = "no marks" /\ marks' = NULL
  /\ UNCHANGED <<vars, removed, claim, claimStart, cIdx, cI, cStack, cHistory, position,
                 verdict, finalData>>

Analyse ==
  /\ phase = "analyse"
  /\ A!AnalysisStep
  /\ UNCHANGED <<data, start, i, idx, stack, history, phase, removed, verdict, finalData>>

PayloadBits == NumBits - ByteBits * ParityBytes

(* The bits read: a marked bit of the payload is the wrong one, and the    *)
(* parity is that of the key, whatever the graph says of it                *)
CorrectedMarks ==
  [j \in 1..C!nBits |->
     LET k == claimStart + j - 1
     IN  IF k >= PayloadBits THEN claim[k]
         ELSE IF marks[j] = "x" THEN 1 - claim[k]
         ELSE IF marks[j] = "1" THEN 1 ELSE 0]

(* watermark_rs_check of a key whose payload is not all zeros: the bits    *)
(* read, in whole bytes, and the codeword of that length that was meant    *)
RsCheck ==
  /\ phase = "analyse" /\ A!Analysed /\ claimStart \in 0..(PayloadBits - 1)
  /\ phase' = "corrected"
  /\ LET read == SequenceFromBitArr(CorrectedMarks)
         meant == [k \in DOMAIN read |-> claim[NumBits - Size(read) + k]]
     IN  finalData' \in RemoveRsCode8(read, meant, ParityBytes)
  /\ UNCHANGED <<vars, removed, checkerVars>>

(* watermark_rs_check does not ask whether there are marks.  It takes the  *)
(* bits of the parity from the number of bytes: if that wraps, or some are *)
(* left, the first mark is read, and written with parity if none is.       *)
(* Both follow NULL.                                                       *)
RsCheckNoMarks ==
  /\ phase = "no marks" /\ claimStart < PayloadBits
  /\ phase' = "crashed"
  /\ UNCHANGED <<vars, removed, checkerVars, finalData>>

(* Who calls the analysis alone gets its marks, or NULL *)
Rest ==
  /\ \/ phase \in {"corrected", "no marks", "crashed"}
     \/ phase = "analyse" /\ A!Analysed
  /\ UNCHANGED allVars

KCNext ==
  \/ Encode \/ StartChecking \/ Check
  \/ StartAnalysing \/ ReturnNoMarks \/ Analyse
  \/ RsCheck \/ RsCheckNoMarks \/ Rest

KCSpec == KCInit /\ [][KCNext]_allVars

-----------------------------------------------------------------------------
(* The length of an odd backedge stands for a 1, that of an even one for 0 *)
StandsForOne(e) == e[2] > e[1] \/ (e[1] - e[2]) % 2 = 1

(* The checker's stacks, positions and skipped nodes follow those of the   *)
(* encoder closely enough that the key of the graph is never refused, even *)
(* after backedges that stood for zeros are lost (checker.c:86-166).       *)
RefusalNeedsALostOne ==
  verdict = "reject" /\ claim = data => \E e \in removed : StandsForOne(e)

(* The other way round, an intact graph that passes for a wrong key passes *)
(* only for keys with one more 1 than its own.                             *)
WrongKeyAddsOneBit ==
  verdict = "accept" /\ removed = {} =>
    /\ Cardinality(Flipped(claim)) <= 1
    /\ \A j \in Flipped(claim) : claim[j] = 1

(* A backedge that the checker accepts leads to a node that is in the      *)
(* stack, and cuts the other stack to no more than it holds: positions and *)
(* history entries of nodes popped long ago are never taken for current    *)
(* ones (checker.c:125,131-132).                                           *)
CheckerRewindsOnlyPop ==
  phase = "check" /\ C!Looping /\ C!Status \in {"back0", "back1"} =>
    \A w \in BackedgeTargets(edges, cIdx) : C!BackedgeAgrees(w) =>
      /\ cStack[C!Possible].mem[position[w]] = w
      /\ cHistory[w] <= cStack[OtherStack(C!Possible)].n

(* The stacks of n_bits entries hold what is pushed, and no bit past the   *)
(* end of the key is read (checker.c:72-77,135,143).                       *)
CheckerMemorySafe ==
  phase = "check" /\ verdict = "none" =>
    /\ \A s \in StackNames : cStack[s].n <= C!nBits
    /\ C!Looping => /\ cStack[OwnStack(cIdx)].n < C!nBits
                    /\ cIdx + 2 < numNodes
                    /\ C!Status \in {"forward0", "forward1"} /\ C!bit = 1
                         => cI <= NumBits - 1

Marked == {j \in DOMAIN marks : marks[j] = "x"}

(* The analysis is a second copy of the loop: it finds every bit in order  *)
(* exactly when watermark_check accepts (checker.c:86-166,276-339).        *)
AnalysisAgreesWithVerdict ==
  phase = "analyse" /\ A!Analysed => (Marked = {} <=> verdict = "accept")

(* The loop goes on after a bit that does not agree, with stacks that no   *)
(* longer follow the encoder's, and still recovers: each connection lost   *)
(* and each bit in which the keys differ costs one mark at most, for keys  *)
(* of the same length (checker.c:276-339).                                 *)
EachFaultCostsOneMark ==
  phase = "analyse" /\ A!Analysed /\ claimStart = start =>
    Cardinality(Marked) <= Cardinality(Flipped(claim)) + Cardinality(removed)

Payload == [k \in 0..(PayloadBits - 1) |-> claim[k]]

(* The bits that watermark_rs_check_analysis marks, of those that both the *)
(* key and what was corrected have, from their first positive bits on      *)
FinalMarks ==
  {j \in 0..(PayloadBits - claimStart - 1) :
     LET k == LeftZeros(finalData) + j
     IN  k \in DOMAIN finalData /\ claim[claimStart + j] # finalData[k]}

LostForward == \E e \in removed : e[2] > e[1]

(* As long as no more connections are lost than half the number of parity  *)
(* bytes, watermark_rs_check ends in one of two ways.  If none of them is  *)
(* a forward edge, the key of the graph passes, whatever zeros it starts   *)
(* with, and no bit of it is marked in the end.  If one is, the parity is  *)
(* of no use, as there are no marks to correct, and NULL is followed       *)
(* (checker.c:191-223,236,365-411).                                        *)
RsForgivesLostBackedges ==
  claim = data /\ Cardinality(removed) <= ParityBytes \div 2 =>
    /\ phase = "corrected" =>
         /\ ~LostForward
         /\ finalData # NULL /\ BinarySequenceEqual(Payload, finalData)
         /\ FinalMarks = {}
    /\ phase = "crashed" => LostForward

(* Whatever the graph has lost and whatever key it is compared with, the   *)
(* analysis writes exactly the n_bits marks it has room for, reads no bit  *)
(* past the key and keeps its stacks (checker.c:240,252,312,319).          *)
AnalysisKeepsBounds ==
  phase = "analyse" =>
    /\ \A s \in StackNames : cStack[s].n <= C!nBits
    /\ Len(marks) <= C!nBits
    /\ A!Looping /\ A!Status \in {"forward0", "forward1"} => cI < NumBits
    /\ A!Analysed => Len(marks) = C!nBits

(* watermark_check is said to "return true if it matches"                  *)
AcceptedKeyMatches == verdict = "accept" /\ removed = {} => claim = data

=============================================================================
