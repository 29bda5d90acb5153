---------------------------- MODULE KeyedDecoding ----------------------------
(***************************************************************************)
(* A key is encoded, the graph loses some of its connections outside the   *)
(* hamiltonian path, and the improved decoder reads it with the key: what  *)
(* _test_with_removed_connections does for one set of removals.  A key may *)
(* end in its Reed-Solomon parity, and what is read is then corrected.     *)
(***************************************************************************)
EXTENDS Encoder, RsFraming

CONSTANTS
  MaxRemoved,                       \* how many connections may be lost
  SymbolBits,                       \* symsize
  ParitySymbols                     \* n_parity_symbols

ASSUME KeyedDecodingAssumption ==
  /\ MaxRemoved \in Nat
  /\ SymbolBits \in 1..ByteBits
  /\ ParitySymbols \in Nat
  /\ NumBits % SymbolBits = 0 /\ NumBits > SymbolBits * ParitySymbols

VARIABLES
  phase,                            \* "encode", "decode", then "corrected"
  removed,                          \* the connections lost
  recovered,                        \* what the corrected decoder returns
  dIdx, dI, bits, dStack, dHistory, \* of the decoder
  forwardEdgesLeft, forwardDestination, lastWas27

D == INSTANCE ImprovedDecoder WITH
       key <- data, keyBegin <- start,
       graphIdx <- dIdx, i <- dI, stack <- dStack, history <- dHistory

decoderVars == <<dIdx, dI, bits, dStack, dHistory,
                 forwardEdgesLeft, forwardDestination, lastWas27>>
allVars == <<vars, phase, removed, recovered, decoderVars>>

KDInit ==
  /\ Init
  /\ phase = "encode" /\ removed = {} /\ recovered = NULL
  /\ dIdx = 1 /\ dI = 1 /\ bits = <<1>>
  /\ dStack = D!FirstStack /\ dHistory = D!FirstHistory
  /\ forwardEdgesLeft = D!ForwardEdges
  /\ forwardDestination = 0 /\ lastWas27 = FALSE

Encode ==
  /\ phase = "encode" /\ ~Encoded
  /\ Next
  /\ UNCHANGED <<phase, removed, recovered, decoderVars>>

(* Any set of connections is lost, and the decoder is called *)
Remove ==
  /\ phase = "encode" /\ Encoded
  /\ \E R \in SUBSET NonHamiltonianEdges(edges) :
       /\ Cardinality(R) <= MaxRemoved
       /\ removed' = R
       /\ edges' = edges \ R
  /\ phase' = "decode"
  /\ UNCHANGED <<data, start, i, idx, numNodes, stack, history, recovered>>
  /\ dStack' = D!FirstStack'
  /\ dHistory' = D!FirstHistory'
  /\ forwardEdgesLeft' = D!ForwardEdges'
  /\ UNCHANGED <<dIdx, dI, bits, forwardDestination, lastWas27>>

Decode ==
  /\ phase = "decode"
  /\ D!Step
  /\ UNCHANGED <<i, idx, stack, history, phase, removed, recovered>>

DataSymbols == NumBits \div SymbolBits - ParitySymbols

(* The payload, with the parity that was appended to it *)
Parity ==
  [s \in 0..(ParitySymbols - 1) |->
     [j \in 0..(SymbolBits - 1) |-> data[(DataSymbols + s) * SymbolBits + j]]]
KeyWithParity == AppendRsCode(data, Parity, DataSymbols, ParitySymbols, SymbolBits)

(* The bits read, with the zeros that the graph does not store *)
WithLeftZeros ==
  LET result == RemoveLeftZeros(SequenceFromBitArr(D!Result))
      diff == NumBits - Len(D!Result)
  IN  IF diff < 0 THEN NULL
      ELSE IF diff > 0 THEN AddLeftZeros(result, diff) ELSE result

(* watermark_rs_decode_improved, after it has decoded the graph with a key *)
(* whose payload is not all zeros                                          *)
Correct ==
  /\ phase = "decode" /\ D!Decoded
  /\ start \in 0..(DataSymbols * SymbolBits - 1)
  /\ phase' = "corrected"
  /\ recovered' \in
       IF WithLeftZeros = NULL THEN {NULL}
       ELSE RemoveRsCode(WithLeftZeros, KeyWithParity, DataSymbols, ParitySymbols, SymbolBits)
  /\ UNCHANGED <<vars, removed, decoderVars>>

Rest ==
  /\ phase = "corrected" \/ (phase = "decode" /\ D!Decoded)
  /\ UNCHANGED allVars

KDNext == Encode \/ Remove \/ Decode \/ Correct \/ Rest

KDSpec == KDInit /\ [][KDNext]_allVars

-----------------------------------------------------------------------------
Key == [j \in 1..n |-> IF j = 1 THEN 1 ELSE data[start + j - 1]]

Finished == phase = "decode" /\ D!Decoded

(* _check: the key and the result are compared from their first positive   *)
(* bits on, as far as both go                                              *)
WrongBits == {j \in 1..n : j <= Len(D!Result) /\ D!Result[j] # Key[j]}

(* However many forward edges are lost, and nothing else, the key is read  *)
(* without an error: rules 2.6, 2.7 and 2.9 (decoder.c:116-139) find every *)
(* one of them and see none where there was none.                          *)
LostForwardEdgesAreRecovered ==
  Finished /\ (\A e \in removed : e[2] > e[1]) => D!Result = Key

(* One lost connection costs at most one bit (the debug build reports a    *)
(* test with two errors, watermark.c:280): a 1 whose backedge was lost,    *)
(* read as 0.                                                              *)
OneLossCostsOneBit ==
  Finished /\ Cardinality(removed) <= 1 =>
    /\ Cardinality(WrongBits) <= 1
    /\ \A j \in WrongBits :
         Key[j] = 1 /\ \E e \in removed : e[2] < e[1] /\ (e[1] - e[2]) % 2 = 1

(* Whatever is lost, the decoder returns as many bits as the key has, and  *)
(* its stacks and bits stay inside their n_bits entries, although a wrong  *)
(* guess skips a node too many or too few (decoder.c:61-68,78,174-178).    *)
DecoderKeepsBounds ==
  /\ Finished => Len(D!Result) = n
  /\ phase = "decode" /\ D!Looping =>
       /\ \A s \in StackNames : dStack[s].n < D!nBits
       /\ dI < D!nBits

(* No forward edge is lost together with the backedge of the node before   *)
(* it, which tells of it, unless an inner backedge tells of it as well.    *)
LossesApart ==
  \A e, f \in removed :
    e[2] = e[1] + 2 /\ f[1] = e[1] - 1 /\ f[2] < f[1] =>
      <<e[1] + 1, e[1]>> \in edges \cup removed

(* Losses that do not hide each other cost nothing, as long as they are no *)
(* more than half the parity symbols: the bits read are brought back to    *)
(* the places of the key, whatever zeros it starts with, so that one wrong *)
(* bit is one wrong symbol, and the payload comes out (decoder.c:236-285). *)
LossesAreRepaired ==
  phase = "corrected" /\ LossesApart /\ Cardinality(removed) <= ParitySymbols \div 2 =>
    /\ recovered # NULL
    /\ \A j \in 0..(DataSymbols * SymbolBits - 1) : recovered[j] = data[j]

(* Meeting a backedge the decoder is to "pop stacks" (decoder.c:96): on an *)
(* intact graph it only discards destinations, as the encoder did.         *)
DecoderRewindsOnlyPop ==
  [][phase = "decode" /\ D!ReadBackedge =>
       \A s \in StackNames : dStack'[s].n <= dStack[s].n]_allVars

=============================================================================
