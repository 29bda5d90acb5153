--------------------------- MODULE RoundTripProofs ---------------------------
(***************************************************************************)
(* Proof that a key of any length comes back out of its graph.             *)
(*                                                                         *)
(* Encoder and decoder count in two ways: nodes, and bits.  What joins     *)
(* them is a numbering of the nodes: how many bits had been written before *)
(* each of them.  The encoder has one at every moment, in which each node  *)
(* means the bit it was given; the decoder reads along it.                 *)
(***************************************************************************)
EXTENDS RoundTrip, EncoderProofs

(* The decoder has read what the nodes before graphIdx mean, and after the *)
(* last node of the loop perhaps a bit more: the node inside a forward     *)
(* edge that the key ends in                                               *)
ReadAlong ==
  /\ graphIdx \in 1..(numNodes - 2)
  /\ bits \in Seq(Bit)
  /\ \A j \in 1..Len(bits) : j <= n => bits[j] = Key[j]
  /\ \E pos : Numbers(pos) /\ (graphIdx <= idx => Len(bits) = pos[graphIdx])
  /\ graphIdx = idx + 1 => Len(bits) = n + (IF Forward(idx - 1) THEN 1 ELSE 0)

DecoderInv ==
  /\ phase \in {"encode", "decode", "done"}
  /\ phase = "encode" => graphIdx = 1 /\ bits = <<1>>
  /\ phase # "encode" => Encoded /\ ReadAlong
  /\ phase = "done" => D!Decoded

RTInv == EncoderInv /\ DecoderInv

LEMMA KeyIsWord ==
  ASSUME IInv, Encoded
  PROVE  Key = Word
  BY LastNodes DEF Key, Word

(* What the decoder asks of the graph *)
LEMMA DecoderQueries ==
  ASSUME IInv, graphIdx \in Nat \ {0}
  PROVE  /\ D!Mute <=> Forward(graphIdx - 2)
         /\ D!Forward <=> Forward(graphIdx)
         /\ D!BackedgeBit = IF Odd(graphIdx) THEN 1 ELSE 0
<1>1. D!Forward <=> Forward(graphIdx)
  BY DEF D!Forward, D!Connected, Forward
<1>2. D!Mute <=> Forward(graphIdx - 2)
  <2>1. Forward(graphIdx - 2) => graphIdx > 1
    BY EdgesBehind
  <2>2. (graphIdx - 2) + 2 = graphIdx
    OBVIOUS
  <2> QED
    BY <2>1, <2>2 DEF D!Mute, D!Connected, Forward
<1>3. Odd(graphIdx) <=>
        \E w \in D!BackedgeTargets(edges, graphIdx) : (graphIdx - w) % 2 = 1
  BY DEF Odd, Back, D!BackedgeTargets, D!Connected
<1> QED
  BY <1>1, <1>2, <1>3 DEF D!BackedgeBit

(* A node of the loop is passed over, or its meaning is appended           *)
LEMMA DecoderStep ==
  ASSUME IInv, graphIdx \in Nat \ {0}, D!Step
  PROVE  /\ graphIdx < numNodes - 2 /\ graphIdx' = graphIdx + 1
         /\ UNCHANGED <<edges, numNodes>>
         /\ IF Forward(graphIdx - 2)
            THEN bits' = bits
            ELSE bits' = Append(bits, Meaning(graphIdx))
<1>1. /\ graphIdx < numNodes - 2 /\ graphIdx' = graphIdx + 1
      /\ UNCHANGED <<edges, numNodes>>
  BY DEF D!Step, D!SkipMute, D!ReadForward, D!ReadBackedge, D!Looping, D!nBits, D!Advance
<1>2. CASE D!SkipMute
  BY <1>1, <1>2, DecoderQueries DEF D!SkipMute
<1>3. CASE D!ReadForward
  BY <1>1, <1>3, DecoderQueries DEF D!ReadForward, Meaning
<1>4. CASE D!ReadBackedge
  BY <1>1, <1>4, DecoderQueries DEF D!ReadBackedge, Meaning
<1> QED
  BY <1>2, <1>3, <1>4 DEF D!Step

(* An iteration of the decoder's loop: up to the last node that the        *)
(* encoder visited it writes the bits of the key, and after it what        *)
(* watermark_decode ignores (decoder.c:186-208)                            *)
LEMMA DecodeReads ==
  ASSUME IInv, Encoded, ReadAlong, Decode
  PROVE  ReadAlong'
<1>1. /\ i - start = n /\ n \in Nat \ {0} /\ Key = Word /\ idx \in Nat \ {0}
      /\ numNodes - 2 = idx + (IF Forward(idx - 1) \/ Forward(idx - 2) THEN 1 ELSE 0)
      /\ Forward(idx - 1) => ~Forward(idx - 2)
      /\ start \in Int /\ numNodes \in Nat
  BY LastNodes, KeyIsWord, LengthOfKey DEF IInv
<1>2. /\ graphIdx \in 1..(numNodes - 2) /\ graphIdx \in Nat \ {0}
      /\ bits \in Seq(Bit) /\ Len(bits) \in Nat
      /\ \A j \in 1..Len(bits) : j <= n => bits[j] = Key[j]
  BY <1>1, LenProperties DEF ReadAlong
<1>3. /\ graphIdx < numNodes - 2 /\ graphIdx' = graphIdx + 1
      /\ UNCHANGED <<data, start, i, idx, edges, numNodes>>
      /\ IF Forward(graphIdx - 2)
         THEN bits' = bits
         ELSE bits' = Append(bits, Meaning(graphIdx))
  BY <1>2, DecoderStep DEF Decode
<1>4. n' = n /\ Key' = Key /\ \A v : Forward(v)' <=> Forward(v)
  BY <1>3 DEF n, Key, Forward
<1>5. PICK pos : Numbers(pos) /\ (graphIdx <= idx => Len(bits) = pos[graphIdx])
  BY DEF ReadAlong
<1>6. Numbers(pos)'
  BY <1>3, <1>5 DEF Numbers, Meaning, Odd, Forward, Back
<1>7. Meaning(graphIdx) \in Bit
  BY DEF Meaning, Bit
<1>8. bits' \in Seq(Bit)
  BY <1>2, <1>3, <1>7, AppendProperties
<1>9. /\ Forward(graphIdx - 2) => Len(bits') = Len(bits)
      /\ ~Forward(graphIdx - 2) =>
           /\ Len(bits') = Len(bits) + 1
           /\ \A j \in 1..Len(bits) : bits'[j] = bits[j]
           /\ bits'[Len(bits) + 1] = Meaning(graphIdx)
  BY <1>2, <1>3, <1>7, AppendProperties
<1>10. CASE graphIdx < idx
  <2>1. /\ graphIdx \in 1..(idx - 1) /\ graphIdx + 1 \in 1..idx
        /\ graphIdx \in 1..idx
    BY <1>1, <1>2, <1>10
  <2>2. /\ pos[graphIdx] \in 1..n /\ pos[graphIdx + 1] \in 1..n
        /\ Len(bits) = pos[graphIdx]
        /\ IF Forward(graphIdx - 2)
           THEN pos[graphIdx + 1] = pos[graphIdx]
           ELSE /\ pos[graphIdx + 1] = pos[graphIdx] + 1
                /\ data[start + pos[graphIdx]] = Meaning(graphIdx)
    BY <1>1, <1>2, <1>5, <1>10, <2>1 DEF Numbers
  <2>3. Len(bits') = pos[graphIdx + 1]
    BY <1>9, <2>2
  <2>4. ASSUME NEW j \in 1..Len(bits'), j <= n
        PROVE  bits'[j] = Key[j]
    <3>1. CASE Forward(graphIdx - 2)
      BY <1>2, <1>3, <2>4, <3>1
    <3>2. CASE ~Forward(graphIdx - 2) /\ j <= Len(bits)
      <4>1. j \in 1..Len(bits)
        BY <1>2, <2>4, <3>2
      <4>2. bits'[j] = bits[j]
        BY <1>9, <3>2, <4>1
      <4> QED
        BY <1>2, <2>4, <4>1, <4>2
    <3>3. CASE ~Forward(graphIdx - 2) /\ j > Len(bits)
      <4>1. j = Len(bits) + 1
        BY <1>2, <1>9, <2>4, <3>3
      <4>2. j = pos[graphIdx] + 1 /\ j \in 1..n /\ j # 1
            /\ start + j - 1 = start + pos[graphIdx]
        BY <1>1, <2>2, <2>4, <4>1
      <4>3. Key[j] = data[start + pos[graphIdx]]
        BY <4>2 DEF Key
      <4> QED
        BY <1>9, <2>2, <3>3, <4>1, <4>3
    <3> QED
      BY <1>2, <2>4, <3>1, <3>2, <3>3
  <2>5. graphIdx' # idx' + 1
    BY <1>2, <1>1, <1>3, <1>10
  <2>6. graphIdx' \in 1..(numNodes' - 2)
    BY <1>1, <1>2, <1>3
  <2> QED
    BY <1>3, <1>4, <1>6, <1>8, <2>3, <2>4, <2>5, <2>6 DEF ReadAlong
<1>11. CASE graphIdx >= idx
  <2>1. graphIdx = idx
    BY <1>1, <1>2, <1>3, <1>11
  <2>2. /\ Forward(idx - 1) \/ Forward(idx - 2)
        /\ Len(bits) = n
    <3>1. pos[idx] = n
      BY <1>1, <1>5 DEF Numbers
    <3> QED
      BY <1>1, <1>3, <1>5, <2>1, <3>1
  <2>3. Len(bits') = n + (IF Forward(idx - 1) THEN 1 ELSE 0)
    BY <1>1, <1>9, <2>1, <2>2
  <2>4. ASSUME NEW j \in 1..Len(bits'), j <= n
        PROVE  bits'[j] = Key[j]
    <3>1. j \in 1..Len(bits)
      BY <1>1, <2>2, <2>3, <2>4
    <3> QED
      BY <1>2, <1>3, <1>9, <2>4, <3>1
  <2>5. graphIdx' = idx' + 1 /\ ~(graphIdx' <= idx')
    BY <1>1, <1>3, <2>1
  <2>6. graphIdx' \in 1..(numNodes' - 2)
    BY <1>1, <1>2, <1>3
  <2>7. Forward(idx - 1)' <=> Forward(idx - 1)
    BY <1>3 DEF Forward
  <2> QED
    BY <1>3, <1>4, <1>6, <1>8, <2>3, <2>4, <2>5, <2>6, <2>7 DEF ReadAlong
<1> QED
  BY <1>1, <1>2, <1>10, <1>11

(* The loop starts with the bit that every key starts with                 *)
LEMMA StartReads ==
  ASSUME IInv, Encoded, ReadsBack, graphIdx = 1, bits = << 1 >>
  PROVE  ReadAlong
<1>1. /\ idx \in Nat \ {0} /\ numNodes - 2 >= idx /\ numNodes \in Nat
      /\ n \in Nat \ {0}
  BY LastNodes
<1>2. /\ graphIdx \in 1..(numNodes - 2) /\ graphIdx # idx + 1
  BY <1>1
<1>3. bits \in Seq(Bit) /\ Len(bits) = 1 /\ bits[1] = 1
  BY DEF Bit
<1>4. Key[1] = 1
  BY <1>1 DEF Key
<1>5. \E pos : Numbers(pos) /\ (graphIdx <= idx => Len(bits) = pos[graphIdx])
  BY <1>3 DEF ReadsBack, Numbers
<1> QED
  BY <1>2, <1>3, <1>4, <1>5 DEF ReadAlong

(* At the end of the loop there is a bit too many exactly when the key     *)
(* ends inside a forward edge, which is when the second last node is the   *)
(* destination of one (decoder.c:192-208)                                  *)
LEMMA ResultIsKey ==
  ASSUME IInv, Encoded, ReadAlong, D!Decoded
  PROVE  D!Result = Key
<1>1. /\ i - start = n /\ n \in Nat \ {0} /\ Key = Word /\ idx \in Nat \ {0}
      /\ numNodes - 2 = idx + (IF Forward(idx - 1) \/ Forward(idx - 2) THEN 1 ELSE 0)
      /\ Forward(idx - 1) => idx > 1 /\ ~Forward(idx - 2)
      /\ numNodes \in Nat
  BY LastNodes, KeyIsWord
<1>2. /\ graphIdx = numNodes - 2 /\ bits \in Seq(Bit) /\ Len(bits) \in Nat
      /\ \A j \in 1..Len(bits) : j <= n => bits[j] = Key[j]
  BY <1>1, LenProperties DEF ReadAlong, D!Decoded, D!Looping, D!nBits
<1>3. Len(bits) = n + (IF Forward(idx - 1) THEN 1 ELSE 0)
  <2>1. CASE Forward(idx - 1) \/ Forward(idx - 2)
    BY <1>1, <1>2, <2>1 DEF ReadAlong
  <2>2. CASE ~Forward(idx - 1) /\ ~Forward(idx - 2)
    <3>1. graphIdx = idx
      BY <1>1, <1>2, <2>2
    <3>2. PICK pos : Numbers(pos) /\ (graphIdx <= idx => Len(bits) = pos[graphIdx])
      BY DEF ReadAlong
    <3>3. pos[idx] = n
      BY <1>1, <3>2 DEF Numbers
    <3> QED
      BY <1>1, <2>2, <3>1, <3>2, <3>3
  <2> QED
    BY <2>1, <2>2
<1>4. D!PrevLastIsForwardDestination <=> Forward(idx - 1)
  <2>1. D!PrevLastIsForwardDestination <=>
          numNodes - 2 > 2 /\ <<numNodes - 4, numNodes - 2>> \in edges
    BY <1>1 DEF D!PrevLastIsForwardDestination, D!nBits, D!Connected
  <2>2. CASE Forward(idx - 1)
    <3>1. numNodes - 4 = idx - 1 /\ numNodes - 2 = (idx - 1) + 2 /\ numNodes - 2 > 2
      BY <1>1, <2>2
    <3> QED
      BY <2>1, <2>2, <3>1 DEF Forward
  <2>3. CASE ~Forward(idx - 1) /\ Forward(idx - 2)
    <3>1. numNodes - 4 = idx - 1 /\ numNodes - 2 = (idx - 1) + 2
      BY <1>1, <2>3
    <3> QED
      BY <2>1, <2>3, <3>1 DEF Forward
  <2>4. CASE ~Forward(idx - 1) /\ ~Forward(idx - 2)
    <3>1. numNodes - 4 = idx - 2 /\ numNodes - 2 = (idx - 2) + 2
      BY <1>1, <2>4
    <3> QED
      BY <2>1, <2>4, <3>1 DEF Forward
  <2> QED
    BY <2>2, <2>3, <2>4
<1>5. D!Result = SubSeq(bits, 1, n)
  <2>1. Len(bits) - (IF D!PrevLastIsForwardDestination THEN 1 ELSE 0) = n
    BY <1>1, <1>3, <1>4
  <2> QED
    BY <2>1 DEF D!Result
<1>6. \A j \in 1..n : bits[j] \in Bit /\ bits[j] = Key[j]
  <2>1. \A j \in 1..n : j \in 1..Len(bits) /\ j <= n
    BY <1>1, <1>3
  <2> QED
    BY <1>2, <2>1, ElementOfSeq
<1>7. /\ SubSeq(bits, 1, n) \in Seq(Bit) /\ Len(SubSeq(bits, 1, n)) = n
      /\ \A j \in 1..n : SubSeq(bits, 1, n)[j] = bits[j]
  <2>1. /\ SubSeq(bits, 1, n) \in Seq(Bit)
        /\ Len(SubSeq(bits, 1, n)) = IF 1 <= n THEN n - 1 + 1 ELSE 0
        /\ \A j \in 1..(n - 1 + 1) : SubSeq(bits, 1, n)[j] = bits[1 + j - 1]
    BY <1>1, <1>6, SubSeqProperties
  <2>2. n - 1 + 1 = n /\ 1 <= n /\ \A j \in 1..n : 1 + j - 1 = j
    BY <1>1
  <2> QED
    BY <2>1, <2>2
<1>8. Key \in Seq(Bit) /\ Len(Key) = n
  BY <1>1, WordOfBits DEF IInv
<1> QED
  BY <1>5, <1>6, <1>7, <1>8, SeqEqual

-----------------------------------------------------------------------------
LEMMA RTInitInv == RTInit => RTInv
<1> SUFFICES ASSUME RTInit
             PROVE  RTInv
  OBVIOUS
<1>1. EncoderInv
  BY InitEncoder DEF RTInit
<1>2. DecoderInv
  BY DEF RTInit, DecoderInv, D!Begin
<1> QED
  BY <1>1, <1>2 DEF RTInv

(* Only the encoder changes what it works on *)
LEMMA OnlyTheEncoder == [RTNext]_allVars => [Next]_vars \/ Decode
  BY DEF RTNext, Encode, StartDecoding, Return, Rest, allVars

LEMMA DecodeLeavesEncoder ==
  ASSUME IInv, graphIdx \in Nat \ {0}, Decode
  PROVE  UNCHANGED vars
  BY DecoderStep DEF Decode, vars

LEMMA RTStepInv == RTInv /\ [RTNext]_allVars => RTInv' /\ [Next]_vars
<1> SUFFICES ASSUME RTInv, [RTNext]_allVars
             PROVE  RTInv' /\ [Next]_vars
  OBVIOUS
<1>1. phase # "encode" => graphIdx \in Nat \ {0}
  <2>1. phase # "encode" => graphIdx \in 1..(numNodes - 2) /\ numNodes \in Nat
    BY LastNodes DEF RTInv, EncoderInv, DecoderInv, ReadAlong
  <2> QED
    BY <2>1
<1>2. CASE Encode
  <2>1. [Next]_vars /\ UNCHANGED <<phase, graphIdx, bits>> /\ phase = "encode"
    BY <1>2 DEF Encode, decoderVars
  <2>2. DecoderInv'
    BY <2>1 DEF RTInv, DecoderInv
  <2> QED
    BY <2>1, <2>2, EncoderStep DEF RTInv
<1>3. CASE StartDecoding
  <2>1. /\ [Next]_vars /\ UNCHANGED <<vars, graphIdx, bits>>
        /\ phase = "encode" /\ phase' = "decode" /\ Encoded
    BY <1>3 DEF StartDecoding, decoderVars
  <2>2. ReadAlong
    BY <2>1, StartReads DEF RTInv, EncoderInv, DecoderInv
  <2>3. Encoded' /\ ReadAlong'
    BY <2>1, <2>2 DEF vars, Encoded, Looping, ReadAlong, Numbers, Meaning, Odd, Forward,
                      Back, n, Key
  <2>4. DecoderInv'
    BY <2>1, <2>3 DEF DecoderInv
  <2> QED
    BY <2>1, <2>4, EncoderStep DEF RTInv
<1>4. CASE Decode
  <2>1. phase = "decode" /\ phase' = "decode"
    BY <1>4 DEF Decode
  <2>2. UNCHANGED vars
    BY <1>1, <1>4, <2>1, DecodeLeavesEncoder DEF RTInv, EncoderInv
  <2>3. ReadAlong'
    BY <1>4, <2>1, DecodeReads DEF RTInv, EncoderInv, DecoderInv
  <2>4. Encoded'
    BY <2>1, <2>2 DEF RTInv, DecoderInv, vars, Encoded, Looping
  <2>5. DecoderInv'
    BY <2>1, <2>3, <2>4 DEF DecoderInv
  <2> QED
    BY <2>2, <2>5, EncoderStep DEF RTInv
<1>5. CASE Return \/ Rest \/ UNCHANGED allVars
  <2>1. /\ UNCHANGED <<vars, graphIdx, bits>>
        /\ \/ phase' = phase
           \/ phase = "decode" /\ phase' = "done" /\ D!Decoded
    BY <1>5 DEF Return, Rest, allVars, decoderVars
  <2>2. D!Decoded' <=> D!Decoded
    BY <2>1 DEF vars, D!Decoded, D!Looping, D!nBits
  <2>3. (Encoded' <=> Encoded) /\ (ReadAlong' <=> ReadAlong)
    BY <2>1 DEF vars, Encoded, Looping, ReadAlong, Numbers, Meaning, Odd, Forward,
                Back, n, Key
  <2>4. DecoderInv'
    BY <2>1, <2>2, <2>3 DEF RTInv, DecoderInv
  <2> QED
    BY <2>1, <2>4, EncoderStep DEF RTInv
<1> QED
  BY <1>2, <1>3, <1>4, <1>5 DEF RTNext

(* The composition never makes the encoder do what it does not do alone:   *)
(* all that is proved of the encoder holds of it.                          *)
THEOREM RoundTripEncodes == RTSpec => Spec /\ []RTInv
<1>1. RTInit => Init
  BY DEF RTInit
<1> QED
  BY <1>1, RTInitInv, RTStepInv, PTL DEF RTSpec, Spec

LEMMA DecodesKey == RTInv => DecodedKey
  BY ResultIsKey DEF RTInv, EncoderInv, DecoderInv, DecodedKey

(* The plain decoder returns the key that was encoded, for keys of every   *)
(* length and every choice of rand(): it neither takes a mute node for a   *)
(* bit, nor loses or adds one where the key ends (decoder.c:170-210).      *)
THEOREM KeyIsReadBack == RTSpec => []DecodedKey
  BY DecodesKey, RoundTripEncodes, PTL

LEMMA KeyOfBits ==
  ASSUME TypeOK
  PROVE  Key \in Seq({0, 1}) /\ Key # <<>>
<1>1. /\ n \in Nat \ {0} /\ start \in Int /\ NumBits \in Nat
      /\ start \in -1..(NumBits - 1)
  BY LengthOfKey DEF TypeOK
<1>2. ASSUME NEW j \in 1..n
      PROVE  (IF j = 1 THEN 1 ELSE data[start + j - 1]) \in {0, 1}
  <2>1. CASE j # 1
    <3>1. start + j - 1 \in 0..(NumBits - 1)
      BY <1>1, <2>1 DEF n
    <3> QED
      BY <2>1, <3>1 DEF TypeOK, Bit
  <2> QED
    BY <2>1
<1>3. Key \in [1..n -> {0, 1}]
  BY <1>2 DEF Key
<1>4. Key \in Seq({0, 1})
  BY <1>1, <1>3, SeqDef
<1>5. 1 \in DOMAIN Key
  BY <1>1, <1>3
<1>6. Key # <<>>
  BY <1>5, EmptySeq, LenProperties
<1> QED
  BY <1>4, <1>6

LEMMA ChannelStep ==
  ASSUME RTInv, [RTNext]_allVars
  PROVE  [Channel!Deliver]_(Channel!channelVars)
<1>1. DecodedKey' /\ [Next]_vars
  <2>1. RTInv' => DecodedKey'
    BY DecodesKey, PTL
  <2> QED
    BY <2>1, RTStepInv
<1>2. Key' = Key
  <2>1. data' = data /\ start' = start
    BY <1>1 DEF Next, vars, VisitMute, BuildWhile, BuildIf, BuildRepeat, OpenForward,
                VisitZero, Stop, ReadBit
  <2> QED
    BY <2>1 DEF Key, n
<1>3. CASE Return
  BY <1>1, <1>2, <1>3 DEF Return, DecodedKey, Channel!Deliver
<1>4. CASE Encode \/ StartDecoding \/ Decode
  <2>1. phase # "done" /\ phase' # "done"
    BY <1>4 DEF Encode, StartDecoding, Decode
  <2> QED
    BY <1>2, <2>1 DEF Channel!channelVars
<1>5. CASE Rest \/ UNCHANGED allVars
  <2>1. phase' = phase /\ bits' = bits /\ graphIdx' = graphIdx /\ UNCHANGED vars
    BY <1>5 DEF Rest, allVars, decoderVars
  <2>2. D!Result' = D!Result
    BY <2>1 DEF vars, D!Result, D!PrevLastIsForwardDestination, D!nBits, D!Connected
  <2> QED
    BY <1>2, <2>1, <2>2 DEF Channel!channelVars
<1> QED
  BY <1>3, <1>4, <1>5 DEF RTNext

(* Encoder and decoder implement the channel up to its liveness: at first  *)
(* nothing is received, and the only step that shows outside is the        *)
(* delivery of the key that was given.                                     *)
THEOREM RoundTripIsSafeChannel ==
  RTSpec => Channel!ChannelInit /\ [][Channel!Deliver]_(Channel!channelVars)
<1>1. RTInit => Channel!ChannelInit
  <2> SUFFICES ASSUME RTInit
               PROVE  Channel!ChannelInit
    OBVIOUS
  <2>1. TypeOK
    BY InitInv DEF RTInit, IInv
  <2> QED
    BY <2>1, KeyOfBits DEF RTInit, Channel!ChannelInit
<1> QED
  BY <1>1, ChannelStep, RoundTripEncodes, PTL DEF RTSpec

=============================================================================
