---------------------------- MODULE EncoderGrammar ----------------------------
(***************************************************************************)
(* The encoder against the grammar of blocks it is meant to follow.  The   *)
(* grammar's word is the part of the key read so far, without the zeros    *)
(* before its first positive bit; data with no positive bit are written as *)
(* a 1 followed by all of them.                                            *)
(***************************************************************************)
EXTENDS Encoder

Word == [j \in 1..(i - start) |-> IF j = 1 THEN 1 ELSE data[start + j - 1]]

Grammar == INSTANCE BlockGrammar WITH
             length <- n, word <- Word, node <- idx, size <- numNodes

(* The two stacks and the history hold exactly the nodes that the graph    *)
(* leaves open: every step of the encoder is one that the grammar allows,  *)
(* which knows the graph only (encoder.c:87-149).                          *)
ImplementsGrammar == Grammar!GrammarSpec

(* What is built is structured at every moment: blocks nest, none is       *)
(* entered or left but at its ends.                                        *)
BlocksNest == Grammar!WellNested(edges)

=============================================================================
