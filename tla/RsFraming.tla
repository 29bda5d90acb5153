------------------------------ MODULE RsFraming ------------------------------
(***************************************************************************)
(* How a key travels with its Reed-Solomon parity: rs.c, and the           *)
(* conversions of utils.c between arrays of bits, of bytes and of symbols. *)
(*                                                                         *)
(* A block of memory is a function from the numbers of its bits, the first *)
(* of a byte being the most significant (get_bit, set_bit).  A symbol has  *)
(* no more bits than a byte and occupies one in an unmerged array.         *)
(*                                                                         *)
(* The codec is a library.  The parity is whatever belongs to the data;    *)
(* up to half as many wrong symbols as there are parity symbols are        *)
(* corrected; more of them are reported, or taken for other data.          *)
(***************************************************************************)
EXTENDS Integers, Sequences, FiniteSets

CONSTANT ByteBits                   \* 8 in the code; fewer give a small key several

ASSUME ByteBitsAssumption == ByteBits \in Nat \ {0}

BytesFor(bits) == bits \div ByteBits + (IF bits % ByteBits = 0 THEN 0 ELSE 1)
Block(bytes) == 0..(ByteBits * bytes - 1)
Size(block) == Cardinality(DOMAIN block)

(* No memory at all *)
NULL == <<>>

(* get_sequence_from_bit_arr: the bits end where the last byte does *)
SequenceFromBitArr(bits) ==
  LET bytes == BytesFor(Len(bits))
      zeros == ByteBits * bytes - Len(bits)
  IN  [k \in Block(bytes) |-> IF k < zeros THEN 0 ELSE bits[k - zeros + 1]]

(* get_number_of_left_zeros, of a block that is not all zeros *)
LeftZeros(block) ==
  CHOOSE z \in DOMAIN block : block[z] = 1 /\ \A k \in 0..(z - 1) : block[k] = 0

(* MUTANT: the bits stay where they are *)
RemoveNothing(block) == block

(* remove_left_zeros: the bits move left over themselves, which leaves the *)
(* last ones twice, and the length is rounded in its own way               *)
RemoveLeftZeros(block) ==
  LET zeros == LeftZeros(block)
      bytes == (Size(block) - zeros) \div ByteBits + (IF zeros = 0 THEN 0 ELSE 1)
  IN  [k \in Block(bytes) |->
         IF k + zeros < Size(block) THEN block[k + zeros] ELSE block[k]]

AddLeftZeros(block, zeros) ==
  [k \in Block(BytesFor(zeros + Size(block))) |->
     IF k \in zeros..(zeros + Size(block) - 1) THEN block[k - zeros] ELSE 0]

(* unmerge_arr and copy_merged_arr_to_unmerged_arr *)
Unmerge(block, count, symsize) ==
  [s \in 0..(count - 1) |-> [j \in 0..(symsize - 1) |-> block[s * symsize + j]]]

(* merge_arr and copy_unmerged_arr_to_merged_arr *)
Merge(symbols, count, symsize) ==
  [k \in Block(BytesFor(count * symsize)) |->
     IF k < count * symsize THEN symbols[k \div symsize][k % symsize] ELSE 0]

(* append_rs_code, whose argument counts symbols and whose result bits *)
AppendRsCode(data, parity, count, numParity, symsize) ==
  LET res == Unmerge(data, count, symsize)
  IN  Merge([s \in 0..(count + numParity - 1) |->
               IF s < count THEN res[s] ELSE parity[s - count]],
            count + numParity, symsize)

(* rs_decode of the symbols of a word, when codeword was meant: the data   *)
(* symbols it may leave behind, or NULL for a status of -1                 *)
RsDecode(word, codeword, count, numParity, symsize) ==
  LET wrong == {s \in 0..(count + numParity - 1) : word[s] # codeword[s]}
      Data(symbols) == [s \in 0..(count - 1) |-> symbols[s]]
  IN  IF Cardinality(wrong) <= numParity \div 2
      THEN {Data(codeword)}
      ELSE [0..(count - 1) -> [0..(symsize - 1) -> {0, 1}]] \cup {NULL}

(* remove_rs_code *)
RemoveRsCode(block, codeword, count, numParity, symsize) ==
  LET Symbols(b) == Unmerge(b, count + numParity, symsize)
  IN  {IF data = NULL THEN NULL ELSE Merge(data, count, symsize) :
         data \in RsDecode(Symbols(block), Symbols(codeword), count, numParity, symsize)}

(* remove_rs_code8: the symbols are bytes, as many as there are *)
RemoveRsCode8(block, codeword, numParity) ==
  RemoveRsCode(block, codeword, Size(block) \div ByteBits - numParity, numParity, ByteBits)

(* MUTANT: the blocks are compared from their first bits on *)
BinarySequenceEqualFromStart(b, c) ==
  \A k \in DOMAIN b \cap DOMAIN c : b[k] = c[k]

(* binary_sequence_equal compares the last bytes, as many as both have *)
BinarySequenceEqual(b, c) ==
  \A k \in DOMAIN b \cap DOMAIN c : b[Size(b) - k - 1] = c[Size(c) - k - 1]

=============================================================================
