--------------------------- MODULE SequenceAlignment ---------------------------
(***************************************************************************)
(* watermark_needleman_wunsch: the score of the best alignment of the code *)
(* of a function with that of a watermark, by the table of the scores of   *)
(* their beginnings.  The path is filled too but never read; it is left    *)
(* out, and so is the entry point, which is always 0.                      *)
(***************************************************************************)
EXTENDS Integers, SequencesExt

(* The macros of watermark.c *)
MATCH == 1
MISMATCH == -2
GAP == -1

At(row, column) == <<row, column>>
Larger(x, y) == IF x < y THEN y ELSE x

(* MUTANT: a beginning may be skipped for free *)
FreeStart(s, seq1, seq2, row, column) ==
  CASE row = 0 \/ column = 0 -> 0
    [] OTHER ->
         LET diagonal == s[At(row - 1, column - 1)]
                         + (IF seq1[row] = seq2[column] THEN MATCH ELSE MISMATCH)
         IN  Larger(Larger(s[At(row - 1, column)], s[At(row, column - 1)]) + GAP, diagonal)

(* MAX_SCORE, the cells filled so far being s *)
MaxScore(s, seq1, seq2, row, column) ==
  CASE row = 0 /\ column = 0 -> 0
    [] row = 0 /\ column > 0 -> s[At(0, column - 1)] + GAP
    [] row > 0 /\ column = 0 -> s[At(row - 1, 0)] + GAP
    [] OTHER ->
         LET diagonal == s[At(row - 1, column - 1)]
                         + (IF seq1[row] = seq2[column] THEN MATCH ELSE MISMATCH)
         IN  Larger(Larger(s[At(row - 1, column)], s[At(row, column - 1)]) + GAP, diagonal)

(* Each pivot is followed by the rest of its column, and of its row *)
Order(rows, columns) ==
  FlattenSeq([k \in 1..(IF rows < columns THEN rows ELSE columns) |->
                LET p == k - 1
                IN  <<At(p, p)>> \o [i \in 1..(rows - p - 1) |-> At(p + i, p)]
                                \o [j \in 1..(columns - p - 1) |-> At(p, p + j)]])

(* A cell read before it is filled has no value *)
NeedlemanWunsch(seq1, seq2) ==
  LET Fill(s, cell) == s @@ (cell :> MaxScore(s, seq1, seq2, cell[1], cell[2]))
  IN  FoldLeft(Fill, <<>>, Order(Len(seq1) + 1, Len(seq2) + 1))[At(Len(seq1), Len(seq2))]

=============================================================================
