------------------------------ MODULE AttackProofs ------------------------------
(***************************************************************************)
(* Proofs that the threads of attack count every key once, that they count *)
(* beside the matrix only where a correction failed, and that every set of *)
(* connections is removed once, for any number of threads, keys of any     *)
(* length and any number of connections.                                   *)
(*                                                                         *)
(* A count is read and written in two steps (watermark.c:516-522): what a  *)
(* thread has read is still the count when it writes, because no other     *)
(* thread is between the two.  Each key is handed out once, and is that    *)
(* of one thread until it is counted.                                      *)
(***************************************************************************)
EXTENDS Attack, FiniteSetTheorems, SequenceTheorems, TLAPS

(* Where a thread may be *)
Places == {"take", "rs", "code", "free", "test", "raise"}

Busy(t) == pc[t] # "take"

Cells == (0..(MatrixSize - 1)) \X (0..(MatrixSize - 1))

Types ==
  /\ bits \in Nat \ {0} /\ nextKey \in Int
  /\ matrix \in [Cells -> Nat]
  /\ pc \in [Thread -> Places]
  /\ key \in [Thread -> Int] /\ worst \in [Thread -> Nat] /\ read \in [Thread -> Nat]
  /\ DOMAIN worstOf \subseteq Int

(* A thread that is to write has the section for itself, and what it read  *)
(* is the count                                                            *)
Exclusive ==
  \A t \in Thread : pc[t] = "raise" =>
    /\ critical = {t}
    /\ Cell(t) \in DOMAIN matrix => read[t] = matrix[Cell(t)]

(* A thread works on a key of its own that is not counted yet *)
OwnKeys ==
  \A t \in Thread : Busy(t) =>
    /\ Running
    /\ key[t] \in Keys(bits) /\ key[t] < nextKey
    /\ key[t] \notin DOMAIN worstOf
    /\ \A u \in Thread : Busy(u) /\ key[u] = key[t] => u = t

(* The errors found so far are no more than there can be *)
WorstInBounds ==
  \A t \in Thread : worst[t] \in ErrorCounts

(* Every key that was handed out is counted or in work *)
NoneForgotten ==
  /\ LowerBound(bits) <= nextKey
  /\ \A k \in LowerBound(bits)..(nextKey - 1) :
       k \in DOMAIN worstOf \/ \E t \in Thread : Busy(t) /\ key[t] = k
  /\ \A k \in DOMAIN worstOf : k < nextKey
  /\ \A n \in 1..(bits - 1) :
       /\ UpperBound(n) <= LowerBound(bits)
       /\ Keys(n) \subseteq DOMAIN worstOf

Counted(n, r) == {k \in Keys(n) \cap DOMAIN worstOf : worstOf[k] = r}

(* A column holds the keys counted so far, those of later rounds nothing *)
ColumnsCount ==
  ~overrun =>
    \A n \in 1..NumBits : \A r \in 0..(MatrixSize - 1) :
      matrix[<<r, n - 1>>] = IF n <= bits THEN Cardinality(Counted(n, r)) ELSE 0

CountInv ==
  /\ Types /\ Exclusive /\ OwnKeys /\ WorstInBounds
  /\ NoneForgotten /\ ColumnsCount /\ OnlyFailedCorrectionsOverrun

-----------------------------------------------------------------------------
LEMMA LargerOfTwo ==
  ASSUME NEW x \in Int, NEW y \in Int
  PROVE  Max({x, y}) \in {x, y}
BY DEF Max

LEMMA SmallerOfTwo ==
  ASSUME NEW x \in Int, NEW y \in Int
  PROVE  /\ Min({x, y}) \in {x, y}
         /\ Min({x, y}) <= x /\ Min({x, y}) <= y
BY DEF Min

LEMMA Products ==
  /\ \A a \in Nat, s \in Nat \ {0} : a * s \in Nat /\ a <= a * s
  /\ \A a, b \in Nat, s \in Nat \ {0} : a < b => a * s < b * s
<1>1. \A a \in Nat, s \in Nat \ {0} : a * s \in Nat /\ a <= a * s
  BY SMT
<1>2. \A a, b \in Nat, s \in Nat \ {0} : a < b => a * s < b * s
  BY SMT
<1> QED
  BY <1>1, <1>2

(* The sizes of the matrix, and the bounds of a round *)
LEMMA Sizes ==
  /\ NumBits \in Nat \ {0}
  /\ MatrixSize \in Nat /\ NumBits <= MatrixSize
  /\ \A m \in Nat : BitsOf(m) \in Nat /\ m <= BitsOf(m)
  /\ \A m, q \in Nat : m < q => BitsOf(m) < BitsOf(q)
<1>1. /\ MaxBits \in Nat \ {0} /\ MaxSymbols \in Nat \ {0} /\ SymSize \in Nat \ {0}
  BY AttackAssumption
<1>2. NumBits \in Nat \ {0}
  BY <1>1 DEF NumBits
<1>3. \A m \in Nat : BitsOf(m) \in Nat /\ m <= BitsOf(m)
  BY <1>1, Products DEF BitsOf
<1>4. \A m, q \in Nat : m < q => BitsOf(m) < BitsOf(q)
  BY <1>1, Products DEF BitsOf
<1> QED
  BY <1>2, <1>3, <1>4 DEF MatrixSize

LEMMA Rounds ==
  ASSUME NEW m \in Nat \ {0}
  PROVE  /\ LowerBound(m) \in Int /\ UpperBound(m) \in Int
         /\ LowerBound(m + 1) = UpperBound(m)
<1>1. SymSize \in Nat /\ m - 1 \in Nat /\ (m + 1) - 1 = m
  BY AttackAssumption
<1>2. (m - 1) * SymSize \in Nat /\ m * SymSize \in Nat
  BY <1>1
<1>3. \A x \in Nat : 2 ^ x \in Int
  OBVIOUS
<1> QED
  BY <1>1, <1>2, <1>3 DEF LowerBound, UpperBound

LEMMA FiniteCounts ==
  ASSUME NEW m \in Nat \ {0}, NEW r
  PROVE  IsFiniteSet(Counted(m, r))
<1>1. IsFiniteSet(Keys(m))
  BY Rounds, FS_Interval DEF Keys
<1>2. Counted(m, r) \in SUBSET Keys(m)
  BY DEF Counted
<1> QED
  BY <1>1, <1>2, FS_Subset

-----------------------------------------------------------------------------
(* The arguments do not change, and so do the sizes they give *)
LEMMA SameSizes ==
  ASSUME method' = method
  PROVE  /\ NumBits' = NumBits /\ MatrixSize' = MatrixSize
         /\ Rs' = Rs /\ Cells' = Cells
         /\ \A m : /\ BitsOf(m)' = BitsOf(m) /\ Keys(m)' = Keys(m)
                  /\ LowerBound(m)' = LowerBound(m)
                  /\ UpperBound(m)' = UpperBound(m)
BY DEF NumBits, MatrixSize, Cells, Rs, BitsOf, Keys, LowerBound, UpperBound

LEMMA InitCount == Init => CountInv
<1> SUFFICES ASSUME Init PROVE CountInv
  OBVIOUS
<1>1. /\ bits = 1 /\ nextKey = LowerBound(1)
      /\ matrix = [cell \in Cells |-> 0]
      /\ pc = [t \in Thread |-> "take"]
      /\ key = [t \in Thread |-> 0] /\ worst = [t \in Thread |-> 0]
      /\ read = [t \in Thread |-> 0]
  BY DEF Init, Cells
<1>2. DOMAIN worstOf = {}
  <2>1. worstOf = <<>>
    BY DEF Init
  <2> QED
    BY <2>1
<1>3. Types
  <2>1. LowerBound(1) \in Int
    BY Rounds
  <2> QED
    BY <1>1, <1>2, <2>1 DEF Types, Places
<1>4. Exclusive /\ OwnKeys
  BY <1>1 DEF Exclusive, OwnKeys, Busy
<1>5. WorstInBounds
  <2>1. BitsOf(1) \in Nat /\ 1 <= BitsOf(1)
    BY Sizes
  <2> QED
    BY <1>1, <2>1 DEF WorstInBounds, ErrorCounts
<1>6. NoneForgotten
  <2>1. LowerBound(1) \in Int
    BY Rounds
  <2> QED
    BY <1>1, <1>2, <2>1 DEF NoneForgotten
<1>7. ColumnsCount
  <2> SUFFICES ASSUME NEW m \in 1..NumBits, NEW r \in 0..(MatrixSize - 1)
               PROVE  matrix[<<r, m - 1>>] = IF m <= bits THEN Cardinality(Counted(m, r)) ELSE 0
    BY DEF ColumnsCount
  <2>1. <<r, m - 1>> \in Cells
    <3>1. m - 1 \in 0..(MatrixSize - 1)
      BY Sizes
    <3> QED
      BY <3>1 DEF Cells
  <2>2. Counted(m, r) = {}
    BY <1>2 DEF Counted
  <2> QED
    BY <1>1, <2>1, <2>2, FS_EmptySet
<1>8. OnlyFailedCorrectionsOverrun
  BY DEF OnlyFailedCorrectionsOverrun, Init
<1> QED
  BY <1>3, <1>4, <1>5, <1>6, <1>7, <1>8 DEF CountInv

(* A step that counts nothing leaves the columns as they are *)
LEMMA SameColumns ==
  ASSUME ColumnsCount, method' = method,
         UNCHANGED <<matrix, overrun, bits, worstOf>>
  PROVE  ColumnsCount'
<1>1. \A m, r : Counted(m, r)' = Counted(m, r)
  BY SameSizes DEF Counted
<1> QED
  BY <1>1, SameSizes DEF ColumnsCount

LEMMA SameOverrun ==
  ASSUME OnlyFailedCorrectionsOverrun, method' = method, UNCHANGED <<overrun, worstOf>>
  PROVE  OnlyFailedCorrectionsOverrun'
BY SameSizes DEF OnlyFailedCorrectionsOverrun

LEMMA TakeCounts ==
  ASSUME CountInv, NEW t \in Thread, Take(t)
  PROVE  CountInv'
<1>0. /\ Types /\ Exclusive /\ OwnKeys /\ WorstInBounds
      /\ NoneForgotten /\ ColumnsCount /\ OnlyFailedCorrectionsOverrun
  BY DEF CountInv
<1>1. /\ UNCHANGED <<method, numRemovals, bits, matrix, overrun, critical, worst, read, worstOf>>
      /\ Running /\ pc[t] = "take" /\ nextKey < UpperBound(bits)
      /\ nextKey' = nextKey + 1
      /\ key' = [key EXCEPT ![t] = nextKey]
      /\ \E p \in {"rs", "test"} : pc' = [pc EXCEPT ![t] = p]
  BY DEF Take, BeforeTest, At, args, counts
<1>2. Types'
  BY <1>0, <1>1, SameSizes DEF Types, Places
<1>3. Exclusive'
  BY <1>0, <1>1 DEF Exclusive, Cell, Types
<1>4. LowerBound(bits) \in Int /\ UpperBound(bits) \in Int
  BY <1>0, Rounds DEF Types
<1>5. OwnKeys'
  <2>1. nextKey \in Keys(bits) /\ nextKey \notin DOMAIN worstOf
    BY <1>0, <1>1, <1>4 DEF Keys, NoneForgotten, Types
  <2>2. \A u \in Thread : Busy(u) => key[u] # nextKey
    BY <1>0, <1>1 DEF OwnKeys, Types
  <2> QED
    BY <1>0, <1>1, <2>1, <2>2, SameSizes DEF OwnKeys, Busy, Types, Running
<1>6. WorstInBounds'
  BY <1>0, <1>1, SameSizes DEF WorstInBounds, ErrorCounts
<1>7. NoneForgotten'
  <2>1. \A k \in LowerBound(bits)..nextKey :
          k \in DOMAIN worstOf \/ \E u \in Thread : Busy(u)' /\ key'[u] = k
    BY <1>0, <1>1, <1>4 DEF NoneForgotten, Busy, Types
  <2> QED
    BY <1>0, <1>1, <1>4, <2>1, SameSizes DEF NoneForgotten, Types
<1> QED
  BY <1>0, <1>1, <1>2, <1>3, <1>5, <1>6, <1>7, SameColumns, SameOverrun DEF CountInv

(* Another set of connections is removed: the worst case may grow *)
LEMMA TestCounts ==
  ASSUME CountInv, NEW t \in Thread, Test(t)
  PROVE  CountInv'
<1>0. /\ Types /\ Exclusive /\ OwnKeys /\ WorstInBounds
      /\ NoneForgotten /\ ColumnsCount /\ OnlyFailedCorrectionsOverrun
  BY DEF CountInv
<1>1. /\ UNCHANGED <<method, numRemovals, bits, nextKey, matrix, overrun, critical>>
      /\ UNCHANGED <<key, read, worstOf>>
      /\ pc[t] = "test"
      /\ \E p \in {"rs", "test"} : pc' = [pc EXCEPT ![t] = p]
  BY DEF Test, BeforeTest, At, main, args, counts
<1>2. PICK errors \in ErrorCounts : worst' = [worst EXCEPT ![t] = Max({@, errors})]
  BY DEF Test
<1>3. Max({worst[t], errors}) \in ErrorCounts \cap Nat
  <2>1. worst[t] \in Nat /\ worst[t] \in ErrorCounts
    BY <1>0 DEF Types, WorstInBounds
  <2>2. errors \in Nat
    BY <1>2 DEF ErrorCounts
  <2>3. Max({worst[t], errors}) \in {worst[t], errors}
    BY <2>1, <2>2, LargerOfTwo
  <2> QED
    BY <1>2, <2>1, <2>2, <2>3
<1>4. Types'
  BY <1>0, <1>1, <1>2, <1>3, SameSizes DEF Types, Places
<1>5. Exclusive'
  BY <1>0, <1>1, <1>2 DEF Exclusive, Cell, Types
<1>6. \A u \in Thread : Busy(u)' <=> Busy(u)
  BY <1>0, <1>1 DEF Busy, Types
<1>7. OwnKeys'
  BY <1>0, <1>1, <1>6, SameSizes DEF OwnKeys, Running
<1>8. WorstInBounds'
  <2>1. ErrorCounts' = ErrorCounts
    BY <1>1, SameSizes DEF ErrorCounts
  <2> QED
    BY <1>0, <1>2, <1>3, <2>1 DEF WorstInBounds, Types
<1>9. NoneForgotten'
  BY <1>0, <1>1, <1>6, SameSizes DEF NoneForgotten
<1> QED
  BY <1>0, <1>1, <1>4, <1>5, <1>7, <1>8, <1>9, SameColumns, SameOverrun DEF CountInv

(* A step of the codec moves its thread alone, between two tests, and is   *)
(* taken when no thread is in the section                                  *)
CodecStep(t) == GetRsStruct(t) \/ ExitInRsStruct(t) \/ Code(t) \/ FreeRs(t)

LEMMA CodecMoves ==
  ASSUME pc \in [Thread -> Places], NEW t \in Thread, CodecStep(t)
  PROVE  /\ UNCHANGED <<main, counts, report, locals>>
         /\ critical = {} /\ pc[t] \in Places \ {"take", "raise"}
         /\ \E p \in Places \ {"take", "raise"} : pc' = [pc EXCEPT ![t] = p]
<1>1. CASE GetRsStruct(t)
  BY <1>1 DEF GetRsStruct, At, Places, outcome
<1>2. CASE ExitInRsStruct(t)
  <2>1. pc' = pc /\ pc[t] = "rs" /\ pc = [pc EXCEPT ![t] = "rs"]
    BY <1>2 DEF ExitInRsStruct, At
  <2> QED
    BY <1>2, <2>1 DEF ExitInRsStruct, Places
<1>3. CASE Code(t)
  BY <1>3 DEF Code, At, Places, outcome
<1>4. CASE FreeRs(t)
  BY <1>4 DEF FreeRs, At, Places, outcome
<1> QED
  BY <1>1, <1>2, <1>3, <1>4 DEF CodecStep

LEMMA CodecCounts ==
  ASSUME CountInv, NEW t \in Thread, CodecStep(t)
  PROVE  CountInv'
<1>0. /\ Types /\ Exclusive /\ OwnKeys /\ WorstInBounds
      /\ NoneForgotten /\ ColumnsCount /\ OnlyFailedCorrectionsOverrun
  BY DEF CountInv
<1>1. /\ UNCHANGED <<method, numRemovals, bits, nextKey, matrix, overrun>>
      /\ UNCHANGED <<key, worst, read, worstOf>>
      /\ critical = {} /\ pc[t] \in Places \ {"take", "raise"}
      /\ \E p \in Places \ {"take", "raise"} : pc' = [pc EXCEPT ![t] = p]
  BY <1>0, CodecMoves DEF Types, main, args, counts, locals
<1>2. Types'
  BY <1>0, <1>1, SameSizes DEF Types, Places
<1>3. Exclusive'
  <2>1. \A u \in Thread : pc[u] # "raise"
    BY <1>0, <1>1 DEF Exclusive
  <2>2. \A u \in Thread : pc'[u] # "raise"
    BY <1>0, <1>1, <2>1 DEF Types
  <2> QED
    BY <2>2 DEF Exclusive
<1>4. \A u \in Thread : Busy(u)' <=> Busy(u)
  BY <1>0, <1>1 DEF Busy, Types
<1>5. OwnKeys' /\ NoneForgotten'
  BY <1>0, <1>1, <1>4, SameSizes DEF OwnKeys, NoneForgotten, Running
<1>6. WorstInBounds'
  BY <1>0, <1>1, SameSizes DEF WorstInBounds, ErrorCounts
<1> QED
  BY <1>0, <1>1, <1>2, <1>3, <1>5, <1>6, SameColumns, SameOverrun DEF CountInv

(* The section is entered when no other thread is in it, and what is read  *)
(* is the count                                                            *)
LEMMA EnterCounts ==
  ASSUME CountInv, NEW t \in Thread, Enter(t)
  PROVE  CountInv'
<1>0. /\ Types /\ Exclusive /\ OwnKeys /\ WorstInBounds
      /\ NoneForgotten /\ ColumnsCount /\ OnlyFailedCorrectionsOverrun
  BY DEF CountInv
<1>1. /\ UNCHANGED <<method, numRemovals, bits, nextKey, matrix, overrun>>
      /\ UNCHANGED <<key, worst, worstOf>>
      /\ pc[t] = "test" /\ critical = {} /\ critical' = {t}
      /\ read' = [read EXCEPT ![t] = IF Cell(t) \in DOMAIN matrix THEN matrix[Cell(t)] ELSE 0]
      /\ pc' = [pc EXCEPT ![t] = "raise"]
  BY DEF Enter, At, main, args, counts
<1>2. Types'
  BY <1>0, <1>1, SameSizes DEF Types, Places
<1>3. Exclusive'
  <2>1. \A u \in Thread : pc[u] # "raise"
    BY <1>0, <1>1 DEF Exclusive
  <2>2. \A u \in Thread : Cell(u)' = Cell(u)
    BY <1>1 DEF Cell
  <2> QED
    BY <1>0, <1>1, <2>1, <2>2 DEF Exclusive, Types
<1>4. OwnKeys'
  <2>1. \A u \in Thread : Busy(u)' <=> Busy(u)
    BY <1>0, <1>1 DEF Busy, Types
  <2> QED
    BY <1>0, <1>1, <2>1, SameSizes DEF OwnKeys, Running
<1>5. WorstInBounds'
  BY <1>0, <1>1, SameSizes DEF WorstInBounds, ErrorCounts
<1>6. NoneForgotten'
  <2>1. \A u \in Thread : Busy(u)' <=> Busy(u)
    BY <1>0, <1>1 DEF Busy, Types
  <2> QED
    BY <1>0, <1>1, <2>1, SameSizes DEF NoneForgotten
<1> QED
  BY <1>0, <1>1, <1>2, <1>3, <1>4, <1>5, <1>6, SameColumns, SameOverrun DEF CountInv

(* A key is counted in its column, and leaves the others alone *)
LEMMA CountedKey ==
  ASSUME CountInv, NEW t \in Thread, Raise(t),
         NEW m \in 1..bits, NEW r
  PROVE  Counted(m, r)' = IF m = bits /\ r = worst[t]
                          THEN Counted(m, r) \cup {key[t]} ELSE Counted(m, r)
<1>0. Types /\ OwnKeys /\ NoneForgotten
  BY DEF CountInv
<1>1. /\ method' = method /\ pc[t] = "raise"
      /\ worstOf' = [k \in DOMAIN worstOf \cup {key[t]} |->
                       IF k = key[t] THEN worst[t] ELSE worstOf[k]]
  BY DEF Raise, At, main, args
<1>2. key[t] \in Keys(bits) /\ key[t] \notin DOMAIN worstOf
  BY <1>0, <1>1 DEF OwnKeys, Busy
<1>3. Keys(m)' = Keys(m)
  BY <1>1, SameSizes
<1>4. CASE m = bits
  BY <1>1, <1>2, <1>3, <1>4 DEF Counted
<1>5. CASE m # bits
  <2>1. m \in 1..(bits - 1) /\ m \in Nat \ {0} /\ bits \in Nat \ {0}
    BY <1>0, <1>5 DEF Types
  <2>2. UpperBound(m) <= LowerBound(bits)
    BY <1>0, <2>1 DEF NoneForgotten
  <2>3. key[t] \notin Keys(m)
    BY <1>2, <2>1, <2>2, Rounds DEF Keys
  <2> QED
    BY <1>1, <1>3, <1>5, <2>3 DEF Counted
<1> QED
  BY <1>4, <1>5

(* The count of a thread is written, whose key now is counted *)
LEMMA RaiseCounts ==
  ASSUME CountInv, NEW t \in Thread, Raise(t)
  PROVE  CountInv'
<1>0. /\ Types /\ Exclusive /\ OwnKeys /\ WorstInBounds
      /\ NoneForgotten /\ ColumnsCount /\ OnlyFailedCorrectionsOverrun
  BY DEF CountInv
<1>1. /\ UNCHANGED <<method, numRemovals, bits, nextKey>>
      /\ pc[t] = "raise"
      /\ worstOf' = [k \in DOMAIN worstOf \cup {key[t]} |->
                       IF k = key[t] THEN worst[t] ELSE worstOf[k]]
      /\ pc' = [pc EXCEPT ![t] = "take"]
      /\ key' = [key EXCEPT ![t] = 0] /\ worst' = [worst EXCEPT ![t] = 0]
      /\ read' = [read EXCEPT ![t] = 0]
  BY DEF Raise, Forget, At, main, args
<1>2. \/ /\ Cell(t) \in Cells /\ matrix' = [matrix EXCEPT ![Cell(t)] = read[t] + 1]
         /\ UNCHANGED overrun
      \/ /\ Cell(t) \notin Cells /\ overrun' = TRUE /\ UNCHANGED matrix
  <2>1. DOMAIN matrix = Cells
    BY <1>0 DEF Types
  <2> QED
    BY <2>1 DEF Raise
<1>3. /\ Running /\ bits \in Nat \ {0}
      /\ key[t] \in Keys(bits) /\ key[t] < nextKey /\ key[t] \notin DOMAIN worstOf
      /\ key[t] \in Int /\ worst[t] \in Nat /\ read[t] \in Nat
      /\ worst[t] \in ErrorCounts
  BY <1>0, <1>1 DEF OwnKeys, Busy, Types, WorstInBounds
<1>4. Types'
  <2>1. matrix' \in [Cells -> Nat]
    BY <1>0, <1>2, <1>3 DEF Types
  <2> QED
    BY <1>0, <1>1, <1>3, <2>1, SameSizes DEF Types, Places
<1>5. Exclusive'
  <2>1. \A u \in Thread : pc'[u] # "raise"
    BY <1>0, <1>1 DEF Exclusive, Types
  <2> QED
    BY <2>1 DEF Exclusive
<1>6. \A u \in Thread : Busy(u)' <=> Busy(u) /\ u # t
  BY <1>0, <1>1 DEF Busy, Types
<1>7. OwnKeys'
  <2>1. \A u \in Thread : u # t => key'[u] = key[u]
    BY <1>0, <1>1 DEF Types
  <2>2. \A u \in Thread : Busy(u) /\ u # t => key[u] # key[t]
    BY <1>0, <1>1 DEF OwnKeys, Busy
  <2> QED
    BY <1>0, <1>1, <1>6, <2>1, <2>2, SameSizes DEF OwnKeys, Running
<1>8. WorstInBounds'
  <2>1. ErrorCounts' = ErrorCounts
    BY <1>1, SameSizes DEF ErrorCounts
  <2>2. 0 \in ErrorCounts
    BY <1>3, Sizes DEF ErrorCounts
  <2> QED
    BY <1>0, <1>1, <2>1, <2>2 DEF WorstInBounds, Types
<1>9. NoneForgotten'
  <2>1. DOMAIN worstOf' = DOMAIN worstOf \cup {key[t]}
    BY <1>1
  <2>2. \A u \in Thread : u # t => key'[u] = key[u]
    BY <1>0, <1>1 DEF Types
  <2>3. \A k \in LowerBound(bits)..(nextKey - 1) :
          k \in DOMAIN worstOf' \/ \E u \in Thread : Busy(u)' /\ key'[u] = k
    BY <1>0, <1>6, <2>1, <2>2 DEF NoneForgotten
  <2> QED
    BY <1>0, <1>1, <1>3, <2>1, <2>3, SameSizes DEF NoneForgotten
<1>10. ColumnsCount'
  <2> SUFFICES ASSUME ~overrun', NEW m \in 1..NumBits, NEW r \in 0..(MatrixSize - 1)
               PROVE  matrix'[<<r, m - 1>>] =
                        IF m <= bits THEN Cardinality(Counted(m, r)') ELSE 0
    BY <1>1, SameSizes DEF ColumnsCount
  <2>1. /\ Cell(t) \in Cells /\ matrix' = [matrix EXCEPT ![Cell(t)] = read[t] + 1]
        /\ ~overrun
    BY <1>2
  <2>2. matrix[<<r, m - 1>>] = IF m <= bits THEN Cardinality(Counted(m, r)) ELSE 0
    BY <1>0, <2>1 DEF ColumnsCount
  <2>3. m \in Nat \ {0} /\ r \in Nat /\ <<r, m - 1>> \in Cells
    <3>1. m - 1 \in 0..(MatrixSize - 1) /\ m \in Nat \ {0} /\ r \in Nat
      BY Sizes
    <3> QED
      BY <3>1 DEF Cells
  <2>4. CASE m = bits /\ r = worst[t]
    <3>1. <<r, m - 1>> = Cell(t)
      BY <2>4 DEF Cell
    <3>2. matrix'[<<r, m - 1>>] = read[t] + 1
      BY <1>0, <2>1, <3>1 DEF Types
    <3>3. read[t] = matrix[<<r, m - 1>>]
      <4>1. Cell(t) \in DOMAIN matrix
        BY <1>0, <2>1 DEF Types
      <4> QED
        BY <1>0, <1>1, <3>1, <4>1 DEF Exclusive
    <3>4. Counted(m, r)' = Counted(m, r) \cup {key[t]}
      BY <2>4, <1>3, CountedKey
    <3>5. key[t] \notin Counted(m, r)
      BY <1>3 DEF Counted
    <3>6. Cardinality(Counted(m, r)') = Cardinality(Counted(m, r)) + 1
      BY <2>3, <3>4, <3>5, FiniteCounts, FS_AddElement
    <3> QED
      BY <1>3, <2>2, <2>4, <3>2, <3>3, <3>6
  <2>5. CASE ~(m = bits /\ r = worst[t])
    <3>1. <<r, m - 1>> # Cell(t)
      BY <1>3, <2>3, <2>5 DEF Cell
    <3>2. matrix'[<<r, m - 1>>] = matrix[<<r, m - 1>>]
      BY <1>0, <2>1, <2>3, <3>1 DEF Types
    <3>3. m <= bits => Counted(m, r)' = Counted(m, r)
      <4> SUFFICES ASSUME m <= bits PROVE Counted(m, r)' = Counted(m, r)
        OBVIOUS
      <4>1. m \in 1..bits
        BY <1>3, <2>3
      <4> QED
        BY <2>5, <4>1, CountedKey
    <3> QED
      BY <2>2, <3>2, <3>3
  <2> QED
    BY <2>4, <2>5
<1>11. OnlyFailedCorrectionsOverrun'
  <2> SUFFICES ASSUME overrun'
               PROVE  /\ Rs
                      /\ \E k \in DOMAIN worstOf' :
                           k \in Keys(NumBits) /\ worstOf'[k] = BitsOf(NumBits)
    BY <1>1, SameSizes DEF OnlyFailedCorrectionsOverrun
  <2>1. CASE overrun
    <3>1. Rs
      BY <1>0, <2>1 DEF OnlyFailedCorrectionsOverrun
    <3>2. PICK k \in DOMAIN worstOf : k \in Keys(NumBits) /\ worstOf[k] = BitsOf(NumBits)
      BY <1>0, <2>1 DEF OnlyFailedCorrectionsOverrun
    <3>3. k \in DOMAIN worstOf' /\ worstOf'[k] = worstOf[k]
      BY <1>1, <1>3, <3>2
    <3> QED
      BY <3>1, <3>2, <3>3
  <2>2. CASE ~overrun
    <3>1. Cell(t) \notin Cells
      BY <1>2, <2>2
    <3>2. /\ NumBits \in Nat /\ MatrixSize \in Nat /\ bits <= NumBits
          /\ BitsOf(bits) \in Nat /\ BitsOf(NumBits) = MatrixSize /\ NumBits <= MatrixSize
          /\ bits < NumBits => BitsOf(bits) < MatrixSize
      BY <1>3, Sizes DEF Running, MatrixSize
    <3>3. worst[t] >= MatrixSize
      <4>1. bits - 1 \in 0..(MatrixSize - 1)
        BY <1>3, <3>2
      <4>2. worst[t] \notin 0..(MatrixSize - 1)
        BY <3>1, <4>1 DEF Cells, Cell
      <4> QED
        BY <1>3, <3>2, <4>2
    <3>4. worst[t] <= BitsOf(bits) /\ (~Rs => worst[t] <= BitsOf(bits) - 1)
      BY <1>3, <3>2 DEF ErrorCounts
    <3>5. bits = NumBits /\ worst[t] = BitsOf(NumBits)
      BY <1>3, <3>2, <3>3, <3>4
    <3>6. Rs
      BY <1>3, <3>2, <3>3, <3>4, <3>5
    <3>7. key[t] \in DOMAIN worstOf' /\ worstOf'[key[t]] = worst[t]
      BY <1>1
    <3> QED
      BY <1>3, <3>5, <3>6, <3>7
  <2> QED
    BY <2>1, <2>2
<1> QED
  BY <1>4, <1>5, <1>7, <1>8, <1>9, <1>10, <1>11 DEF CountInv

(* A round ends when all its keys were handed out and no thread is busy:   *)
(* they are all counted, and the next keys follow them                     *)
LEMMA NextRoundCounts ==
  ASSUME CountInv, NextRound
  PROVE  CountInv'
<1>0. /\ Types /\ Exclusive /\ OwnKeys /\ WorstInBounds
      /\ NoneForgotten /\ ColumnsCount /\ OnlyFailedCorrectionsOverrun
  BY DEF CountInv
<1>1. /\ UNCHANGED <<method, numRemovals, matrix, overrun, critical, pc>>
      /\ UNCHANGED <<key, worst, read, worstOf>>
      /\ Running /\ nextKey = UpperBound(bits)
      /\ \A t \in Thread : ~Busy(t)
      /\ bits' = bits + 1 /\ nextKey' = LowerBound(bits + 1)
  BY DEF NextRound, args, counts, locals, Busy
<1>2. /\ bits \in Nat \ {0}
      /\ LowerBound(bits) \in Int /\ UpperBound(bits) \in Int
      /\ LowerBound(bits + 1) = nextKey
  BY <1>0, <1>1, Rounds DEF Types
<1>3. Types'
  BY <1>0, <1>1, <1>2, SameSizes DEF Types
<1>4. Exclusive' /\ OwnKeys'
  <2>1. \A t \in Thread : pc'[t] = "take"
    BY <1>1 DEF Busy
  <2> QED
    BY <2>1 DEF Exclusive, OwnKeys, Busy
<1>5. WorstInBounds'
  <2>1. BitsOf(bits) \in Nat /\ BitsOf(bits + 1) \in Nat /\ BitsOf(bits) <= BitsOf(bits + 1)
    BY <1>2, Sizes
  <2>2. ErrorCounts \subseteq ErrorCounts'
    BY <1>1, <2>1, SameSizes DEF ErrorCounts
  <2> QED
    BY <1>0, <1>1, <2>2 DEF WorstInBounds
<1>6. Keys(bits) \subseteq DOMAIN worstOf
  BY <1>0, <1>1, <1>2 DEF NoneForgotten, Keys
<1>7. NoneForgotten'
  <2>1. \A m \in 1..bits :
          UpperBound(m) <= nextKey /\ Keys(m) \subseteq DOMAIN worstOf
    <3> SUFFICES ASSUME NEW m \in 1..bits
                 PROVE  UpperBound(m) <= nextKey /\ Keys(m) \subseteq DOMAIN worstOf
      OBVIOUS
    <3>1. UpperBound(m) \in Int
      BY <1>2, Rounds
    <3>2. m = bits \/ m \in 1..(bits - 1)
      BY <1>2
    <3> QED
      BY <1>0, <1>1, <1>2, <1>6, <3>1, <3>2 DEF NoneForgotten
  <2>2. LowerBound(bits)' = nextKey /\ nextKey' = nextKey /\ (bits + 1) - 1 = bits
    <3>1. LowerBound(bits)' = LowerBound(bits + 1)
      BY <1>1 DEF LowerBound, Rs
    <3> QED
      BY <1>1, <1>2, <3>1
  <2>3. \A k \in DOMAIN worstOf : k < nextKey
    BY <1>0 DEF NoneForgotten
  <2> QED
    BY <1>0, <1>1, <1>2, <2>1, <2>2, <2>3, SameSizes DEF NoneForgotten, Types
<1>8. ColumnsCount'
  <2> SUFFICES ASSUME ~overrun, NEW m \in 1..NumBits, NEW r \in 0..(MatrixSize - 1)
               PROVE  matrix[<<r, m - 1>>] =
                        IF m <= bits + 1 THEN Cardinality(Counted(m, r)') ELSE 0
    BY <1>1, SameSizes DEF ColumnsCount
  <2>1. matrix[<<r, m - 1>>] = IF m <= bits THEN Cardinality(Counted(m, r)) ELSE 0
    BY <1>0 DEF ColumnsCount
  <2>2. Counted(m, r)' = Counted(m, r)
    BY <1>1, SameSizes DEF Counted
  <2>3. CASE m = bits + 1
    <3>1. \A k \in DOMAIN worstOf : k \in Int /\ k < LowerBound(m)
      BY <1>0, <1>2, <2>3 DEF NoneForgotten, Types
    <3>2. Counted(m, r) = {}
      BY <1>2, <2>3, <3>1, Rounds DEF Counted, Keys
    <3> QED
      BY <1>2, <2>1, <2>2, <2>3, <3>2, FS_EmptySet
  <2>4. CASE m # bits + 1
    <3>1. m <= bits + 1 <=> m <= bits
      BY <1>2, <2>4, Sizes
    <3> QED
      BY <2>1, <2>2, <3>1
  <2> QED
    BY <2>3, <2>4
<1>9. OnlyFailedCorrectionsOverrun'
  BY <1>0, <1>1, SameOverrun
<1> QED
  BY <1>3, <1>4, <1>5, <1>7, <1>8, <1>9 DEF CountInv

LEMMA StepCount == CountInv /\ [Next]_vars => CountInv'
<1> SUFFICES ASSUME CountInv, [Next]_vars PROVE CountInv'
  OBVIOUS
<1>1. ASSUME NEW t \in Thread, ThreadStep(t) PROVE CountInv'
  BY <1>1, TakeCounts, CodecCounts, TestCounts, EnterCounts, RaiseCounts
     DEF ThreadStep, CodecStep
<1>2. CASE NextRound
  BY <1>2, NextRoundCounts
<1>3. CASE WriteReport \/ UNCHANGED vars
  <2>0. /\ Types /\ Exclusive /\ OwnKeys /\ WorstInBounds
        /\ NoneForgotten /\ ColumnsCount /\ OnlyFailedCorrectionsOverrun
    BY DEF CountInv
  <2>1. /\ UNCHANGED <<method, numRemovals, bits, nextKey, matrix, overrun, critical>>
        /\ UNCHANGED <<pc, key, worst, read, worstOf>>
    BY <1>3 DEF WriteReport, vars, main, args, counts, locals
  <2>2. Types' /\ Exclusive'
    BY <2>0, <2>1, SameSizes DEF Types, Exclusive, Cell
  <2>3. OwnKeys' /\ NoneForgotten'
    BY <2>0, <2>1, SameSizes DEF OwnKeys, NoneForgotten, Busy, Running
  <2>4. WorstInBounds'
    BY <2>0, <2>1, SameSizes DEF WorstInBounds, ErrorCounts
  <2> QED
    BY <2>0, <2>1, <2>2, <2>3, <2>4, SameColumns, SameOverrun DEF CountInv
<1> QED
  BY <1>1, <1>2, <1>3 DEF Next, Rest

(* The columns of rounds that are over hold all their keys *)
LEMMA AllCounted == CountInv => EveryKeyIsCounted
<1> SUFFICES ASSUME CountInv, ~overrun, NEW m \in 1..Min({bits - 1, NumBits})
             PROVE  /\ Keys(m) \subseteq DOMAIN worstOf
                    /\ \A r \in 0..(MatrixSize - 1) :
                         matrix[<<r, m - 1>>] = Cardinality({k \in Keys(m) : worstOf[k] = r})
  BY DEF EveryKeyIsCounted
<1>1. Types /\ NoneForgotten /\ ColumnsCount
  BY DEF CountInv
<1>2. bits \in Nat \ {0} /\ NumBits \in Nat \ {0}
  BY <1>1, Sizes DEF Types
<1>3. Min({bits - 1, NumBits}) \in Int /\ Min({bits - 1, NumBits}) <= bits - 1
      /\ Min({bits - 1, NumBits}) <= NumBits
  BY <1>2, SmallerOfTwo
<1>4. m \in 1..(bits - 1) /\ m \in 1..NumBits /\ m <= bits
  BY <1>2, <1>3
<1>5. Keys(m) \subseteq DOMAIN worstOf
  BY <1>1, <1>4 DEF NoneForgotten
<1>6. \A r \in 0..(MatrixSize - 1) : Counted(m, r) = {k \in Keys(m) : worstOf[k] = r}
  BY <1>5 DEF Counted
<1> QED
  BY <1>1, <1>4, <1>5, <1>6 DEF ColumnsCount

THEOREM CountInvariant == Spec => []CountInv
<1>1. Init => CountInv
  BY InitCount
<1>2. CountInv /\ [Next]_vars => CountInv'
  BY StepCount
<1> QED
  BY <1>1, <1>2, PTL DEF Spec

(* No count of a key is lost and none is made twice, for any threads and   *)
(* whatever they do at the same time (watermark.c:515-521).                *)
THEOREM NoCountIsLost == Spec => []EveryKeyIsCounted
BY CountInvariant, AllCounted, PTL

(* The matrix is overrun only by a correction that failed for a key of the *)
(* last round, for keys and symbols of any number (watermark.c:444,521).   *)
THEOREM OverrunsAreFailures == Spec => []OnlyFailedCorrectionsOverrun
<1>1. CountInv => OnlyFailedCorrectionsOverrun
  BY DEF CountInv
<1> QED
  BY <1>1, CountInvariant, PTL

-----------------------------------------------------------------------------
(***************************************************************************)
(* The sets of connections that are removed: what get_list_of_combinations *)
(* computes, for any number of connections and any number of removals.     *)
(***************************************************************************)
(* A list of sequences has each set of A once                              *)
Sets(s) == {ToSet(s[a]) : a \in DOMAIN s}

Lists(s, A) ==
  /\ s \in Seq(Seq(Nat)) /\ Sets(s) = A
  /\ \A a, b \in DOMAIN s : ToSet(s[a]) = ToSet(s[b]) => a = b

(* A set of numbers that has a and, with each other, the next one up to n   *)
LEMMA UpTo ==
  ASSUME NEW a \in Nat, NEW n \in Nat, a <= n,
         NEW S, a \in S, \A k \in a..(n - 1) : k \in S => k + 1 \in S
  PROVE  n \in S
<1> DEFINE R == {p \in Nat \X Nat : p[1] < p[2]}
           Bad == {k \in a..n : k \notin S}
<1> SUFFICES ASSUME Bad # {} PROVE FALSE
  OBVIOUS
<1>1. IsWellFoundedOn(R, Nat)
  BY NatLessThanWellFounded DEF OpToRel
<1>2. Bad \in SUBSET Nat
  OBVIOUS
<1>3. PICK m \in Bad : \A k \in Bad : <<k, m>> \notin R
  <2> HIDE DEF R, Bad
  <2> QED
    BY <1>1, <1>2, WFMin
<1>4. m \in a..n /\ m # a /\ m \notin S
  BY <1>3
<1>5. m - 1 \in a..(n - 1) /\ m - 1 \in a..n /\ (m - 1) + 1 = m /\ m - 1 < m /\ m - 1 \in Nat
  BY <1>4
<1>6. m - 1 \notin Bad
  BY <1>2, <1>3, <1>5
<1> QED
  BY <1>4, <1>5, <1>6

LEMMA Least ==
  ASSUME NEW S \in SUBSET Nat, S # {}
  PROVE  \E m \in S : \A k \in S : m <= k
<1> DEFINE R == {p \in Nat \X Nat : p[1] < p[2]}
<1>1. IsWellFoundedOn(R, Nat)
  BY NatLessThanWellFounded DEF OpToRel
<1>2. PICK m \in S : \A k \in S : <<k, m>> \notin R
  <2> HIDE DEF R
  <2> QED
    BY <1>1, WFMin
<1>3. \A k \in S : k \in Nat /\ m \in Nat /\ ~(k < m)
  BY <1>2
<1> QED
  BY <1>2, <1>3

-----------------------------------------------------------------------------
LEMMA AppendedSet ==
  ASSUME NEW q \in Seq(Nat), NEW x \in Nat
  PROVE  Append(q, x) \in Seq(Nat) /\ ToSet(Append(q, x)) = ToSet(q) \cup {x}
<1>1. /\ Append(q, x) \in Seq(Nat) /\ Len(Append(q, x)) = Len(q) + 1
      /\ DOMAIN Append(q, x) = 1..(Len(q) + 1) /\ DOMAIN q = 1..Len(q) /\ Len(q) \in Nat
      /\ \A j \in 1..Len(q) : Append(q, x)[j] = q[j]
      /\ Append(q, x)[Len(q) + 1] = x
  OBVIOUS
<1>2. \A j \in 1..(Len(q) + 1) : j \in 1..Len(q) \/ j = Len(q) + 1
  BY <1>1
<1>3. \A j \in 1..Len(q) : j \in 1..(Len(q) + 1)
  BY <1>1
<1>4. Len(q) + 1 \in 1..(Len(q) + 1)
  BY <1>1
<1> QED
  BY <1>1, <1>2, <1>3, <1>4 DEF ToSet

LEMMA NothingListed == Lists(<<>>, {})
BY DEF Lists, Sets

(* Two lists of different sets, one after the other                        *)
LEMMA JoinLists ==
  ASSUME NEW s, NEW t, NEW A, NEW B, Lists(s, A), Lists(t, B), A \cap B = {}
  PROVE  Lists(s \o t, A \cup B)
<1> DEFINE r == s \o t
<1>1. /\ s \in Seq(Seq(Nat)) /\ t \in Seq(Seq(Nat)) /\ Sets(s) = A /\ Sets(t) = B
      /\ \A a, b \in DOMAIN s : ToSet(s[a]) = ToSet(s[b]) => a = b
      /\ \A a, b \in DOMAIN t : ToSet(t[a]) = ToSet(t[b]) => a = b
  BY DEF Lists
<1>2. /\ r \in Seq(Seq(Nat)) /\ Len(s) \in Nat /\ Len(t) \in Nat
      /\ DOMAIN s = 1..Len(s) /\ DOMAIN t = 1..Len(t)
      /\ DOMAIN r = 1..(Len(s) + Len(t))
      /\ \A a \in DOMAIN r : r[a] = IF a <= Len(s) THEN s[a] ELSE t[a - Len(s)]
  BY <1>1
<1> HIDE DEF r
<1>3. \A a \in DOMAIN r : /\ a <= Len(s) => a \in DOMAIN s /\ r[a] = s[a]
                          /\ ~(a <= Len(s)) => a - Len(s) \in DOMAIN t /\ r[a] = t[a - Len(s)]
  BY <1>2
<1>4. \A a \in DOMAIN s : a \in DOMAIN r /\ r[a] = s[a]
  BY <1>2
<1>5. \A a \in DOMAIN t : a + Len(s) \in DOMAIN r /\ r[a + Len(s)] = t[a]
  <2> TAKE a \in DOMAIN t
  <2>1. /\ a + Len(s) \in 1..(Len(s) + Len(t))
        /\ ~(a + Len(s) <= Len(s)) /\ (a + Len(s)) - Len(s) = a
    BY <1>2
  <2> QED
    BY <1>2, <2>1
<1>6. \A a \in DOMAIN s : ToSet(s[a]) \in A
  BY <1>1 DEF Sets
<1>7. \A a \in DOMAIN t : ToSet(t[a]) \in B
  BY <1>1 DEF Sets
<1>8. ASSUME NEW a \in DOMAIN r, NEW b \in DOMAIN r, ToSet(r[a]) = ToSet(r[b])
      PROVE  a = b
  <2>1. CASE a <= Len(s) /\ b <= Len(s)
    BY <1>1, <1>3, <1>8, <2>1
  <2>2. CASE ~(a <= Len(s)) /\ ~(b <= Len(s))
    <3>1. a - Len(s) = b - Len(s)
      BY <1>1, <1>3, <1>8, <2>2
    <3>2. a \in Int /\ b \in Int
      BY <1>2
    <3> QED
      BY <1>2, <3>1, <3>2
  <2>3. CASE a <= Len(s) /\ ~(b <= Len(s))
    BY <1>3, <1>6, <1>7, <1>8, <2>3
  <2>4. CASE ~(a <= Len(s)) /\ b <= Len(s)
    BY <1>3, <1>6, <1>7, <1>8, <2>4
  <2> QED
    BY <2>1, <2>2, <2>3, <2>4
<1>9. Sets(r) \subseteq A \cup B
  <2>1. \A a \in DOMAIN r : ToSet(r[a]) \in A \cup B
    BY <1>3, <1>6, <1>7
  <2> QED
    BY <2>1 DEF Sets
<1>10. A \cup B \subseteq Sets(r)
  <2>1. \A T \in A : \E a \in DOMAIN s : T = ToSet(s[a])
    BY <1>1 DEF Sets
  <2>2. \A T \in B : \E a \in DOMAIN t : T = ToSet(t[a])
    BY <1>1 DEF Sets
  <2>3. \A T \in A \cup B : \E a \in DOMAIN r : T = ToSet(r[a])
    BY <1>4, <1>5, <2>1, <2>2
  <2> QED
    BY <2>3 DEF Sets
<1>11. Lists(r, A \cup B)
  BY <1>2, <1>8, <1>9, <1>10 DEF Lists
<1> QED
  BY <1>11 DEF r

(* The same number is put at the end of each                               *)
Appended(s, x) == [c \in DOMAIN s |-> Append(s[c], x)]
With(A, x) == {T \cup {x} : T \in A}

LEMMA AppendToAll ==
  ASSUME NEW s, NEW A, Lists(s, A), NEW x \in Nat, \A T \in A : x \notin T
  PROVE  Lists(Appended(s, x), With(A, x))
<1> DEFINE r == [c \in DOMAIN s |-> Append(s[c], x)]
           B == {T \cup {x} : T \in A}
<1>1. /\ s \in Seq(Seq(Nat)) /\ Sets(s) = A
      /\ \A a, b \in DOMAIN s : ToSet(s[a]) = ToSet(s[b]) => a = b
  BY DEF Lists
<1>2. DOMAIN s = 1..Len(s) /\ Len(s) \in Nat /\ \A a \in DOMAIN s : s[a] \in Seq(Nat)
  BY <1>1
<1>3. \A a \in DOMAIN s : r[a] \in Seq(Nat) /\ ToSet(r[a]) = ToSet(s[a]) \cup {x}
  BY <1>2, AppendedSet
<1>4. r \in Seq(Seq(Nat)) /\ DOMAIN r = DOMAIN s
  <2>1. r \in [1..Len(s) -> Seq(Nat)]
    BY <1>2, <1>3
  <2> QED
    BY <1>2, <2>1, SeqDef
<1> HIDE DEF r
<1>5. \A a \in DOMAIN s : ToSet(s[a]) \in A
  BY <1>1 DEF Sets
<1>6. ASSUME NEW a \in DOMAIN r, NEW b \in DOMAIN r, ToSet(r[a]) = ToSet(r[b])
      PROVE  a = b
  <2>1. a \in DOMAIN s /\ b \in DOMAIN s
    BY <1>4
  <2>2. x \notin ToSet(s[a]) /\ x \notin ToSet(s[b])
    BY <1>5, <2>1
  <2>3. ToSet(s[a]) \cup {x} = ToSet(s[b]) \cup {x}
    BY <1>3, <1>6, <2>1
  <2>4. \A P : x \notin P => P = (P \cup {x}) \ {x}
    OBVIOUS
  <2>5. ToSet(s[a]) = ToSet(s[b])
    BY <2>2, <2>3, <2>4
  <2> QED
    BY <1>1, <2>1, <2>5
<1>7. Sets(r) = B
  <2>1. \A a \in DOMAIN r : ToSet(r[a]) \in B
    BY <1>3, <1>4, <1>5
  <2>2. \A T \in A : \E a \in DOMAIN s : T = ToSet(s[a])
    BY <1>1 DEF Sets
  <2>3. ASSUME NEW T \in A
        PROVE  \E a \in DOMAIN r : T \cup {x} = ToSet(r[a])
    <3>1. PICK a \in DOMAIN s : T = ToSet(s[a])
      BY <2>2
    <3>2. a \in DOMAIN r /\ ToSet(r[a]) = T \cup {x}
      BY <1>3, <1>4, <3>1
    <3> QED
      BY <3>2
  <2>4. \A U \in B : \E a \in DOMAIN r : U = ToSet(r[a])
    BY <2>3
  <2> QED
    BY <2>1, <2>4 DEF Sets
<1>8. Lists(r, B)
  BY <1>4, <1>6, <1>7 DEF Lists
<1> QED
  BY <1>8 DEF r, Appended, With

(* A list without its first sequence                                       *)
LEMMA TailLists ==
  ASSUME NEW s, NEW A, Lists(s, A), s # <<>>
  PROVE  ToSet(Head(s)) \in A /\ Lists(Tail(s), A \ {ToSet(Head(s))})
<1> DEFINE r == Tail(s)
<1>1. /\ s \in Seq(Seq(Nat)) /\ Sets(s) = A
      /\ \A a, b \in DOMAIN s : ToSet(s[a]) = ToSet(s[b]) => a = b
  BY DEF Lists
<1>2. /\ r \in Seq(Seq(Nat)) /\ Len(s) \in Nat \ {0} /\ DOMAIN s = 1..Len(s)
      /\ DOMAIN r = 1..(Len(s) - 1) /\ Head(s) = s[1]
      /\ \A a \in DOMAIN r : r[a] = s[a + 1]
  BY <1>1
<1> HIDE DEF r
<1>3. 1 \in DOMAIN s /\ \A a \in DOMAIN r : a + 1 \in DOMAIN s /\ a + 1 # 1 /\ a \in Int
  BY <1>2
<1>4. \A a \in DOMAIN s : a # 1 => a - 1 \in DOMAIN r /\ r[a - 1] = s[a]
  <2> TAKE a \in DOMAIN s
  <2> HAVE a # 1
  <2>1. a - 1 \in 1..(Len(s) - 1) /\ (a - 1) + 1 = a
    BY <1>2
  <2> QED
    BY <1>2, <2>1
<1>5. \A a \in DOMAIN s : ToSet(s[a]) \in A
  BY <1>1 DEF Sets
<1>6. \A a, b \in DOMAIN r : ToSet(r[a]) = ToSet(r[b]) => a = b
  <2> TAKE a, b \in DOMAIN r
  <2> HAVE ToSet(r[a]) = ToSet(r[b])
  <2>1. a + 1 = b + 1
    BY <1>1, <1>2, <1>3
  <2> QED
    BY <1>3, <2>1
<1>7. \A a \in DOMAIN r : ToSet(r[a]) \in A /\ ToSet(r[a]) # ToSet(s[1])
  BY <1>1, <1>2, <1>3, <1>5
<1>8. \A T \in A : T # ToSet(s[1]) => \E a \in DOMAIN r : T = ToSet(r[a])
  <2>1. \A T \in A : \E a \in DOMAIN s : T = ToSet(s[a])
    BY <1>1 DEF Sets
  <2> QED
    BY <1>4, <2>1
<1>9. Sets(r) = A \ {ToSet(s[1])}
  BY <1>7, <1>8 DEF Sets
<1>10. Lists(r, A \ {ToSet(s[1])}) /\ ToSet(s[1]) \in A
  BY <1>2, <1>3, <1>5, <1>6, <1>9 DEF Lists
<1> QED
  BY <1>2, <1>10 DEF r

LEMMA ListedOnce ==
  ASSUME NEW s, NEW A, Lists(s, A)
  PROVE  Len(s) \in Nat /\ IsFiniteSet(A) /\ Cardinality(A) = Len(s)
<1>1. /\ s \in Seq(Seq(Nat)) /\ Sets(s) = A
      /\ \A a, b \in DOMAIN s : ToSet(s[a]) = ToSet(s[b]) => a = b
  BY DEF Lists
<1>2. Len(s) \in Nat /\ DOMAIN s = 1..Len(s)
  BY <1>1
<1> DEFINE f == [a \in 1..Len(s) |-> ToSet(s[a])]
<1>3. f \in Bijection(1..Len(s), A)
  <2>1. f \in [1..Len(s) -> A]
    BY <1>1, <1>2 DEF Sets
  <2>2. \A a, b \in 1..Len(s) : f[a] = f[b] => a = b
    BY <1>1, <1>2
  <2>3. \A T \in A : \E a \in 1..Len(s) : f[a] = T
    BY <1>1, <1>2 DEF Sets
  <2> QED
    BY <2>1, <2>2, <2>3 DEF Bijection, Injection, Surjection, IsInjective
<1>4. ExistsBijection(1..Len(s), A)
  BY <1>3 DEF ExistsBijection
<1>5. IsFiniteSet(1..Len(s)) /\ Cardinality(1..Len(s)) = Len(s)
  <2>1. /\ IsFiniteSet(1..Len(s))
        /\ Cardinality(1..Len(s)) = IF 1 > Len(s) THEN 0 ELSE Len(s) - 1 + 1
    BY <1>2, FS_Interval
  <2> QED
    BY <1>2, <2>1
<1> QED
  BY <1>2, <1>4, <1>5, FS_Bijection

-----------------------------------------------------------------------------
(* The recursive function of FlattenSeq exists *)
IsFlat(f, s, n) == f = [i \in 1..n |-> IF i = 1 THEN s[i] ELSE f[i - 1] \o s[i]]

LEMMA FlatExists ==
  ASSUME NEW s, NEW n \in Nat
  PROVE  \E f : IsFlat(f, s, n)
<1> DEFINE S == {m \in Nat : \E f : IsFlat(f, s, m)}
<1>1. 0 \in S
  <2>1. IsFlat([i \in 1..0 |-> 0], s, 0)
    BY DEF IsFlat
  <2> QED
    BY <2>1
<1>2. ASSUME NEW m \in 0..(n - 1), m \in S
      PROVE  m + 1 \in S
  <2>1. PICK f : IsFlat(f, s, m)
    BY <1>2
  <2> DEFINE g == [i \in 1..(m + 1) |-> IF i = 1 THEN s[i] ELSE f[i - 1] \o s[i]]
  <2>2. \A i \in 1..m : f[i] = IF i = 1 THEN s[i] ELSE f[i - 1] \o s[i]
    BY <2>1 DEF IsFlat
  <2>3. \A i \in 1..m : i \in 1..(m + 1) /\ g[i] = f[i]
    BY <2>2
  <2>4. \A i \in 1..(m + 1) : i # 1 => i - 1 \in 1..m /\ g[i - 1] = f[i - 1]
    <3> TAKE i \in 1..(m + 1)
    <3> HAVE i # 1
    <3>1. i - 1 \in 1..m
      OBVIOUS
    <3> QED
      BY <2>3, <3>1
  <2>5. \A i \in 1..(m + 1) : g[i] = IF i = 1 THEN s[i] ELSE g[i - 1] \o s[i]
    BY <2>4
  <2>6. g = [i \in 1..(m + 1) |-> g[i]]
    OBVIOUS
  <2> HIDE DEF g
  <2>7. IsFlat(g, s, m + 1)
    BY <2>5, <2>6 DEF IsFlat
  <2> QED
    BY <2>7
<1>3. n \in S
  <2> HIDE DEF S
  <2> QED
    BY <1>1, <1>2, UpTo
<1> QED
  BY <1>3

(* Lists of different sets, one after the other                            *)
UnionTo(B, n) == UNION {B[j] : j \in 1..n}

LEMMA FlattenLists ==
  ASSUME NEW n \in Nat, NEW s, DOMAIN s = 1..n, s \in Seq(Seq(Seq(Nat))), Len(s) = n,
         NEW B, \A j \in 1..n : Lists(s[j], B[j]),
         \A j, k \in 1..n : j < k => B[j] \cap B[k] = {}
  PROVE  Lists(FlattenSeq(s), UnionTo(B, n))
<1>1. CASE n = 0
  <2>1. s = <<>> /\ FlattenSeq(s) = s
    BY <1>1 DEF FlattenSeq
  <2>2. UnionTo(B, n) = {}
    BY <1>1 DEF UnionTo
  <2> QED
    BY <2>1, <2>2, NothingListed
<1>2. CASE n # 0
  <2> DEFINE f == CHOOSE f : IsFlat(f, s, n)
             Upto(m) == UNION {B[j] : j \in 1..m}
             S == {m \in Nat : Lists(f[m], Upto(m))}
  <2>1. FlattenSeq(s) = f[n]
    BY <1>2 DEF FlattenSeq, IsFlat
  <2>2. IsFlat(f, s, n)
    BY FlatExists
  <2> HIDE DEF f
  <2>3. f[1] = s[1] /\ \A i \in 2..n : f[i] = f[i - 1] \o s[i]
    <3>1. 1 \in 1..n /\ \A i \in 2..n : i \in 1..n /\ i # 1
      BY <1>2
    <3>2. \A i \in 1..n : f[i] = IF i = 1 THEN s[i] ELSE f[i - 1] \o s[i]
      BY <2>2 DEF IsFlat
    <3> QED
      BY <3>1, <3>2
  <2>4. 1 \in S
    <3>1. Upto(1) = B[1]
      OBVIOUS
    <3>2. Lists(s[1], B[1])
      BY <1>2
    <3> QED
      BY <2>3, <3>1, <3>2
  <2>5. ASSUME NEW m \in 1..(n - 1), m \in S
        PROVE  m + 1 \in S
    <3>1. m + 1 \in 2..n /\ (m + 1) - 1 = m /\ m + 1 \in 1..n /\ m + 1 \in Nat
      OBVIOUS
    <3>2. f[m + 1] = f[m] \o s[m + 1]
      BY <2>3, <3>1
    <3>3. Lists(f[m], Upto(m))
      BY <2>5
    <3>4. Lists(s[m + 1], B[m + 1])
      BY <3>1
    <3>5. Upto(m) \cap B[m + 1] = {}
      <4>1. \A j \in 1..m : j \in 1..n /\ j < m + 1
        OBVIOUS
      <4>2. \A j \in 1..m : B[j] \cap B[m + 1] = {}
        BY <3>1, <4>1
      <4> QED
        BY <4>2
    <3>6. Upto(m + 1) = Upto(m) \cup B[m + 1]
      <4>1. 1..(m + 1) = (1..m) \cup {m + 1}
        OBVIOUS
      <4> QED
        BY <4>1
    <3>7. PICK A : A = Upto(m)
      OBVIOUS
    <3>8. Lists(f[m] \o s[m + 1], A \cup B[m + 1])
      <4> HIDE DEF Upto
      <4> QED
        BY <3>3, <3>4, <3>5, <3>7, JoinLists
    <3> HIDE DEF Upto
    <3>9. Lists(f[m + 1], Upto(m + 1))
      BY <3>2, <3>6, <3>7, <3>8
    <3> QED
      BY <3>1, <3>9
  <2>6. n \in S
    <3> HIDE DEF S
    <3>1. 1 \in Nat /\ 1 <= n
      BY <1>2
    <3> QED
      BY <2>4, <2>5, <3>1, UpTo
  <2> QED
    BY <2>1, <2>6 DEF UnionTo
<1> QED
  BY <1>1, <1>2

-----------------------------------------------------------------------------
(* The sets of k numbers of which the smallest is x, and their union        *)
SmallestIs(k, x, n) == With(kSubset(k - 1, (x + 1)..n), x)

LEMMA SubsetsAreFinite ==
  ASSUME NEW a \in Nat, NEW n \in Nat, NEW T \in SUBSET (a..n)
  PROVE  IsFiniteSet(T) /\ T \in SUBSET Nat
<1>1. IsFiniteSet(a..n)
  BY FS_Interval
<1>2. T \in SUBSET Nat
  OBVIOUS
<1> QED
  BY <1>1, <1>2, FS_Subset

LEMMA SubsetsBySmallest ==
  ASSUME NEW l \in Nat, NEW n \in Nat, NEW k \in Nat, k >= 2
  PROVE  kSubset(k, l..n) = UNION {SmallestIs(k, l + j - 1, n) : j \in 1..(n - l + 1)}
<1>1. ASSUME NEW U \in kSubset(k, l..n)
      PROVE  \E j \in 1..(n - l + 1) : U \in SmallestIs(k, l + j - 1, n)
  <2>1. U \in SUBSET (l..n) /\ Cardinality(U) = k /\ IsFiniteSet(U) /\ U \in SUBSET Nat
    BY SubsetsAreFinite DEF kSubset
  <2>2. U # {}
    BY <2>1, FS_EmptySet
  <2>3. PICK x \in U : \A y \in U : x <= y
    BY <2>1, <2>2, Least
  <2> DEFINE T == U \ {x}
             j == x - l + 1
  <2>4. x \in l..n /\ j \in 1..(n - l + 1) /\ l + j - 1 = x
    BY <2>1
  <2>5. T \in SUBSET ((x + 1)..n)
    <3>1. \A y \in T : y \in l..n /\ x <= y /\ y # x
      BY <2>1, <2>3
    <3> QED
      BY <2>4, <3>1
  <2>6. Cardinality(T) = k - 1
    BY <2>1, <2>3, FS_RemoveElement
  <2>7. U = T \cup {x}
    BY <2>3
  <2>8. U \in SmallestIs(k, x, n)
    BY <2>5, <2>6, <2>7 DEF SmallestIs, With, kSubset
  <2> QED
    BY <2>4, <2>8
<1>2. ASSUME NEW j \in 1..(n - l + 1), NEW U \in SmallestIs(k, l + j - 1, n)
      PROVE  U \in kSubset(k, l..n)
  <2>1. PICK x : x = l + j - 1
    OBVIOUS
  <2>2. x \in l..n /\ x \in Nat
    BY <2>1
  <2>3. PICK T \in kSubset(k - 1, (x + 1)..n) : U = T \cup {x}
    BY <1>2, <2>1 DEF SmallestIs, With
  <2>4. T \in SUBSET ((x + 1)..n) /\ Cardinality(T) = k - 1 /\ x + 1 \in Nat
    BY <2>2, <2>3 DEF kSubset
  <2>5. IsFiniteSet(T) /\ x \notin T
    <3>1. PICK a : a = x + 1
      OBVIOUS
    <3>2. a \in Nat /\ T \in SUBSET (a..n) /\ x \notin a..n
      BY <2>2, <2>4, <3>1
    <3> QED
      BY <3>2, SubsetsAreFinite
  <2>6. Cardinality(T \cup {x}) = (k - 1) + 1
    BY <2>4, <2>5, FS_AddElement
  <2>7. T \cup {x} \in SUBSET (l..n)
    BY <2>2, <2>4
  <2> QED
    BY <2>3, <2>6, <2>7 DEF kSubset
<1> QED
  BY <1>1, <1>2

LEMMA SmallestDiffer ==
  ASSUME NEW x \in Nat, NEW y \in Nat, x < y, NEW n \in Nat, NEW k
  PROVE  SmallestIs(k, x, n) \cap SmallestIs(k, y, n) = {}
<1> SUFFICES ASSUME NEW U, U \in SmallestIs(k, x, n), U \in SmallestIs(k, y, n)
             PROVE  FALSE
  OBVIOUS
<1>1. x \in U
  BY DEF SmallestIs, With
<1>2. PICK T \in kSubset(k - 1, (y + 1)..n) : U = T \cup {y}
  BY DEF SmallestIs, With
<1>3. T \in SUBSET ((y + 1)..n)
  BY <1>2 DEF kSubset
<1> QED
  BY <1>1, <1>2, <1>3

LEMMA SingleSubsets ==
  ASSUME NEW l \in Nat, NEW n \in Nat
  PROVE  kSubset(1, l..n) = {{x} : x \in l..n}
<1>1. ASSUME NEW U \in kSubset(1, l..n)
      PROVE  \E x \in l..n : U = {x}
  <2>1. U \in SUBSET (l..n) /\ Cardinality(U) = 1 /\ IsFiniteSet(U)
    BY SubsetsAreFinite DEF kSubset
  <2>2. \E x : U = {x}
    BY <2>1, FS_Singleton
  <2> QED
    BY <2>1, <2>2
<1>2. \A x \in l..n : {x} \in kSubset(1, l..n)
  <2> TAKE x \in l..n
  <2>1. Cardinality({x}) = 1
    BY FS_Singleton
  <2> QED
    BY <2>1 DEF kSubset
<1> QED
  BY <1>1, <1>2

-----------------------------------------------------------------------------
(* One more element before those of the lists that follow                  *)
Extended(rest, first, count) ==
  FlattenSeq([j \in 1..(count - first + 1) |->
    Appended(rest[first + j], first + j - 1)])

(* The recursive function of get_list_of_combinations, up to size elements  *)
IsOf(f, count, size) ==
  f = [k \in 1..size |-> [first \in 1..(count + 1) |->
        IF k = 1 THEN [j \in 1..(count - first + 1) |-> <<first + j - 1>>]
        ELSE Extended(f[k - 1], first, count)]]

LEMMA OfExists ==
  ASSUME NEW count \in Nat, NEW size \in Nat
  PROVE  \E f : IsOf(f, count, size)
<1> DEFINE Single == [first \in 1..(count + 1) |->
                       [j \in 1..(count - first + 1) |-> <<first + j - 1>>]]
           More(r) == [first \in 1..(count + 1) |-> Extended(r, first, count)]
           Is(f, m) == f = [k \in 1..m |-> IF k = 1 THEN Single ELSE More(f[k - 1])]
           S == {m \in Nat : \E f : Is(f, m)}
<1>1. \A f, m : Is(f, m) => IsOf(f, count, m)
  <2> TAKE f, m
  <2> HAVE Is(f, m)
  <2>1. \A k \in 1..m :
          (IF k = 1 THEN Single ELSE More(f[k - 1])) =
          [first \in 1..(count + 1) |->
             IF k = 1 THEN [j \in 1..(count - first + 1) |-> <<first + j - 1>>]
             ELSE Extended(f[k - 1], first, count)]
    OBVIOUS
  <2> HIDE DEF Single, More
  <2> QED
    BY <2>1 DEF IsOf
<1> HIDE DEF Single, More
<1>2. 0 \in S
  <2>1. Is([k \in 1..0 |-> 0], 0)
    OBVIOUS
  <2> QED
    BY <2>1
<1>3. ASSUME NEW m \in 0..(size - 1), m \in S
      PROVE  m + 1 \in S
  <2>1. PICK f : Is(f, m)
    BY <1>3
  <2> DEFINE g == [k \in 1..(m + 1) |-> IF k = 1 THEN Single ELSE More(f[k - 1])]
  <2>2. \A k \in 1..m : f[k] = IF k = 1 THEN Single ELSE More(f[k - 1])
    BY <2>1
  <2>3. \A k \in 1..m : k \in 1..(m + 1) /\ g[k] = f[k]
    BY <2>2
  <2>4. \A k \in 1..(m + 1) : k # 1 => k - 1 \in 1..m /\ g[k - 1] = f[k - 1]
    <3> TAKE k \in 1..(m + 1)
    <3> HAVE k # 1
    <3>1. k - 1 \in 1..m
      OBVIOUS
    <3> QED
      BY <2>3, <3>1
  <2>5. \A k \in 1..(m + 1) : g[k] = IF k = 1 THEN Single ELSE More(g[k - 1])
    BY <2>4
  <2>6. g = [k \in 1..(m + 1) |-> g[k]]
    OBVIOUS
  <2> HIDE DEF g
  <2>7. Is(g, m + 1)
    BY <2>5, <2>6
  <2> QED
    BY <2>7
<1>4. size \in S
  <2> HIDE DEF S
  <2> QED
    BY <1>2, <1>3, UpTo
<1> QED
  BY <1>1, <1>4

LEMMA SinglesListed ==
  ASSUME NEW count \in Nat, NEW l \in 1..(count + 1)
  PROVE  Lists([j \in 1..(count - l + 1) |-> <<l + j - 1>>], kSubset(1, l..count))
<1> DEFINE s == [j \in 1..(count - l + 1) |-> <<l + j - 1>>]
<1>1. count - l + 1 \in Nat
  OBVIOUS
<1>2. \A j \in 1..(count - l + 1) : l + j - 1 \in Nat /\ l + j - 1 \in l..count
  OBVIOUS
<1>3. \A x \in l..count : x - l + 1 \in 1..(count - l + 1) /\ l + (x - l + 1) - 1 = x
  OBVIOUS
<1>4. \A x \in Nat : <<x>> \in Seq(Nat) /\ ToSet(<<x>>) = {x}
  BY DEF ToSet
<1>5. s \in Seq(Seq(Nat)) /\ DOMAIN s = 1..(count - l + 1)
  <2>1. s \in [1..(count - l + 1) -> Seq(Nat)]
    BY <1>2, <1>4
  <2> QED
    BY <1>1, <2>1, SeqDef
<1>6. \A j \in DOMAIN s : ToSet(s[j]) = {l + j - 1}
  BY <1>2, <1>4
<1>7. \A a, b \in DOMAIN s : ToSet(s[a]) = ToSet(s[b]) => a = b
  <2> TAKE a, b \in DOMAIN s
  <2> HAVE ToSet(s[a]) = ToSet(s[b])
  <2>1. {l + a - 1} = {l + b - 1}
    BY <1>6
  <2>2. l + a - 1 = l + b - 1 /\ a \in Int /\ b \in Int
    BY <1>5, <2>1
  <2> QED
    BY <2>2
<1> HIDE DEF s
<1>8. Sets(s) = {{x} : x \in l..count}
  <2>1. \A j \in DOMAIN s : ToSet(s[j]) \in {{x} : x \in l..count}
    BY <1>2, <1>5, <1>6
  <2>2. \A x \in l..count : \E j \in DOMAIN s : {x} = ToSet(s[j])
    <3> TAKE x \in l..count
    <3>1. x - l + 1 \in DOMAIN s /\ l + (x - l + 1) - 1 = x
      BY <1>3, <1>5
    <3>2. ToSet(s[x - l + 1]) = {x}
      BY <1>6, <3>1
    <3> QED
      BY <3>1, <3>2
  <2> QED
    BY <2>1, <2>2 DEF Sets
<1>9. Sets(s) = kSubset(1, l..count)
  BY <1>8, SingleSubsets
<1>10. Lists(s, kSubset(1, l..count))
  BY <1>5, <1>7, <1>9 DEF Lists
<1> QED
  BY <1>10 DEF s

LEMMA ExtendedListed ==
  ASSUME NEW count \in Nat, NEW l \in 1..(count + 1), NEW k \in Nat, k >= 2,
         NEW rest, \A m \in 1..(count + 1) : Lists(rest[m], kSubset(k - 1, m..count))
  PROVE  Lists(Extended(rest, l, count), kSubset(k, l..count))
<1> DEFINE n == count - l + 1
           Block(j) == Appended(rest[l + j], l + j - 1)
           s == [j \in 1..n |-> Block(j)]
           B == [j \in 1..n |-> SmallestIs(k, l + j - 1, count)]
<1>1. n \in Nat /\ DOMAIN s = 1..n
  OBVIOUS
<1>2. ASSUME NEW j \in 1..n
      PROVE  Lists(Block(j), SmallestIs(k, l + j - 1, count))
  <2>1. PICK x : x = l + j - 1
    OBVIOUS
  <2>2. x \in Nat /\ x + 1 \in 1..(count + 1) /\ l + j = x + 1
    BY <2>1
  <2>3. PICK A : A = kSubset(k - 1, (x + 1)..count)
    OBVIOUS
  <2>4. PICK r : r = rest[x + 1]
    OBVIOUS
  <2>5. Lists(r, A)
    BY <2>2, <2>3, <2>4
  <2>6. \A T \in A : x \notin T
    BY <2>2, <2>3 DEF kSubset
  <2>7. Lists(Appended(r, x), With(A, x))
    BY <2>2, <2>5, <2>6, AppendToAll
  <2>8. Block(j) = Appended(r, x)
    BY <2>1, <2>2, <2>4
  <2>9. SmallestIs(k, l + j - 1, count) = With(A, x)
    BY <2>1, <2>3 DEF SmallestIs
  <2> QED
    BY <2>7, <2>8, <2>9
<1> HIDE DEF Block
<1>3. s \in Seq(Seq(Seq(Nat))) /\ Len(s) = n
  <2>1. \A j \in 1..n : Block(j) \in Seq(Seq(Nat))
    BY <1>2 DEF Lists
  <2>2. s \in [1..n -> Seq(Seq(Nat))]
    BY <2>1
  <2> HIDE DEF s
  <2> QED
    BY <1>1, <2>2, SeqDef
<1>4. \A j \in 1..n : Lists(s[j], B[j])
  BY <1>2
<1>5. ASSUME NEW j \in 1..n, NEW m \in 1..n, j < m
      PROVE  B[j] \cap B[m] = {}
  <2>1. PICK x, y : x = l + j - 1 /\ y = l + m - 1
    OBVIOUS
  <2>2. x \in Nat /\ y \in Nat /\ x < y
    BY <1>5, <2>1
  <2>3. SmallestIs(k, x, count) \cap SmallestIs(k, y, count) = {}
    BY <2>2, SmallestDiffer
  <2> QED
    BY <2>1, <2>3
<1>6. Extended(rest, l, count) = FlattenSeq(s)
  BY DEF Extended, Block
<1>7. UnionTo(B, n) = UNION {SmallestIs(k, l + j - 1, count) : j \in 1..n}
  BY DEF UnionTo
<1>8. kSubset(k, l..count) = UNION {SmallestIs(k, l + j - 1, count) : j \in 1..n}
  <2>1. l \in Nat
    OBVIOUS
  <2> QED
    BY <2>1, SubsetsBySmallest
<1> HIDE DEF n, s, B
<1>9. Lists(FlattenSeq(s), UnionTo(B, n))
  BY <1>1, <1>3, <1>4, <1>5, FlattenLists
<1> QED
  BY <1>6, <1>7, <1>8, <1>9 DEF n

(* get_list_of_combinations lists each set of as many connections once      *)
LEMMA CombinationsListed ==
  ASSUME NEW count \in Nat, NEW size \in Nat \ {0}
  PROVE  Lists(Combinations(count, size), kSubset(size, 1..count))
<1> DEFINE f == CHOOSE f : IsOf(f, count, size)
           S == {k \in Nat : \A l \in 1..(count + 1) : Lists(f[k][l], kSubset(k, l..count))}
<1>1. Combinations(count, size) = f[size][1]
  BY DEF Combinations, IsOf, Extended, Appended
<1>2. IsOf(f, count, size)
  <2>1. \E g : IsOf(g, count, size)
    BY OfExists
  <2> QED
    BY <2>1
<1> HIDE DEF f
<1>3. \A k \in 1..size : \A l \in 1..(count + 1) :
        f[k][l] = IF k = 1 THEN [j \in 1..(count - l + 1) |-> <<l + j - 1>>]
                  ELSE Extended(f[k - 1], l, count)
  <2> TAKE k \in 1..size
  <2>1. f[k] = [first \in 1..(count + 1) |->
                 IF k = 1 THEN [j \in 1..(count - first + 1) |-> <<first + j - 1>>]
                 ELSE Extended(f[k - 1], first, count)]
    BY <1>2 DEF IsOf
  <2> QED
    BY <2>1
<1>4. 1 \in S
  <2>1. \A l \in 1..(count + 1) : f[1][l] = [j \in 1..(count - l + 1) |-> <<l + j - 1>>]
    BY <1>3
  <2> QED
    BY <2>1, SinglesListed
<1>5. ASSUME NEW k \in 1..(size - 1), k \in S
      PROVE  k + 1 \in S
  <2>1. k + 1 \in 1..size /\ k + 1 # 1 /\ (k + 1) - 1 = k /\ k + 1 \in Nat /\ k + 1 >= 2
    OBVIOUS
  <2>2. PICK rest : rest = f[k]
    OBVIOUS
  <2>3. \A m \in 1..(count + 1) : Lists(rest[m], kSubset((k + 1) - 1, m..count))
    BY <1>5, <2>1, <2>2
  <2>4. ASSUME NEW l \in 1..(count + 1)
        PROVE  Lists(f[k + 1][l], kSubset(k + 1, l..count))
    <3>1. f[k + 1][l] = Extended(rest, l, count)
      BY <1>3, <2>1, <2>2
    <3>2. Lists(Extended(rest, l, count), kSubset(k + 1, l..count))
      <4>1. PICK q : q = k + 1
        OBVIOUS
      <4>2. q \in Nat /\ q >= 2 /\ \A m \in 1..(count + 1) : Lists(rest[m], kSubset(q - 1, m..count))
        BY <2>1, <2>3, <4>1
      <4>3. Lists(Extended(rest, l, count), kSubset(q, l..count))
        BY <4>2, ExtendedListed
      <4> QED
        BY <4>1, <4>3
    <3> QED
      BY <3>1, <3>2
  <2> QED
    BY <2>1, <2>4
<1>6. size \in S
  <2>1. 1 \in Nat /\ 1 <= size
    OBVIOUS
  <2> HIDE DEF S
  <2> QED
    BY <1>4, <1>5, <2>1, UpTo
<1> QED
  BY <1>1, <1>6

-----------------------------------------------------------------------------
(* The sets that a thread is to test, and those it still has to             *)
AllSets(t) == kSubset(Min({edges[t], numRemovals}), 1..edges[t])

RemovalsListed(t) ==
  IF pc[t] = "take" \/ edges[t] = 0
  THEN tried[t] = {} /\ (pc[t] # "take" => left[t] = <<>>)
  ELSE tried[t] \subseteq AllSets(t) /\ Lists(left[t], AllSets(t) \ tried[t])

RemovalInv ==
  /\ numRemovals \in Nat \ {0}
  /\ pc \in [Thread -> Places]
  /\ edges \in [Thread -> Nat] /\ tried \in [Thread -> SUBSET (SUBSET Nat)]
  /\ DOMAIN left = Thread
  /\ \A t \in Thread : RemovalsListed(t)

LEMMA SubsetsOfNat ==
  ASSUME NEW k, NEW n \in Nat
  PROVE  IsFiniteSet(kSubset(k, 1..n)) /\ kSubset(k, 1..n) \subseteq SUBSET Nat
<1>1. IsFiniteSet(SUBSET (1..n))
  <2>1. IsFiniteSet(1..n)
    BY FS_Interval
  <2> QED
    BY <2>1, FS_SUBSET
<1>2. kSubset(k, 1..n) \subseteq SUBSET (1..n)
  BY DEF kSubset
<1> QED
  BY <1>1, <1>2, FS_Subset

LEMMA SameRemovals ==
  ASSUME NEW t \in Thread, RemovalsListed(t), numRemovals' = numRemovals,
         pc'[t] = pc[t], edges'[t] = edges[t], tried'[t] = tried[t], left'[t] = left[t]
  PROVE  RemovalsListed(t)'
BY DEF RemovalsListed, AllSets

LEMMA InitRemovals == Init => RemovalInv
<1> SUFFICES ASSUME Init PROVE RemovalInv
  OBVIOUS
<1>1. numRemovals \in 1..MaxRemovals /\ MaxRemovals \in Nat
  BY AttackAssumption DEF Init
<1>2. /\ pc = [t \in Thread |-> "take"] /\ edges = [t \in Thread |-> 0]
      /\ left = [t \in Thread |-> <<>>] /\ tried = [t \in Thread |-> {}]
  BY DEF Init
<1>3. /\ numRemovals \in Nat \ {0} /\ pc \in [Thread -> Places]
      /\ edges \in [Thread -> Nat] /\ DOMAIN left = Thread
  BY <1>1, <1>2 DEF Places
<1>4. tried \in [Thread -> SUBSET (SUBSET Nat)]
  BY <1>2
<1>5. \A t \in Thread : RemovalsListed(t)
  BY <1>2 DEF RemovalsListed
<1> QED
  BY <1>3, <1>4, <1>5 DEF RemovalInv

(* The combinations of the connections of a key are listed                 *)
LEMMA TakeLists ==
  ASSUME RemovalInv, NEW t \in Thread, Take(t)
  PROVE  RemovalInv'
<1>1. /\ numRemovals \in Nat \ {0} /\ pc \in [Thread -> Places]
      /\ edges \in [Thread -> Nat] /\ tried \in [Thread -> SUBSET (SUBSET Nat)]
      /\ DOMAIN left = Thread /\ \A u \in Thread : RemovalsListed(u)
  BY DEF RemovalInv
<1>2. PICK count \in EdgeCounts :
        /\ edges' = [edges EXCEPT ![t] = count]
        /\ left' = [left EXCEPT ![t] =
                      IF count = 0 THEN <<>>
                      ELSE Combinations(count, Min({count, numRemovals}))]
  BY DEF Take
<1>3. /\ pc[t] = "take" /\ \E p \in {"rs", "test"} : pc' = [pc EXCEPT ![t] = p]
      /\ numRemovals' = numRemovals /\ tried' = tried
  BY DEF Take, BeforeTest, At, args
<1>4. count \in Nat
  BY DEF EdgeCounts
<1>5. /\ numRemovals' \in Nat \ {0} /\ pc' \in [Thread -> Places]
      /\ edges' \in [Thread -> Nat] /\ tried' \in [Thread -> SUBSET (SUBSET Nat)]
      /\ DOMAIN left' = Thread
  BY <1>1, <1>2, <1>3, <1>4 DEF Places
<1>6. \A u \in Thread : u # t => /\ pc'[u] = pc[u] /\ edges'[u] = edges[u]
                                 /\ tried'[u] = tried[u] /\ left'[u] = left[u]
  BY <1>1, <1>2, <1>3
<1>7. /\ pc'[t] # "take" /\ edges'[t] = count /\ tried'[t] = {}
      /\ left'[t] = IF count = 0 THEN <<>>
                    ELSE Combinations(count, Min({count, numRemovals}))
  BY <1>1, <1>2, <1>3 DEF RemovalsListed
<1>8. RemovalsListed(t)'
  <2>1. CASE count = 0
    BY <1>7, <2>1 DEF RemovalsListed
  <2>2. CASE count # 0
    <3>1. PICK k : k = Min({count, numRemovals})
      OBVIOUS
    <3>2. k \in Nat \ {0}
      <4>1. count \in Int /\ numRemovals \in Int
        BY <1>1, <1>4
      <4>2. Min({count, numRemovals}) \in {count, numRemovals}
        BY <4>1, SmallerOfTwo
      <4> QED
        BY <1>1, <1>4, <2>2, <3>1, <4>2
    <3>3. Lists(Combinations(count, k), kSubset(k, 1..count))
      BY <1>4, <3>2, CombinationsListed
    <3>4. AllSets(t)' = kSubset(k, 1..count)
      BY <1>3, <1>7, <3>1 DEF AllSets
    <3>5. AllSets(t)' \ tried'[t] = AllSets(t)'
      BY <1>7
    <3> QED
      BY <1>7, <2>2, <3>1, <3>3, <3>4, <3>5 DEF RemovalsListed
  <2> QED
    BY <2>1, <2>2
<1>9. \A u \in Thread : RemovalsListed(u)'
  <2> TAKE u \in Thread
  <2>1. CASE u = t
    BY <1>8, <2>1
  <2>2. CASE u # t
    BY <1>1, <1>3, <1>6, <2>2, SameRemovals
  <2> QED
    BY <2>1, <2>2
<1> QED
  BY <1>5, <1>9 DEF RemovalInv

(* One set more is tested, and one less is left                            *)
LEMMA TestLists ==
  ASSUME RemovalInv, NEW t \in Thread, Test(t)
  PROVE  RemovalInv'
<1>1. /\ numRemovals \in Nat \ {0} /\ pc \in [Thread -> Places]
      /\ edges \in [Thread -> Nat] /\ tried \in [Thread -> SUBSET (SUBSET Nat)]
      /\ DOMAIN left = Thread /\ \A u \in Thread : RemovalsListed(u)
  BY DEF RemovalInv
<1>2. PICK U : U = ToSet(Head(left[t]))
  OBVIOUS
<1>3. /\ pc[t] = "test" /\ left[t] # <<>>
      /\ tried' = [tried EXCEPT ![t] = tried[t] \cup {U}]
      /\ left' = [left EXCEPT ![t] = Tail(left[t])]
      /\ numRemovals' = numRemovals /\ edges' = edges
      /\ \E p \in {"rs", "test"} : pc' = [pc EXCEPT ![t] = p]
  BY <1>2 DEF Test, BeforeTest, At, main, args
<1>4. /\ edges[t] # 0 /\ tried[t] \subseteq AllSets(t)
      /\ Lists(left[t], AllSets(t) \ tried[t])
  BY <1>1, <1>3 DEF RemovalsListed
<1>5. U \in AllSets(t) \ tried[t] /\ Lists(Tail(left[t]), (AllSets(t) \ tried[t]) \ {U})
  <2>1. PICK s, A : s = left[t] /\ A = AllSets(t) \ tried[t]
    OBVIOUS
  <2>2. ToSet(Head(s)) \in A /\ Lists(Tail(s), A \ {ToSet(Head(s))})
    BY <1>3, <1>4, <2>1, TailLists
  <2> QED
    BY <1>2, <2>1, <2>2
<1>6. tried'[t] = tried[t] \cup {U} /\ left'[t] = Tail(left[t]) /\ pc'[t] # "take"
  BY <1>1, <1>3
<1>7. AllSets(t)' = AllSets(t) /\ AllSets(t) \subseteq SUBSET Nat
  <2>1. edges[t] \in Nat
    BY <1>1
  <2> QED
    BY <1>3, <2>1, SubsetsOfNat DEF AllSets
<1>8. /\ numRemovals' \in Nat \ {0} /\ pc' \in [Thread -> Places]
      /\ edges' \in [Thread -> Nat] /\ tried' \in [Thread -> SUBSET (SUBSET Nat)]
      /\ DOMAIN left' = Thread
  <2>1. tried[t] \cup {U} \in SUBSET (SUBSET Nat)
    BY <1>4, <1>5, <1>7
  <2>2. tried' \in [Thread -> SUBSET (SUBSET Nat)]
    BY <1>1, <1>3, <2>1
  <2> QED
    BY <1>1, <1>3, <2>2 DEF Places
<1>9. RemovalsListed(t)'
  <2>1. (AllSets(t) \ tried[t]) \ {U} = AllSets(t) \ (tried[t] \cup {U})
    OBVIOUS
  <2>2. tried'[t] \subseteq AllSets(t)
    BY <1>4, <1>5, <1>6
  <2>3. Lists(left'[t], AllSets(t) \ tried'[t])
    BY <1>5, <1>6, <2>1
  <2> QED
    BY <1>3, <1>4, <1>6, <1>7, <2>2, <2>3 DEF RemovalsListed
<1>10. \A u \in Thread : RemovalsListed(u)'
  <2> TAKE u \in Thread
  <2>1. CASE u = t
    BY <1>9, <2>1
  <2>2. CASE u # t
    <3>1. /\ pc'[u] = pc[u] /\ edges'[u] = edges[u]
          /\ tried'[u] = tried[u] /\ left'[u] = left[u]
      BY <1>1, <1>3, <2>2
    <3> QED
      BY <1>1, <1>3, <3>1, SameRemovals
  <2> QED
    BY <2>1, <2>2
<1> QED
  BY <1>8, <1>10 DEF RemovalInv

LEMMA StepRemovals == RemovalInv /\ [Next]_vars => RemovalInv'
<1> SUFFICES ASSUME RemovalInv, [Next]_vars PROVE RemovalInv'
  OBVIOUS
<1>1. /\ numRemovals \in Nat \ {0} /\ pc \in [Thread -> Places]
      /\ edges \in [Thread -> Nat] /\ tried \in [Thread -> SUBSET (SUBSET Nat)]
      /\ DOMAIN left = Thread /\ \A u \in Thread : RemovalsListed(u)
  BY DEF RemovalInv
<1>2. ASSUME NEW t \in Thread, Enter(t) PROVE RemovalInv'
  <2>1. /\ numRemovals' = numRemovals /\ edges' = edges /\ tried' = tried /\ left' = left
        /\ pc[t] = "test" /\ pc' = [pc EXCEPT ![t] = "raise"]
    BY <1>2 DEF Enter, At, main, args
  <2>2. pc' \in [Thread -> Places]
    BY <1>1, <2>1 DEF Places
  <2>3. \A u \in Thread : pc'[u] = "take" <=> pc[u] = "take"
    BY <1>1, <2>1
  <2>4. \A u \in Thread : RemovalsListed(u)'
    BY <1>1, <2>1, <2>3 DEF RemovalsListed, AllSets
  <2> QED
    BY <1>1, <2>1, <2>2, <2>4 DEF RemovalInv
<1>3. ASSUME NEW t \in Thread, Raise(t) PROVE RemovalInv'
  <2>1. /\ numRemovals' = numRemovals /\ edges' = [edges EXCEPT ![t] = 0]
        /\ tried' = [tried EXCEPT ![t] = {}] /\ left' = left
        /\ pc' = [pc EXCEPT ![t] = "take"]
    BY <1>3 DEF Raise, Forget, main, args
  <2>2. /\ pc' \in [Thread -> Places] /\ edges' \in [Thread -> Nat]
        /\ tried' \in [Thread -> SUBSET (SUBSET Nat)]
    BY <1>1, <2>1 DEF Places
  <2>3. ASSUME NEW u \in Thread PROVE RemovalsListed(u)'
    <3>1. CASE u = t
      <4>1. pc'[t] = "take" /\ tried'[t] = {}
        BY <1>1, <2>1
      <4> QED
        BY <3>1, <4>1 DEF RemovalsListed
    <3>2. CASE u # t
      <4>1. /\ pc'[u] = pc[u] /\ edges'[u] = edges[u]
            /\ tried'[u] = tried[u] /\ left'[u] = left[u]
        BY <1>1, <2>1, <3>2
      <4> QED
        BY <1>1, <2>1, <4>1, SameRemovals
    <3> QED
      BY <3>1, <3>2
  <2> QED
    BY <1>1, <2>1, <2>2, <2>3 DEF RemovalInv
<1>4. CASE NextRound \/ WriteReport \/ UNCHANGED vars
  <2>1. /\ numRemovals' = numRemovals /\ pc' = pc /\ edges' = edges
        /\ tried' = tried /\ left' = left
    BY <1>4 DEF NextRound, WriteReport, vars, main, args, locals
  <2> QED
    BY <1>1, <2>1 DEF RemovalInv, RemovalsListed, AllSets
<1>5. ASSUME NEW t \in Thread, CodecStep(t) PROVE RemovalInv'
  <2>1. /\ numRemovals' = numRemovals /\ edges' = edges /\ tried' = tried /\ left' = left
        /\ pc[t] # "take"
        /\ \E p \in Places \ {"take", "raise"} : pc' = [pc EXCEPT ![t] = p]
    BY <1>1, <1>5, CodecMoves DEF main, args, locals
  <2>2. pc' \in [Thread -> Places]
    BY <1>1, <2>1
  <2>3. \A u \in Thread : pc'[u] = "take" <=> pc[u] = "take"
    BY <1>1, <2>1
  <2>4. \A u \in Thread : RemovalsListed(u)'
    BY <1>1, <2>1, <2>3 DEF RemovalsListed, AllSets
  <2> QED
    BY <1>1, <2>1, <2>2, <2>4 DEF RemovalInv
<1> QED
  BY <1>2, <1>3, <1>4, <1>5, TakeLists, TestLists DEF Next, ThreadStep, CodecStep, Rest

LEMMA AllRemoved == RemovalInv => EverySetIsRemoved
<1> SUFFICES ASSUME RemovalInv, NEW t \in Thread, pc[t] # "take"
             PROVE  IF edges[t] = 0 THEN tried[t] = {}
                    ELSE /\ Len(left[t]) = Cardinality(AllSets(t)) - Cardinality(tried[t])
                         /\ left[t] = <<>> => tried[t] = AllSets(t)
  BY DEF EverySetIsRemoved, AllSets
<1>1. edges[t] \in Nat /\ RemovalsListed(t)
  BY DEF RemovalInv
<1>2. CASE edges[t] = 0
  BY <1>1, <1>2 DEF RemovalsListed
<1>3. CASE edges[t] # 0
  <2>1. tried[t] \subseteq AllSets(t) /\ Lists(left[t], AllSets(t) \ tried[t])
    BY <1>1, <1>3 DEF RemovalsListed
  <2>2. PICK s, A, B : s = left[t] /\ A = AllSets(t) /\ B = tried[t]
    OBVIOUS
  <2>3. B \subseteq A /\ Lists(s, A \ B) /\ IsFiniteSet(A)
    BY <1>1, <2>1, <2>2, SubsetsOfNat DEF AllSets
  <2>4. Len(s) \in Nat /\ Cardinality(A \ B) = Len(s)
    BY <2>3, ListedOnce
  <2>5. Cardinality(A \ B) = Cardinality(A) - Cardinality(B)
    <3>1. A \cap B = B /\ IsFiniteSet(B)
      BY <2>3, FS_Subset
    <3>2. Cardinality(A \ B) = Cardinality(A) - Cardinality(A \cap B)
      BY <2>3, FS_Difference
    <3> QED
      BY <3>1, <3>2
  <2>6. s = <<>> => B = A
    <3>1. s = <<>> => A \ B = {}
      BY <2>3 DEF Lists, Sets
    <3> QED
      BY <2>3, <3>1
  <2> QED
    BY <1>3, <2>2, <2>4, <2>5, <2>6
<1> QED
  BY <1>2, <1>3

(* A key is tested without each set of as many of its connections as were  *)
(* asked for, once, for any number of connections and of removals          *)
(* (watermark.c:346-382,407).                                              *)
THEOREM EverySetIsTested == Spec => []EverySetIsRemoved
<1>1. Init => RemovalInv
  BY InitRemovals
<1>2. RemovalInv /\ [Next]_vars => RemovalInv'
  BY StepRemovals
<1> QED
  BY <1>1, <1>2, AllRemoved, PTL DEF Spec

=============================================================================
