---------------------------- MODULE RsFramingProofs ----------------------------
(***************************************************************************)
(* Lemmas about the framing of a key, for bytes and symbols of every size: *)
(* where a bit goes that is moved into a byte or a symbol and back, and    *)
(* that few faults, wherever they are, leave few symbols wrong.            *)
(***************************************************************************)
EXTENDS RsFraming, FiniteSetTheorems, TLAPS

(* No more elements than something leads to them                           *)
LEMMA NoMoreThan ==
  ASSUME NEW S, IsFiniteSet(S), NEW T, NEW f, \A t \in T : \E s \in S : f[s] = t
  PROVE  IsFiniteSet(T) /\ Cardinality(T) <= Cardinality(S)
<1> DEFINE R == {s \in S : f[s] \in T}
           g == [s \in R |-> f[s]]
<1>1. R \in SUBSET S
  OBVIOUS
<1>2. g \in Surjection(R, T)
  BY DEF Surjection
<1> HIDE DEF R, g
<1>3. IsFiniteSet(R) /\ Cardinality(R) <= Cardinality(S)
  BY <1>1, FS_Subset
<1>4. IsFiniteSet(T) /\ Cardinality(T) <= Cardinality(R)
  BY <1>2, <1>3, FS_Surjection
<1>5. /\ Cardinality(S) \in Nat /\ Cardinality(R) \in Nat /\ Cardinality(T) \in Nat
  BY <1>3, <1>4, FS_CardinalityType
<1> QED
  BY <1>3, <1>4, <1>5

(* Bits, the symbols they are in, and their places in them                 *)
LEMMA SymbolsAndBits ==
  ASSUME NEW w \in Nat \ {0}, NEW a \in Nat
  PROVE  /\ a \div w \in Nat /\ a % w \in 0..(w - 1)
         /\ a = w * (a \div w) + (a % w)
  OBVIOUS

LEMMA FewerSymbols ==
  ASSUME NEW w \in Nat \ {0}, NEW x \in Int, NEW y \in Int, w * x < w * y
  PROVE  x < y
<1>1. y <= x => w * y <= w * x
  OBVIOUS
<1> QED
  BY <1>1

(* A place in a symbol is found again                                      *)
LEMMA PlaceInSymbol ==
  ASSUME NEW w \in Nat \ {0}, NEW s \in Nat, NEW j \in 0..(w - 1)
  PROVE  (s * w + j) \div w = s /\ (s * w + j) % w = j
  OBVIOUS

LEMMA BitsOfSymbols ==
  ASSUME NEW w \in Nat \ {0}, NEW count \in Nat
  PROVE  /\ count * w \in Nat
         /\ \A k \in 0..(count * w - 1) :
              /\ k \div w \in 0..(count - 1) /\ k % w \in 0..(w - 1)
              /\ (k \div w) * w + (k % w) = k
         /\ \A s \in 0..(count - 1) : \A j \in 0..(w - 1) : s * w + j \in 0..(count * w - 1)
<1>1. count * w \in Nat
  OBVIOUS
<1>2. ASSUME NEW k \in 0..(count * w - 1)
      PROVE  /\ k \div w \in 0..(count - 1) /\ k % w \in 0..(w - 1)
             /\ (k \div w) * w + (k % w) = k
  <2>1. k \in Nat /\ k < w * count
    BY <1>1
  <2>2. PICK q \in Nat, r \in 0..(w - 1) :
          q = k \div w /\ r = k % w /\ k = w * q + r
    BY <2>1, SymbolsAndBits
  <2>3. q < count
    <3>1. w * q \in Int /\ w * q < w * count
      BY <1>1, <2>1, <2>2
    <3> QED
      BY <3>1, FewerSymbols
  <2>4. q * w + r = k
    BY <2>2
  <2> QED
    BY <2>2, <2>3, <2>4
<1>3. ASSUME NEW s \in 0..(count - 1), NEW j \in 0..(w - 1)
      PROVE  s * w + j \in 0..(count * w - 1)
  <2>1. s \in Nat /\ s + 1 \in Nat /\ s + 1 <= count
    OBVIOUS
  <2>2. (s + 1) * w <= count * w
    BY <2>1
  <2>3. (s + 1) * w = s * w + w /\ s * w \in Nat
    BY <2>1
  <2> QED
    BY <1>1, <2>2, <2>3
<1> QED
  BY <1>1, <1>2, <1>3

(* The bits of whole bytes                                                 *)
LEMMA BlockBits ==
  ASSUME NEW bytes \in Nat
  PROVE  /\ ByteBits * bytes \in Nat /\ Block(bytes) = 0..(ByteBits * bytes - 1)
         /\ (ByteBits * bytes) \div ByteBits = bytes /\ BytesFor(bytes * ByteBits) = bytes
         /\ \A block : DOMAIN block = Block(bytes) => Size(block) = ByteBits * bytes
         /\ \A k \in Block(bytes) :
              /\ k \in Nat /\ k \div ByteBits \in 0..(bytes - 1)
              /\ k % ByteBits \in 0..(ByteBits - 1)
              /\ (k \div ByteBits) * ByteBits + (k % ByteBits) = k
         /\ \A s \in 0..(bytes - 1) : \A j \in 0..(ByteBits - 1) :
              s * ByteBits + j \in Block(bytes)
<1>1. ByteBits * bytes \in Nat
  BY ByteBitsAssumption
<1>2. (ByteBits * bytes) \div ByteBits = bytes
  BY ByteBitsAssumption
<1>3. BytesFor(bytes * ByteBits) = bytes
  <2>1. (bytes * ByteBits) \div ByteBits = bytes /\ (bytes * ByteBits) % ByteBits = 0
    BY ByteBitsAssumption
  <2> QED
    BY <2>1 DEF BytesFor
<1>4. \A block : DOMAIN block = Block(bytes) => Size(block) = ByteBits * bytes
  <2>1. 0 \in Int /\ ByteBits * bytes - 1 \in Int
    BY <1>1
  <2>2. Cardinality(0..(ByteBits * bytes - 1)) = ByteBits * bytes
    BY <1>1, <2>1, FS_Interval
  <2> QED
    BY <2>2 DEF Size, Block
<1>5. ASSUME NEW k \in Block(bytes)
      PROVE  /\ k \in Nat /\ k \div ByteBits \in 0..(bytes - 1)
             /\ k % ByteBits \in 0..(ByteBits - 1)
             /\ (k \div ByteBits) * ByteBits + (k % ByteBits) = k
  <2>1. k \in Nat /\ k < ByteBits * bytes
    BY <1>1 DEF Block
  <2>2. PICK q \in Nat, r \in 0..(ByteBits - 1) :
          q = k \div ByteBits /\ r = k % ByteBits /\ k = ByteBits * q + r
    BY <2>1, ByteBitsAssumption, SymbolsAndBits
  <2>3. q < bytes
    <3>1. ByteBits * q \in Int /\ ByteBits * q < ByteBits * bytes
      BY <1>1, <2>1, <2>2, ByteBitsAssumption
    <3> QED
      BY <3>1, FewerSymbols, ByteBitsAssumption
  <2>4. q * ByteBits + r = k
    BY <2>2, ByteBitsAssumption
  <2> QED
    BY <2>1, <2>2, <2>3, <2>4
<1>6. ASSUME NEW s \in 0..(bytes - 1), NEW j \in 0..(ByteBits - 1)
      PROVE  s * ByteBits + j \in Block(bytes)
  <2>1. s \in Nat /\ s + 1 \in Nat /\ s + 1 <= bytes
    OBVIOUS
  <2>2. ByteBits * (s + 1) <= ByteBits * bytes
    BY <2>1, ByteBitsAssumption
  <2>3. /\ ByteBits * (s + 1) = s * ByteBits + ByteBits /\ s * ByteBits \in Nat
    BY <2>1, ByteBitsAssumption
  <2> QED
    BY <1>1, <2>2, <2>3, ByteBitsAssumption DEF Block
<1> QED
  BY <1>1, <1>2, <1>3, <1>4, <1>5, <1>6 DEF Block

(* The bytes for some bits, of which the first may not be full             *)
LEMMA BytesForBits ==
  ASSUME NEW a \in Nat
  PROVE  /\ BytesFor(a) \in Nat /\ ByteBits * BytesFor(a) - a \in 0..(ByteBits - 1)
         /\ \A bytes \in Nat : a <= ByteBits * bytes => BytesFor(a) <= bytes
         /\ \A bytes \in Nat : ByteBits * bytes < a => bytes < BytesFor(a)
<1>1. PICK q \in Nat, r \in 0..(ByteBits - 1) :
        q = a \div ByteBits /\ r = a % ByteBits /\ a = ByteBits * q + r
  BY ByteBitsAssumption, SymbolsAndBits
<1>2. PICK b \in Nat : b = BytesFor(a) /\ b = q + (IF r = 0 THEN 0 ELSE 1)
  BY <1>1 DEF BytesFor
<1>3. ByteBits * b - a \in 0..(ByteBits - 1)
  <2>1. CASE r = 0
    BY <1>1, <1>2, <2>1, ByteBitsAssumption
  <2>2. CASE r # 0
    <3>1. ByteBits * b = ByteBits * q + ByteBits
      BY <1>2, <2>2, ByteBitsAssumption
    <3> QED
      BY <1>1, <2>2, <3>1, ByteBitsAssumption
  <2> QED
    BY <2>1, <2>2
<1>4. ByteBits * b \in Int
  BY ByteBitsAssumption
<1>5. ASSUME NEW bytes \in Nat, a <= ByteBits * bytes
      PROVE  b <= bytes
  <2>1. ByteBits * bytes \in Int /\ ByteBits * (bytes + 1) = ByteBits * bytes + ByteBits
    BY ByteBitsAssumption
  <2>2. ByteBits * b < ByteBits * (bytes + 1)
    BY <1>3, <1>4, <1>5, <2>1, ByteBitsAssumption
  <2>3. b < bytes + 1
    BY <2>2, FewerSymbols, ByteBitsAssumption
  <2> QED
    BY <2>3
<1>6. ASSUME NEW bytes \in Nat, ByteBits * bytes < a
      PROVE  bytes < b
  <2>1. ByteBits * bytes \in Int
    BY ByteBitsAssumption
  <2>2. ByteBits * bytes < ByteBits * b
    BY <1>3, <1>4, <1>6, <2>1, ByteBitsAssumption
  <2> QED
    BY <2>2, FewerSymbols, ByteBitsAssumption
<1> QED
  BY <1>2, <1>3, <1>5, <1>6

(* The codec gives back the data symbols of a word in which no more bits   *)
(* than half the number of parity symbols are other than they were         *)
LEMMA FewFaultsAreCorrected ==
  ASSUME NEW w \in Nat \ {0}, NEW count \in Nat \ {0}, NEW parity \in Nat,
         NEW word, NEW meant, NEW faults, IsFiniteSet(faults),
         Cardinality(faults) <= parity \div 2, NEW place,
         \A k \in 0..((count + parity) * w - 1) :
           word[k] # meant[k] => \E j \in faults : place[j] = k
  PROVE  \A corrected \in RemoveRsCode(word, meant, count, parity, w) :
           /\ corrected # NULL /\ DOMAIN corrected = Block(BytesFor(count * w))
           /\ \A k \in 0..(count * w - 1) : corrected[k] = meant[k]
<1> DEFINE Symbols(b) == Unmerge(b, count + parity, w)
           Data(symbols) == [s \in 0..(count - 1) |-> symbols[s]]
           wrong == {s \in 0..(count + parity - 1) : Symbols(word)[s] # Symbols(meant)[s]}
           inSymbol == [j \in faults |-> place[j] \div w]
<1>1. count + parity \in Nat
  OBVIOUS
<1>2. ASSUME NEW s \in wrong
      PROVE  \E j \in faults : inSymbol[j] = s
  <2>1. s \in 0..(count + parity - 1) /\ s \in Nat
    OBVIOUS
  <2>2. PICK p \in 0..(w - 1) : word[s * w + p] # meant[s * w + p]
    BY <2>1 DEF Unmerge
  <2>3. s * w + p \in 0..((count + parity) * w - 1)
    BY <1>1, <2>1, BitsOfSymbols
  <2>4. PICK j \in faults : place[j] = s * w + p
    BY <2>2, <2>3
  <2>5. inSymbol[j] = s
    BY <2>1, <2>4, PlaceInSymbol
  <2> QED
    BY <2>5
<1>3. Cardinality(wrong) <= parity \div 2
  <2> HIDE DEF wrong, inSymbol
  <2>1. IsFiniteSet(wrong) /\ Cardinality(wrong) <= Cardinality(faults)
    BY <1>2, NoMoreThan
  <2>2. Cardinality(wrong) \in Nat /\ Cardinality(faults) \in Nat /\ parity \div 2 \in Int
    BY <2>1, FS_CardinalityType
  <2> QED
    BY <2>1, <2>2
<1>4. RsDecode(Symbols(word), Symbols(meant), count, parity, w)
        = {Data(Symbols(meant))}
  BY <1>3 DEF RsDecode
<1>5. DOMAIN NULL = {}
  BY DEF NULL
<1>6. Data(Symbols(meant)) # NULL
  <2>1. 0 \in DOMAIN Data(Symbols(meant))
    OBVIOUS
  <2> QED
    BY <1>5, <2>1
<1>7. RemoveRsCode(word, meant, count, parity, w) = {Merge(Data(Symbols(meant)), count, w)}
  <2>1. RemoveRsCode(word, meant, count, parity, w)
          = {IF d = NULL THEN NULL ELSE Merge(d, count, w) :
               d \in RsDecode(Symbols(word), Symbols(meant), count, parity, w)}
    BY DEF RemoveRsCode
  <2> HIDE DEF Data, Symbols
  <2> QED
    BY <1>4, <1>6, <2>1
<1>8. count * w \in Nat /\ count * w > 0
  OBVIOUS
<1>9. PICK bytes \in Nat : /\ bytes = BytesFor(count * w)
                           /\ \A k \in 0..(count * w - 1) : k \in Block(bytes)
  <2>1. PICK bytes \in Nat : bytes = BytesFor(count * w)
                             /\ ByteBits * bytes - count * w \in 0..(ByteBits - 1)
    BY <1>8, BytesForBits
  <2>2. ByteBits * bytes \in Nat
    BY ByteBitsAssumption
  <2>3. \A k \in 0..(count * w - 1) : k \in 0..(ByteBits * bytes - 1)
    BY <1>8, <2>1, <2>2, ByteBitsAssumption
  <2> QED
    BY <2>1, <2>3 DEF Block
<1>10. ASSUME NEW k \in 0..(count * w - 1)
       PROVE  Merge(Data(Symbols(meant)), count, w)[k] = meant[k]
  <2>1. PICK s \in 0..(count - 1), p \in 0..(w - 1) :
          s = k \div w /\ p = k % w /\ s * w + p = k
    BY BitsOfSymbols
  <2>2. Merge(Data(Symbols(meant)), count, w)[k] = Data(Symbols(meant))[s][p]
    BY <1>8, <1>9, <2>1 DEF Merge
  <2>3. Data(Symbols(meant))[s][p] = meant[s * w + p]
    BY <2>1 DEF Unmerge
  <2> QED
    BY <2>1, <2>2, <2>3
<1>11. DOMAIN Merge(Data(Symbols(meant)), count, w) = Block(BytesFor(count * w))
  BY DEF Merge
<1>12. Merge(Data(Symbols(meant)), count, w) # NULL
  <2>1. 0 \in Block(BytesFor(count * w))
    BY <1>8, <1>9
  <2> HIDE DEF Data, Symbols
  <2> QED
    BY <1>5, <1>11, <2>1
<1> HIDE DEF Data, Symbols
<1> QED
  BY <1>7, <1>10, <1>11, <1>12

-----------------------------------------------------------------------------
(* The bits of an array that starts with a 1, without the zeros that fill  *)
(* its first byte                                                          *)
LEMMA ZerosAreRemoved ==
  ASSUME NEW m \in Nat \ {0}, NEW bits, Len(bits) = m, bits[1] = 1
  PROVE  /\ DOMAIN RemoveLeftZeros(SequenceFromBitArr(bits)) = Block(BytesFor(m))
         /\ \A k \in 0..(m - 1) : RemoveLeftZeros(SequenceFromBitArr(bits))[k] = bits[k + 1]
<1>1. PICK bytes \in Nat, zeros \in 0..(ByteBits - 1), size \in Nat :
        /\ bytes = BytesFor(m) /\ size = ByteBits * bytes
        /\ zeros = size - m /\ size = m + zeros
        /\ Block(bytes) = 0..(size - 1)
        /\ \A block : DOMAIN block = Block(bytes) => Size(block) = size
  <2>1. /\ BytesFor(m) \in Nat /\ ByteBits * BytesFor(m) - m \in 0..(ByteBits - 1)
        /\ ByteBits * BytesFor(m) \in Nat
    BY BytesForBits, BlockBits
  <2>2. PICK bytes \in Nat, size \in Nat : bytes = BytesFor(m) /\ size = ByteBits * bytes
    BY <2>1
  <2>3. PICK zeros \in 0..(ByteBits - 1) : zeros = size - m
    BY <2>1, <2>2
  <2>4. size = m + zeros
    BY <2>3, ByteBitsAssumption
  <2>5. /\ Block(bytes) = 0..(size - 1)
        /\ \A block : DOMAIN block = Block(bytes) => Size(block) = size
    BY <2>2, BlockBits
  <2> QED
    BY <2>2, <2>3, <2>4, <2>5
<1> DEFINE seq == SequenceFromBitArr(bits)
<1>2. /\ DOMAIN seq = 0..(size - 1) /\ Size(seq) = size
      /\ \A k \in 0..(size - 1) : seq[k] = IF k < zeros THEN 0 ELSE bits[k - zeros + 1]
  <2>1. seq = [k \in 0..(size - 1) |-> IF k < zeros THEN 0 ELSE bits[k - zeros + 1]]
    BY <1>1 DEF SequenceFromBitArr
  <2> HIDE DEF seq
  <2> QED
    BY <1>1, <2>1
<1> HIDE DEF seq
<1>3. zeros \in Nat /\ zeros \in 0..(size - 1)
  BY <1>1, ByteBitsAssumption
<1>4. LeftZeros(seq) = zeros
  <2>1. seq[zeros] = 1 /\ \A k \in 0..(zeros - 1) : seq[k] = 0
    <3>1. zeros - zeros + 1 = 1
      BY <1>3
    <3>2. \A k \in 0..(zeros - 1) : k \in 0..(size - 1) /\ k < zeros
      BY <1>3
    <3> QED
      BY <1>2, <1>3, <3>1, <3>2
  <2>2. ASSUME NEW z \in 0..(size - 1), seq[z] = 1, \A k \in 0..(z - 1) : seq[k] = 0
        PROVE  z = zeros
    <3>1. ~(z < zeros)
      <4>1. z < zeros => z \in 0..(zeros - 1)
        OBVIOUS
      <4> QED
        BY <2>1, <2>2, <4>1
    <3>2. ~(zeros < z)
      <4>1. zeros < z => zeros \in 0..(z - 1)
        BY <1>3
      <4> QED
        BY <2>1, <2>2, <4>1
    <3> QED
      BY <1>3, <3>1, <3>2
  <2> QED
    BY <1>2, <1>3, <2>1, <2>2 DEF LeftZeros
<1>5. (size - zeros) \div ByteBits + (IF zeros = 0 THEN 0 ELSE 1) = bytes
  <2>1. size - zeros = m
    BY <1>1, <1>3
  <2>2. PICK w \in Nat \ {0} : w = ByteBits
    BY ByteBitsAssumption
  <2>3. PICK q \in Nat, r \in 0..(w - 1) : q = m \div w /\ r = m % w /\ m = w * q + r
    BY SymbolsAndBits
  <2>4. bytes = q + (IF r = 0 THEN 0 ELSE 1)
    BY <1>1, <2>2, <2>3 DEF BytesFor
  <2>5. r = 0 <=> zeros = 0
    <3>1. CASE r = 0
      <4>1. size = w * q /\ w * q \in Nat
        BY <1>1, <2>2, <2>4, <3>1
      <4>2. m = w * q
        BY <2>3, <3>1, <4>1
      <4>3. zeros = 0
        BY <1>1, <1>3, <4>1, <4>2
      <4> QED
        BY <3>1, <4>3
    <3>2. CASE r # 0
      <4>1. size = w * q + w
        BY <1>1, <2>2, <2>4, <3>2
      <4>2. w * q \in Nat
        OBVIOUS
      <4>3. zeros = w - r
        BY <1>1, <1>3, <2>3, <4>1, <4>2
      <4> QED
        BY <2>3, <3>2, <4>3
    <3> QED
      BY <3>1, <3>2
  <2> QED
    BY <2>1, <2>2, <2>3, <2>4, <2>5
<1>6. RemoveLeftZeros(seq)
        = [k \in 0..(size - 1) |-> IF k + zeros < size THEN seq[k + zeros] ELSE seq[k]]
  BY <1>1, <1>2, <1>4, <1>5 DEF RemoveLeftZeros
<1>7. ASSUME NEW k \in 0..(m - 1)
      PROVE  RemoveLeftZeros(seq)[k] = bits[k + 1]
  <2>1. k \in Nat /\ k < m /\ size = m + zeros
    BY <1>1
  <2>2. k \in 0..(size - 1) /\ k + zeros \in 0..(size - 1) /\ k + zeros < size
    BY <1>3, <2>1
  <2>3. ~(k + zeros < zeros) /\ (k + zeros) - zeros + 1 = k + 1
    BY <1>3, <2>1
  <2> QED
    BY <1>2, <1>6, <2>2, <2>3
<1> QED
  BY <1>1, <1>6, <1>7 DEF seq

LEMMA ZerosAreAdded ==
  ASSUME NEW zeros \in Nat, NEW bytes \in Nat, NEW block, DOMAIN block = Block(bytes)
  PROVE  /\ \A k \in 0..(zeros - 1) : ByteBits * bytes > 0 => AddLeftZeros(block, zeros)[k] = 0
         /\ \A k \in Block(bytes) : AddLeftZeros(block, zeros)[zeros + k] = block[k]
         /\ DOMAIN AddLeftZeros(block, zeros) = Block(BytesFor(zeros + ByteBits * bytes))
<1>1. PICK size \in Nat : size = ByteBits * bytes /\ Block(bytes) = 0..(size - 1)
                         /\ Size(block) = size
  BY BlockBits
<1>2. PICK all \in Nat : /\ Block(BytesFor(zeros + size)) = 0..(all - 1)
                        /\ zeros + size <= all
  <2>1. zeros + size \in Nat
    OBVIOUS
  <2>2. PICK b \in Nat, all \in Nat :
          /\ b = BytesFor(zeros + size) /\ all = ByteBits * b
          /\ all - (zeros + size) \in 0..(ByteBits - 1)
    BY <2>1, BytesForBits, BlockBits
  <2> QED
    BY <2>1, <2>2, ByteBitsAssumption DEF Block
<1>3. AddLeftZeros(block, zeros)
        = [k \in 0..(all - 1) |->
             IF k \in zeros..(zeros + size - 1) THEN block[k - zeros] ELSE 0]
  BY <1>1, <1>2 DEF AddLeftZeros
<1>4. ASSUME NEW k \in 0..(zeros - 1), ByteBits * bytes > 0
      PROVE  AddLeftZeros(block, zeros)[k] = 0
  <2>1. k \in 0..(all - 1) /\ k \notin zeros..(zeros + size - 1)
    BY <1>1, <1>2, <1>4
  <2> QED
    BY <1>3, <2>1
<1>5. ASSUME NEW k \in Block(bytes)
      PROVE  AddLeftZeros(block, zeros)[zeros + k] = block[k]
  <2>1. /\ zeros + k \in 0..(all - 1) /\ zeros + k \in zeros..(zeros + size - 1)
        /\ (zeros + k) - zeros = k
    BY <1>1, <1>2
  <2> QED
    BY <1>3, <2>1
<1> QED
  BY <1>1, <1>2, <1>3, <1>4, <1>5

(* Data with its parity, symbol by symbol                                  *)
LEMMA RsCodeAppended ==
  ASSUME NEW w \in Nat \ {0}, NEW count \in Nat, NEW parity \in Nat,
         NEW data, NEW symbols,
         \A s \in 0..(parity - 1) : \A j \in 0..(w - 1) :
           symbols[s][j] = data[(count + s) * w + j]
  PROVE  \A k \in 0..((count + parity) * w - 1) :
           AppendRsCode(data, symbols, count, parity, w)[k] = data[k]
<1> DEFINE res == Unmerge(data, count, w)
           joined == [s \in 0..(count + parity - 1) |->
                        IF s < count THEN res[s] ELSE symbols[s - count]]
<1>1. PICK all \in Nat : all = count + parity
  OBVIOUS
<1>2. ASSUME NEW s \in 0..(all - 1), NEW j \in 0..(w - 1)
      PROVE  joined[s][j] = data[s * w + j]
  <2>1. CASE s < count
    <3>1. s \in 0..(count - 1)
      BY <2>1
    <3> QED
      BY <1>1, <2>1, <3>1 DEF Unmerge
  <2>2. CASE ~(s < count)
    <3>1. s - count \in 0..(parity - 1) /\ count + (s - count) = s
      BY <1>1, <2>2
    <3>2. joined[s] = symbols[s - count]
      BY <1>1, <2>2
    <3>3. symbols[s - count][j] = data[(count + (s - count)) * w + j]
      BY <3>1
    <3> QED
      BY <3>1, <3>2, <3>3
  <2> QED
    BY <2>1, <2>2
<1>3. AppendRsCode(data, symbols, count, parity, w) = Merge(joined, all, w)
  BY <1>1 DEF AppendRsCode
<1> HIDE DEF joined, res
<1>4. all * w \in Nat
  BY <1>1, BitsOfSymbols
<1>5. \A k \in 0..(all * w - 1) : k \in Block(BytesFor(all * w))
  <2>1. PICK bytes \in Nat : bytes = BytesFor(all * w)
                            /\ ByteBits * bytes - all * w \in 0..(ByteBits - 1)
    BY <1>4, BytesForBits
  <2>2. ByteBits * bytes \in Nat
    BY ByteBitsAssumption
  <2>3. \A k \in 0..(all * w - 1) : k \in 0..(ByteBits * bytes - 1)
    BY <1>4, <2>1, <2>2, ByteBitsAssumption
  <2> QED
    BY <2>1, <2>3 DEF Block
<1>6. ASSUME NEW k \in 0..(all * w - 1)
      PROVE  Merge(joined, all, w)[k] = data[k]
  <2>1. PICK s \in 0..(all - 1), p \in 0..(w - 1) :
          s = k \div w /\ p = k % w /\ s * w + p = k
    BY BitsOfSymbols
  <2>2. Merge(joined, all, w)[k] = joined[s][p]
    BY <1>4, <1>5, <2>1 DEF Merge
  <2> QED
    BY <1>2, <2>1, <2>2
<1> QED
  BY <1>1, <1>3, <1>6

=============================================================================
