-------------------------- MODULE RawServer_proofs ---------------------------
(***************************************************************************)
(* The server on bytes, for all packets: what it reads in a frame is what  *)
(* the host meant, and what it does is what WebServer does.                *)
(***************************************************************************)
EXTENDS RawServer, SequenceTheorems, TLAPS

(* The lemmas on checksums are about words of every width.                 *)
Ck == INSTANCE Checksum_proofs WITH
  Headers <- {}, Lengths <- {}, header <- <<>>,
  builder <- "nobody", data <- <<>>, wire <- <<>>, damaged <- FALSE

-----------------------------------------------------------------------------
(* Numbers.                                                                *)
LEMMA Times ==
  \A x, y, z \in Nat : x <= y => x * z <= y * z
OBVIOUS

LEMMA Bytes ==
  /\ Nibble \in Nat /\ Nibble >= 8
  /\ ByteBase \in Nat /\ ByteBase >= 8 * Nibble /\ ByteBase = Nibble * Nibble
  /\ Base \in Nat /\ Base >= 64 * ByteBase /\ Base = ByteBase * ByteBase
  /\ Base * Base \in Nat
<1>1. Nibble \in Nat /\ Nibble >= 8
  BY NibbleAssumption
<1>2. Nibble * Nibble \in Nat /\ 8 * Nibble <= Nibble * Nibble
  BY <1>1, Times
<1>3. ByteBase \in Nat /\ ByteBase = Nibble * Nibble /\ 8 * Nibble <= ByteBase
  BY <1>2 DEF ByteBase
<1>4. ByteBase >= 64
  BY <1>1, <1>3
<1>5. ByteBase * ByteBase \in Nat /\ 64 * ByteBase <= ByteBase * ByteBase
  BY <1>3, <1>4, Times
<1>6. Base \in Nat /\ Base = ByteBase * ByteBase /\ 64 * ByteBase <= Base
  BY <1>5 DEF Base
<1>7. Base * Base \in Nat
  BY <1>6
<1> QED
  BY <1>1, <1>3, <1>6, <1>7

LEMMA DivMod ==
  ASSUME NEW B \in Nat \ {0}, NEW q \in Int, NEW r \in 0 .. B - 1
  PROVE  (q * B + r) \div B = q /\ (q * B + r) % B = r
OBVIOUS

LEMMA DivModExists ==
  ASSUME NEW B \in Nat \ {0}, NEW a \in Nat
  PROVE  /\ a \div B \in Nat /\ a % B \in 0 .. B - 1
         /\ a = (a \div B) * B + (a % B)
OBVIOUS

(* Half of a number below a square.                                        *)
LEMMA HighHalf ==
  ASSUME NEW B \in Nat \ {0}, NEW a \in 0 .. B * B - 1
  PROVE  a \div B \in 0 .. B - 1
<1>1. a \in Nat /\ a < B * B
  BY Times
<1> DEFINE q == a \div B  r == a % B
<1>2. q \in Nat /\ r \in 0 .. B - 1 /\ a = q * B + r
  BY <1>1, DivModExists
<1> HIDE DEF q, r
<1>3. q < B
  <2>1. SUFFICES ASSUME q >= B PROVE FALSE
    BY <1>2
  <2>2. B * B <= q * B /\ B * B \in Nat /\ q * B \in Nat
    BY <1>2, <2>1, Times
  <2> QED
    BY <1>1, <1>2, <2>2
<1>4. q \in 0 .. B - 1
  BY <1>2, <1>3
<1> QED
  BY <1>4 DEF q

(* Bytes that are the same in every header.                                *)
LEMMA FixedBytes ==
  /\ DontFragment \in Byte /\ TimeToLive \in Byte
  /\ 7 * Nibble + 2 \in Byte /\ Nibble \in Byte
  /\ {0, 1, 2, 15, 16, 17, 18, PROTOCOL_TCP} \subseteq Byte
  /\ \A h \in 0 .. 4, w \in 0 .. Nibble - 1 :
       /\ h * Nibble + w \in Byte
       /\ (h * Nibble + w) \div Nibble = h /\ (h * Nibble + w) % Nibble = w
  /\ \A w \in 0 .. Nibble - 1 : w * Nibble \in Byte /\ (w * Nibble) \div Nibble = w
<1>1. 8 * Nibble <= ByteBase /\ Nibble >= 8 /\ Nibble \in Nat /\ ByteBase \in Nat
  BY Bytes
<1>2. DontFragment \in Byte
  BY <1>1 DEF DontFragment, Byte
<1>3. TimeToLive \in Byte
  BY <1>1 DEF TimeToLive, Byte
<1>4. 7 * Nibble + 2 \in Byte /\ Nibble \in Byte
  BY <1>1 DEF Byte
<1>5. {0, 1, 2, 15, 16, 17, 18, PROTOCOL_TCP} \subseteq Byte
  BY <1>1 DEF Byte, PROTOCOL_TCP
<1>6. ASSUME NEW h \in 0 .. 4, NEW w \in 0 .. Nibble - 1
      PROVE  /\ h * Nibble + w \in Byte
             /\ (h * Nibble + w) \div Nibble = h /\ (h * Nibble + w) % Nibble = w
  <2>1. h \in Nat /\ h <= 4 /\ h * Nibble <= 4 * Nibble /\ h * Nibble \in Nat
    BY <1>1, Times
  <2>2. h * Nibble + w \in Byte
    BY <1>1, <2>1 DEF Byte
  <2>3. Nibble \in Nat \ {0} /\ h \in Int
    BY <1>1
  <2> QED
    BY <2>2, <2>3, DivMod
<1>7. ASSUME NEW w \in 0 .. Nibble - 1
      PROVE  w * Nibble \in Byte /\ (w * Nibble) \div Nibble = w
  <2>1. w + 1 \in Nat /\ w + 1 <= Nibble /\ (w + 1) * Nibble <= ByteBase /\ w * Nibble \in Nat
    BY <1>1, Times, Bytes
  <2>2. (w + 1) * Nibble = w * Nibble + Nibble
    BY <1>1, <2>1
  <2>3. w * Nibble \in Byte
    BY <1>1, <2>1, <2>2 DEF Byte
  <2>4. Nibble \in Nat \ {0} /\ w \in Int /\ 0 \in 0 .. Nibble - 1 /\ w * Nibble + 0 = w * Nibble
    BY <1>1, <2>1
  <2>5. (w * Nibble + 0) \div Nibble = w
    BY ONLY <2>4, DivMod
  <2> QED
    BY <2>3, <2>4, <2>5
<1> QED
  BY <1>2, <1>3, <1>4, <1>5, <1>6, <1>7

-----------------------------------------------------------------------------
(* Checksums of blocks.                                                    *)
LEMMA Widths ==
  /\ Ck!Byte = Byte /\ Ck!Word = Word /\ Ck!Base = Base
  /\ ByteBase \in Nat /\ ByteBase > 1
BY Bytes DEF Ck!Byte, Byte, Ck!Word, Word, Ck!Base, Base

(* The sum of the words of a pseudo header and a block of bytes.           *)
Total(ph, b) == Ck!SumOf(ph \o Ck!Words(b))

LEMMA SumOps ==
  ASSUME NEW ph, NEW b
  PROVE  /\ checksum(ph, b) = Ck!ComplementOf(Total(ph, b))
         /\ Validates(ph, b) <=> Ck!ComplementOf(Total(ph, b)) = 0
         /\ HostSum(ph, b) = Ck!OnesSumOf(ph \o Ck!HostWords(b))
         /\ LeavesCarry(ph, b) <=> Ck!FoldOnce(Total(ph, b)) >= Base
<1>1. checksum(ph, b) = Ck!ComplementOf(Total(ph, b))
  BY SMT DEF Total, checksum, Sum!checksum, Sum!Sum32, Sum!SumOf, Sum!Words,
             Sum!toNative16, Sum!ComplementOf, Sum!FoldOnce, Sum!Base,
             Ck!SumOf, Ck!Words, Ck!toNative16, Ck!ComplementOf, Ck!FoldOnce, Ck!Base
<1>2. Validates(ph, b) <=> Ck!ComplementOf(Total(ph, b)) = 0
  BY SMT DEF Total, Validates, Sum!ServerAccepts, Sum!checksum, Sum!Sum32, Sum!SumOf,
             Sum!Words, Sum!toNative16, Sum!ComplementOf, Sum!FoldOnce, Sum!Base,
             Ck!SumOf, Ck!Words, Ck!toNative16, Ck!ComplementOf, Ck!FoldOnce, Ck!Base
<1>3. HostSum(ph, b) = Ck!OnesSumOf(ph \o Ck!HostWords(b))
  BY SMT DEF HostSum, Sum!OnesSum, Sum!OnesSumOf, Sum!HostWords, Sum!OnesPlus, Sum!Base,
             Base, Ck!OnesSumOf, Ck!HostWords, Ck!OnesPlus, Ck!Base
<1>4. LeavesCarry(ph, b) <=> Ck!FoldOnce(Total(ph, b)) >= Base
  BY SMT DEF Total, LeavesCarry, Sum!Sum32, Sum!SumOf, Sum!Words, Sum!toNative16,
             Sum!FoldOnce, Sum!Base, Ck!SumOf, Ck!Words, Ck!toNative16, Ck!FoldOnce, Ck!Base
<1> QED
  BY <1>1, <1>2, <1>3, <1>4

LEMMA BlockWords ==
  ASSUME NEW ph \in Seq(Word), NEW b \in Seq(Byte)
  PROVE  /\ Ck!Words(b) \in Seq(Word) /\ Ck!HostWords(b) = Ck!Words(b)
         /\ Len(Ck!Words(b)) = (Len(b) + 1) \div 2
         /\ ph \o Ck!Words(b) \in Seq(Word)
         /\ Len(ph \o Ck!Words(b)) = Len(ph) + (Len(b) + 1) \div 2
         /\ Total(ph, b) = Ck!SumOf(ph) + Ck!SumOf(Ck!Words(b))
         /\ Ck!SumOf(ph) \in Nat /\ Ck!SumOf(Ck!Words(b)) \in Nat
<1>1. /\ Ck!Words(b) \in Seq(Word) /\ Ck!HostWords(b) = Ck!Words(b)
      /\ Len(Ck!Words(b)) = (Len(b) + 1) \div 2
  BY Widths, Ck!WordsOf
<1>2. PICK w \in Seq(Word) : w = Ck!Words(b)
  BY <1>1
<1>3. /\ ph \o w \in Seq(Word) /\ Len(ph \o w) = Len(ph) + Len(w)
  BY Widths, Ck!Joined
<1>4. ph \in Seq(Nat) /\ w \in Seq(Nat)
  BY Widths, Ck!WordsAreNumbers
<1>5. /\ Ck!SumOf(ph \o w) = Ck!SumOf(ph) + Ck!SumOf(w)
      /\ Ck!SumOf(ph) \in Nat /\ Ck!SumOf(w) \in Nat
  BY <1>4, Widths, Ck!SumConcat, Ck!SumType
<1> QED
  BY <1>1, <1>2, <1>3, <1>5 DEF Total

LEMMA Tests ==
  ASSUME NEW ph \in Seq(Word), NEW b \in Seq(Byte),
         Len(ph) + (Len(b) + 1) \div 2 < Base
  PROVE  /\ Total(ph, b) \in Nat
         /\ HostSum(ph, b) = Ck!Ones(Total(ph, b))
         /\ Validates(ph, b) <=> Total(ph, b) # 0 /\ Total(ph, b) % (Base - 1) = 0
<1>1. PICK w \in Seq(Word) : w = ph \o Ck!Words(b) /\ Len(w) < Base
  BY BlockWords
<1>2. /\ Ck!SumOf(w) \in Nat /\ Ck!SumOf(w) < Base * (Base - 1)
      /\ Ck!FoldOnce(Ck!SumOf(w)) = Base - 1 <=> Ck!SumOf(w) # 0 /\ Ck!SumOf(w) % (Base - 1) = 0
  BY <1>1, Widths, Ck!SameTest
<1>3. Ck!OnesSumOf(w) = Ck!Ones(Ck!SumOf(w))
  BY <1>1, Widths, Ck!OnesSumValue
<1>4. Ck!ComplementOf(Ck!SumOf(w)) = 0 <=> Ck!FoldOnce(Ck!SumOf(w)) = Base - 1
  BY <1>2, Widths, Ck!FoldTest
<1>5. Ck!HostWords(b) = Ck!Words(b)
  BY BlockWords
<1> QED
  BY <1>1, <1>2, <1>3, <1>4, <1>5, SumOps DEF Total

(* A checksum is filled in where there were zeros.                         *)
LEMMA TotalField ==
  ASSUME NEW ph \in Seq(Word), NEW a \in Seq(Byte), NEW b \in Seq(Byte), Len(b) = Len(a),
         NEW j \in Nat \ {0}, 2 * j <= Len(a),
         \A i \in 1 .. Len(a) : i # 2 * j - 1 /\ i # 2 * j => b[i] = a[i],
         a[2 * j - 1] = 0, a[2 * j] = 0
  PROVE  Total(ph, b) = Total(ph, a) + (b[2 * j - 1] * ByteBase + b[2 * j])
<1>1. Ck!SumOf(Ck!Words(b)) = Ck!SumOf(Ck!Words(a)) + (b[2 * j - 1] * ByteBase + b[2 * j])
  BY Widths, Ck!FieldSum
<1>2. b[2 * j - 1] \in Nat /\ b[2 * j] \in Nat /\ ByteBase \in Nat
  <2>1. Len(a) \in Nat /\ 2 * j - 1 \in 1 .. Len(b) /\ 2 * j \in 1 .. Len(b)
    BY LenProperties
  <2>2. b[2 * j - 1] \in Byte /\ b[2 * j] \in Byte
    BY <2>1, ElementOfSeq
  <2> QED
    BY <2>2, Widths DEF Byte
<1>3. (b[2 * j - 1] * ByteBase + b[2 * j]) \in Nat
  BY <1>2
<1>4. /\ Total(ph, a) = Ck!SumOf(ph) + Ck!SumOf(Ck!Words(a))
      /\ Ck!SumOf(ph) \in Nat /\ Ck!SumOf(Ck!Words(a)) \in Nat
  BY BlockWords
<1>5. Total(ph, b) = Ck!SumOf(ph) + Ck!SumOf(Ck!Words(b))
  BY BlockWords
<1> QED
  BY <1>1, <1>3, <1>4, <1>5

(* A block after one of even length.                                       *)
LEMMA TotalConcat ==
  ASSUME NEW x \in Seq(Byte), NEW y \in Seq(Byte), Len(x) % 2 = 0
  PROVE  Total(None, x \o y) = Total(None, x) + Total(None, y)
<1>1. Ck!Words(x \o y) = Ck!Words(x) \o Ck!Words(y)
  BY Widths, Ck!WordsConcat
<1>2. None \in Seq(Word) /\ None \in Seq(Nat)
  BY DEF None
<1>3. PICK u \in Seq(Word), v \in Seq(Word) : u = Ck!Words(x) /\ v = Ck!Words(y)
  BY <1>2, BlockWords
<1>4. u \in Seq(Nat) /\ v \in Seq(Nat) /\ u \o v \in Seq(Nat)
  BY Widths, Ck!WordsAreNumbers, Ck!Joined
<1>5. None \o u = u /\ None \o v = v /\ None \o (u \o v) = u \o v
  BY <1>4, ConcatEmptySeq DEF None
<1>6. Ck!SumOf(u \o v) = Ck!SumOf(u) + Ck!SumOf(v)
  BY <1>4, Widths, Ck!SumConcat
<1> QED
  BY <1>1, <1>3, <1>5, <1>6 DEF Total

-----------------------------------------------------------------------------
(* Numbers as they are written.                                            *)
LEMMA Written16 ==
  ASSUME NEW val \in Nat
  PROVE  /\ toNetwork16(val) \in Seq(Byte) /\ Len(toNetwork16(val)) = 2
         /\ val \in Word => toNetwork16(val)[1] * ByteBase + toNetwork16(val)[2] = val
<1> DEFINE q == val \div ByteBase  r == val % ByteBase  h == q % ByteBase
<1>1. ByteBase \in Nat \ {0}
  BY Bytes
<1>2. q \in Nat /\ r \in 0 .. ByteBase - 1 /\ val = q * ByteBase + r
  BY <1>1, DivModExists
<1>3. h \in 0 .. ByteBase - 1
  BY <1>1, <1>2, DivModExists
<1>4. val \in Word => h = q
  <2>1. SUFFICES ASSUME val \in Word PROVE h = q
    OBVIOUS
  <2>2. val \in 0 .. ByteBase * ByteBase - 1
    BY <2>1, Bytes DEF Word
  <2>3. q \in 0 .. ByteBase - 1
    BY <1>1, <2>2, HighHalf
  <2> QED
    BY <1>1, <2>3
<1>5. toNetwork16(val) = <<h, r>>
  BY DEF toNetwork16
<1> HIDE DEF h, r, q
<1>6. h \in Byte /\ r \in Byte
  BY <1>2, <1>3 DEF Byte
<1>7. /\ <<h, r>> \in Seq(Byte) /\ Len(<<h, r>>) = 2
      /\ <<h, r>>[1] = h /\ <<h, r>>[2] = r
  BY <1>6
<1> QED
  BY <1>2, <1>4, <1>5, <1>7

(* One sequence after another, of known lengths.                           *)
LEMMA Then ==
  ASSUME NEW s \in Seq(Byte), NEW t \in Seq(Byte)
  PROVE  /\ s \o t \in Seq(Byte) /\ Len(s \o t) = Len(s) + Len(t)
         /\ Len(s) \in Nat /\ Len(t) \in Nat
         /\ \A i \in 1 .. Len(s) : (s \o t)[i] = s[i]
         /\ \A i \in 1 .. Len(t) : (s \o t)[Len(s) + i] = t[i]
<1>1. PICK n \in Nat, m \in Nat : n = Len(s) /\ m = Len(t)
  BY LenProperties
<1>0. /\ s \o t \in Seq(Byte) /\ Len(s \o t) = n + m
      /\ \A i \in 1 .. n + m : (s \o t)[i] = IF i <= n THEN s[i] ELSE t[i - n]
  BY <1>1, ConcatProperties
<1>2. ASSUME NEW i \in 1 .. n PROVE (s \o t)[i] = s[i]
  <2>1. i \in 1 .. n + m /\ i <= n
    OBVIOUS
  <2> QED
    BY <1>0, <2>1
<1>3. ASSUME NEW i \in 1 .. m PROVE (s \o t)[n + i] = t[i]
  <2>1. n + i \in 1 .. n + m /\ ~(n + i <= n) /\ (n + i) - n = i
    OBVIOUS
  <2> QED
    BY <1>0, <2>1
<1> QED
  BY <1>0, <1>1, <1>2, <1>3

(* s has x at offset o.                                                    *)
At(s, o, x) ==
  o \in Nat /\ o + Len(x) <= Len(s) /\ \A i \in 1 .. Len(x) : s[o + i] = x[i]

(* Concatenation, as the lemmas cite it.                                   *)
Cat(s, t) == s \o t

LEMMA Chain ==
  ASSUME NEW s \in Seq(Byte), NEW t \in Seq(Byte)
  PROVE  /\ Cat(s, t) \in Seq(Byte) /\ Len(Cat(s, t)) = Len(s) + Len(t)
         /\ At(Cat(s, t), 0, s) /\ At(Cat(s, t), Len(s), t)
         /\ \A o : \A x \in Seq(Byte) : At(s, o, x) => At(Cat(s, t), o, x)
<1> DEFINE r == Cat(s, t)
<1>1. /\ r \in Seq(Byte) /\ Len(r) = Len(s) + Len(t) /\ Len(s) \in Nat /\ Len(t) \in Nat
      /\ \A i \in 1 .. Len(s) : r[i] = s[i]
      /\ \A i \in 1 .. Len(t) : r[Len(s) + i] = t[i]
  BY Then DEF Cat
<1> HIDE DEF r
<1>2. At(r, 0, s)
  BY <1>1 DEF At
<1>3. At(r, Len(s), t)
  BY <1>1 DEF At
<1>4. ASSUME NEW o, NEW x \in Seq(Byte), At(s, o, x) PROVE At(r, o, x)
  <2>1. PICK k \in Nat : k = Len(x)
    BY LenProperties
  <2>2. o \in Nat /\ o + k <= Len(s) /\ \A i \in 1 .. k : s[o + i] = x[i]
    BY <1>1, <1>4, <2>1 DEF At
  <2>3. \A i \in 1 .. k : r[o + i] = x[i]
    <3> TAKE i \in 1 .. k
    <3>1. o + i \in 1 .. Len(s)
      BY <1>1, <2>2
    <3> QED
      BY <1>1, <2>2, <3>1
  <2> QED
    BY <1>1, <2>1, <2>2, <2>3 DEF At
<1> QED
  BY <1>1, <1>2, <1>3, <1>4 DEF r

LEMMA AtWithin ==
  ASSUME NEW s \in Seq(Byte), NEW t \in Seq(Byte), NEW x \in Seq(Byte),
         NEW o, NEW q, At(s, o, t), At(t, q, x)
  PROVE  At(s, o + q, x)
<1>1. PICK k \in Nat, n \in Nat, m \in Nat : k = Len(x) /\ n = Len(t) /\ m = Len(s)
  BY LenProperties
<1>2. /\ o \in Nat /\ o + n <= m /\ \A i \in 1 .. n : s[o + i] = t[i]
      /\ q \in Nat /\ q + k <= n /\ \A i \in 1 .. k : t[q + i] = x[i]
  BY <1>1 DEF At
<1>3. ASSUME NEW i \in 1 .. k PROVE s[(o + q) + i] = x[i]
  <2>1. q + i \in 1 .. n /\ o + (q + i) = (o + q) + i
    BY <1>2
  <2>2. s[o + (q + i)] = t[q + i] /\ t[q + i] = x[i]
    BY <1>2, <2>1
  <2> QED
    BY <2>1, <2>2
<1>4. o + q \in Nat /\ (o + q) + k <= m
  BY <1>2
<1> QED
  BY <1>1, <1>3, <1>4 DEF At

LEMMA AtSlice ==
  ASSUME NEW s \in Seq(Byte), NEW x \in Seq(Byte), NEW o, At(s, o, x)
  PROVE  SubSeq(s, o + 1, o + Len(x)) = x
<1>1. PICK k \in Nat, n \in Nat : k = Len(x) /\ n = Len(s)
  BY LenProperties
<1>2. o \in Nat /\ o + k <= n /\ \A i \in 1 .. k : s[o + i] = x[i]
  BY <1>1 DEF At
<1>3. PICK r \in Seq(Byte) : /\ r = SubSeq(s, o + 1, o + k) /\ Len(r) = k
                             /\ \A i \in 1 .. k : r[i] = s[o + i]
  <2>1. o + 1 \in 1 .. n + 1 /\ o + k \in o + 1 - 1 .. n
    BY <1>2
  <2> QED
    BY <1>1, <1>2, <2>1, SubSeqProperties
<1>4. \A i \in 1 .. k : r[i] = x[i]
  BY <1>2, <1>3
<1>5. r = x
  BY <1>1, <1>3, <1>4, SeqEqual
<1> QED
  BY <1>1, <1>3, <1>5

(* Pairs and quadruples of bytes, and where they are.                      *)
LEMMA Pair ==
  ASSUME NEW x \in Byte, NEW y \in Byte
  PROVE  /\ <<x, y>> \in Seq(Byte) /\ Len(<<x, y>>) = 2
         /\ <<x, y>>[1] = x /\ <<x, y>>[2] = y
OBVIOUS

LEMMA Quadruple ==
  ASSUME NEW x \in Byte, NEW y \in Byte, NEW z \in Byte, NEW w \in Byte
  PROVE  /\ <<x, y, z, w>> \in Seq(Byte) /\ Len(<<x, y, z, w>>) = 4
         /\ <<x, y, z, w>>[1] = x /\ <<x, y, z, w>>[2] = y
         /\ <<x, y, z, w>>[3] = z /\ <<x, y, z, w>>[4] = w
OBVIOUS

LEMMA At2 ==
  ASSUME NEW s, NEW o, NEW x, At(s, o, x), Len(x) = 2
  PROVE  s[o + 1] = x[1] /\ s[o + 2] = x[2]
BY DEF At

LEMMA At4 ==
  ASSUME NEW s, NEW o, NEW x, At(s, o, x), Len(x) = 4
  PROVE  s[o + 1] = x[1] /\ s[o + 2] = x[2] /\ s[o + 3] = x[3] /\ s[o + 4] = x[4]
BY DEF At

LEMMA Written32 ==
  ASSUME NEW val \in Long
  PROVE  LET t == toNetwork32(val)
         IN  /\ t \in Seq(Byte) /\ Len(t) = 4
             /\ (t[1] * ByteBase + t[2]) * Base + (t[3] * ByteBase + t[4]) = val
<1> DEFINE q == val \div Base  r == val % Base
<1>1. Base \in Nat \ {0} /\ val \in Nat /\ val \in 0 .. Base * Base - 1
  BY Bytes DEF Long
<1>2. q \in Word /\ r \in Word /\ val = q * Base + r
  <2>1. q \in 0 .. Base - 1
    BY <1>1, HighHalf
  <2> QED
    BY <1>1, <2>1, DivModExists DEF Word
<1>3. toNetwork32(val) = toNetwork16(q) \o toNetwork16(r)
  BY DEF toNetwork32
<1> HIDE DEF q, r
<1>4. q \in Nat /\ r \in Nat
  BY <1>2, Bytes DEF Word
<1>5. PICK a \in Seq(Byte), b \in Seq(Byte) :
        /\ a = toNetwork16(q) /\ b = toNetwork16(r) /\ Len(a) = 2 /\ Len(b) = 2
        /\ a[1] * ByteBase + a[2] = q /\ b[1] * ByteBase + b[2] = r
  BY <1>2, <1>4, Written16
<1>6. PICK t : t = Cat(a, b)
  OBVIOUS
<1>6a. /\ t \in Seq(Byte) /\ Len(t) = Len(a) + Len(b) /\ At(t, 0, a)
       /\ At(t, Len(a), b)
  BY <1>5, <1>6, Chain
<1>6b. Len(t) = 4 /\ At(t, 2, b)
  BY <1>5, <1>6a
<1>7. t[0 + 1] = a[1] /\ t[0 + 2] = a[2] /\ t[2 + 1] = b[1] /\ t[2 + 2] = b[2]
  BY <1>5, <1>6, <1>6a, <1>6b, At2
<1>8. t[1] = a[1] /\ t[2] = a[2] /\ t[3] = b[1] /\ t[4] = b[2]
  BY <1>7
<1>9. toNetwork32(val) = t
  BY <1>3, <1>5, <1>6, <1>6a, <1>6b DEF Cat
<1> QED
  BY <1>2, <1>5, <1>6, <1>6a, <1>6b, <1>8, <1>9

-----------------------------------------------------------------------------
(* The headers, of 20 bytes each without their options.                    *)
IpHeader(words, len, protocol, chksum, src, dst) ==
  <<IPv4 * Nibble + words, 0>> \o toNetwork16(len)
  \o <<1, 0, DontFragment, 0>> \o <<TimeToLive, protocol>>
  \o chksum \o toNetwork32(src) \o toNetwork32(dst)

TcpHeader(srcPort, dstPort, seq, ack, words, flags, chksum) ==
  toNetwork16(srcPort) \o toNetwork16(dstPort)
  \o toNetwork32(seq) \o toNetwork32(ack)
  \o <<words * Nibble, flags>> \o Window \o chksum \o <<0, 0>>

(* Where a header has its fields.                                          *)
IpFields(h, words, len, protocol, chksum, src, dst) ==
  /\ h \in Seq(Byte) /\ Len(h) = 20
  /\ At(h, 0, <<IPv4 * Nibble + words, 0>>) /\ At(h, 2, toNetwork16(len))
  /\ At(h, 4, <<1, 0, DontFragment, 0>>) /\ At(h, 8, <<TimeToLive, protocol>>)
  /\ At(h, 10, chksum) /\ At(h, 12, toNetwork32(src)) /\ At(h, 16, toNetwork32(dst))

LEMMA IpHeaderFields ==
  ASSUME NEW words \in 0 .. Nibble - 1, NEW len \in Nat, NEW protocol \in Byte,
         NEW chksum \in Seq(Byte), Len(chksum) = 2,
         NEW src \in Long, NEW dst \in Long
  PROVE  IpFields(IpHeader(words, len, protocol, chksum, src, dst),
                  words, len, protocol, chksum, src, dst)
<1>1. PICK a \in Seq(Byte) : a = <<IPv4 * Nibble + words, 0>> /\ Len(a) = 2
  <2>1. IPv4 * Nibble + words \in Byte /\ 0 \in Byte
    BY FixedBytes DEF IPv4
  <2>2. PICK x \in Byte, y \in Byte : x = IPv4 * Nibble + words /\ y = 0
    BY <2>1
  <2>3. <<x, y>> \in Seq(Byte) /\ Len(<<x, y>>) = 2
    BY <2>2, Pair
  <2> QED
    BY <2>2, <2>3
<1>2. PICK b \in Seq(Byte) : b = toNetwork16(len) /\ Len(b) = 2
  BY Written16
<1>3. PICK c \in Seq(Byte) : c = <<1, 0, DontFragment, 0>> /\ Len(c) = 4
  <2>1. PICK x \in Byte, y \in Byte, z \in Byte : x = 1 /\ y = 0 /\ z = DontFragment
    BY FixedBytes
  <2>2. <<x, y, z, y>> \in Seq(Byte) /\ Len(<<x, y, z, y>>) = 4
    BY <2>1, Quadruple
  <2> QED
    BY <2>1, <2>2
<1>4. PICK d \in Seq(Byte) : d = <<TimeToLive, protocol>> /\ Len(d) = 2
  <2>1. PICK x \in Byte, y \in Byte : x = TimeToLive /\ y = protocol
    BY FixedBytes
  <2>2. <<x, y>> \in Seq(Byte) /\ Len(<<x, y>>) = 2
    BY <2>1, Pair
  <2> QED
    BY <2>1, <2>2
<1>5. PICK e \in Seq(Byte) : e = toNetwork32(src) /\ Len(e) = 4
  BY Written32
<1>6. PICK f \in Seq(Byte) : f = toNetwork32(dst) /\ Len(f) = 4
  BY Written32
<1>7. PICK h1 : h1 = Cat(a, b)
  OBVIOUS
<1>7a. /\ h1 \in Seq(Byte) /\ Len(h1) = Len(a) + Len(b) /\ At(h1, 0, a)
       /\ At(h1, Len(a), b)
  BY <1>1, <1>2, <1>7, Chain
<1>7b. Len(h1) = 4 /\ At(h1, 2, b)
  BY <1>1, <1>2, <1>7a
<1>8. PICK h2 : h2 = Cat(h1, c)
  OBVIOUS
<1>8a. /\ h2 \in Seq(Byte) /\ Len(h2) = Len(h1) + Len(c) /\ At(h2, 0, a)
       /\ At(h2, 2, b) /\ At(h2, Len(h1), c)
  BY <1>3, <1>7a, <1>7b, <1>8, Chain
<1>8b. Len(h2) = 8 /\ At(h2, 4, c)
  BY <1>3, <1>7b, <1>8a
<1>9. PICK h3 : h3 = Cat(h2, d)
  OBVIOUS
<1>9a. /\ h3 \in Seq(Byte) /\ Len(h3) = Len(h2) + Len(d) /\ At(h3, 0, a)
       /\ At(h3, 2, b) /\ At(h3, 4, c) /\ At(h3, Len(h2), d)
  BY <1>4, <1>8a, <1>8b, <1>9, Chain
<1>9b. Len(h3) = 10 /\ At(h3, 8, d)
  BY <1>4, <1>8b, <1>9a
<1>10. PICK h4 : h4 = Cat(h3, chksum)
  OBVIOUS
<1>10a. /\ h4 \in Seq(Byte) /\ Len(h4) = Len(h3) + Len(chksum) /\ At(h4, 0, a)
        /\ At(h4, 2, b) /\ At(h4, 4, c) /\ At(h4, 8, d) /\ At(h4, Len(h3), chksum)
  BY <1>9a, <1>9b, <1>10, Chain
<1>10b. Len(h4) = 12 /\ At(h4, 10, chksum)
  BY <1>9b, <1>10a
<1>11. PICK h5 : h5 = Cat(h4, e)
  OBVIOUS
<1>11a. /\ h5 \in Seq(Byte) /\ Len(h5) = Len(h4) + Len(e) /\ At(h5, 0, a)
        /\ At(h5, 2, b) /\ At(h5, 4, c) /\ At(h5, 8, d) /\ At(h5, 10, chksum)
        /\ At(h5, Len(h4), e)
  BY <1>5, <1>10a, <1>10b, <1>11, Chain
<1>11b. Len(h5) = 16 /\ At(h5, 12, e)
  BY <1>5, <1>10b, <1>11a
<1>12. PICK h : h = Cat(h5, f)
  OBVIOUS
<1>12a. /\ h \in Seq(Byte) /\ Len(h) = Len(h5) + Len(f) /\ At(h, 0, a) /\ At(h, 2, b)
        /\ At(h, 4, c) /\ At(h, 8, d) /\ At(h, 10, chksum) /\ At(h, 12, e)
        /\ At(h, Len(h5), f)
  BY <1>6, <1>11a, <1>11b, <1>12, Chain
<1>12b. Len(h) = 20 /\ At(h, 16, f)
  BY <1>6, <1>11b, <1>12a
<1>13. h = IpHeader(words, len, protocol, chksum, src, dst)
  BY <1>1, <1>2, <1>3, <1>4, <1>5, <1>6, <1>7, <1>7a, <1>7b, <1>8, <1>8a, <1>8b, <1>9,
     <1>9a, <1>9b, <1>10, <1>10a, <1>10b, <1>11, <1>11a, <1>11b, <1>12, <1>12a,
     <1>12b DEF IpHeader, Cat
<1> QED
  BY <1>1, <1>2, <1>3, <1>4, <1>5, <1>6, <1>12, <1>12a, <1>12b, <1>13 DEF IpFields

TcpFields(h, srcPort, dstPort, seq, ack, words, flags, chksum) ==
  /\ h \in Seq(Byte) /\ Len(h) = 20
  /\ At(h, 0, toNetwork16(srcPort)) /\ At(h, 2, toNetwork16(dstPort))
  /\ At(h, 4, toNetwork32(seq)) /\ At(h, 8, toNetwork32(ack))
  /\ At(h, 12, <<words * Nibble, flags>>) /\ At(h, 14, Window)
  /\ At(h, 16, chksum) /\ At(h, 18, <<0, 0>>)

LEMMA TcpHeaderFields ==
  ASSUME NEW srcPort \in Word, NEW dstPort \in Word, NEW seq \in Long, NEW ack \in Long,
         NEW words \in 0 .. Nibble - 1, NEW flags \in Byte,
         NEW chksum \in Seq(Byte), Len(chksum) = 2
  PROVE  TcpFields(TcpHeader(srcPort, dstPort, seq, ack, words, flags, chksum),
                   srcPort, dstPort, seq, ack, words, flags, chksum)
<1>1. PICK a \in Seq(Byte), b \in Seq(Byte) :
        a = toNetwork16(srcPort) /\ Len(a) = 2 /\ b = toNetwork16(dstPort) /\ Len(b) = 2
  <2>1. srcPort \in Nat /\ dstPort \in Nat
    BY DEF Word
  <2> QED
    BY <2>1, Written16
<1>2. PICK c \in Seq(Byte) : c = toNetwork32(seq) /\ Len(c) = 4
  BY Written32
<1>3. PICK d \in Seq(Byte) : d = toNetwork32(ack) /\ Len(d) = 4
  BY Written32
<1>4. PICK e \in Seq(Byte) : e = <<words * Nibble, flags>> /\ Len(e) = 2
  <2>1. words * Nibble \in Byte
    BY FixedBytes
  <2>2. PICK x \in Byte, y \in Byte : x = words * Nibble /\ y = flags
    BY <2>1
  <2>3. <<x, y>> \in Seq(Byte) /\ Len(<<x, y>>) = 2
    BY <2>2, Pair
  <2> QED
    BY <2>2, <2>3
<1>5. PICK f \in Seq(Byte) : f = Window /\ Len(f) = 2
  <2>1. 7 * Nibble + 2 \in Byte /\ Nibble \in Byte
    BY FixedBytes
  <2>2. PICK x \in Byte, y \in Byte : x = 7 * Nibble + 2 /\ y = Nibble
    BY <2>1
  <2>3. Window = <<x, y>>
    BY <2>2 DEF Window
  <2>4. <<x, y>> \in Seq(Byte) /\ Len(<<x, y>>) = 2
    BY <2>2, Pair
  <2> QED
    BY <2>3, <2>4
<1>6. PICK g \in Seq(Byte) : g = <<0, 0>> /\ Len(g) = 2
  <2>1. PICK x \in Byte : x = 0
    BY FixedBytes
  <2>2. <<x, x>> \in Seq(Byte) /\ Len(<<x, x>>) = 2
    BY <2>1, Pair
  <2> QED
    BY <2>1, <2>2
<1>7. PICK h1 : h1 = Cat(a, b)
  OBVIOUS
<1>7a. /\ h1 \in Seq(Byte) /\ Len(h1) = Len(a) + Len(b) /\ At(h1, 0, a)
       /\ At(h1, Len(a), b)
  BY <1>1, <1>7, Chain
<1>7b. Len(h1) = 4 /\ At(h1, 2, b)
  BY <1>1, <1>7a
<1>8. PICK h2 : h2 = Cat(h1, c)
  OBVIOUS
<1>8a. /\ h2 \in Seq(Byte) /\ Len(h2) = Len(h1) + Len(c) /\ At(h2, 0, a)
       /\ At(h2, 2, b) /\ At(h2, Len(h1), c)
  BY <1>2, <1>7a, <1>7b, <1>8, Chain
<1>8b. Len(h2) = 8 /\ At(h2, 4, c)
  BY <1>2, <1>7b, <1>8a
<1>9. PICK h3 : h3 = Cat(h2, d)
  OBVIOUS
<1>9a. /\ h3 \in Seq(Byte) /\ Len(h3) = Len(h2) + Len(d) /\ At(h3, 0, a)
       /\ At(h3, 2, b) /\ At(h3, 4, c) /\ At(h3, Len(h2), d)
  BY <1>3, <1>8a, <1>8b, <1>9, Chain
<1>9b. Len(h3) = 12 /\ At(h3, 8, d)
  BY <1>3, <1>8b, <1>9a
<1>10. PICK h4 : h4 = Cat(h3, e)
  OBVIOUS
<1>10a. /\ h4 \in Seq(Byte) /\ Len(h4) = Len(h3) + Len(e) /\ At(h4, 0, a)
        /\ At(h4, 2, b) /\ At(h4, 4, c) /\ At(h4, 8, d) /\ At(h4, Len(h3), e)
  BY <1>4, <1>9a, <1>9b, <1>10, Chain
<1>10b. Len(h4) = 14 /\ At(h4, 12, e)
  BY <1>4, <1>9b, <1>10a
<1>11. PICK h5 : h5 = Cat(h4, f)
  OBVIOUS
<1>11a. /\ h5 \in Seq(Byte) /\ Len(h5) = Len(h4) + Len(f) /\ At(h5, 0, a)
        /\ At(h5, 2, b) /\ At(h5, 4, c) /\ At(h5, 8, d) /\ At(h5, 12, e)
        /\ At(h5, Len(h4), f)
  BY <1>5, <1>10a, <1>10b, <1>11, Chain
<1>11b. Len(h5) = 16 /\ At(h5, 14, f)
  BY <1>5, <1>10b, <1>11a
<1>12. PICK h6 : h6 = Cat(h5, chksum)
  OBVIOUS
<1>12a. /\ h6 \in Seq(Byte) /\ Len(h6) = Len(h5) + Len(chksum) /\ At(h6, 0, a)
        /\ At(h6, 2, b) /\ At(h6, 4, c) /\ At(h6, 8, d) /\ At(h6, 12, e)
        /\ At(h6, 14, f) /\ At(h6, Len(h5), chksum)
  BY <1>11a, <1>11b, <1>12, Chain
<1>12b. Len(h6) = 18 /\ At(h6, 16, chksum)
  BY <1>11b, <1>12a
<1>13. PICK h : h = Cat(h6, g)
  OBVIOUS
<1>13a. /\ h \in Seq(Byte) /\ Len(h) = Len(h6) + Len(g) /\ At(h, 0, a) /\ At(h, 2, b)
        /\ At(h, 4, c) /\ At(h, 8, d) /\ At(h, 12, e) /\ At(h, 14, f)
        /\ At(h, 16, chksum) /\ At(h, Len(h6), g)
  BY <1>6, <1>12a, <1>12b, <1>13, Chain
<1>13b. Len(h) = 20 /\ At(h, 18, g)
  BY <1>6, <1>12b, <1>13a
<1>14. h = TcpHeader(srcPort, dstPort, seq, ack, words, flags, chksum)
  BY <1>1, <1>2, <1>3, <1>4, <1>5, <1>6, <1>7, <1>7a, <1>7b, <1>8, <1>8a, <1>8b, <1>9,
     <1>9a, <1>9b, <1>10, <1>10a, <1>10b, <1>11, <1>11a, <1>11b, <1>12, <1>12a, <1>12b,
     <1>13, <1>13a, <1>13b
     DEF TcpHeader, Cat
<1> QED
  BY <1>1, <1>2, <1>3, <1>4, <1>5, <1>6, <1>13, <1>13a, <1>13b, <1>14 DEF TcpFields

-----------------------------------------------------------------------------
(* A host's packet, and its frame with any checksums.                      *)
IpWords(p) == 5 + Len(p.ipOptions) \div 4
TcpWords(p) == 5 + Len(p.tcpOptions) \div 4

LEMMA OptionWords ==
  ASSUME NEW o \in Options
  PROVE  /\ o \in Seq(Byte) /\ Len(o) \in Nat
         /\ 5 + Len(o) \div 4 \in 5 .. Nibble - 1
         /\ 4 * (5 + Len(o) \div 4) = 20 + Len(o)
<1>1. o \in Seq(Byte) /\ Len(o) % 4 = 0 /\ 5 + Len(o) \div 4 < Nibble
  BY DEF Options
<1>2. PICK n \in Nat : n = Len(o)
  BY <1>1, LenProperties
<1>3. n % 4 = 0 /\ 5 + n \div 4 < Nibble /\ Nibble \in Nat
  BY <1>1, <1>2, Bytes
<1>4. n \div 4 \in Nat /\ 4 * (n \div 4) = n
  BY <1>3
<1> QED
  BY <1>1, <1>2, <1>3, <1>4

LEMMA PacketType ==
  ASSUME NEW p \in Packet
  PROVE  /\ p.src \in Long /\ p.dst \in Long /\ p.srcPort \in Word /\ p.dstPort \in Word
         /\ p.seq \in Long /\ p.ack \in Long /\ p.flags \in Byte /\ p.flags \in 0 .. 255
         /\ p.protocol \in Byte /\ p.payload \in Seq(Byte) /\ Len(p.payload) \in Nat
         /\ p.ipOptions \in Seq(Byte) /\ Len(p.ipOptions) \in Nat
         /\ p.tcpOptions \in Seq(Byte) /\ Len(p.tcpOptions) \in Nat
         /\ IpWords(p) \in 5 .. Nibble - 1 /\ 4 * IpWords(p) = 20 + Len(p.ipOptions)
         /\ TcpWords(p) \in 5 .. Nibble - 1 /\ 4 * TcpWords(p) = 20 + Len(p.tcpOptions)
<1>1. /\ p.src \in Long /\ p.dst \in Long /\ p.srcPort \in Word /\ p.dstPort \in Word
      /\ p.seq \in Long /\ p.ack \in Long /\ p.flags \in Byte /\ p.flags \in 0 .. 255
      /\ p.protocol \in Byte /\ p.payload \in Seq(Byte)
      /\ p.ipOptions \in Options /\ p.tcpOptions \in Options
  BY DEF Packet
<1>2. /\ p.ipOptions \in Seq(Byte) /\ Len(p.ipOptions) \in Nat
      /\ IpWords(p) \in 5 .. Nibble - 1 /\ 4 * IpWords(p) = 20 + Len(p.ipOptions)
  BY <1>1, OptionWords DEF IpWords
<1>3. /\ p.tcpOptions \in Seq(Byte) /\ Len(p.tcpOptions) \in Nat
      /\ TcpWords(p) \in 5 .. Nibble - 1 /\ 4 * TcpWords(p) = 20 + Len(p.tcpOptions)
  BY <1>1, OptionWords DEF TcpWords
<1>4. Len(p.payload) \in Nat
  BY <1>1, LenProperties
<1> QED
  BY <1>1, <1>2, <1>3, <1>4

(* Three blocks after one another.                                         *)
LEMMA Blocks ==
  ASSUME NEW h \in Seq(Byte), NEW o \in Seq(Byte), NEW t \in Seq(Byte), Len(h) = 20
  PROVE  /\ Cat(Cat(h, o), t) \in Seq(Byte)
         /\ Len(Cat(Cat(h, o), t)) = 20 + Len(o) + Len(t)
         /\ At(Cat(Cat(h, o), t), 0, h) /\ At(Cat(Cat(h, o), t), 20, o)
         /\ At(Cat(Cat(h, o), t), 20 + Len(o), t)
         /\ Len(o) \in Nat /\ Len(t) \in Nat
<1>1. PICK m : m = Cat(h, o)
  OBVIOUS
<1>2. m \in Seq(Byte) /\ Len(m) = Len(h) + Len(o) /\ At(m, 0, h) /\ At(m, Len(h), o)
  BY <1>1, Chain
<1>3. Len(m) = 20 + Len(o) /\ At(m, 20, o)
  BY <1>2
<1>4. PICK r : r = Cat(m, t)
  OBVIOUS
<1>5. /\ r \in Seq(Byte) /\ Len(r) = Len(m) + Len(t)
      /\ At(r, 0, h) /\ At(r, 20, o) /\ At(r, Len(m), t)
  BY <1>2, <1>3, <1>4, Chain
<1>6. Len(r) = (20 + Len(o)) + Len(t) /\ At(r, 20 + Len(o), t)
  BY <1>3, <1>5
<1>7. Len(o) \in Nat /\ Len(t) \in Nat
  BY LenProperties
<1> QED
  BY <1>1, <1>4, <1>5, <1>6, <1>7

TcpHead(p, c) ==
  TcpHeader(p.srcPort, p.dstPort, p.seq, p.ack, TcpWords(p), p.flags, c)

LEMMA TcpShape ==
  ASSUME NEW p \in Packet, NEW c \in Seq(Byte), Len(c) = 2
  PROVE  LET t == HostTcp(p, c)
         IN  /\ t \in Seq(Byte) /\ Len(t) \in Nat
             /\ Len(t) = 20 + Len(p.tcpOptions) + Len(p.payload)
             /\ TcpFields(TcpHead(p, c), p.srcPort, p.dstPort, p.seq, p.ack,
                          TcpWords(p), p.flags, c)
             /\ At(t, 0, TcpHead(p, c)) /\ At(t, 20, p.tcpOptions)
             /\ At(t, 20 + Len(p.tcpOptions), p.payload)
<1> DEFINE h == TcpHead(p, c)
<1>1. TcpFields(h, p.srcPort, p.dstPort, p.seq, p.ack, TcpWords(p), p.flags, c)
  <2>1. TcpWords(p) \in 0 .. Nibble - 1
    BY PacketType, Bytes
  <2> QED
    BY <2>1, PacketType, TcpHeaderFields DEF TcpHead
<1>2. HostTcp(p, c) = Cat(Cat(h, p.tcpOptions), p.payload)
  BY DEF HostTcp, TcpHead, TcpHeader, TcpWords, Cat
<1> HIDE DEF h
<1>3. h \in Seq(Byte) /\ Len(h) = 20
  BY <1>1 DEF TcpFields
<1>4. p.tcpOptions \in Seq(Byte) /\ p.payload \in Seq(Byte)
  BY PacketType
<1>5. PICK o \in Seq(Byte), y \in Seq(Byte) : o = p.tcpOptions /\ y = p.payload
  BY <1>4
<1>6. PICK t : t = Cat(Cat(h, o), y)
  OBVIOUS
<1>7. /\ t \in Seq(Byte) /\ Len(t) = 20 + Len(o) + Len(y)
      /\ At(t, 0, h) /\ At(t, 20, o) /\ At(t, 20 + Len(o), y)
      /\ Len(o) \in Nat /\ Len(y) \in Nat
  BY <1>3, <1>6, Blocks
<1>8. Len(t) \in Nat
  BY <1>7
<1> QED
  BY <1>1, <1>2, <1>5, <1>6, <1>7, <1>8 DEF h

IpHead(p, c, t) ==
  IpHeader(IpWords(p), 4 * IpWords(p) + Len(t), p.protocol, c, p.src, p.dst)

LEMMA IpShape ==
  ASSUME NEW p \in Packet, NEW c \in Seq(Byte), Len(c) = 2, NEW t \in Seq(Byte)
  PROVE  LET f == HostIp(p, c, t)
         IN  /\ f \in Seq(Byte) /\ Len(f) \in Nat
             /\ Len(f) = 20 + Len(p.ipOptions) + Len(t)
             /\ IpFields(IpHead(p, c, t), IpWords(p), 4 * IpWords(p) + Len(t), p.protocol,
                         c, p.src, p.dst)
             /\ At(f, 0, IpHead(p, c, t)) /\ At(f, 20, p.ipOptions)
             /\ At(f, 20 + Len(p.ipOptions), t)
             /\ f = Cat(Cat(IpHead(p, c, t), p.ipOptions), t)
<1> DEFINE h == IpHead(p, c, t)
<1>1. IpFields(h, IpWords(p), 4 * IpWords(p) + Len(t), p.protocol, c, p.src, p.dst)
  <2>1. IpWords(p) \in 0 .. Nibble - 1 /\ 4 * IpWords(p) + Len(t) \in Nat
    BY PacketType, Bytes, LenProperties
  <2> QED
    BY <2>1, PacketType, IpHeaderFields DEF IpHead
<1>2. HostIp(p, c, t) = Cat(Cat(h, p.ipOptions), t)
  BY DEF HostIp, IpHead, IpHeader, IpWords, Cat
<1> HIDE DEF h
<1>3. h \in Seq(Byte) /\ Len(h) = 20
  BY <1>1 DEF IpFields
<1>5. PICK o \in Seq(Byte) : o = p.ipOptions
  BY PacketType
<1>6. PICK f : f = Cat(Cat(h, o), t)
  OBVIOUS
<1>7. /\ f \in Seq(Byte) /\ Len(f) = 20 + Len(o) + Len(t)
      /\ At(f, 0, h) /\ At(f, 20, o) /\ At(f, 20 + Len(o), t)
      /\ Len(o) \in Nat /\ Len(t) \in Nat
  BY <1>3, <1>6, Blocks
<1>8. Len(f) \in Nat
  BY <1>7
<1> QED
  BY <1>1, <1>2, <1>5, <1>6, <1>7, <1>8 DEF h

-----------------------------------------------------------------------------
(* What is read is what was written.                                       *)
LEMMA AtStart ==
  ASSUME NEW s \in Seq(Byte), NEW t \in Seq(Byte), NEW x \in Seq(Byte),
         NEW q, At(s, 0, t), At(t, q, x)
  PROVE  At(s, q, x)
<1>1. At(s, 0 + q, x)
  BY AtWithin
<1>2. q \in Nat
  BY DEF At
<1>3. 0 + q = q
  BY <1>2
<1> QED
  BY <1>1, <1>3

LEMMA Native16 ==
  ASSUME NEW s \in Seq(Byte), NEW o, NEW v \in Word, At(s, o, toNetwork16(v))
  PROVE  toNative16(s, o) = v
<1>1. PICK x \in Seq(Byte) : /\ x = toNetwork16(v) /\ Len(x) = 2
                             /\ x[1] * ByteBase + x[2] = v
  <2>1. v \in Nat
    BY DEF Word
  <2> QED
    BY <2>1, Written16
<1>2. s[o + 1] = x[1] /\ s[o + 2] = x[2]
  BY <1>1, At2
<1> QED
  BY <1>1, <1>2 DEF toNative16

LEMMA Native32 ==
  ASSUME NEW s \in Seq(Byte), NEW o, NEW v \in Long, At(s, o, toNetwork32(v))
  PROVE  toNative32(s, o) = v
<1>1. PICK x \in Seq(Byte) :
        /\ x = toNetwork32(v) /\ Len(x) = 4
        /\ (x[1] * ByteBase + x[2]) * Base + (x[3] * ByteBase + x[4]) = v
  BY Written32
<1>2. s[o + 1] = x[1] /\ s[o + 2] = x[2] /\ s[o + 3] = x[3] /\ s[o + 4] = x[4]
  BY <1>1, At4
<1>3. o \in Nat
  BY DEF At
<1>4. (o + 2) + 1 = o + 3 /\ (o + 2) + 2 = o + 4
  BY <1>3
<1>5. toNative16(s, o) = x[1] * ByteBase + x[2]
  BY <1>2 DEF toNative16
<1>6. toNative16(s, o + 2) = x[3] * ByteBase + x[4]
  BY <1>2, <1>4 DEF toNative16
<1> QED
  BY <1>1, <1>5, <1>6 DEF toNative32

LEMMA ReadIp ==
  ASSUME NEW p \in Packet, NEW c \in Seq(Byte), Len(c) = 2, NEW t \in Seq(Byte),
         20 + Len(p.ipOptions) + Len(t) < Base,
         NEW buf \in Seq(Byte), At(buf, 0, HostIp(p, c, t))
  PROVE  /\ buf[1] \div Nibble = IPv4 /\ buf[1] % Nibble = IpWords(p)
         /\ toNative16(buf, 2) = 20 + Len(p.ipOptions) + Len(t)
         /\ Ip(buf) = [ver |-> IPv4, protocol |-> p.protocol, srcAddr |-> p.src,
                       dstAddr |-> p.dst, payload |-> 20 + Len(p.ipOptions),
                       payloadSz |-> Len(t)]
         /\ SubSeq(buf, 1, 20) = IpHead(p, c, t)
<1> DEFINE h == IpHead(p, c, t)  len == 4 * IpWords(p) + Len(t)
           n == Len(p.ipOptions)  m == Len(t)  w == IpWords(p)
<1>1. /\ n \in Nat /\ m \in Nat /\ w \in 5 .. Nibble - 1 /\ 4 * w = 20 + n
      /\ len = 20 + n + m
  BY PacketType, LenProperties
<1>2. IpFields(h, w, len, p.protocol, c, p.src, p.dst)
  BY IpShape
<1>3. At(buf, 0, h)
  <2>1. PICK f \in Seq(Byte) : f = HostIp(p, c, t) /\ At(f, 0, h)
    BY IpShape
  <2>2. h \in Seq(Byte)
    BY <1>2 DEF IpFields
  <2> QED
    BY <2>1, <2>2, AtStart
<1> HIDE DEF h
<1>4. h \in Seq(Byte) /\ Len(h) = 20
  BY <1>2 DEF IpFields
<1>5. len \in Word
  BY <1>1, Bytes DEF Word
<1>6. /\ At(buf, 0, <<IPv4 * Nibble + w, 0>>) /\ At(buf, 2, toNetwork16(len))
      /\ At(buf, 8, <<TimeToLive, p.protocol>>)
      /\ At(buf, 12, toNetwork32(p.src)) /\ At(buf, 16, toNetwork32(p.dst))
  <2>1. PICK a \in Seq(Byte) : a = <<IPv4 * Nibble + w, 0>>
    <3>1. w \in 0 .. Nibble - 1
      BY <1>1, Bytes
    <3>2. IPv4 * Nibble + w \in Byte /\ 0 \in Byte
      BY <3>1, FixedBytes DEF IPv4
    <3> QED
      BY <3>2, Pair
  <2>2. PICK b \in Seq(Byte) : b = toNetwork16(len)
    <3>1. len \in Nat
      BY <1>1
    <3> QED
      BY <3>1, Written16
  <2>3. PICK d \in Seq(Byte) : d = <<TimeToLive, p.protocol>>
    <3>1. TimeToLive \in Byte /\ p.protocol \in Byte
      BY FixedBytes, PacketType
    <3> QED
      BY <3>1, Pair
  <2>4. PICK e \in Seq(Byte) : e = toNetwork32(p.src)
    BY PacketType, Written32
  <2>5. PICK g \in Seq(Byte) : g = toNetwork32(p.dst)
    BY PacketType, Written32
  <2>6. At(h, 0, a) /\ At(h, 2, b) /\ At(h, 8, d) /\ At(h, 12, e) /\ At(h, 16, g)
    BY <1>2, <2>1, <2>2, <2>3, <2>4, <2>5 DEF IpFields
  <2>7. At(buf, 0, a) /\ At(buf, 2, b) /\ At(buf, 8, d) /\ At(buf, 12, e) /\ At(buf, 16, g)
    BY <1>3, <1>4, <2>6, AtStart
  <2> QED
    BY <2>1, <2>2, <2>3, <2>4, <2>5, <2>7
<1>7. buf[1] = IPv4 * Nibble + w /\ buf[10] = p.protocol
  <2>1. PICK a, d : a = <<IPv4 * Nibble + w, 0>> /\ d = <<TimeToLive, p.protocol>>
    OBVIOUS
  <2>2. Len(a) = 2 /\ a[1] = IPv4 * Nibble + w /\ Len(d) = 2 /\ d[2] = p.protocol
    BY <2>1
  <2>3. buf[0 + 1] = a[1] /\ buf[8 + 2] = d[2]
    BY <1>6, <2>1, <2>2, At2
  <2> QED
    BY <2>2, <2>3
<1>8. buf[1] \div Nibble = IPv4 /\ buf[1] % Nibble = w
  <2>1. w \in 0 .. Nibble - 1 /\ IPv4 \in 0 .. 4
    BY <1>1, Bytes DEF IPv4
  <2> QED
    BY <1>7, <2>1, FixedBytes
<1>9. toNative16(buf, 2) = len
  BY <1>5, <1>6, Native16
<1>10. toNative32(buf, 12) = p.src /\ toNative32(buf, 16) = p.dst
  BY <1>6, PacketType, Native32
<1>11. SubSeq(buf, 1, 20) = h
  <2>1. SubSeq(buf, 0 + 1, 0 + Len(h)) = h
    BY <1>3, <1>4, AtSlice
  <2> QED
    BY <1>4, <2>1
<1>12. 4 * w = 20 + n /\ len - 4 * w = m
  BY <1>1
<1>13. Ip(buf) = [ver |-> IPv4, protocol |-> p.protocol, srcAddr |-> p.src,
                 dstAddr |-> p.dst, payload |-> 4 * w, payloadSz |-> len - 4 * w]
  BY <1>7, <1>8, <1>9, <1>10 DEF Ip
<1> QED
  BY <1>1, <1>8, <1>9, <1>11, <1>12, <1>13 DEF h

LEMMA ReadTcp ==
  ASSUME NEW p \in Packet, NEW c \in Seq(Byte), Len(c) = 2,
         NEW buf \in Seq(Byte), NEW at, At(buf, at, HostTcp(p, c)), NEW ip,
         ip.payload = at, ip.srcAddr = p.src, ip.dstAddr = p.dst,
         ip.payloadSz = Len(HostTcp(p, c))
  PROVE  Tcp(ip, buf) = Meant(p) /\ Block(buf, at, ip.payloadSz) = HostTcp(p, c)
<1> DEFINE h == TcpHead(p, c)  w == TcpWords(p)  n == Len(p.tcpOptions)  m == Len(p.payload)
<1>1. n \in Nat /\ m \in Nat /\ w \in 5 .. Nibble - 1 /\ 4 * w = 20 + n
  BY PacketType
<1>2. TcpFields(h, p.srcPort, p.dstPort, p.seq, p.ack, w, p.flags, c)
  BY TcpShape
<1>3. PICK t \in Seq(Byte) : t = HostTcp(p, c) /\ At(t, 0, h) /\ Len(t) = 20 + n + m
  BY TcpShape
<1> HIDE DEF h
<1>4. h \in Seq(Byte) /\ Len(h) = 20
  BY <1>2 DEF TcpFields
<1>5. at \in Nat
  BY DEF At
<1>6. /\ At(buf, at + 0, toNetwork16(p.srcPort)) /\ At(buf, at + 2, toNetwork16(p.dstPort))
      /\ At(buf, at + 4, toNetwork32(p.seq)) /\ At(buf, at + 8, toNetwork32(p.ack))
      /\ At(buf, at + 12, <<w * Nibble, p.flags>>)
  <2>1. PICK a \in Seq(Byte), b \in Seq(Byte) :
          a = toNetwork16(p.srcPort) /\ b = toNetwork16(p.dstPort)
    <3>1. p.srcPort \in Nat /\ p.dstPort \in Nat
      BY PacketType DEF Word
    <3> QED
      BY <3>1, Written16
  <2>2. PICK d \in Seq(Byte) : d = toNetwork32(p.seq)
    BY PacketType, Written32
  <2>3. PICK e \in Seq(Byte) : e = toNetwork32(p.ack)
    BY PacketType, Written32
  <2>4. PICK g \in Seq(Byte) : g = <<w * Nibble, p.flags>>
    <3>1. w \in 0 .. Nibble - 1
      BY <1>1, Bytes
    <3>2. w * Nibble \in Byte /\ p.flags \in Byte
      BY <3>1, FixedBytes, PacketType
    <3> QED
      BY <3>2, Pair
  <2>5. At(h, 0, a) /\ At(h, 2, b) /\ At(h, 4, d) /\ At(h, 8, e) /\ At(h, 12, g)
    BY <1>2, <2>1, <2>2, <2>3, <2>4 DEF TcpFields
  <2>6. At(t, 0, a) /\ At(t, 2, b) /\ At(t, 4, d) /\ At(t, 8, e) /\ At(t, 12, g)
    BY <1>3, <1>4, <2>5, AtStart
  <2>7. At(buf, at, t)
    BY <1>3
  <2>8. /\ At(buf, at + 0, a) /\ At(buf, at + 2, b) /\ At(buf, at + 4, d)
        /\ At(buf, at + 8, e) /\ At(buf, at + 12, g)
    BY <2>6, <2>7, AtWithin
  <2> QED
    BY <2>1, <2>2, <2>3, <2>4, <2>8
<1>7. buf[at + 13] = w * Nibble /\ buf[at + 14] = p.flags
  <2>1. PICK g : g = <<w * Nibble, p.flags>>
    OBVIOUS
  <2>2. Len(g) = 2 /\ g[1] = w * Nibble /\ g[2] = p.flags
    BY <2>1
  <2>3. buf[(at + 12) + 1] = g[1] /\ buf[(at + 12) + 2] = g[2]
    BY <1>6, <2>1, <2>2, At2
  <2>4. (at + 12) + 1 = at + 13 /\ (at + 12) + 2 = at + 14
    BY <1>5
  <2> QED
    BY <2>2, <2>3, <2>4
<1>8. buf[at + 13] \div Nibble = w
  <2>1. w \in 0 .. Nibble - 1
    BY <1>1, Bytes
  <2> QED
    BY <1>7, <2>1, FixedBytes
<1>9. toNative16(buf, at) = p.srcPort /\ toNative16(buf, at + 2) = p.dstPort
  <2>1. at + 0 = at
    BY <1>5
  <2> QED
    BY <1>6, <2>1, PacketType, Native16
<1>10. toNative32(buf, at + 4) = p.seq /\ toNative32(buf, at + 8) = p.ack
  BY <1>6, PacketType, Native32
<1>11. Len(t) - 4 * w = m /\ Len(t) >= 0
  <2> HIDE DEF n, m, w
  <2> QED
    BY <1>1, <1>3
<1>12. Block(buf, at, Len(t)) = t
  <2>1. SubSeq(buf, at + 1, at + Len(t)) = t
    BY <1>3, AtSlice
  <2> QED
    BY <1>11, <2>1 DEF Block
<1>13. Tcp(ip, buf) = [src |-> <<p.src, p.srcPort>>, dst |-> <<p.dst, p.dstPort>>,
                      seq |-> p.seq, ack |-> p.ack, flags |-> p.flags,
                      len |-> ip.payloadSz - 4 * w]
  BY <1>7, <1>8, <1>9, <1>10 DEF Tcp
<1>14. Tcp(ip, buf) = Meant(p)
  BY <1>3, <1>11, <1>13 DEF Meant
<1> QED
  BY <1>3, <1>12, <1>14

(* A packet's frame with any checksums.                                    *)
FrameOf(p, c, d) == HostIp(p, d, HostTcp(p, c))

LEMMA ReadFrame ==
  ASSUME NEW p \in Packet, SizeOf(p) < Base,
         NEW c \in Seq(Byte), Len(c) = 2, NEW d \in Seq(Byte), Len(d) = 2,
         NEW buf \in Seq(Byte), At(buf, 0, FrameOf(p, c, d))
  PROVE  /\ Read(buf) = Meant(p)
         /\ Ip(buf) = [ver |-> IPv4, protocol |-> p.protocol, srcAddr |-> p.src,
                       dstAddr |-> p.dst, payload |-> 20 + Len(p.ipOptions),
                       payloadSz |-> Len(HostTcp(p, c))]
         /\ toNative16(buf, 2) = SizeOf(p) /\ buf[1] % Nibble = IpWords(p)
         /\ Ip(buf).payload + Ip(buf).payloadSz = SizeOf(p)
         /\ Block(buf, Ip(buf).payload, Ip(buf).payloadSz) = HostTcp(p, c)
         /\ SubSeq(buf, 1, 20) = IpHead(p, d, HostTcp(p, c))
<1> DEFINE n == Len(p.ipOptions)
<1>1. PICK t \in Seq(Byte) :
        t = HostTcp(p, c) /\ Len(t) = 20 + Len(p.tcpOptions) + Len(p.payload)
  BY TcpShape
<1>2. SizeOf(p) = 20 + n + Len(t) /\ n \in Nat /\ Len(t) \in Nat
  <2>1. PICK a \in Nat, b \in Nat, k \in Nat :
          a = n /\ b = Len(p.tcpOptions) /\ k = Len(p.payload)
    BY PacketType
  <2>2. Len(t) = 20 + b + k /\ SizeOf(p) = 40 + a + b + k
    BY <1>1, <2>1 DEF SizeOf
  <2>3. SizeOf(p) = 20 + a + Len(t) /\ Len(t) \in Nat
    BY <2>2
  <2> QED
    BY <2>1, <2>3
<1>3. PICK f \in Seq(Byte) :
        f = HostIp(p, d, t) /\ At(f, 20 + n, t) /\ At(buf, 0, f)
  BY <1>1, IpShape DEF FrameOf
<1>4. /\ Ip(buf) = [ver |-> IPv4, protocol |-> p.protocol, srcAddr |-> p.src,
                    dstAddr |-> p.dst, payload |-> 20 + n, payloadSz |-> Len(t)]
      /\ toNative16(buf, 2) = 20 + n + Len(t)
      /\ SubSeq(buf, 1, 20) = IpHead(p, d, t) /\ buf[1] % Nibble = IpWords(p)
  <2>1. 20 + Len(p.ipOptions) + Len(t) < Base
    BY <1>2
  <2>2. At(buf, 0, HostIp(p, d, t))
    BY <1>3
  <2>3. /\ toNative16(buf, 2) = 20 + Len(p.ipOptions) + Len(t)
        /\ SubSeq(buf, 1, 20) = IpHead(p, d, t) /\ buf[1] % Nibble = IpWords(p)
    BY <2>1, <2>2, ReadIp
  <2>4. Ip(buf) = [ver |-> IPv4, protocol |-> p.protocol, srcAddr |-> p.src,
                  dstAddr |-> p.dst, payload |-> 20 + Len(p.ipOptions),
                  payloadSz |-> Len(t)]
    BY <2>1, <2>2, ReadIp
  <2> QED
    BY <2>3, <2>4
<1>5. At(buf, 20 + n, t)
  BY <1>3, AtStart
<1>6. PICK ip : ip = Ip(buf)
  OBVIOUS
<1>7. /\ ip.payload = 20 + n /\ ip.srcAddr = p.src /\ ip.dstAddr = p.dst
      /\ ip.payloadSz = Len(t)
  BY <1>4, <1>6
<1> HIDE DEF n
<1>8. Tcp(ip, buf) = Meant(p) /\ Block(buf, 20 + n, ip.payloadSz) = t
  <2>1. PICK at : at = 20 + n
    OBVIOUS
  <2>2. At(buf, at, HostTcp(p, c)) /\ ip.payload = at /\ ip.payloadSz = Len(HostTcp(p, c))
    BY <1>1, <1>5, <1>7, <2>1
  <2>3. Tcp(ip, buf) = Meant(p) /\ Block(buf, at, ip.payloadSz) = HostTcp(p, c)
    BY <1>7, <2>2, ReadTcp
  <2> QED
    BY <1>1, <2>1, <2>3
<1>9. Read(buf) = Meant(p)
  BY <1>6, <1>8 DEF Read
<1> QED
  BY <1>1, <1>2, <1>4, <1>6, <1>7, <1>8, <1>9 DEF n

-----------------------------------------------------------------------------
(* Frames that differ in their checksums only.                             *)
LEMMA ZeroBytes == Zero \in Seq(Byte) /\ Len(Zero) = 2 /\ Zero[1] = 0 /\ Zero[2] = 0
<1>1. PICK z \in Byte : z = 0
  BY FixedBytes
<1>2. <<z, z>> \in Seq(Byte) /\ Len(<<z, z>>) = 2 /\ <<z, z>>[1] = z /\ <<z, z>>[2] = z
  BY Pair
<1> QED
  BY <1>1, <1>2 DEF Zero

Agree(s, r, o, k) == \A i \in o + 1 .. o + k : s[i] = r[i]

LEMMA AgreeAt ==
  ASSUME NEW s, NEW r, NEW o, NEW x, At(s, o, x), At(r, o, x)
  PROVE  Agree(s, r, o, Len(x))
<1>1. /\ o \in Nat /\ \A j \in 1 .. Len(x) : s[o + j] = x[j]
      /\ \A j \in 1 .. Len(x) : r[o + j] = x[j]
  BY DEF At
<1>2. ASSUME NEW i \in o + 1 .. o + Len(x) PROVE s[i] = r[i]
  <2>1. i - o \in 1 .. Len(x) /\ o + (i - o) = i
    BY <1>1
  <2>2. s[o + (i - o)] = x[i - o] /\ r[o + (i - o)] = x[i - o]
    BY <1>1, <2>1
  <2> QED
    BY <2>1, <2>2
<1> QED
  BY <1>2 DEF Agree

LEMMA AgreeAt24 ==
  ASSUME NEW s, NEW r, NEW o, NEW x, At(s, o, x), At(r, o, x)
  PROVE  /\ Len(x) = 2 => Agree(s, r, o, 2)
         /\ Len(x) = 4 => Agree(s, r, o, 4)
BY AgreeAt

LEMMA TcpHeadsAgree ==
  ASSUME NEW p \in Packet, NEW c \in Seq(Byte), Len(c) = 2
  PROVE  LET h == TcpHead(p, c)  z == TcpHead(p, Zero)
         IN  /\ h \in Seq(Byte) /\ Len(h) = 20
             /\ h[17] = c[1] /\ h[18] = c[2]
             /\ \A i \in 1 .. 20 : i # 17 /\ i # 18 => h[i] = z[i]
<1> DEFINE h == TcpHead(p, c)  z == TcpHead(p, Zero)
<1>1. TcpFields(h, p.srcPort, p.dstPort, p.seq, p.ack, TcpWords(p), p.flags, c)
  BY TcpShape
<1>2. TcpFields(z, p.srcPort, p.dstPort, p.seq, p.ack, TcpWords(p), p.flags, Zero)
  BY TcpShape, ZeroBytes
<1>3. PICK v, w, x, y, f, u, g :
        /\ v = toNetwork16(p.srcPort) /\ w = toNetwork16(p.dstPort)
        /\ x = toNetwork32(p.seq) /\ y = toNetwork32(p.ack)
        /\ f = <<TcpWords(p) * Nibble, p.flags>> /\ u = Window /\ g = <<0, 0>>
  OBVIOUS
<1>4. Len(v) = 2 /\ Len(w) = 2 /\ Len(x) = 4 /\ Len(y) = 4 /\ Len(f) = 2 /\ Len(g) = 2
  <2>1. p.srcPort \in Nat /\ p.dstPort \in Nat /\ p.seq \in Long /\ p.ack \in Long
    BY PacketType DEF Word
  <2>2. Len(f) = 2 /\ Len(g) = 2
    BY <1>3
  <2> QED
    BY <1>3, <2>1, <2>2, Written16, Written32
<1>5. Len(u) = 2
  BY <1>3 DEF Window
<1> HIDE DEF h, z
<1>6. /\ At(h, 0, v) /\ At(h, 2, w) /\ At(h, 4, x) /\ At(h, 8, y) /\ At(h, 12, f)
      /\ At(h, 14, u) /\ At(h, 16, c) /\ At(h, 18, g) /\ h \in Seq(Byte) /\ Len(h) = 20
  BY <1>1, <1>3 DEF TcpFields
<1>7. /\ At(z, 0, v) /\ At(z, 2, w) /\ At(z, 4, x) /\ At(z, 8, y) /\ At(z, 12, f)
      /\ At(z, 14, u) /\ At(z, 18, g)
  BY <1>2, <1>3 DEF TcpFields
<1>8. /\ Agree(h, z, 0, 2) /\ Agree(h, z, 2, 2) /\ Agree(h, z, 12, 2)
      /\ Agree(h, z, 14, 2) /\ Agree(h, z, 18, 2)
  BY <1>4, <1>5, <1>6, <1>7, AgreeAt24
<1>9. Agree(h, z, 4, 4) /\ Agree(h, z, 8, 4)
  BY <1>4, <1>6, <1>7, AgreeAt24
<1>11. \A i \in 1 .. 20 : i # 17 /\ i # 18 => h[i] = z[i]
  <2>1. ASSUME NEW i \in 1 .. 20, i # 17, i # 18 PROVE h[i] = z[i]
    <3>1. CASE i \in 1 .. 4 \/ i \in 13 .. 16 \/ i \in 19 .. 20
      BY <1>8, <3>1 DEF Agree
    <3>2. CASE i \in 5 .. 12
      BY <1>9, <3>2 DEF Agree
    <3> QED
      BY <2>1, <3>1, <3>2
  <2> QED
    BY <2>1
<1>12. h[16 + 1] = c[1] /\ h[16 + 2] = c[2]
  BY <1>6, At2
<1> QED
  BY <1>6, <1>11, <1>12 DEF h, z

LEMMA TcpsAgree ==
  ASSUME NEW p \in Packet, NEW c \in Seq(Byte), Len(c) = 2
  PROVE  LET t == HostTcp(p, c)  z == HostTcp(p, Zero)
         IN  /\ t \in Seq(Byte) /\ z \in Seq(Byte) /\ Len(t) = Len(z) /\ Len(z) \in Nat
             /\ Len(z) >= 20 /\ t[17] = c[1] /\ t[18] = c[2]
             /\ \A i \in 1 .. Len(z) : i # 17 /\ i # 18 => t[i] = z[i]
<1> DEFINE h == TcpHead(p, c)  k == TcpHead(p, Zero)
<1>1. PICK n \in Nat, m \in Nat : n = Len(p.tcpOptions) /\ m = Len(p.payload)
  BY PacketType
<1>2. PICK t \in Seq(Byte) :
        /\ t = HostTcp(p, c) /\ Len(t) = 20 + n + m
        /\ At(t, 0, h) /\ At(t, 20, p.tcpOptions) /\ At(t, 20 + n, p.payload)
  BY <1>1, TcpShape
<1>3. PICK z \in Seq(Byte) :
        /\ z = HostTcp(p, Zero) /\ Len(z) = 20 + n + m
        /\ At(z, 0, k) /\ At(z, 20, p.tcpOptions) /\ At(z, 20 + n, p.payload)
  BY <1>1, ZeroBytes, TcpShape
<1>4. /\ Len(h) = 20 /\ Len(k) = 20 /\ h[17] = c[1] /\ h[18] = c[2]
      /\ \A i \in 1 .. 20 : i # 17 /\ i # 18 => h[i] = k[i]
  BY TcpHeadsAgree, ZeroBytes
<1> HIDE DEF h, k
<1>5. \A i \in 1 .. 20 : t[0 + i] = h[i] /\ z[0 + i] = k[i]
  BY <1>2, <1>3, <1>4 DEF At
<1>6. \A i \in 1 .. 20 : t[i] = h[i] /\ z[i] = k[i]
  <2> TAKE i \in 1 .. 20
  <2>1. 0 + i = i
    OBVIOUS
  <2> QED
    BY <1>5, <2>1
<1>7. Agree(t, z, 20, Len(p.tcpOptions)) /\ Agree(t, z, 20 + n, Len(p.payload))
  BY <1>2, <1>3, AgreeAt
<1>8. /\ \A i \in 20 + 1 .. 20 + n : t[i] = z[i]
      /\ \A i \in (20 + n) + 1 .. (20 + n) + m : t[i] = z[i]
  BY <1>1, <1>7 DEF Agree
<1>9. \A i \in 1 .. 20 + n + m : i # 17 /\ i # 18 => t[i] = z[i]
  <2> TAKE i \in 1 .. 20 + n + m
  <2>1. CASE i \in 1 .. 20
    BY <1>4, <1>6, <2>1
  <2>2. CASE i \in 20 + 1 .. 20 + n
    BY <1>8, <2>2
  <2>3. CASE i \in (20 + n) + 1 .. (20 + n) + m
    BY <1>8, <2>3
  <2>4. i \in 1 .. 20 \/ i \in 20 + 1 .. 20 + n \/ i \in (20 + n) + 1 .. (20 + n) + m
    BY n \in Nat, m \in Nat
  <2> QED
    BY <2>1, <2>2, <2>3, <2>4
<1>10. t[17] = c[1] /\ t[18] = c[2]
  BY <1>4, <1>6
<1>11. Len(z) \in Nat /\ Len(z) >= 20
  BY <1>3
<1> QED
  BY <1>2, <1>3, <1>9, <1>10, <1>11

LEMMA IpHeadsAgree ==
  ASSUME NEW p \in Packet, NEW c \in Seq(Byte), Len(c) = 2, NEW t \in Seq(Byte)
  PROVE  LET h == IpHead(p, c, t)  z == IpHead(p, Zero, t)
         IN  /\ h \in Seq(Byte) /\ Len(h) = 20 /\ z \in Seq(Byte) /\ Len(z) = 20
             /\ h[11] = c[1] /\ h[12] = c[2] /\ z[11] = 0 /\ z[12] = 0
             /\ \A i \in 1 .. 20 : i # 11 /\ i # 12 => h[i] = z[i]
             /\ h[1] = IPv4 * Nibble + IpWords(p)
<1> DEFINE h == IpHead(p, c, t)  z == IpHead(p, Zero, t)  len == 4 * IpWords(p) + Len(t)
<1>1. IpFields(h, IpWords(p), len, p.protocol, c, p.src, p.dst)
  BY IpShape
<1>2. IpFields(z, IpWords(p), len, p.protocol, Zero, p.src, p.dst)
  BY IpShape, ZeroBytes
<1>3. PICK v, w, x, y, f, g :
        /\ v = <<IPv4 * Nibble + IpWords(p), 0>> /\ w = toNetwork16(len)
        /\ x = <<1, 0, DontFragment, 0>> /\ y = <<TimeToLive, p.protocol>>
        /\ f = toNetwork32(p.src) /\ g = toNetwork32(p.dst)
  OBVIOUS
<1>4. /\ Len(v) = 2 /\ Len(w) = 2 /\ Len(x) = 4 /\ Len(y) = 2 /\ Len(f) = 4 /\ Len(g) = 4
      /\ v[1] = IPv4 * Nibble + IpWords(p)
  <2>1. len \in Nat /\ p.src \in Long /\ p.dst \in Long
    BY PacketType, LenProperties
  <2>2. Len(v) = 2 /\ v[1] = IPv4 * Nibble + IpWords(p) /\ Len(x) = 4 /\ Len(y) = 2
    BY <1>3
  <2> QED
    BY <1>3, <2>1, <2>2, Written16, Written32
<1> HIDE DEF h, z, len
<1>6. /\ At(h, 0, v) /\ At(h, 2, w) /\ At(h, 4, x) /\ At(h, 8, y) /\ At(h, 10, c)
      /\ At(h, 12, f) /\ At(h, 16, g) /\ h \in Seq(Byte) /\ Len(h) = 20
  BY <1>1, <1>3 DEF IpFields
<1>7. /\ At(z, 0, v) /\ At(z, 2, w) /\ At(z, 4, x) /\ At(z, 8, y) /\ At(z, 10, Zero)
      /\ At(z, 12, f) /\ At(z, 16, g) /\ z \in Seq(Byte) /\ Len(z) = 20
  BY <1>2, <1>3 DEF IpFields
<1>8. Agree(h, z, 0, 2) /\ Agree(h, z, 2, 2) /\ Agree(h, z, 8, 2)
  BY <1>4, <1>6, <1>7, AgreeAt24
<1>9. Agree(h, z, 4, 4) /\ Agree(h, z, 12, 4) /\ Agree(h, z, 16, 4)
  BY <1>4, <1>6, <1>7, AgreeAt24
<1>10. \A i \in 1 .. 20 : i # 11 /\ i # 12 => h[i] = z[i]
  BY <1>8, <1>9 DEF Agree
<1>11. h[10 + 1] = c[1] /\ h[10 + 2] = c[2] /\ z[10 + 1] = Zero[1] /\ z[10 + 2] = Zero[2]
  BY <1>6, <1>7, ZeroBytes, At2
<1>12. h[11] = c[1] /\ h[12] = c[2] /\ z[11] = 0 /\ z[12] = 0
  BY <1>11, ZeroBytes
<1>13. h[0 + 1] = v[1]
  BY <1>4, <1>6, At2
<1>14. h[1] = IPv4 * Nibble + IpWords(p)
  BY <1>4, <1>13
<1> QED
  BY <1>6, <1>7, <1>10, <1>12, <1>14 DEF h, z

LEMMA IpHeadsDiffer ==
  ASSUME NEW p \in Packet, NEW c \in Seq(Byte), Len(c) = 2, NEW t \in Seq(Byte)
  PROVE  \A i \in 1 .. 20 : i # 11 /\ i # 12 => IpHead(p, c, t)[i] = IpHead(p, Zero, t)[i]
BY IpHeadsAgree

-----------------------------------------------------------------------------
(* Their sums.                                                             *)
LEMMA PseudoType ==
  ASSUME NEW src \in Long, NEW dst \in Long, NEW protocol \in Byte, NEW sz \in Nat
  PROVE  LET ph == PseudoHeader(src, dst, protocol, sz)
         IN  ph \in Seq(Word) /\ Len(ph) = 6
<1>1. Base \in Nat \ {0} /\ src \in 0 .. Base * Base - 1 /\ dst \in 0 .. Base * Base - 1
      /\ src \in Nat /\ dst \in Nat
  BY Bytes DEF Long
<1>2. src \div Base \in Word /\ dst \div Base \in Word
  BY <1>1, HighHalf DEF Word
<1>3. src % Base \in Word /\ dst % Base \in Word /\ sz % Base \in Word
  BY <1>1, DivModExists DEF Word
<1>4. protocol \in Word
  BY Bytes DEF Byte, Word
<1>5. PICK a \in Word, b \in Word, c \in Word, d \in Word, e \in Word, f \in Word :
        /\ a = src \div Base /\ b = src % Base /\ c = dst \div Base /\ d = dst % Base
        /\ e = protocol /\ f = sz % Base
  BY <1>2, <1>3, <1>4
<1>6. <<a, b, c, d, e, f>> \in Seq(Word) /\ Len(<<a, b, c, d, e, f>>) = 6
  OBVIOUS
<1>7. PseudoHeader(src, dst, protocol, sz) = <<a, b, c, d, e, f>>
  BY <1>5 DEF PseudoHeader
<1> QED
  BY <1>6, <1>7

LEMMA TcpTotal ==
  ASSUME NEW p \in Packet, NEW c \in Seq(Byte), Len(c) = 2, NEW ph \in Seq(Word)
  PROVE  Total(ph, HostTcp(p, c)) = Total(ph, HostTcp(p, Zero)) + (c[1] * ByteBase + c[2])
<1>1. PICK t \in Seq(Byte) : t = HostTcp(p, c)
  BY TcpShape
<1>2. PICK z \in Seq(Byte) : z = HostTcp(p, Zero)
  BY TcpShape, ZeroBytes
<1>3. /\ Len(t) = Len(z) /\ Len(z) >= 20 /\ t[17] = c[1] /\ t[18] = c[2]
      /\ \A i \in 1 .. Len(z) : i # 17 /\ i # 18 => t[i] = z[i]
  BY <1>1, <1>2, TcpsAgree
<1>4. z[17] = 0 /\ z[18] = 0
  BY <1>2, TcpsAgree, ZeroBytes
<1>5. PICK j \in Nat \ {0} : j = 9
  OBVIOUS
<1>6. 2 * j - 1 = 17 /\ 2 * j = 18
  BY <1>5
<1>7. 2 * j <= Len(z) /\ z[2 * j - 1] = 0 /\ z[2 * j] = 0
  BY <1>3, <1>4, <1>6
<1>8. \A i \in 1 .. Len(z) : i # 2 * j - 1 /\ i # 2 * j => t[i] = z[i]
  BY <1>3, <1>6
<1>9. Total(ph, t) = Total(ph, z) + (t[2 * j - 1] * ByteBase + t[2 * j])
  BY <1>3, <1>7, <1>8, TotalField
<1> QED
  BY <1>1, <1>2, <1>3, <1>6, <1>9

LEMMA IpTotal ==
  ASSUME NEW p \in Packet, NEW c \in Seq(Byte), Len(c) = 2, NEW t \in Seq(Byte)
  PROVE  Total(None, IpHead(p, c, t))
           = Total(None, IpHead(p, Zero, t)) + (c[1] * ByteBase + c[2])
<1> DEFINE h == IpHead(p, c, t)  z == IpHead(p, Zero, t)
<1>1. h \in Seq(Byte) /\ z \in Seq(Byte)
  BY IpHeadsAgree
<1>2. /\ Len(h) = 20 /\ Len(z) = 20 /\ h[11] = c[1] /\ h[12] = c[2] /\ z[11] = 0 /\ z[12] = 0
      /\ \A i \in 1 .. 20 : i # 11 /\ i # 12 => h[i] = z[i]
  <2>1. \A i \in 1 .. 20 : i # 11 /\ i # 12 => h[i] = z[i]
    BY IpHeadsDiffer
  <2>2. Len(h) = 20 /\ Len(z) = 20
    BY IpHeadsAgree
  <2>3. h[11] = c[1] /\ h[12] = c[2]
    BY IpHeadsAgree, ZenonT(60)
  <2>4. z[11] = 0
    BY IpHeadsAgree, SMTT(30)
  <2>5. z[12] = 0
    BY IpHeadsAgree, SMTT(30)
  <2> QED
    BY <2>1, <2>2, <2>3, <2>4, <2>5
<1> HIDE DEF h, z
<1>3. PICK j \in Nat \ {0} : j = 6
  OBVIOUS
<1>4. 2 * j - 1 = 11 /\ 2 * j = 12
  BY <1>3
<1>5. 2 * j <= Len(z) /\ z[2 * j - 1] = 0 /\ z[2 * j] = 0 /\ Len(h) = Len(z)
  BY <1>2, <1>4
<1>6. \A i \in 1 .. Len(z) : i # 2 * j - 1 /\ i # 2 * j => h[i] = z[i]
  BY <1>2, <1>4
<1>7. None \in Seq(Word)
  BY DEF None
<1>8. Total(None, h) = Total(None, z) + (h[2 * j - 1] * ByteBase + h[2 * j])
  BY <1>1, <1>5, <1>6, <1>7, TotalField
<1> QED
  BY <1>2, <1>4, <1>8 DEF h, z

(* A header is not all zeros.                                              *)
LEMMA TotalPositive ==
  ASSUME NEW b \in Seq(Byte), Len(b) >= 2, b[1] # 0
  PROVE  Total(None, b) \in Nat \ {0}
<1> DEFINE a == [i \in 1 .. Len(b) |-> IF i <= 2 THEN 0 ELSE b[i]]
<1>1. Len(b) \in Nat /\ \A i \in 1 .. Len(b) : b[i] \in Byte
  BY LenProperties, ElementOfSeq
<1>2. a \in Seq(Byte) /\ Len(a) = Len(b) /\ \A i \in 1 .. Len(b) : a[i] = IF i <= 2 THEN 0 ELSE b[i]
  <2>1. 0 \in Byte
    BY FixedBytes
  <2> QED
    BY <1>1, <2>1
<1> HIDE DEF a
<1>3. PICK j \in Nat \ {0} : j = 1
  OBVIOUS
<1>4. 2 * j - 1 = 1 /\ 2 * j = 2
  BY <1>3
<1>5. 2 * j <= Len(a) /\ a[2 * j - 1] = 0 /\ a[2 * j] = 0
  BY <1>1, <1>2, <1>4
<1>6. \A i \in 1 .. Len(a) : i # 2 * j - 1 /\ i # 2 * j => b[i] = a[i]
  BY <1>1, <1>2, <1>4
<1>7. None \in Seq(Word)
  BY DEF None
<1>8. Total(None, b) = Total(None, a) + (b[1] * ByteBase + b[2])
  <2>1. Total(None, b) = Total(None, a) + (b[2 * j - 1] * ByteBase + b[2 * j])
    BY <1>2, <1>5, <1>6, <1>7, TotalField
  <2> QED
    BY <1>4, <2>1
<1>9. Total(None, a) \in Nat
  <2>1. PICK x \in Nat, y \in Nat : x = Ck!SumOf(None) /\ y = Ck!SumOf(Ck!Words(a))
    BY <1>2, <1>7, BlockWords
  <2>2. Total(None, a) = x + y
    BY <1>2, <1>7, <2>1, BlockWords
  <2> QED
    BY <2>2
<1>10. b[1] \in Nat /\ b[1] >= 1 /\ b[2] \in Nat /\ ByteBase \in Nat /\ 1 <= ByteBase
  BY <1>1, Bytes DEF Byte
<1>11. 1 * ByteBase <= b[1] * ByteBase /\ b[1] * ByteBase \in Nat
  BY <1>10, Times
<1> QED
  BY <1>8, <1>9, <1>10, <1>11

-----------------------------------------------------------------------------
(* What hosts send and the server's tests of it.                           *)
LEMMA OnesOfMultiple ==
  ASSUME NEW B \in Nat
  PROVE  Ck!Ones(B) \in {0, Base - 1} <=> B % (Base - 1) = 0
<1> DEFINE D == Base - 1  q == B \div D  r == B % D
<1>1. D \in Nat \ {0} /\ D > 2
  BY Bytes
<1>2. q \in Nat /\ r \in 0 .. D - 1 /\ B = q * D + r
  BY <1>1, DivModExists
<1>3. Ck!Ones(B) = IF B = 0 THEN 0 ELSE ((B - 1) % D) + 1
  BY Widths DEF Ck!Ones
<1> HIDE DEF D, q, r
<1>4. CASE B = 0
  <2>1. (0 * D + 0) % D = 0
    BY <1>1, DivMod
  <2>2. B = 0 * D + 0
    BY <1>1, <1>4
  <2>3. B % D = 0
    BY ONLY <2>1, <2>2
  <2> QED
    BY <1>3, <1>4, <2>3 DEF D
<1>5. CASE B # 0 /\ r = 0
  <2>1. B - 1 = (q - 1) * D + (D - 1) /\ q - 1 \in Int /\ D - 1 \in 0 .. D - 1
    BY <1>1, <1>2, <1>5
  <2>2. ((q - 1) * D + (D - 1)) % D = D - 1
    BY <1>1, <2>1, DivMod
  <2>3. Ck!Ones(B) = D
    BY <1>1, <1>3, <1>5, <2>1, <2>2
  <2> QED
    BY <1>5, <2>3 DEF D, r
<1>6. CASE B # 0 /\ r # 0
  <2>1. B - 1 = q * D + (r - 1) /\ q \in Int /\ r - 1 \in 0 .. D - 1
    BY <1>1, <1>2, <1>6
  <2>2. (q * D + (r - 1)) % D = r - 1
    BY <1>1, <2>1, DivMod
  <2>3. Ck!Ones(B) = r /\ r # 0 /\ r # D
    BY <1>1, <1>2, <1>3, <1>6, <2>1, <2>2
  <2> QED
    BY <2>3 DEF D, r
<1> QED
  BY <1>4, <1>5, <1>6

(* A checksum over A and B, tested over A alone.                           *)
LEMMA TestStops ==
  ASSUME NEW A \in Nat \ {0}, NEW B \in Nat
  PROVE  LET v == Base - 1 - Ck!Ones(A + B)
         IN  A + v # 0 /\ ((A + v) % (Base - 1) = 0 <=> Ck!Ones(B) \in {0, Base - 1})
<1> DEFINE D == Base - 1  v == Base - 1 - Ck!Ones(A + B)  q == B \div D  r == B % D
<1>1. D \in Nat \ {0} /\ D > 2
  BY Bytes
<1>2. q \in Nat /\ r \in 0 .. D - 1 /\ B = q * D + r
  BY <1>1, DivModExists
<1>3. v \in Nat /\ \E k \in Nat \ {0} : (A + B) + v = k * D
  <2>1. A + B \in Nat
    OBVIOUS
  <2>2. /\ Base - 1 - Ck!Ones(A + B) \in Word
        /\ \E k \in Nat \ {0} : (A + B) + (Base - 1 - Ck!Ones(A + B)) = k * (Base - 1)
    BY <2>1, Widths, Ck!Completed
  <2> QED
    BY <2>2 DEF Word
<1>4. Ck!Ones(B) \in {0, Base - 1} <=> r = 0
  BY OnesOfMultiple
<1> HIDE DEF v, q, r, D
<1>5. PICK k \in Nat : (A + B) + v = k * D
  BY <1>3
<1>6. k * D \in Nat /\ q * D \in Nat
  BY <1>1, <1>2
<1>7. A + v = k * D - q * D - r
  BY <1>2, <1>3, <1>5, <1>6
<1>8. k * D - q * D = (k - q) * D
  BY <1>1, <1>2
<1>9. CASE r = 0
  <2>1. A + v = (k - q) * D + 0 /\ k - q \in Int /\ 0 \in 0 .. D - 1
    BY <1>1, <1>2, <1>7, <1>8, <1>9
  <2>2. ((k - q) * D + 0) % D = 0
    BY <1>1, <2>1, DivMod
  <2> QED
    BY <1>3, <1>4, <1>9, <2>1, <2>2 DEF D, v
<1>10. CASE r # 0
  <2>1. (k - q) * D = (k - q - 1) * D + D /\ (k - q - 1) * D \in Int
    BY <1>1, <1>2
  <2>2. A + v = (k - q - 1) * D + (D - r) /\ k - q - 1 \in Int /\ D - r \in 0 .. D - 1
        /\ D - r # 0
    BY <1>1, <1>2, <1>7, <1>8, <1>10, <2>1
  <2>3. ((k - q - 1) * D + (D - r)) % D = D - r
    BY <1>1, <2>2, DivMod
  <2> QED
    BY <1>3, <1>4, <1>10, <2>2, <2>3 DEF D, v
<1> QED
  BY <1>9, <1>10

LEMMA HostChecksumValue ==
  ASSUME NEW ph \in Seq(Word), NEW b \in Seq(Byte),
         Len(ph) + (Len(b) + 1) \div 2 < Base
  PROVE  LET v == HostChecksum(ph, b)  c == toNetwork16(v)
         IN  /\ v = Base - 1 - Ck!Ones(Total(ph, b))
             /\ v \in Nat /\ c \in Seq(Byte) /\ Len(c) = 2 /\ c[1] * ByteBase + c[2] = v
             /\ Total(ph, b) \in Nat
<1> DEFINE v == HostChecksum(ph, b)
<1>1. Total(ph, b) \in Nat /\ v = Base - 1 - Ck!Ones(Total(ph, b))
  BY Tests DEF HostChecksum
<1>2. v \in Word
  BY <1>1, Widths, Ck!Completed
<1>3. v \in Nat
  BY <1>2 DEF Word
<1> HIDE DEF v
<1> QED
  BY <1>1, <1>2, <1>3, Written16 DEF v

TcpChecksum(p) == toNetwork16(HostChecksum(Pseudo(p), HostTcp(p, Zero)))

LEMMA HostTcpValid ==
  ASSUME NEW p \in Packet, SizeOf(p) < Base
  PROVE  /\ TcpChecksum(p) \in Seq(Byte) /\ Len(TcpChecksum(p)) = 2
         /\ Validates(Pseudo(p), HostTcp(p, TcpChecksum(p)))
<1> DEFINE c == TcpChecksum(p)  v == HostChecksum(Pseudo(p), HostTcp(p, Zero))
<1>1. PICK z \in Seq(Byte), m \in Nat : z = HostTcp(p, Zero) /\ Len(z) = m
  BY TcpShape, ZeroBytes
<1>2. PICK ph \in Seq(Word) : ph = Pseudo(p) /\ Len(ph) = 6
  BY <1>1, PacketType, PseudoType DEF Pseudo
<1>3. m < Base
  <2>1. PICK a \in Nat, b \in Nat, k \in Nat :
          a = Len(p.ipOptions) /\ b = Len(p.tcpOptions) /\ k = Len(p.payload)
    BY PacketType
  <2>2. Len(z) = 20 + b + k
    BY <1>1, <2>1, TcpShape, ZeroBytes
  <2>3. SizeOf(p) = 40 + a + b + k
    BY <2>1 DEF SizeOf
  <2>4. m = 20 + b + k /\ 40 + a + b + k < Base /\ Base \in Nat
    BY <1>1, <2>2, <2>3, Bytes
  <2> QED
    BY <2>4
<1>4. 6 + (m + 1) \div 2 < Base
  BY <1>3, Bytes
<1>5. Len(ph) + (Len(z) + 1) \div 2 < Base
  BY <1>1, <1>2, <1>4
<1>6. /\ v = Base - 1 - Ck!Ones(Total(ph, z)) /\ Total(ph, z) \in Nat
      /\ c \in Seq(Byte) /\ Len(c) = 2 /\ c[1] * ByteBase + c[2] = v
  BY <1>1, <1>2, <1>5, HostChecksumValue DEF TcpChecksum
<1> HIDE DEF c, v
<1>7. PICK t \in Seq(Byte) : t = HostTcp(p, c) /\ Len(t) = m
  BY <1>1, <1>6, TcpsAgree
<1>8. Total(ph, t) = Total(ph, z) + v
  BY <1>1, <1>6, <1>7, TcpTotal
<1>9. \E k \in Nat \ {0} : Total(ph, z) + (Base - 1 - Ck!Ones(Total(ph, z))) = k * (Base - 1)
  BY <1>6, Widths, Ck!Completed
<1>10. PICK k \in Nat \ {0} : Total(ph, t) = k * (Base - 1)
  BY <1>6, <1>8, <1>9
<1>11. k * (Base - 1) # 0 /\ (k * (Base - 1)) % (Base - 1) = 0
  <2>1. Base - 1 \in Nat \ {0}
    BY Bytes
  <2> QED
    BY <2>1, Widths, Ck!Multiple
<1>12. Len(ph) + (Len(t) + 1) \div 2 < Base
  BY <1>2, <1>4, <1>7
<1>13. Validates(ph, t)
  BY <1>10, <1>11, <1>12, Tests
<1> QED
  BY <1>2, <1>6, <1>7, <1>13 DEF c

IpChecksum(p, t) ==
  toNetwork16(HostChecksum(None, SubSeq(HostIp(p, Zero, t), 1, 20 + Len(p.ipOptions))))

(* The sum of the IP options, over which the server's checksum never gets. *)
OptionSum(p) == HostSum(None, p.ipOptions)

LEMMA NoOptionSum ==
  ASSUME NEW p \in Packet, p.ipOptions = <<>>
  PROVE  OptionSum(p) = 0
<1>1. PICK o \in Seq(Byte) : o = p.ipOptions /\ o = <<>> /\ Len(o) = 0
  BY PacketType
<1>2. None \in Seq(Word) /\ Len(None) = 0
  BY DEF None
<1>3. Len(None) + (Len(o) + 1) \div 2 < Base
  BY <1>1, <1>2, Bytes
<1>4. PICK n \in Nat : n = Total(None, o) /\ OptionSum(p) = Ck!Ones(n)
  BY <1>1, <1>2, <1>3, Tests DEF OptionSum
<1>5. Total(None, o \o o) = Total(None, o) + Total(None, o)
  <2>1. Len(o) % 2 = 0
    BY <1>1
  <2> QED
    BY <2>1, TotalConcat
<1>6. o \o o = o
  BY <1>1
<1>7. n = n + n
  BY <1>4, <1>5, <1>6
<1>8. n = 0
  BY <1>7
<1> QED
  BY <1>4, <1>8 DEF Ck!Ones

LEMMA HostIpValid ==
  ASSUME NEW p \in Packet, NEW t \in Seq(Byte), 20 + Len(p.ipOptions) < Base
  PROVE  /\ IpChecksum(p, t) \in Seq(Byte) /\ Len(IpChecksum(p, t)) = 2
         /\ Validates(None, IpHead(p, IpChecksum(p, t), t))
              <=> OptionSum(p) \in {0, Base - 1}
<1>1. PICK o \in Seq(Byte), n \in Nat : o = p.ipOptions /\ n = Len(o) /\ 20 + n < Base
  BY PacketType
<1> DEFINE half == (n + 1) \div 2
<1>0. (20 + n + 1) \div 2 < Base /\ half < Base /\ half \in Nat
  <2>1. 20 + n < Base /\ Base \in Nat /\ Base > 4
    BY <1>1, Bytes
  <2> QED
    BY <2>1
<1>2. PICK z \in Seq(Byte) : /\ z = IpHead(p, Zero, t) /\ Len(z) = 20
                             /\ z[1] = IPv4 * Nibble + IpWords(p)
  BY IpHeadsAgree, ZeroBytes
<1>3. PICK x : x = Cat(z, o)
  OBVIOUS
<1>4. x \in Seq(Byte) /\ Len(x) = Len(z) + Len(o)
  BY <1>3, Chain
<1>5. Len(x) = 20 + n
  BY <1>1, <1>2, <1>4
<1>6. SubSeq(HostIp(p, Zero, t), 1, 20 + n) = x
  <2>1. PICK f \in Seq(Byte) : f = HostIp(p, Zero, t) /\ f = Cat(x, t)
    BY <1>1, <1>2, <1>3, IpShape, ZeroBytes
  <2>2. At(f, 0, x)
    BY <1>4, <2>1, Chain
  <2>3. SubSeq(f, 0 + 1, 0 + Len(x)) = x
    BY <1>4, <2>2, AtSlice
  <2>4. 0 + 1 = 1 /\ 0 + Len(x) = 20 + n
    BY <1>5
  <2> QED
    BY <2>1, <2>3, <2>4
<1>7. None \in Seq(Word) /\ Len(None) = 0
  BY DEF None
<1>8. Len(None) + (Len(x) + 1) \div 2 < Base
  BY <1>0, <1>5, <1>7
<1> DEFINE v == HostChecksum(None, x)  d == IpChecksum(p, t)
<1>9. /\ v = Base - 1 - Ck!Ones(Total(None, x)) /\ v \in Nat
      /\ d \in Seq(Byte) /\ Len(d) = 2 /\ d[1] * ByteBase + d[2] = v
  BY <1>1, <1>4, <1>6, <1>7, <1>8, HostChecksumValue DEF IpChecksum
<1> HIDE DEF v, d
<1>10. Total(None, x) = Total(None, z) + Total(None, o)
  <2>1. Len(z) % 2 = 0
    BY <1>2
  <2> QED
    BY <1>3, <2>1, TotalConcat DEF Cat
<1>11. PICK h \in Seq(Byte) : h = IpHead(p, d, t) /\ Len(h) = 20
  BY <1>9, IpHeadsAgree
<1>12. Total(None, h) = Total(None, z) + v
  BY <1>2, <1>9, <1>11, IpTotal
<1>13. Total(None, z) \in Nat \ {0}
  <2>1. z[1] # 0
    <3>1. IpWords(p) \in 5 .. Nibble - 1
      BY PacketType
    <3>2. IPv4 * Nibble + IpWords(p) # 0
      BY <3>1, Bytes DEF IPv4
    <3> QED
      BY <1>2, <3>2
  <2>2. Len(z) >= 2
    BY <1>2
  <2> QED
    BY <2>1, <2>2, TotalPositive
<1>14. Total(None, o) \in Nat /\ OptionSum(p) = Ck!Ones(Total(None, o))
  <2>1. Len(None) + (Len(o) + 1) \div 2 < Base
    <3>1. Len(None) = 0 /\ (Len(o) + 1) \div 2 = half
      BY <1>1, <1>7
    <3> HIDE DEF half
    <3>2. 0 + half < Base
      BY <1>0
    <3> QED
      BY <3>1, <3>2
  <2> QED
    BY <1>1, <1>7, <2>1, Tests DEF OptionSum
<1>15. /\ Total(None, z) + v # 0
       /\ (Total(None, z) + v) % (Base - 1) = 0 <=> OptionSum(p) \in {0, Base - 1}
  BY <1>9, <1>10, <1>13, <1>14, TestStops
<1>16. Validates(None, h) <=> Total(None, h) # 0 /\ Total(None, h) % (Base - 1) = 0
  <2>1. Len(None) + (Len(h) + 1) \div 2 < Base
    <3>1. (20 + 1) \div 2 < Base
      BY Bytes
    <3> QED
      BY <1>7, <1>11, <3>1
  <2> QED
    BY <1>7, <2>1, Tests
<1> QED
  BY <1>9, <1>11, <1>12, <1>15, <1>16 DEF d

-----------------------------------------------------------------------------
(* The frames a server takes.                                              *)
HostFrameIs(p) ==
  HostFrame(p) = FrameOf(p, TcpChecksum(p), IpChecksum(p, HostTcp(p, TcpChecksum(p))))

LEMMA HostFrameShape ==
  ASSUME NEW p \in Packet, SizeOf(p) < Base
  PROVE  /\ HostFrameIs(p) /\ HostFrame(p) \in Seq(Byte)
         /\ Len(HostFrame(p)) = SizeOf(p) /\ SizeOf(p) \in Nat /\ SizeOf(p) >= 40
         /\ TcpChecksum(p) \in Seq(Byte) /\ Len(TcpChecksum(p)) = 2
         /\ IpChecksum(p, HostTcp(p, TcpChecksum(p))) \in Seq(Byte)
         /\ Len(IpChecksum(p, HostTcp(p, TcpChecksum(p)))) = 2
         /\ 20 + Len(p.ipOptions) < Base
<1> DEFINE c == TcpChecksum(p)  d == IpChecksum(p, HostTcp(p, c))
<1>1. c \in Seq(Byte) /\ Len(c) = 2
  BY HostTcpValid
<1>2. PICK a \in Nat, b \in Nat, k \in Nat :
        a = Len(p.ipOptions) /\ b = Len(p.tcpOptions) /\ k = Len(p.payload)
  BY PacketType
<1>3. SizeOf(p) = 40 + a + b + k /\ Base \in Nat
  BY <1>2, Bytes DEF SizeOf
<1>4. SizeOf(p) \in Nat /\ SizeOf(p) >= 40 /\ 20 + a < Base
  BY <1>3
<1>5. PICK t \in Seq(Byte) : t = HostTcp(p, c) /\ Len(t) = 20 + b + k
  BY <1>1, <1>2, TcpShape
<1>6. d \in Seq(Byte) /\ Len(d) = 2
  BY <1>2, <1>4, <1>5, HostIpValid
<1>7. PICK f \in Seq(Byte) : f = HostIp(p, d, t) /\ Len(f) = 20 + a + Len(t)
  BY <1>2, <1>6, IpShape
<1>8. Len(f) = SizeOf(p)
  BY <1>3, <1>5, <1>7
<1>9. HostFrame(p) = HostIp(p, d, HostTcp(p, c))
  BY DEF HostFrame, TcpChecksum, IpChecksum
<1> QED
  BY <1>1, <1>2, <1>4, <1>5, <1>6, <1>7, <1>8, <1>9 DEF HostFrameIs, FrameOf

(* A host's packet that comes whole is taken if it carries TCP and the sum *)
(* of its options is zero, and what is taken from it is what it means.     *)
LEMMA WholeFrame ==
  ASSUME NEW p \in Packet, SizeOf(p) < Base,
         NEW buf \in Seq(Byte), At(buf, 0, HostFrame(p))
  PROVE  /\ Read(buf) = Meant(p)
         /\ Accepted(buf, SizeOf(p))
              <=> p.protocol = PROTOCOL_TCP /\ OptionSum(p) \in {0, Base - 1}
<1> DEFINE c == TcpChecksum(p)  t == HostTcp(p, c)  d == IpChecksum(p, t)
<1>1. /\ c \in Seq(Byte) /\ Len(c) = 2 /\ d \in Seq(Byte) /\ Len(d) = 2
      /\ HostFrame(p) = FrameOf(p, c, d) /\ 20 + Len(p.ipOptions) < Base
  BY HostFrameShape DEF HostFrameIs
<1>2. Validates(Pseudo(p), t)
  BY HostTcpValid
<1>3. t \in Seq(Byte) /\ Len(t) = Len(HostTcp(p, Zero))
  BY <1>1, TcpsAgree
<1>4. Validates(None, IpHead(p, d, t)) <=> OptionSum(p) \in {0, Base - 1}
  BY <1>1, <1>3, HostIpValid
<1> HIDE DEF c, d
<1>5. At(buf, 0, FrameOf(p, c, d))
  BY <1>1
<1>6. /\ Read(buf) = Meant(p)
      /\ Ip(buf).payload + Ip(buf).payloadSz = SizeOf(p)
      /\ Block(buf, Ip(buf).payload, Ip(buf).payloadSz) = t
      /\ SubSeq(buf, 1, 20) = IpHead(p, d, t)
  BY <1>1, <1>5, ReadFrame
<1>7. /\ Ip(buf).ver = IPv4 /\ Ip(buf).protocol = p.protocol /\ Ip(buf).srcAddr = p.src
      /\ Ip(buf).dstAddr = p.dst /\ Ip(buf).payloadSz = Len(t)
  <2>1. Ip(buf) = [ver |-> IPv4, protocol |-> p.protocol, srcAddr |-> p.src,
                  dstAddr |-> p.dst, payload |-> 20 + Len(p.ipOptions),
                  payloadSz |-> Len(t)]
    BY <1>1, <1>5, ReadFrame
  <2> QED
    BY <2>1
<1>8. PICK ip : ip = Ip(buf)
  OBVIOUS
<1>9. validateTcpPacket(ip, buf)
  <2>1. PseudoHeader(ip.srcAddr, ip.dstAddr, ip.protocol, ip.payloadSz) = Pseudo(p)
    BY <1>3, <1>7, <1>8 DEF Pseudo
  <2> QED
    BY <1>2, <1>6, <1>8, <2>1 DEF validateTcpPacket
<1>10. IpParsed(buf, SizeOf(p)) <=> OptionSum(p) \in {0, Base - 1}
  BY <1>4, <1>6 DEF IpParsed
<1> QED
  BY <1>6, <1>7, <1>8, <1>9, <1>10 DEF Accepted

(* A frame is judged by its own bytes, when its size is the one it says    *)
(* and there is room for the headers.                                      *)
LEMMA OwnBytes ==
  ASSUME NEW raw \in Seq(Byte), NEW buf \in Seq(Byte), At(buf, 0, raw),
         NEW w \in 5 .. Nibble - 1, raw[1] % Nibble = w, 4 * w + 20 <= Len(raw),
         toNative16(raw, 2) = Len(raw)
  PROVE  (Accepted(buf, Len(raw)) <=> Accepted(raw, Len(raw))) /\ Read(buf) = Read(raw)
<1>1. PICK L \in Nat : L = Len(raw) /\ 4 * w + 20 <= L /\ w \in Nat /\ w >= 5
  BY LenProperties
<1>2. \A i \in 1 .. L : buf[i] = raw[i]
  <2>1. \A i \in 1 .. L : buf[0 + i] = raw[i]
    BY <1>1 DEF At
  <2> QED
    BY <2>1
<1>3. \A i \in 0 .. L - 2 : toNative16(buf, i) = toNative16(raw, i)
  BY <1>1, <1>2 DEF toNative16
<1>4. \A i \in 0 .. L - 4 : toNative32(buf, i) = toNative32(raw, i)
  <2> TAKE i \in 0 .. L - 4
  <2>1. i \in 0 .. L - 2 /\ i + 2 \in 0 .. L - 2
    BY <1>1
  <2> QED
    BY <1>3, <2>1 DEF toNative32
<1>5. Ip(buf) = Ip(raw)
  <2>1. 2 \in 0 .. L - 2 /\ 12 \in 0 .. L - 4 /\ 16 \in 0 .. L - 4 /\ 1 \in 1 .. L
        /\ 10 \in 1 .. L
    BY <1>1
  <2>2. /\ toNative16(buf, 2) = toNative16(raw, 2) /\ toNative32(buf, 12) = toNative32(raw, 12)
        /\ toNative32(buf, 16) = toNative32(raw, 16) /\ buf[1] = raw[1] /\ buf[10] = raw[10]
    BY <1>2, <1>3, <1>4, <2>1
  <2> QED
    BY <2>2 DEF Ip
<1>6. PICK ip : ip = Ip(raw) /\ ip.payload = 4 * w /\ ip.payloadSz = L - 4 * w
  <2>1. Ip(raw).payload = 4 * w /\ Ip(raw).payloadSz = L - 4 * w
    BY <1>1 DEF Ip
  <2> QED
    BY <2>1
<1>7. \A lo, hi \in Nat : lo >= 1 /\ lo <= hi /\ hi <= L => SubSeq(buf, lo, hi) = SubSeq(raw, lo, hi)
  <2> TAKE lo, hi \in Nat
  <2> HAVE lo >= 1 /\ lo <= hi /\ hi <= L
  <2>1. PICK M \in Nat : M = Len(buf) /\ L <= M
    <3>1. Len(buf) \in Nat /\ 0 + L <= Len(buf)
      BY <1>1, LenProperties DEF At
    <3> QED
      BY <3>1
  <2>2. lo \in 1 .. L + 1 /\ hi \in lo - 1 .. L /\ lo \in 1 .. M + 1 /\ hi \in lo - 1 .. M
    BY <2>1
  <2>3. /\ SubSeq(raw, lo, hi) \in Seq(Byte) /\ Len(SubSeq(raw, lo, hi)) = hi - lo + 1
        /\ \A i \in 1 .. hi - lo + 1 : SubSeq(raw, lo, hi)[i] = raw[lo + i - 1]
    BY <1>1, <2>2, SubSeqProperties
  <2>4. /\ SubSeq(buf, lo, hi) \in Seq(Byte) /\ Len(SubSeq(buf, lo, hi)) = hi - lo + 1
        /\ \A i \in 1 .. hi - lo + 1 : SubSeq(buf, lo, hi)[i] = buf[lo + i - 1]
    BY <2>1, <2>2, SubSeqProperties
  <2>5. \A i \in 1 .. hi - lo + 1 : buf[lo + i - 1] = raw[lo + i - 1]
    <3> TAKE i \in 1 .. hi - lo + 1
    <3>1. lo + i - 1 \in 1 .. L
      OBVIOUS
    <3> QED
      BY <1>2, <3>1
  <2> QED
    BY <2>3, <2>4, <2>5, SeqEqual
<1>8. SubSeq(buf, 1, 20) = SubSeq(raw, 1, 20)
  <2>1. PICK lo \in Nat, hi \in Nat : lo = 1 /\ hi = 20
    OBVIOUS
  <2>2. lo >= 1 /\ lo <= hi /\ hi <= L
    BY <1>1, <2>1
  <2> QED
    BY <1>7, <2>1, <2>2
<1>9. Block(buf, ip.payload, ip.payloadSz) = Block(raw, ip.payload, ip.payloadSz)
  <2>1. PICK a \in Nat, b \in Nat : a = 4 * w /\ b = L - 4 * w /\ b >= 20 /\ a + b = L
    BY <1>1
  <2>2. a + 1 \in Nat /\ a + b \in Nat /\ a + 1 >= 1 /\ a + 1 <= a + b /\ a + b <= L
    BY <2>1
  <2>3. SubSeq(buf, a + 1, a + b) = SubSeq(raw, a + 1, a + b)
    BY <1>7, <2>2
  <2> QED
    BY <1>6, <2>1, <2>3 DEF Block
<1>10. Tcp(ip, buf) = Tcp(ip, raw)
  <2>1. PICK a \in Nat : a = 4 * w /\ a + 20 <= L
    BY <1>1
  <2>2. /\ a \in 0 .. L - 2 /\ a + 2 \in 0 .. L - 2 /\ a + 4 \in 0 .. L - 4
        /\ a + 8 \in 0 .. L - 4 /\ a + 13 \in 1 .. L /\ a + 14 \in 1 .. L
    BY <1>1, <2>1
  <2>3. /\ toNative16(buf, a) = toNative16(raw, a)
        /\ toNative16(buf, a + 2) = toNative16(raw, a + 2)
        /\ toNative32(buf, a + 4) = toNative32(raw, a + 4)
        /\ toNative32(buf, a + 8) = toNative32(raw, a + 8)
        /\ buf[a + 13] = raw[a + 13] /\ buf[a + 14] = raw[a + 14]
    BY <1>2, <1>3, <1>4, <2>2
  <2> QED
    BY <1>6, <2>1, <2>3 DEF Tcp
<1>11. IpParsed(buf, L) <=> IpParsed(raw, L)
  BY <1>5, <1>8 DEF IpParsed
<1>12. validateTcpPacket(ip, buf) <=> validateTcpPacket(ip, raw)
  BY <1>9 DEF validateTcpPacket
<1>13. Accepted(buf, L) <=> Accepted(raw, L)
  BY <1>5, <1>6, <1>11, <1>12 DEF Accepted
<1> QED
  BY <1>1, <1>5, <1>6, <1>10, <1>13 DEF Read

-----------------------------------------------------------------------------
(* The numbers in a buffer, and the segment taken from it.                 *)
RawSegment ==
  [src : Long \X Word, dst : Long \X Word, seq : Long, ack : Long, flags : Byte, len : Int]

LEMMA NumberTypes ==
  ASSUME NEW buf \in Seq(Byte)
  PROVE  /\ \A i \in Nat : i + 2 <= Len(buf) => toNative16(buf, i) \in Word
         /\ \A i \in Nat : i + 4 <= Len(buf) => toNative32(buf, i) \in Long
<1>1. PICK L \in Nat : L = Len(buf) /\ \A i \in 1 .. L : buf[i] \in Byte
  BY LenProperties, ElementOfSeq
<1>2. ASSUME NEW B \in Nat \ {0}, NEW a \in 0 .. B - 1, NEW b \in 0 .. B - 1
      PROVE  a * B + b \in 0 .. B * B - 1
  <2>1. a + 1 \in Nat /\ a + 1 <= B /\ (a + 1) * B <= B * B /\ B * B \in Nat
    BY Times
  <2>2. (a + 1) * B = a * B + B /\ a * B \in Nat
    OBVIOUS
  <2> QED
    BY <2>1, <2>2
<1>3. ASSUME NEW i \in Nat, i + 2 <= L PROVE toNative16(buf, i) \in Word
  <2>1. i + 1 \in 1 .. L /\ i + 2 \in 1 .. L
    BY <1>3
  <2>2. /\ buf[i + 1] \in 0 .. ByteBase - 1 /\ buf[i + 2] \in 0 .. ByteBase - 1
        /\ ByteBase \in Nat \ {0}
    BY <1>1, <2>1, Bytes DEF Byte
  <2>3. buf[i + 1] * ByteBase + buf[i + 2] \in 0 .. ByteBase * ByteBase - 1
    BY <1>2, <2>2
  <2> QED
    BY <2>3, Bytes DEF toNative16, Word
<1>4. ASSUME NEW i \in Nat, i + 4 <= L PROVE toNative32(buf, i) \in Long
  <2>1. i + 2 \in Nat /\ i + 2 <= L /\ (i + 2) + 2 <= L
    BY <1>4
  <2>2. toNative16(buf, i) \in Word /\ toNative16(buf, i + 2) \in Word
    BY <1>3, <2>1
  <2>3. Base \in Nat \ {0}
    BY Bytes
  <2> QED
    BY <1>2, <2>2, <2>3 DEF toNative32, Long, Word
<1> QED
  BY <1>1, <1>3, <1>4

LEMMA ReadType ==
  ASSUME NEW buf \in Seq(Byte), Len(buf) >= 4 * Nibble + 20
  PROVE  Read(buf) \in RawSegment
<1>1. PICK L \in Nat, N \in Nat :
        /\ L = Len(buf) /\ N = Nibble /\ L >= 4 * N + 20 /\ N >= 8
        /\ \A i \in 1 .. L : buf[i] \in Byte
  BY LenProperties, ElementOfSeq, Bytes
<1>2. PICK ip : ip = Ip(buf)
  OBVIOUS
<1>3. buf[1] \in Nat
  <2>1. 1 \in 1 .. L
    BY <1>1
  <2> QED
    BY <1>1, <2>1 DEF Byte
<1>4. PICK w \in 0 .. N - 1 : w = buf[1] % Nibble
  <2>1. N \in Nat \ {0}
    BY <1>1
  <2>2. buf[1] % N \in 0 .. N - 1
    BY <1>3, <2>1, DivModExists
  <2> QED
    BY <1>1, <2>2
<1>5. PICK a \in Nat : a = 4 * w /\ a + 16 <= L
  BY <1>1, <1>4
<1>6. /\ ip.payload = a /\ ip.payloadSz = toNative16(buf, 2) - a
      /\ ip.srcAddr = toNative32(buf, 12) /\ ip.dstAddr = toNative32(buf, 16)
  BY <1>2, <1>4, <1>5 DEF Ip
<1>7. 2 + 2 <= L /\ 12 + 4 <= L /\ 16 + 4 <= L /\ a + 2 <= L /\ (a + 2) + 2 <= L
      /\ (a + 4) + 4 <= L /\ (a + 8) + 4 <= L
      /\ a + 2 \in Nat /\ a + 4 \in Nat /\ a + 8 \in Nat
      /\ a + 13 \in 1 .. L /\ a + 14 \in 1 .. L
  BY <1>1, <1>5
<1>8. /\ toNative16(buf, 2) \in Word /\ toNative16(buf, a) \in Word
      /\ toNative16(buf, a + 2) \in Word
  BY <1>1, <1>7, NumberTypes
<1>9. /\ toNative32(buf, 12) \in Long /\ toNative32(buf, 16) \in Long
      /\ toNative32(buf, a + 4) \in Long /\ toNative32(buf, a + 8) \in Long
  BY <1>1, <1>7, NumberTypes
<1>10. buf[a + 13] \in Byte /\ buf[a + 14] \in Byte
  BY <1>1, <1>7
<1>11. ip.payloadSz - 4 * (buf[a + 13] \div Nibble) \in Int
  <2>1. buf[a + 13] \div Nibble \in Nat
    <3>1. N \in Nat \ {0} /\ buf[a + 13] \in Nat
      BY <1>1, <1>10 DEF Byte
    <3>2. buf[a + 13] \div N \in Nat
      BY <3>1, DivModExists
    <3> QED
      BY <1>1, <3>2
  <2>2. toNative16(buf, 2) \in Nat
    BY <1>8 DEF Word
  <2> QED
    BY <1>5, <1>6, <2>1, <2>2
<1>12. Read(buf) = [src |-> <<ip.srcAddr, toNative16(buf, a)>>,
                   dst |-> <<ip.dstAddr, toNative16(buf, a + 2)>>,
                   seq |-> toNative32(buf, a + 4), ack |-> toNative32(buf, a + 8),
                   flags |-> buf[a + 14],
                   len |-> ip.payloadSz - 4 * (buf[a + 13] \div Nibble)]
  BY <1>2, <1>6 DEF Read, Tcp
<1> QED
  BY <1>6, <1>8, <1>9, <1>10, <1>11, <1>12 DEF RawSegment

(* A frame is put over what the buffer holds.                              *)
LEMMA IntoBuffer ==
  ASSUME NEW raw \in Seq(Byte), NEW old \in Seq(Byte), Len(raw) <= Len(old)
  PROVE  LET buf == raw \o SubSeq(old, Len(raw) + 1, Len(old))
         IN  buf \in Seq(Byte) /\ Len(buf) = Len(old) /\ At(buf, 0, raw)
<1>1. PICK n \in Nat, m \in Nat : n = Len(raw) /\ m = Len(old) /\ n <= m
  BY LenProperties
<1>2. PICK r : r = SubSeq(old, n + 1, m)
  OBVIOUS
<1>3. r \in Seq(Byte) /\ Len(r) = m - n
  <2>1. n + 1 \in Int /\ m \in Int /\ \A i \in n + 1 .. m : old[i] \in Byte
    BY <1>1, ElementOfSeq
  <2>2. r \in Seq(Byte) /\ Len(r) = IF n + 1 <= m THEN m - (n + 1) + 1 ELSE 0
    BY <1>2, <2>1, SubSeqProperties
  <2>3. (IF n + 1 <= m THEN m - (n + 1) + 1 ELSE 0) = m - n
    BY <1>1
  <2> QED
    BY <2>2, <2>3
<1>4. PICK buf : buf = Cat(raw, r)
  OBVIOUS
<1>5. buf \in Seq(Byte) /\ Len(buf) = Len(raw) + Len(r) /\ At(buf, 0, raw)
  BY <1>3, <1>4, Chain
<1>6. Len(buf) = m
  BY <1>1, <1>3, <1>5
<1> QED
  BY <1>1, <1>2, <1>4, <1>5, <1>6 DEF Cat

-----------------------------------------------------------------------------
(* The invariant: the buffer holds bytes; while a frame is parsed nothing  *)
(* is taken or sent; what has been taken is what the frame in the buffer,  *)
(* which is still there, says; an answer is one to it; no frame that is    *)
(* not IPv4 is taken.                                                      *)
BufferInv ==
  /\ inRawBuf \in Seq(Byte) /\ Len(inRawBuf) = BufSize
  /\ bufSz \in 0 .. BufSize
  /\ origin \in {None} \cup HostPackets
  /\ doing \in {"read", "parse"}

ParseInv ==
  doing = "parse" =>
    /\ heard = None /\ answer = None
    /\ judged = Judgement(inRawBuf, bufSz)

HeardInv ==
  /\ heard # None => Accepted(inRawBuf, bufSz) /\ heard = Read(inRawBuf)
  /\ doing = "read" /\ origin # None => (heard # None <=> Accepted(inRawBuf, bufSz))
  /\ doing = "parse" /\ origin = None => ~Accepted(inRawBuf, bufSz)
  /\ origin = None => heard = None

AnswerFlags == {FLAG_FIN, FLAG_ACK, FLAG_SYN + FLAG_ACK}

AnswerInv ==
  answer # None =>
    /\ heard # None
    /\ \E flags \in AnswerFlags, payload \in {<<>>, Page} :
         answer = RawAnswer(Reply(heard, flags, payload), payload)

RawInv == BufferInv /\ ParseInv /\ HeardInv /\ AnswerInv

(* What is taken is a record, and so not None.                             *)
LEMMA ReadIsSome == \A buf : Read(buf) # None
<1> SUFFICES ASSUME NEW buf PROVE Read(buf) # None
  OBVIOUS
<1>1. Read(buf).flags = Read(buf).flags /\ "flags" \in DOMAIN Read(buf)
  BY DEF Read, Tcp
<1>2. DOMAIN <<>> = {}
  OBVIOUS
<1> QED
  BY <1>1, <1>2 DEF None

LEMMA PacketIsSome == \A p \in HostPackets : p \in Packet /\ p # None
<1> TAKE p \in HostPackets
<1>1. p \in Packet
  BY RawServerAssumption
<1>2. "src" \in DOMAIN p
  BY <1>1 DEF Packet
<1>3. DOMAIN <<>> = {}
  OBVIOUS
<1> QED
  BY <1>1, <1>2, <1>3 DEF None

(* Frames that come.                                                       *)
LEMMA HostFrames ==
  ASSUME NEW p \in HostPackets
  PROVE  /\ p \in Packet /\ SizeOf(p) < Base /\ SizeOf(p) <= BufSize
         /\ HostFrame(p) \in Seq(Byte) /\ Len(HostFrame(p)) = SizeOf(p)
         /\ SizeOf(p) \in Nat /\ SizeOf(p) >= 40
<1>1. p \in Packet /\ SizeOf(p) < Base /\ SizeOf(p) <= BufSize
  BY RawServerAssumption
<1> QED
  BY <1>1, HostFrameShape

LEMMA DamagedFrames ==
  ASSUME NEW raw \in Seq(Byte), Len(raw) >= 40, NEW d \in Damaged(raw)
  PROVE  d \in Seq(Byte) /\ Len(d) <= Len(raw) /\ Len(d) \in Nat
<1>1. PICK L \in Nat : L = Len(raw) /\ L >= 40 /\ \A i \in 1 .. L : raw[i] \in Byte
  BY LenProperties, ElementOfSeq
<1>2. PICK n \in Cuts : \/ d = SubSeq(raw, 1, n)
                        \/ d = SubSeq(raw, 1, n) \o SubSeq(raw, n + 2, L) \o <<15>>
  BY <1>1 DEF Damaged, WithoutByte
<1>3. n \in 0 .. 39
  BY RawServerAssumption
<1>4. PICK x : x = SubSeq(raw, 1, n)
  OBVIOUS
<1>5. x \in Seq(Byte) /\ Len(x) = n
  <2>1. 1 \in Int /\ n \in Int /\ \A i \in 1 .. n : raw[i] \in Byte
    BY <1>1, <1>3
  <2>2. x \in Seq(Byte) /\ Len(x) = IF 1 <= n THEN n - 1 + 1 ELSE 0
    BY <1>4, <2>1, SubSeqProperties
  <2>3. (IF 1 <= n THEN n - 1 + 1 ELSE 0) = n
    BY <1>3
  <2> QED
    BY <2>2, <2>3
<1>6. PICK y : y = SubSeq(raw, n + 2, L)
  OBVIOUS
<1>7. y \in Seq(Byte) /\ Len(y) = L - n - 1
  <2>1. n + 2 \in Int /\ L \in Int /\ \A i \in n + 2 .. L : raw[i] \in Byte
    BY <1>1, <1>3
  <2>2. y \in Seq(Byte) /\ Len(y) = IF n + 2 <= L THEN L - (n + 2) + 1 ELSE 0
    BY <1>6, <2>1, SubSeqProperties
  <2>3. (IF n + 2 <= L THEN L - (n + 2) + 1 ELSE 0) = L - n - 1
    BY <1>1, <1>3
  <2> QED
    BY <2>2, <2>3
<1>8. PICK z : z = <<15>>
  OBVIOUS
<1>9. z \in Seq(Byte) /\ Len(z) = 1
  <2>1. 15 \in Byte
    BY FixedBytes
  <2> QED
    BY <1>8, <2>1
<1>10. CASE d = x
  BY <1>1, <1>3, <1>5, <1>10
<1>11. CASE d = Cat(Cat(x, y), z)
  <2>1. PICK u : u = Cat(x, y)
    OBVIOUS
  <2>2. u \in Seq(Byte) /\ Len(u) = Len(x) + Len(y)
    BY <1>5, <1>7, <2>1, Chain
  <2>3. d \in Seq(Byte) /\ Len(d) = Len(u) + Len(z)
    BY <1>9, <1>11, <2>1, <2>2, Chain
  <2>4. Len(d) = L
    BY <1>1, <1>3, <1>5, <1>7, <1>9, <2>2, <2>3
  <2> QED
    BY <1>1, <2>3, <2>4
<1> QED
  BY <1>2, <1>4, <1>6, <1>8, <1>10, <1>11 DEF Cat

LEMMA RawInvInit == Init => RawInv
<1> SUFFICES ASSUME Init PROVE RawInv
  OBVIOUS
<1>1. BufSize \in Nat /\ 0 \in Byte
  BY RawServerAssumption, FixedBytes
<1>2. inRawBuf \in Seq(Byte) /\ Len(inRawBuf) = BufSize
  BY <1>1 DEF Init
<1> QED
  BY <1>1, <1>2 DEF Init, RawInv, BufferInv, ParseInv, HeardInv, AnswerInv

(* What a step makes of the buffer.                                        *)
LEMMA Later ==
  ASSUME NEW buf, NEW sz, inRawBuf' = buf, bufSz' = sz
  PROVE  /\ Judgement(inRawBuf, bufSz)' = Judgement(buf, sz)
         /\ Accepted(inRawBuf, bufSz)' <=> Accepted(buf, sz)
         /\ Read(inRawBuf)' = Read(buf)
BY DEF Judgement, Accepted, IpParsed, validateTcpPacket, Read

LEMMA FrameRead ==
  ASSUME RawInv, NEW raw \in Seq(Byte), Len(raw) <= BufSize, readRawPacket(raw)
  PROVE  /\ inRawBuf' \in Seq(Byte) /\ Len(inRawBuf') = BufSize /\ At(inRawBuf', 0, raw)
         /\ bufSz' = Len(raw) /\ bufSz' \in 0 .. BufSize
         /\ doing' = "parse" /\ judged' = Judgement(inRawBuf, bufSz)'
         /\ heard' = None /\ answer = None /\ answer' = None /\ doing = "read"
<1>1. inRawBuf \in Seq(Byte) /\ Len(inRawBuf) = BufSize
  BY DEF RawInv, BufferInv
<1>2. inRawBuf' = raw \o SubSeq(inRawBuf, Len(raw) + 1, Len(inRawBuf))
  BY <1>1 DEF readRawPacket
<1>3. inRawBuf' \in Seq(Byte) /\ Len(inRawBuf') = BufSize /\ At(inRawBuf', 0, raw)
  BY <1>1, <1>2, IntoBuffer
<1>4. Len(raw) \in Nat /\ BufSize \in Nat
  BY RawServerAssumption, LenProperties
<1>5. PICK buf, sz : buf = inRawBuf' /\ sz = bufSz'
  OBVIOUS
<1>6. judged' = Judgement(buf, sz)
  BY <1>5 DEF readRawPacket
<1>7. judged' = Judgement(inRawBuf, bufSz)'
  BY <1>5, <1>6, Later
<1> QED
  BY <1>3, <1>4, <1>7 DEF readRawPacket

LEMMA HostFrameRead ==
  ASSUME RawInv, NEW p \in HostPackets, NEW raw \in Seq(Byte), Len(raw) <= BufSize,
         readRawPacket(raw), origin' = p
  PROVE  RawInv'
<1>1. /\ inRawBuf' \in Seq(Byte) /\ Len(inRawBuf') = BufSize /\ bufSz' \in 0 .. BufSize
      /\ doing' = "parse" /\ judged' = Judgement(inRawBuf, bufSz)'
      /\ heard' = None /\ answer' = None
  BY FrameRead
<1>2. p # None
  BY PacketIsSome
<1> QED
  BY <1>1, <1>2 DEF RawInv, BufferInv, ParseInv, HeardInv, AnswerInv

LEMMA ForeignUnfit ==
  ASSUME NEW raw \in Foreign, NEW buf \in Seq(Byte), At(buf, 0, raw), NEW sz
  PROVE  ~Accepted(buf, sz)
<1>1. Len(raw) \in Nat /\ Len(raw) >= 1 /\ raw[1] \div Nibble # IPv4
  BY RawServerAssumption
<1>2. buf[0 + 1] = raw[1]
  BY <1>1 DEF At
<1>3. Ip(buf).ver = raw[1] \div Nibble
  BY <1>2 DEF Ip
<1> QED
  BY <1>1, <1>3 DEF Accepted

LEMMA Taken ==
  ASSUME RawInv, NEW wait, NextTcpIpPacket(wait)
  PROVE  /\ (BufferInv /\ ParseInv /\ HeardInv)'
         /\ heard' = Read(inRawBuf) /\ heard' # None
         /\ answer = None /\ origin # None /\ judged = Judgement(inRawBuf, bufSz)
         /\ doing = "parse" /\ doing' = "read" /\ Accepted(inRawBuf, bufSz) /\ pc = wait
         /\ UNCHANGED frame
<1>1. /\ pc = wait /\ doing = "parse" /\ Accepted(inRawBuf, bufSz) /\ doing' = "read"
      /\ heard' = Read(inRawBuf) /\ UNCHANGED <<inRawBuf, bufSz, origin, judged>>
      /\ UNCHANGED frame
  BY DEF NextTcpIpPacket, frame
<1>2. Read(inRawBuf) # None
  BY ReadIsSome
<1>3. origin # None /\ answer = None /\ judged = Judgement(inRawBuf, bufSz)
  BY <1>1 DEF RawInv, HeardInv, ParseInv
<1>4. BufferInv'
  BY <1>1 DEF RawInv, BufferInv
<1>5. ParseInv'
  BY <1>1 DEF ParseInv
<1>6. Accepted(inRawBuf, bufSz)' /\ Read(inRawBuf)' = Read(inRawBuf)
  BY <1>1 DEF Accepted, IpParsed, validateTcpPacket, Read
<1>7. HeardInv'
  BY <1>1, <1>2, <1>3, <1>6 DEF HeardInv
<1> QED
  BY <1>1, <1>2, <1>3, <1>4, <1>5, <1>7

LEMMA Answered ==
  ASSUME RawInv, NEW wait, NextTcpIpPacket(wait),
         \/ StaySilent
         \/ \E flags \in AnswerFlags, payload \in {<<>>, Page} : SendAnswer(flags, payload)
  PROVE  RawInv'
<1>1. (BufferInv /\ ParseInv /\ HeardInv)' /\ heard' # None /\ answer = None
  BY Taken
<1>2. CASE StaySilent
  BY <1>1, <1>2 DEF StaySilent, RawInv, AnswerInv
<1>3. CASE \E flags \in AnswerFlags, payload \in {<<>>, Page} : SendAnswer(flags, payload)
  <2>1. PICK flags \in AnswerFlags, payload \in {<<>>, Page} : SendAnswer(flags, payload)
    BY <1>3
  <2>2. PICK reply : reply = Reply(heard', flags, payload) /\ answer' = RawAnswer(reply, payload)
    BY <2>1 DEF SendAnswer
  <2>3. Reply(heard, flags, payload)' = Reply(heard', flags, payload)
    BY DEF Reply, Segments!buildRawTcpIpPacket, Segments!AckAdvance, Segments!Plus
  <2>4. AnswerInv'
    BY <1>1, <2>2, <2>3 DEF AnswerInv
  <2> QED
    BY <1>1, <2>4 DEF RawInv
<1> QED
  BY <1>2, <1>3

LEMMA RawInvNext == RawInv /\ [Next]_vars => RawInv'
<1> SUFFICES ASSUME RawInv, [Next]_vars PROVE RawInv'
  OBVIOUS
<1>1. CASE HostPacketComes
  <2>1. PICK p \in HostPackets : readRawPacket(HostFrame(p)) /\ origin' = p
    BY <1>1 DEF HostPacketComes
  <2>2. HostFrame(p) \in Seq(Byte) /\ Len(HostFrame(p)) <= BufSize
    BY HostFrames
  <2> QED
    BY <2>1, <2>2, HostFrameRead
<1>2. CASE ForeignComes
  <2>1. PICK raw \in Foreign : readRawPacket(raw) /\ origin' = None
    BY <1>2 DEF ForeignComes
  <2>2. raw \in Seq(Byte) /\ Len(raw) <= BufSize
    BY RawServerAssumption
  <2>3. /\ inRawBuf' \in Seq(Byte) /\ Len(inRawBuf') = BufSize /\ bufSz' \in 0 .. BufSize
        /\ At(inRawBuf', 0, raw)
        /\ doing' = "parse" /\ judged' = Judgement(inRawBuf, bufSz)'
        /\ heard' = None /\ answer' = None
    BY <2>1, <2>2, FrameRead
  <2>4. PICK buf, sz : buf = inRawBuf' /\ sz = bufSz'
    OBVIOUS
  <2>5. ~Accepted(inRawBuf, bufSz)'
    <3>1. ~Accepted(buf, sz)
      BY <2>3, <2>4, ForeignUnfit
    <3> QED
      BY <2>4, <3>1, Later
  <2> QED
    BY <2>1, <2>3, <2>5 DEF RawInv, BufferInv, ParseInv, HeardInv, AnswerInv
<1>3. CASE DamagedComes
  <2>0. PICK p \in HostPackets : \E raw \in Damaged(HostFrame(p)) :
          readRawPacket(raw) /\ origin' = p
    BY <1>3 DEF DamagedComes
  <2>1. PICK raw \in Damaged(HostFrame(p)) : readRawPacket(raw) /\ origin' = p
    BY <2>0
  <2>2. PICK f \in Seq(Byte), L \in Nat : f = HostFrame(p) /\ L = Len(f) /\ L >= 40 /\ L <= BufSize
    BY HostFrames
  <2>3. raw \in Seq(Byte) /\ Len(raw) <= L /\ Len(raw) \in Nat
    BY <2>1, <2>2, DamagedFrames
  <2>4. Len(raw) <= BufSize
    BY <2>2, <2>3, RawServerAssumption
  <2> QED
    BY <2>1, <2>3, <2>4, HostFrameRead
<1>4. CASE DropFrame
  <2>1. /\ doing = "parse" /\ ~Accepted(inRawBuf, bufSz) /\ doing' = "read"
        /\ UNCHANGED <<heard, answer, inRawBuf, bufSz, origin, judged>>
    BY <1>4 DEF DropFrame, program, frame
  <2>2. heard = None /\ answer = None
    BY <2>1 DEF RawInv, ParseInv
  <2>3. Accepted(inRawBuf, bufSz)' <=> Accepted(inRawBuf, bufSz)
    BY <2>1 DEF Accepted, IpParsed, validateTcpPacket
  <2> QED
    BY <2>1, <2>2, <2>3 DEF RawInv, BufferInv, ParseInv, HeardInv, AnswerInv
<1>5. CASE ThreeWayHandshake
  <2>1. \/ NextTcpIpPacket("listen") /\ (StaySilent \/ SendAnswer(FLAG_SYN + FLAG_ACK, <<>>))
        \/ NextTcpIpPacket("handshake") /\ StaySilent
    BY <1>5 DEF ThreeWayHandshake
  <2> QED
    BY <2>1, Answered DEF AnswerFlags
<1>6. CASE ServeRequest
  <2>1. NextTcpIpPacket("request") /\ SendAnswer(FLAG_ACK, Page)
    BY <1>6 DEF ServeRequest
  <2> QED
    BY <2>1, Answered DEF AnswerFlags
<1>7. CASE FourWayClose
  <2>1. \/ NextTcpIpPacket("ack") /\ SendAnswer(FLAG_FIN, <<>>)
        \/ NextTcpIpPacket("fin") /\ (StaySilent \/ SendAnswer(FLAG_ACK, <<>>))
    BY <1>7 DEF FourWayClose
  <2> QED
    BY <2>1, Answered DEF AnswerFlags
<1>8. CASE AnswerSent
  <2>1. answer # None /\ answer' = None /\ UNCHANGED <<heard, inRawBuf, bufSz, origin, judged, doing>>
    BY <1>8 DEF AnswerSent, frame
  <2>2. Accepted(inRawBuf, bufSz)' <=> Accepted(inRawBuf, bufSz)
    BY <2>1 DEF Accepted, IpParsed, validateTcpPacket
  <2>3. Read(inRawBuf)' = Read(inRawBuf) /\ Judgement(inRawBuf, bufSz)' = Judgement(inRawBuf, bufSz)
    BY <2>1, <2>2 DEF Read, Judgement
  <2> QED
    BY <2>1, <2>2, <2>3 DEF RawInv, BufferInv, ParseInv, HeardInv, AnswerInv
<1>9. CASE UNCHANGED vars
  <2>1. UNCHANGED <<heard, answer, inRawBuf, bufSz, origin, judged, doing>>
    BY <1>9 DEF vars, program, frame
  <2>2. Accepted(inRawBuf, bufSz)' <=> Accepted(inRawBuf, bufSz)
    BY <2>1 DEF Accepted, IpParsed, validateTcpPacket
  <2>3. Read(inRawBuf)' = Read(inRawBuf) /\ Judgement(inRawBuf, bufSz)' = Judgement(inRawBuf, bufSz)
    BY <2>1, <2>2 DEF Read, Judgement
  <2>4. AnswerInv'
    BY <2>1 DEF RawInv, AnswerInv
  <2> QED
    BY <2>1, <2>2, <2>3, <2>4 DEF RawInv, BufferInv, ParseInv, HeardInv
<1> QED
  BY <1>1, <1>2, <1>3, <1>4, <1>5, <1>6, <1>7, <1>8, <1>9 DEF Next

(* Whatever frames come, of packets with whatever options, foreign or      *)
(* damaged: what inRawBuf holds, what has been taken from it and what is   *)
(* being sent hang together as the program's wait and the host packet say  *)
(* (readRawPacket, nextTcpIpPacket, buildRawTcpIpPacket).                  *)
THEOREM RawServerInvariant == Spec => []RawInv
BY RawInvInit, RawInvNext, PTL DEF Spec

(* A packet that comes whole is taken if and only if it carries TCP and    *)
(* the sum of its IP options is zero: parseRawIpPacket means to skip the   *)
(* options ("skip OPTIONS (if any)"), but its checksum is of 20 bytes.     *)
DropsOnlyOptions ==
  doing = "read" /\ origin # None /\ SubSeq(inRawBuf, 1, bufSz) = HostFrame(origin) =>
    (heard # None <=>
       origin.protocol = PROTOCOL_TCP /\ OptionSum(origin) \in {0, Base - 1})

THEOREM WholePacketsDropped == Spec => []DropsOnlyOptions
<1>1. RawInv => DropsOnlyOptions
  <2> SUFFICES ASSUME RawInv, doing = "read", origin # None,
                      SubSeq(inRawBuf, 1, bufSz) = HostFrame(origin)
               PROVE  heard # None <=>
                        origin.protocol = PROTOCOL_TCP /\ OptionSum(origin) \in {0, Base - 1}
    BY DEF DropsOnlyOptions
  <2>1. PICK p \in HostPackets : p = origin
    BY DEF RawInv, BufferInv
  <2>2. PICK f \in Seq(Byte) : /\ f = HostFrame(p) /\ Len(f) = SizeOf(p)
                               /\ p \in Packet /\ SizeOf(p) < Base
    BY HostFrames
  <2>3. PICK m \in Nat, n \in Nat : m = bufSz /\ n = BufSize /\ m <= n
    BY RawServerAssumption DEF RawInv, BufferInv
  <2>4. inRawBuf \in Seq(Byte) /\ Len(inRawBuf) = n
    BY <2>3 DEF RawInv, BufferInv
  <2>5. Len(f) = m /\ \A i \in 1 .. m : f[i] = inRawBuf[i]
    <3>1. 1 \in Int /\ m \in Int /\ \A i \in 1 .. m : inRawBuf[i] \in Byte
      BY <2>3, <2>4, ElementOfSeq
    <3>2. /\ Len(f) = IF 1 <= m THEN m - 1 + 1 ELSE 0
          /\ \A i \in 1 .. m - 1 + 1 : f[i] = inRawBuf[1 + i - 1]
      BY <2>1, <2>2, <2>3, <3>1, SubSeqProperties
    <3>3. (IF 1 <= m THEN m - 1 + 1 ELSE 0) = m
      BY <2>3
    <3>4. \A i \in 1 .. m : f[i] = inRawBuf[i]
      <4> TAKE i \in 1 .. m
      <4>1. i \in 1 .. m - 1 + 1 /\ 1 + i - 1 = i
        BY <2>3
      <4> QED
        BY <3>2, <4>1
    <3> QED
      BY <3>2, <3>3, <3>4
  <2>6. At(inRawBuf, 0, f)
    <3>1. \A i \in 1 .. m : inRawBuf[0 + i] = f[i]
      BY <2>5
    <3> QED
      BY <2>3, <2>4, <2>5, <3>1 DEF At
  <2>7. Accepted(inRawBuf, SizeOf(p))
          <=> p.protocol = PROTOCOL_TCP /\ OptionSum(p) \in {0, Base - 1}
    BY <2>2, <2>4, <2>6, WholeFrame
  <2>8. heard # None <=> Accepted(inRawBuf, bufSz)
    BY DEF RawInv, HeardInv
  <2> QED
    BY <2>1, <2>2, <2>3, <2>5, <2>7, <2>8
<1> QED
  BY <1>1, RawServerInvariant, PTL

(* So every packet without IP options that carries TCP is taken.           *)
THEOREM PlainPacketsTaken == Spec => []TakesEveryPlainPacket
<1>1. RawInv /\ DropsOnlyOptions => TakesEveryPlainPacket
  <2> SUFFICES ASSUME RawInv, DropsOnlyOptions,
                      doing = "read", origin # None, origin.ipOptions = <<>>,
                      SubSeq(inRawBuf, 1, bufSz) = HostFrame(origin)
               PROVE  heard # None <=> origin.protocol = PROTOCOL_TCP
    BY DEF TakesEveryPlainPacket
  <2>1. origin \in Packet
    BY RawServerAssumption DEF RawInv, BufferInv
  <2>2. OptionSum(origin) = 0
    BY <2>1, NoOptionSum
  <2> QED
    BY <2>2 DEF DropsOnlyOptions
<1> QED
  BY <1>1, RawServerInvariant, WholePacketsDropped, PTL

-----------------------------------------------------------------------------
(* Damaged frames.                                                         *)
LEMMA FirstPart ==
  ASSUME NEW raw \in Seq(Byte), NEW n \in 4 .. 39, Len(raw) >= 40
  PROVE  LET x == SubSeq(raw, 1, n)
         IN  /\ x \in Seq(Byte) /\ Len(x) = n
             /\ x[1] = raw[1] /\ x[3] = raw[3] /\ x[4] = raw[4]
<1>1. PICK L \in Nat : L = Len(raw) /\ L >= 40 /\ \A i \in 1 .. L : raw[i] \in Byte
  BY LenProperties, ElementOfSeq
<1>2. PICK x : x = SubSeq(raw, 1, n)
  OBVIOUS
<1>3. 1 \in Int /\ n \in Int /\ \A i \in 1 .. n : raw[i] \in Byte
  BY <1>1
<1>4. /\ x \in Seq(Byte) /\ Len(x) = IF 1 <= n THEN n - 1 + 1 ELSE 0
      /\ \A i \in 1 .. n - 1 + 1 : x[i] = raw[1 + i - 1]
  BY <1>2, <1>3, SubSeqProperties
<1>5. (IF 1 <= n THEN n - 1 + 1 ELSE 0) = n
  OBVIOUS
<1>6. /\ 1 \in 1 .. n - 1 + 1 /\ 3 \in 1 .. n - 1 + 1 /\ 4 \in 1 .. n - 1 + 1
      /\ 1 + 1 - 1 = 1 /\ 1 + 3 - 1 = 3 /\ 1 + 4 - 1 = 4
  OBVIOUS
<1>7. x[1] = raw[1] /\ x[3] = raw[3] /\ x[4] = raw[4]
  BY <1>4, <1>6
<1> QED
  BY <1>2, <1>4, <1>5, <1>7

(* A frame's own head.                                                     *)
LEMMA HostHead ==
  ASSUME NEW p \in HostPackets
  PROVE  /\ toNative16(HostFrame(p), 2) = SizeOf(p)
         /\ HostFrame(p)[1] % Nibble = IpWords(p)
<1>1. PICK f \in Seq(Byte) : f = HostFrame(p) /\ p \in Packet /\ SizeOf(p) < Base
  BY HostFrames
<1>2. At(f, 0, f)
  <2>1. Len(f) \in Nat
    BY LenProperties
  <2>2. \A i \in 1 .. Len(f) : 0 + i = i
    OBVIOUS
  <2> QED
    BY <2>1, <2>2 DEF At
<1> DEFINE c == TcpChecksum(p)  d == IpChecksum(p, HostTcp(p, c))
<1>3. /\ f = FrameOf(p, c, d) /\ c \in Seq(Byte) /\ Len(c) = 2
      /\ d \in Seq(Byte) /\ Len(d) = 2
  BY <1>1, HostFrameShape DEF HostFrameIs
<1> HIDE DEF c, d
<1>4. At(f, 0, FrameOf(p, c, d))
  BY <1>2, <1>3
<1>5. toNative16(f, 2) = SizeOf(p) /\ f[1] % Nibble = IpWords(p)
  BY <1>1, <1>3, <1>4, ReadFrame
<1> QED
  BY <1>1, <1>5

(* One cut short after its length word is not as long as it says.          *)
LEMMA CutFrame ==
  ASSUME NEW p \in HostPackets, NEW n \in 4 .. 39, NEW buf \in Seq(Byte),
         At(buf, 0, SubSeq(HostFrame(p), 1, n))
  PROVE  ~Accepted(buf, n)
<1>1. PICK f \in Seq(Byte), L \in Nat : f = HostFrame(p) /\ Len(f) = L /\ L >= 40 /\ L = SizeOf(p)
  BY HostFrames
<1>2. PICK x \in Seq(Byte) : /\ x = SubSeq(f, 1, n) /\ Len(x) = n
                             /\ x[1] = f[1] /\ x[3] = f[3] /\ x[4] = f[4]
  BY <1>1, FirstPart
<1>3. \A i \in 1 .. n : buf[0 + i] = x[i]
  BY <1>1, <1>2 DEF At
<1>4. 0 + 1 = 1 /\ 0 + 3 = 3 /\ 0 + 4 = 4 /\ 1 \in 1 .. n /\ 3 \in 1 .. n /\ 4 \in 1 .. n
  OBVIOUS
<1>5. buf[1] = f[1] /\ buf[3] = f[3] /\ buf[4] = f[4]
  BY <1>2, <1>3, <1>4
<1>6. toNative16(buf, 2) = toNative16(f, 2)
  BY <1>5 DEF toNative16
<1>7. toNative16(buf, 2) = L
  BY <1>1, <1>6, HostHead
<1>8. PICK w \in Nat : w = buf[1] % Nibble
  <2>1. f[1] % Nibble = IpWords(p) /\ IpWords(p) \in 5 .. Nibble - 1
    BY <1>1, HostHead, HostFrames, PacketType
  <2> QED
    BY <1>5, <2>1
<1>9. Ip(buf).payload = 4 * w /\ Ip(buf).payloadSz = L - 4 * w
  BY <1>7, <1>8 DEF Ip
<1>10. Ip(buf).payload + Ip(buf).payloadSz # n
  BY <1>1, <1>9
<1> QED
  BY <1>10 DEF Accepted, IpParsed

LEMMA FrameWithoutByte ==
  ASSUME NEW p \in HostPackets, NEW n \in 4 .. 39, n \in Cuts, NEW buf \in Seq(Byte),
         At(buf, 0, WithoutByte(HostFrame(p), n)), DamageShows
  PROVE  /\ Len(WithoutByte(HostFrame(p), n)) = SizeOf(p)
         /\ Accepted(buf, SizeOf(p)) => Read(buf) = Meant(p)
<1>1. PICK f \in Seq(Byte), L \in Nat : f = HostFrame(p) /\ Len(f) = L /\ L >= 40 /\ L = SizeOf(p)
  BY HostFrames
<1>2. PICK x \in Seq(Byte) : /\ x = SubSeq(f, 1, n) /\ Len(x) = n
                             /\ x[1] = f[1] /\ x[3] = f[3] /\ x[4] = f[4]
  BY <1>1, FirstPart
<1>3. PICK y : y = SubSeq(f, n + 2, L)
  OBVIOUS
<1>4. y \in Seq(Byte) /\ Len(y) = L - n - 1
  <2>1. n + 2 \in Int /\ L \in Int /\ \A i \in n + 2 .. L : f[i] \in Byte
    BY <1>1, ElementOfSeq
  <2>2. y \in Seq(Byte) /\ Len(y) = IF n + 2 <= L THEN L - (n + 2) + 1 ELSE 0
    BY <1>3, <2>1, SubSeqProperties
  <2>3. (IF n + 2 <= L THEN L - (n + 2) + 1 ELSE 0) = L - n - 1
    BY <1>1
  <2> QED
    BY <2>2, <2>3
<1>0. PICK z : z = <<15>>
  OBVIOUS
<1>5. z \in Seq(Byte) /\ Len(z) = 1
  <2>1. 15 \in Byte
    BY FixedBytes
  <2> QED
    BY <1>0, <2>1
<1>6. PICK u : u = Cat(x, y)
  OBVIOUS
<1>7. u \in Seq(Byte) /\ Len(u) = Len(x) + Len(y) /\ At(u, 0, x)
  BY <1>2, <1>4, <1>6, Chain
<1>8. PICK d : d = Cat(u, z)
  OBVIOUS
<1>9. d \in Seq(Byte) /\ Len(d) = Len(u) + Len(z) /\ At(d, 0, x)
  BY <1>5, <1>7, <1>8, Chain
<1>10. Len(d) = L
  <2>1. Len(u) = n + (L - n - 1)
    BY <1>2, <1>4, <1>7
  <2>2. Len(d) = Len(u) + 1
    BY <1>5, <1>9
  <2>3. n + (L - n - 1) + 1 = L
    BY <1>1
  <2> QED
    BY <2>1, <2>2, <2>3
<1>11. d = WithoutByte(f, n)
  BY <1>0, <1>1, <1>2, <1>3, <1>5, <1>6, <1>8 DEF Cat, WithoutByte
<1>12. d[1] = f[1] /\ d[3] = f[3] /\ d[4] = f[4]
  <2>1. \A i \in 1 .. n : d[0 + i] = x[i]
    BY <1>2, <1>9 DEF At
  <2>2. 0 + 1 = 1 /\ 0 + 3 = 3 /\ 0 + 4 = 4 /\ 1 \in 1 .. n /\ 3 \in 1 .. n /\ 4 \in 1 .. n
    OBVIOUS
  <2> QED
    BY <1>2, <2>1, <2>2
<1>13. toNative16(d, 2) = L
  <2>1. toNative16(d, 2) = toNative16(f, 2)
    BY <1>12 DEF toNative16
  <2> QED
    BY <1>1, <2>1, HostHead
<1>14. PICK w \in 5 .. Nibble - 1 : w = IpWords(p) /\ d[1] % Nibble = w /\ 4 * w + 20 <= L
  <2>1. f[1] % Nibble = IpWords(p) /\ IpWords(p) \in 5 .. Nibble - 1
    BY <1>1, HostHead, HostFrames, PacketType
  <2>2. PICK a \in Nat, b \in Nat, k \in Nat :
          a = Len(p.ipOptions) /\ b = Len(p.tcpOptions) /\ k = Len(p.payload)
    BY HostFrames, PacketType
  <2>3. L = 40 + a + b + k
    BY <1>1, <2>2 DEF SizeOf
  <2>4. PICK v \in Nat : v = IpWords(p)
    BY <2>1
  <2>5. 4 * v = 20 + a
    BY <2>2, <2>4, HostFrames, PacketType
  <2>6. 4 * v + 20 <= L
    BY <2>3, <2>5
  <2> QED
    BY <1>12, <2>1, <2>4, <2>6
<1>15. At(buf, 0, d)
  BY <1>1, <1>11
<1>16. (Accepted(buf, L) <=> Accepted(d, L)) /\ Read(buf) = Read(d)
  BY <1>9, <1>10, <1>13, <1>14, <1>15, OwnBytes
<1>17. Accepted(d, L) => Read(d) = Meant(p)
  BY <1>1, <1>11 DEF DamageShows
<1> QED
  BY <1>1, <1>10, <1>11, <1>16, <1>17

(* The frame in the buffer, if it passes the tests, says what its host     *)
(* meant.                                                                  *)
MeantInv ==
  origin # None /\ Accepted(inRawBuf, bufSz) => Read(inRawBuf) = Meant(origin)

LEMMA SameFrame ==
  ASSUME MeantInv, UNCHANGED <<inRawBuf, bufSz, origin>>
  PROVE  MeantInv'
<1>1. Accepted(inRawBuf, bufSz)' <=> Accepted(inRawBuf, bufSz)
  BY DEF Accepted, IpParsed, validateTcpPacket
<1>2. Read(inRawBuf)' = Read(inRawBuf) /\ Meant(origin)' = Meant(origin)
  BY DEF Read, Meant
<1> QED
  BY <1>1, <1>2 DEF MeantInv

LEMMA MeantFrame ==
  ASSUME NEW p \in HostPackets, origin' = p,
         NEW buf, NEW sz, inRawBuf' = buf, bufSz' = sz,
         Accepted(buf, sz) => Read(buf) = Meant(p)
  PROVE  MeantInv'
<1>1. (Accepted(inRawBuf, bufSz)' <=> Accepted(buf, sz)) /\ Read(inRawBuf)' = Read(buf)
  BY Later
<1>2. Meant(origin)' = Meant(p)
  BY DEF Meant
<1> QED
  BY <1>1, <1>2 DEF MeantInv

LEMMA MeantInvNext ==
  ASSUME Cuts \subseteq 4 .. 39, DamageShows, RawInv, MeantInv, [Next]_vars
  PROVE  MeantInv'
<1>1. CASE HostPacketComes
  <2>1. PICK p \in HostPackets : readRawPacket(HostFrame(p)) /\ origin' = p
    BY <1>1 DEF HostPacketComes
  <2>2. PICK f \in Seq(Byte) : /\ f = HostFrame(p) /\ Len(f) = SizeOf(p) /\ Len(f) <= BufSize
                               /\ p \in Packet /\ SizeOf(p) < Base
    BY HostFrames
  <2>0. PICK buf, sz : buf = inRawBuf' /\ sz = bufSz'
    OBVIOUS
  <2>3. buf \in Seq(Byte) /\ At(buf, 0, f)
    BY <2>0, <2>1, <2>2, FrameRead
  <2>4. Read(buf) = Meant(p)
    <3> DEFINE c == TcpChecksum(p)  d == IpChecksum(p, HostTcp(p, c))
    <3>1. /\ f = FrameOf(p, c, d) /\ c \in Seq(Byte) /\ Len(c) = 2
          /\ d \in Seq(Byte) /\ Len(d) = 2
      BY <2>2, HostFrameShape DEF HostFrameIs
    <3> HIDE DEF c, d
    <3> QED
      BY <2>2, <2>3, <3>1, ReadFrame
  <2> QED
    BY <2>0, <2>1, <2>4, MeantFrame
<1>2. CASE ForeignComes
  <2>1. origin' = None
    BY <1>2 DEF ForeignComes
  <2> QED
    BY <2>1 DEF MeantInv
<1>3. CASE DamagedComes
  <2>0. PICK p \in HostPackets : \E raw \in Damaged(HostFrame(p)) :
          readRawPacket(raw) /\ origin' = p
    BY <1>3 DEF DamagedComes
  <2>1. PICK raw \in Damaged(HostFrame(p)) : readRawPacket(raw) /\ origin' = p
    BY <2>0
  <2>2. PICK f \in Seq(Byte), L \in Nat : f = HostFrame(p) /\ L = Len(f) /\ L >= 40 /\ L <= BufSize
    BY HostFrames
  <2>3. raw \in Seq(Byte) /\ Len(raw) <= L /\ Len(raw) \in Nat
    BY <2>1, <2>2, DamagedFrames
  <2>4. Len(raw) <= BufSize
    BY <2>2, <2>3, RawServerAssumption
  <2>10. PICK buf, sz : buf = inRawBuf' /\ sz = bufSz'
    OBVIOUS
  <2>5. buf \in Seq(Byte) /\ At(buf, 0, raw) /\ sz = Len(raw)
    BY <2>1, <2>3, <2>4, <2>10, FrameRead
  <2>6. PICK n \in Cuts : raw = SubSeq(f, 1, n) \/ raw = WithoutByte(f, n)
    BY <2>1, <2>2 DEF Damaged, WithoutByte
  <2>7. n \in 4 .. 39
    OBVIOUS
  <2>8. CASE raw = SubSeq(f, 1, n)
    <3>1. Len(raw) = n
      BY <2>2, <2>7, <2>8, FirstPart
    <3>2. ~Accepted(buf, sz)
      BY <2>2, <2>5, <2>7, <2>8, <3>1, CutFrame
    <3> QED
      BY <2>1, <2>10, <3>2, MeantFrame
  <2>9. CASE raw = WithoutByte(f, n)
    <3>1. /\ Len(raw) = SizeOf(p)
          /\ Accepted(buf, SizeOf(p)) => Read(buf) = Meant(p)
      BY <2>2, <2>5, <2>7, <2>9, FrameWithoutByte
    <3> QED
      BY <2>1, <2>5, <2>10, <3>1, MeantFrame
  <2> QED
    BY <2>6, <2>8, <2>9
<1>4. CASE DropFrame
  BY <1>4, SameFrame DEF DropFrame, frame
<1>5. CASE ThreeWayHandshake
  BY <1>5, SameFrame DEF ThreeWayHandshake, NextTcpIpPacket, frame
<1>6. CASE ServeRequest
  BY <1>6, SameFrame DEF ServeRequest, NextTcpIpPacket, frame
<1>7. CASE FourWayClose
  BY <1>7, SameFrame DEF FourWayClose, NextTcpIpPacket, frame
<1>8. CASE AnswerSent
  BY <1>8, SameFrame DEF AnswerSent, frame
<1>9. CASE UNCHANGED vars
  BY <1>9, SameFrame DEF vars, frame
<1> QED
  BY <1>1, <1>2, <1>3, <1>4, <1>5, <1>6, <1>7, <1>8, <1>9 DEF Next

(* What the server takes is a segment the host of that frame meant:        *)
(* nothing of a frame cut short, nothing an earlier frame left behind.     *)
THEOREM MeantTaken ==
  ASSUME Cuts \subseteq 4 .. 39, DamageShows
  PROVE  Spec => []TakesOnlyWhatWasMeant
<1>1. Init => MeantInv
  BY DEF Init, MeantInv
<1>2. RawInv /\ MeantInv /\ [Next]_vars => MeantInv'
  BY MeantInvNext
<1>3. RawInv /\ MeantInv => TakesOnlyWhatWasMeant
  BY DEF RawInv, HeardInv, MeantInv, TakesOnlyWhatWasMeant
<1> QED
  BY <1>1, <1>2, <1>3, RawServerInvariant, PTL DEF Spec

-----------------------------------------------------------------------------
(* Answers: what the server computes where a sum leaves no carry.          *)
LEMMA OnesBarCarry ==
  ASSUME NEW sum \in Nat, Ck!FoldOnce(sum) < Base
  PROVE  Ck!Ones(sum) = Ck!FoldOnce(sum)
<1> DEFINE q == sum \div Base  r == sum % Base  D == Base - 1
<1>1. Base \in Nat \ {0} /\ D \in Nat \ {0} /\ Base = D + 1
  BY Bytes
<1>2. q \in Nat /\ r \in 0 .. Base - 1 /\ sum = q * Base + r
  BY <1>1, DivModExists
<1>3. /\ Ck!Ones(sum) = IF sum = 0 THEN 0 ELSE ((sum - 1) % D) + 1
      /\ Ck!FoldOnce(sum) = q + r
  BY Widths DEF Ck!Ones, Ck!FoldOnce
<1> HIDE DEF q, r, D
<1>4. PICK f \in Nat : f = q + r /\ f <= D
  BY <1>1, <1>2, <1>3
<1>5. sum = q * D + f
  <2>1. q * Base = q * D + q
    BY <1>1, <1>2
  <2>2. q * D \in Nat
    BY <1>1, <1>2
  <2> QED
    BY <1>2, <1>4, <2>1, <2>2
<1>6. CASE sum = 0
  <2>1. q * D \in Nat /\ q * Base \in Nat
    BY <1>1, <1>2
  <2>2. r = 0 /\ q * Base = 0 /\ f = 0
    BY <1>2, <1>4, <1>5, <1>6, <2>1
  <2> QED
    BY <1>3, <1>4, <1>6, <2>2
<1>7. CASE sum # 0
  <2>1. f # 0
    <3>1. SUFFICES ASSUME f = 0 PROVE FALSE
      OBVIOUS
    <3>2. q = 0 /\ r = 0
      BY <1>2, <1>4, <3>1
    <3>3. sum = 0 * Base + 0
      BY <1>2, <3>2
    <3> QED
      BY <1>1, <1>7, <3>3
  <2>2. f - 1 \in 0 .. D - 1 /\ q \in Int
    BY <1>1, <1>2, <1>4, <2>1
  <2>3. (q * D + (f - 1)) % D = f - 1
    BY <1>1, <2>2, DivMod
  <2>4. sum - 1 = q * D + (f - 1)
    <3>1. q * D \in Nat
      BY <1>1, <1>2
    <3> QED
      BY <1>4, <1>5, <3>1
  <2>5. Ck!Ones(sum) = (f - 1) + 1
    BY <1>3, <1>7, <2>3, <2>4
  <2> QED
    BY <1>3, <1>4, <2>5
<1> QED
  BY <1>6, <1>7

LEMMA ServerChecksum ==
  ASSUME NEW ph \in Seq(Word), NEW b \in Seq(Byte),
         Len(ph) + (Len(b) + 1) \div 2 < Base
  PROVE  /\ checksum(ph, b) \in Nat
         /\ toNetwork16(checksum(ph, b)) \in Seq(Byte)
         /\ Len(toNetwork16(checksum(ph, b))) = 2
         /\ LeavesCarry(ph, b) \/ checksum(ph, b) = HostChecksum(ph, b)
<1>1. PICK w \in Seq(Word) : w = ph \o Ck!Words(b) /\ Len(w) < Base
  BY BlockWords
<1>2. PICK sum \in Nat : sum = Total(ph, b) /\ sum < Base * (Base - 1)
  <2>1. Ck!SumOf(w) \in Nat /\ Ck!SumOf(w) < Base * (Base - 1)
    BY <1>1, Widths, Ck!SameTest
  <2> QED
    BY <1>1, <2>1 DEF Total
<1>3. checksum(ph, b) = Ck!ComplementOf(sum) /\ (LeavesCarry(ph, b) <=> Ck!FoldOnce(sum) >= Base)
  BY <1>2, SumOps
<1>4. Ck!FoldOnce(sum) \in 0 .. 2 * Base - 3
  BY <1>2, Widths, Ck!FoldBound
<1>5. /\ Ck!FoldOnce(sum) < Base => Ck!ComplementOf(sum) = Base - 1 - Ck!FoldOnce(sum)
      /\ Ck!FoldOnce(sum) >= Base => Ck!ComplementOf(sum) = 2 * Base - 1 - Ck!FoldOnce(sum)
  BY <1>2, Widths, Ck!ComplementValue
<1>6. checksum(ph, b) \in Nat
  BY <1>3, <1>4, <1>5, Bytes
<1>7. HostChecksum(ph, b) = Base - 1 - Ck!Ones(sum)
  BY <1>2, HostChecksumValue
<1>8. LeavesCarry(ph, b) \/ checksum(ph, b) = HostChecksum(ph, b)
  BY <1>2, <1>3, <1>4, <1>5, <1>7, OnesBarCarry, Bytes
<1> QED
  BY <1>6, <1>8, Written16

(* The answer to a segment, as a packet that a host might send.            *)
AnswerTcp(p) == toNetwork16(checksum(Pseudo(p), HostTcp(p, Zero)))
AnswerIp(p) ==
  toNetwork16(checksum(None, SubSeq(HostIp(p, Zero, HostTcp(p, AnswerTcp(p))), 1, 20)))

LEMMA NoOptions ==
  <<>> \in Options /\ Len(<<>>) = 0 /\ 5 + Len(<<>>) \div 4 = 5
<1>1. Nibble > 7
  BY Bytes
<1>2. <<>> \in Seq(Byte) /\ Len(<<>>) = 0
  OBVIOUS
<1>3. 0 % 4 = 0 /\ 0 \div 4 = 0 /\ 5 + 0 < Nibble
  BY <1>1, Bytes
<1> QED
  BY <1>2, <1>3 DEF Options

(* The segments there are to be sent.                                      *)
LEMMA AnswerPacket ==
  ASSUME NEW reply \in RawSegment, reply.flags \in 0 .. 255,
         NEW payload \in Seq(Byte)
  PROVE  LET p == AsPacket(reply, payload)
         IN  /\ p \in Packet /\ SizeOf(p) = 40 + Len(payload)
             /\ p.ipOptions = <<>> /\ p.tcpOptions = <<>> /\ p.payload = payload
             /\ p.protocol = PROTOCOL_TCP /\ p.flags = reply.flags
             /\ p.src = reply.src[1] /\ p.srcPort = reply.src[2]
             /\ p.dst = reply.dst[1] /\ p.dstPort = reply.dst[2]
             /\ p.seq = reply.seq /\ p.ack = reply.ack
             /\ IpWords(p) = 5 /\ TcpWords(p) = 5
<1> DEFINE p == AsPacket(reply, payload)
<1>1. /\ reply.src[1] \in Long /\ reply.src[2] \in Word
      /\ reply.dst[1] \in Long /\ reply.dst[2] \in Word
      /\ reply.seq \in Long /\ reply.ack \in Long /\ reply.flags \in Byte
  BY DEF RawSegment
<1>2. PROTOCOL_TCP \in Byte
  BY FixedBytes
<1>3. /\ p.ipOptions = <<>> /\ p.tcpOptions = <<>> /\ p.payload = payload
      /\ p.protocol = PROTOCOL_TCP /\ p.flags = reply.flags
      /\ p.src = reply.src[1] /\ p.srcPort = reply.src[2]
      /\ p.dst = reply.dst[1] /\ p.dstPort = reply.dst[2]
      /\ p.seq = reply.seq /\ p.ack = reply.ack
  BY DEF AsPacket
<1>4. p \in Packet
  BY <1>1, <1>2, NoOptions DEF AsPacket, Packet
<1> HIDE DEF p
<1>5. IpWords(p) = 5 /\ TcpWords(p) = 5
  BY <1>3, NoOptions DEF IpWords, TcpWords
<1>6. SizeOf(p) = 40 + Len(payload)
  <2>1. PICK k \in Nat : k = Len(payload)
    BY LenProperties
  <2>2. SizeOf(p) = 40 + 0 + 0 + k
    BY <1>3, <2>1, NoOptions DEF SizeOf
  <2> QED
    BY <2>1, <2>2
<1> QED
  BY <1>3, <1>4, <1>5, <1>6 DEF p

(* buildRawTcp and buildRawIp write what hosts do.                         *)
LEMMA BuiltTcp ==
  ASSUME NEW reply \in RawSegment, reply.flags \in 0 .. 255,
         NEW payload \in Seq(Byte), NEW v \in Nat
  PROVE  buildRawTcp(reply, v, payload) = HostTcp(AsPacket(reply, payload), toNetwork16(v))
<1> DEFINE p == AsPacket(reply, payload)  c == toNetwork16(v)  h == TcpHead(p, c)
<1>1. /\ p \in Packet /\ p.tcpOptions = <<>> /\ p.payload = payload
      /\ p.flags = reply.flags /\ TcpWords(p) = 5
      /\ p.srcPort = reply.src[2] /\ p.dstPort = reply.dst[2]
      /\ p.seq = reply.seq /\ p.ack = reply.ack
  BY AnswerPacket
<1>2. c \in Seq(Byte) /\ Len(c) = 2
  BY Written16
<1> HIDE DEF p
<1>3. buildRawTcp(reply, v, payload) = h \o payload
  BY <1>1 DEF buildRawTcp, TcpHead, TcpHeader
<1>4. HostTcp(p, c) = (h \o p.tcpOptions) \o p.payload
  BY DEF HostTcp, TcpHead, TcpHeader, TcpWords
<1> HIDE DEF c
<1>5. h \in Seq(Byte)
  BY <1>1, <1>2, TcpHeadsAgree
<1> HIDE DEF h
<1>6. h \o <<>> = h
  BY <1>5, ConcatEmptySeq
<1> QED
  BY <1>1, <1>3, <1>4, <1>6 DEF p, c

LEMMA BuiltIp ==
  ASSUME NEW reply \in RawSegment, reply.flags \in 0 .. 255,
         NEW payload \in Seq(Byte), NEW v \in Nat,
         NEW t \in Seq(Byte), Len(t) = 20 + Len(payload)
  PROVE  buildRawIp(reply, v, 40 + Len(payload), t)
           = HostIp(AsPacket(reply, payload), toNetwork16(v), t)
<1> DEFINE p == AsPacket(reply, payload)  d == toNetwork16(v)  h == IpHead(p, d, t)
<1>1. /\ p \in Packet /\ p.ipOptions = <<>> /\ p.protocol = PROTOCOL_TCP
      /\ IpWords(p) = 5 /\ p.src = reply.src[1] /\ p.dst = reply.dst[1]
  BY AnswerPacket
<1>2. d \in Seq(Byte) /\ Len(d) = 2
  BY Written16
<1> HIDE DEF p
<1>3. 4 * IpWords(p) + Len(t) = 40 + Len(payload)
  <2>1. PICK k \in Nat : k = Len(payload)
    BY LenProperties
  <2>2. 4 * 5 + (20 + k) = 40 + k
    OBVIOUS
  <2> QED
    BY <1>1, <2>1, <2>2
<1>4. buildRawIp(reply, v, 40 + Len(payload), t) = h \o t
  BY <1>1, <1>3 DEF buildRawIp, IpHead, IpHeader
<1>5. HostIp(p, d, t) = (h \o p.ipOptions) \o t
  BY DEF HostIp, IpHead, IpHeader, IpWords
<1> HIDE DEF d
<1>6. h \in Seq(Byte)
  BY <1>1, <1>2, IpHeadsAgree
<1> HIDE DEF h
<1>7. h \o <<>> = h
  BY <1>6, ConcatEmptySeq
<1> QED
  BY <1>1, <1>4, <1>5, <1>7 DEF p, d

(* The checksums of an answer: those hosts compute, unless a sum leaves a  *)
(* carry.                                                                  *)
LEMMA AnswerChecksums ==
  ASSUME NEW p \in Packet, SizeOf(p) < Base, p.ipOptions = <<>>
  PROVE  /\ AnswerTcp(p) \in Seq(Byte) /\ Len(AnswerTcp(p)) = 2
         /\ AnswerIp(p) \in Seq(Byte) /\ Len(AnswerIp(p)) = 2
         /\ checksum(Pseudo(p), HostTcp(p, Zero)) \in Nat
         /\ checksum(None, SubSeq(HostIp(p, Zero, HostTcp(p, AnswerTcp(p))), 1, 20)) \in Nat
         /\ LeavesCarry(Pseudo(p), HostTcp(p, Zero)) \/ AnswerTcp(p) = TcpChecksum(p)
         /\ \/ LeavesCarry(None, SubSeq(HostIp(p, Zero, HostTcp(p, Zero)), 1, 20))
            \/ AnswerIp(p) = IpChecksum(p, HostTcp(p, TcpChecksum(p)))
<1> DEFINE c == AnswerTcp(p)  d == AnswerIp(p)  x == TcpChecksum(p)
<1>1. PICK z \in Seq(Byte), m \in Nat : z = HostTcp(p, Zero) /\ Len(z) = m
  BY TcpShape, ZeroBytes
<1>2. PICK ph \in Seq(Word) : ph = Pseudo(p) /\ Len(ph) = 6
  BY <1>1, PacketType, PseudoType DEF Pseudo
<1>3. m < Base
  <2>1. PICK a \in Nat, b \in Nat, k \in Nat :
          a = Len(p.ipOptions) /\ b = Len(p.tcpOptions) /\ k = Len(p.payload)
    BY PacketType
  <2>2. Len(z) = 20 + b + k
    BY <1>1, <2>1, TcpShape, ZeroBytes
  <2>3. SizeOf(p) = 40 + a + b + k
    BY <2>1 DEF SizeOf
  <2>4. m = 20 + b + k /\ 40 + a + b + k < Base /\ Base \in Nat
    BY <1>1, <2>2, <2>3, Bytes
  <2> QED
    BY <2>4
<1>4. 6 + (m + 1) \div 2 < Base
  BY <1>3, Bytes
<1>5. Len(ph) + (Len(z) + 1) \div 2 < Base
  BY <1>1, <1>2, <1>4
<1>6. /\ checksum(ph, z) \in Nat /\ c \in Seq(Byte) /\ Len(c) = 2
      /\ LeavesCarry(ph, z) \/ checksum(ph, z) = HostChecksum(ph, z)
  BY <1>1, <1>2, <1>5, ServerChecksum DEF AnswerTcp
<1>7. LeavesCarry(ph, z) \/ c = x
  BY <1>1, <1>2, <1>6 DEF AnswerTcp, TcpChecksum
<1>8. x \in Seq(Byte) /\ Len(x) = 2
  BY HostTcpValid
<1> HIDE DEF c, x
<1>9. PICK t \in Seq(Byte), u \in Seq(Byte) :
        t = HostTcp(p, c) /\ u = HostTcp(p, x) /\ Len(t) = m /\ Len(u) = m
  BY <1>1, <1>6, <1>8, TcpsAgree
<1>10. PICK h \in Seq(Byte) : h = IpHead(p, Zero, z) /\ Len(h) = 20
  BY <1>1, IpHeadsAgree, ZeroBytes
<1>11. IpHead(p, Zero, t) = h /\ IpHead(p, Zero, u) = h
  BY <1>1, <1>9, <1>10 DEF IpHead
<1>12. ASSUME NEW s \in Seq(Byte), IpHead(p, Zero, s) = h
       PROVE  SubSeq(HostIp(p, Zero, s), 1, 20) = h
  <2>1. PICK f \in Seq(Byte) : f = HostIp(p, Zero, s) /\ At(f, 0, h)
    BY <1>12, IpShape, ZeroBytes
  <2>2. SubSeq(f, 0 + 1, 0 + Len(h)) = h
    BY <2>1, AtSlice
  <2>3. 0 + 1 = 1 /\ 0 + Len(h) = 20
    BY <1>10
  <2> QED
    BY <2>1, <2>2, <2>3
<1>13. /\ SubSeq(HostIp(p, Zero, t), 1, 20) = h /\ SubSeq(HostIp(p, Zero, u), 1, 20) = h
       /\ SubSeq(HostIp(p, Zero, z), 1, 20) = h
  BY <1>10, <1>11, <1>12
<1>14. None \in Seq(Word) /\ Len(None) = 0
  BY DEF None
<1>15. Len(None) + (Len(h) + 1) \div 2 < Base
  <2>1. (20 + 1) \div 2 < Base
    BY Bytes
  <2> QED
    BY <1>10, <1>14, <2>1
<1>16. /\ checksum(None, h) \in Nat
       /\ toNetwork16(checksum(None, h)) \in Seq(Byte)
       /\ Len(toNetwork16(checksum(None, h))) = 2
       /\ LeavesCarry(None, h) \/ checksum(None, h) = HostChecksum(None, h)
  BY <1>10, <1>14, <1>15, ServerChecksum
<1>17. d = toNetwork16(checksum(None, h))
  BY <1>9, <1>13 DEF AnswerIp, c
<1>18. IpChecksum(p, u) = toNetwork16(HostChecksum(None, h))
  <2>1. 20 + Len(p.ipOptions) = 20
    BY NoOptions
  <2> QED
    BY <1>13, <2>1 DEF IpChecksum
<1>19. LeavesCarry(None, h) \/ d = IpChecksum(p, u)
  BY <1>16, <1>17, <1>18
<1> QED
  BY <1>1, <1>2, <1>6, <1>7, <1>9, <1>13, <1>16, <1>17, <1>19 DEF c, x

LEMMA AnswerIsFrame ==
  ASSUME NEW reply \in RawSegment, reply.flags \in 0 .. 255,
         NEW payload \in Seq(Byte), 40 + Len(payload) < Base
  PROVE  LET p == AsPacket(reply, payload)
         IN  RawAnswer(reply, payload) = FrameOf(p, AnswerTcp(p), AnswerIp(p))
<1> DEFINE p == AsPacket(reply, payload)  c == AnswerTcp(p)
<1>1. /\ p \in Packet /\ p.ipOptions = <<>> /\ SizeOf(p) < Base
      /\ p.tcpOptions = <<>> /\ p.payload = payload
      /\ p.protocol = PROTOCOL_TCP /\ p.src = reply.src[1] /\ p.dst = reply.dst[1]
  BY AnswerPacket
<1>2. PICK v \in Nat : v = checksum(Pseudo(p), HostTcp(p, Zero)) /\ c = toNetwork16(v)
  BY <1>1, AnswerChecksums DEF AnswerTcp
<1>3. toNetwork16(0) = Zero
  <2>1. ByteBase \in Nat \ {0} /\ 0 \in 0 .. ByteBase - 1 /\ 0 \in Int
    BY Bytes
  <2>2. (0 * ByteBase + 0) \div ByteBase = 0 /\ (0 * ByteBase + 0) % ByteBase = 0
    BY <2>1, DivMod
  <2>3. 0 * ByteBase + 0 = 0
    BY <2>1
  <2>4. 0 \div ByteBase = 0 /\ 0 % ByteBase = 0
    BY ONLY <2>2, <2>3
  <2> QED
    BY <2>4 DEF toNetwork16, Zero
<1>4. 0 \in Nat
  OBVIOUS
<1>5. buildRawTcp(reply, 0, payload) = HostTcp(p, Zero)
  BY <1>3, <1>4, BuiltTcp
<1>6. buildRawTcp(reply, v, payload) = HostTcp(p, c)
  BY <1>2, BuiltTcp
<1>7. PseudoHeader(reply.src[1], reply.dst[1], PROTOCOL_TCP,
                   Len(buildRawTcp(reply, 0, payload))) = Pseudo(p)
  BY <1>1, <1>5 DEF Pseudo
<1>8. PICK t \in Seq(Byte) : t = HostTcp(p, c) /\ Len(t) = 20 + Len(payload)
  <2>1. c \in Seq(Byte) /\ Len(c) = 2
    BY <1>1, AnswerChecksums
  <2> HIDE DEF c, p
  <2>2. PICK t \in Seq(Byte) : /\ t = HostTcp(p, c)
                               /\ Len(t) = 20 + Len(p.tcpOptions) + Len(p.payload)
    BY <1>1, <2>1, TcpShape
  <2>3. PICK k \in Nat : k = Len(payload)
    BY LenProperties
  <2>4. Len(t) = 20 + 0 + k
    BY <1>1, <2>2, <2>3, NoOptions
  <2>5. 20 + 0 + k = 20 + k
    OBVIOUS
  <2> QED
    BY <2>2, <2>3, <2>4, <2>5
<1>9. buildRawIp(reply, 0, 40 + Len(payload), t) = HostIp(p, Zero, t)
  BY <1>3, <1>4, <1>8, BuiltIp
<1>10. PICK w \in Nat : w = checksum(None, SubSeq(HostIp(p, Zero, t), 1, 20))
                        /\ AnswerIp(p) = toNetwork16(w)
  BY <1>1, <1>8, AnswerChecksums DEF AnswerIp
<1>11. buildRawIp(reply, w, 40 + Len(payload), t) = HostIp(p, AnswerIp(p), t)
  BY <1>8, <1>10, BuiltIp
<1> HIDE DEF p, c
<1>12. RawAnswer(reply, payload) = buildRawIp(reply, w, 40 + Len(payload), t)
  BY <1>2, <1>5, <1>6, <1>7, <1>8, <1>9, <1>10 DEF RawAnswer
<1> QED
  BY <1>8, <1>11, <1>12 DEF FrameOf, p, c

(* A frame without options is a header and a segment.                      *)
LEMMA FrameParts ==
  ASSUME NEW p \in Packet, p.ipOptions = <<>>,
         NEW c \in Seq(Byte), Len(c) = 2, NEW d \in Seq(Byte), Len(d) = 2
  PROVE  LET f == FrameOf(p, c, d)  t == HostTcp(p, c)
         IN  /\ f \in Seq(Byte) /\ Len(f) = 20 + Len(t)
             /\ t \in Seq(Byte) /\ Len(t) \in Nat /\ Len(t) = Len(HostTcp(p, Zero))
             /\ Len(t) >= 20
             /\ At(f, 0, IpHead(p, d, t)) /\ At(f, 20, t)
             /\ IpHead(p, d, t) \in Seq(Byte) /\ Len(IpHead(p, d, t)) = 20
<1>1. PICK t \in Seq(Byte), m \in Nat :
        t = HostTcp(p, c) /\ Len(t) = m /\ Len(HostTcp(p, Zero)) = m /\ m >= 20
  BY TcpsAgree
<1>2. PICK f \in Seq(Byte) : f = HostIp(p, d, t)
  BY <1>1, IpShape
<1>3. PICK h \in Seq(Byte) : h = IpHead(p, d, t) /\ Len(h) = 20
  BY <1>1, IpHeadsAgree
<1>4. PICK n \in Nat : n = Len(p.ipOptions) /\ n = 0
  BY NoOptions
<1>5. Len(f) = 20 + n + m /\ At(f, 0, h) /\ At(f, 20 + n, t)
  BY <1>1, <1>2, <1>3, <1>4, IpShape
<1>6. Len(f) = 20 + m
  BY <1>4, <1>5
<1>7. At(f, 20, t)
  <2>1. 20 + n = 20
    BY <1>4
  <2> QED
    BY <1>5, <2>1
<1> QED
  BY <1>1, <1>2, <1>3, <1>5, <1>6, <1>7 DEF FrameOf

LEMMA AnswerSame ==
  ASSUME NEW p \in Packet, SizeOf(p) < Base, p.ipOptions = <<>>
  PROVE  SameAsHost(FrameOf(p, AnswerTcp(p), AnswerIp(p)), p)
<1> DEFINE c == AnswerTcp(p)  d == AnswerIp(p)
           x == TcpChecksum(p)  y == IpChecksum(p, HostTcp(p, x))
           tcpCarry == LeavesCarry(Pseudo(p), HostTcp(p, Zero))
           ipCarry == LeavesCarry(None, SubSeq(HostIp(p, Zero, HostTcp(p, Zero)), 1, 20))
<1>1. /\ c \in Seq(Byte) /\ Len(c) = 2 /\ d \in Seq(Byte) /\ Len(d) = 2
      /\ tcpCarry \/ c = x
      /\ ipCarry \/ d = y
  BY AnswerChecksums
<1>2. /\ x \in Seq(Byte) /\ Len(x) = 2 /\ y \in Seq(Byte) /\ Len(y) = 2
      /\ HostFrame(p) = FrameOf(p, x, y)
  BY HostFrameShape DEF HostFrameIs
<1> HIDE DEF c, d, x, y, tcpCarry, ipCarry
<1>3. PICK z \in Seq(Byte), m \in Nat : z = HostTcp(p, Zero) /\ Len(z) = m
  BY TcpShape, ZeroBytes
<1>14. PICK f, t, h : f = FrameOf(p, c, d) /\ t = HostTcp(p, c) /\ h = IpHead(p, d, t)
  OBVIOUS
<1>4. /\ f \in Seq(Byte) /\ t \in Seq(Byte) /\ Len(f) = 20 + m /\ Len(t) = m
      /\ \A i \in 1 .. 20 : f[i] = h[i]
      /\ \A i \in 1 .. m : f[20 + i] = t[i]
  <2>1. /\ f \in Seq(Byte) /\ t \in Seq(Byte) /\ Len(f) = 20 + Len(t) /\ Len(t) = m
        /\ At(f, 0, h) /\ At(f, 20, t) /\ h \in Seq(Byte) /\ Len(h) = 20
    BY <1>1, <1>3, <1>14, FrameParts
  <2>2. \A i \in 1 .. 20 : f[0 + i] = h[i]
    BY <2>1 DEF At
  <2>3. \A i \in 1 .. 20 : 0 + i = i
    OBVIOUS
  <2>4. \A i \in 1 .. 20 : f[i] = h[i]
    BY <2>2, <2>3
  <2>5. \A i \in 1 .. m : f[20 + i] = t[i]
    BY <2>1 DEF At
  <2> QED
    BY <2>1, <2>4, <2>5
<1>15. PICK g, u, k : g = FrameOf(p, x, y) /\ u = HostTcp(p, x) /\ k = IpHead(p, y, u)
  OBVIOUS
<1>5. /\ g \in Seq(Byte) /\ u \in Seq(Byte) /\ Len(g) = 20 + m /\ Len(u) = m
      /\ \A i \in 1 .. 20 : g[i] = k[i]
      /\ \A i \in 1 .. m : g[20 + i] = u[i]
  <2>1. /\ g \in Seq(Byte) /\ u \in Seq(Byte) /\ Len(g) = 20 + Len(u) /\ Len(u) = m
        /\ At(g, 0, k) /\ At(g, 20, u) /\ k \in Seq(Byte) /\ Len(k) = 20
    BY <1>2, <1>3, <1>15, FrameParts
  <2>2. \A i \in 1 .. 20 : g[0 + i] = k[i]
    BY <2>1 DEF At
  <2>3. \A i \in 1 .. 20 : 0 + i = i
    OBVIOUS
  <2>4. \A i \in 1 .. 20 : g[i] = k[i]
    BY <2>2, <2>3
  <2>5. \A i \in 1 .. m : g[20 + i] = u[i]
    BY <2>1 DEF At
  <2> QED
    BY <2>1, <2>4, <2>5
<1>16. /\ t \in Seq(Byte) /\ u \in Seq(Byte) /\ Len(t) = Len(u)
       /\ c \in Seq(Byte) /\ d \in Seq(Byte) /\ Len(d) = 2 /\ y \in Seq(Byte) /\ Len(y) = 2
  BY <1>1, <1>2, <1>4, <1>5
<1>17. PICK h0 : h0 = IpHead(p, Zero, t)
  OBVIOUS
<1>6. /\ h0 = IpHead(p, Zero, u)
      /\ ipCarry \/ h = k
  <2>1. IpHead(p, Zero, t) = IpHead(p, Zero, u) /\ IpHead(p, d, t) = IpHead(p, d, u)
    BY <1>16 DEF IpHead
  <2>2. ipCarry \/ d = y
    BY <1>1
  <2> QED
    BY <1>14, <1>15, <1>17, <2>1, <2>2
<1>7. \A i \in 1 .. 20 : i # 11 /\ i # 12 => h[i] = h0[i] /\ k[i] = h0[i]
  <2>1. \A i \in 1 .. 20 : i # 11 /\ i # 12 => IpHead(p, d, t)[i] = IpHead(p, Zero, t)[i]
    BY <1>16, IpHeadsDiffer
  <2>2. \A i \in 1 .. 20 : i # 11 /\ i # 12 => IpHead(p, y, u)[i] = IpHead(p, Zero, u)[i]
    BY <1>16, IpHeadsDiffer
  <2>3. h = IpHead(p, d, t) /\ h0 = IpHead(p, Zero, t)
    BY <1>14, <1>17
  <2>4. k = IpHead(p, y, u) /\ h0 = IpHead(p, Zero, u)
    BY <1>6, <1>15
  <2>5. \A i \in 1 .. 20 : i # 11 /\ i # 12 => h[i] = h0[i]
    BY <2>1, <2>3
  <2>6. \A i \in 1 .. 20 : i # 11 /\ i # 12 => k[i] = h0[i]
    BY <2>2, <2>4
  <2> QED
    BY <2>5, <2>6
<1>8. /\ \A i \in 1 .. m : i # 17 /\ i # 18 => t[i] = z[i]
      /\ \A i \in 1 .. m : i # 17 /\ i # 18 => u[i] = z[i]
  <2>1. /\ \A i \in 1 .. Len(z) : i # 17 /\ i # 18 => t[i] = z[i]
        /\ \A i \in 1 .. Len(z) : i # 17 /\ i # 18 => u[i] = z[i]
    BY <1>1, <1>2, <1>3, <1>14, <1>15, TcpsAgree
  <2> QED
    BY <1>3, <2>1
<1>9. ASSUME NEW i \in 1 .. 20 + m
      PROVE  \/ f[i] = g[i]
             \/ i \in {11, 12} /\ ipCarry
             \/ i \in {37, 38} /\ tcpCarry
  <2>1. CASE i \in 1 .. 20 /\ i # 11 /\ i # 12
    <3>1. f[i] = h[i] /\ g[i] = k[i]
      BY <1>4, <1>5, <2>1
    <3>2. h[i] = k[i]
      BY <1>7, <2>1
    <3> QED
      BY <3>1, <3>2
  <2>2. CASE i \in {11, 12}
    <3>1. i \in 1 .. 20
      BY <2>2
    <3>2. f[i] = h[i] /\ g[i] = k[i]
      BY <1>4, <1>5, <3>1
    <3>3. ipCarry \/ f[i] = g[i]
      BY <1>6, <3>2
    <3> QED
      BY <2>2, <3>3
  <2>3. CASE i \notin 1 .. 20
    <3>1. PICK j \in 1 .. m : i = 20 + j
      <4>1. i - 20 \in 1 .. m /\ i = 20 + (i - 20)
        BY <2>3
      <4> QED
        BY <4>1
    <3>2. f[i] = t[j] /\ g[i] = u[j]
      BY <1>4, <1>5, <3>1
    <3>3. CASE j # 17 /\ j # 18
      BY <1>8, <3>2, <3>3
    <3>4. CASE j = 17 \/ j = 18
      <4>1. i \in {37, 38}
        BY <3>1, <3>4
      <4>2. tcpCarry \/ t = u
        BY <1>1, <1>14, <1>15
      <4> QED
        BY <3>2, <4>1, <4>2
    <3> QED
      BY <3>3, <3>4
  <2> QED
    BY <2>1, <2>2, <2>3
<1>10. DOMAIN f = 1 .. 20 + m /\ Len(f) = Len(g)
  BY <1>4, <1>5
<1> QED
  BY <1>2, <1>3, <1>9, <1>10, <1>14, <1>15 DEF SameAsHost, c, d, tcpCarry, ipCarry

(* The segments that are sent.                                             *)
LEMMA ReplyType ==
  ASSUME NEW seg \in RawSegment, NEW flags \in AnswerFlags, NEW payload \in {<<>>, Page}
  PROVE  LET reply == Reply(seg, flags, payload)
         IN  /\ reply \in RawSegment /\ reply.flags = flags /\ flags \in 0 .. 255
             /\ reply.len = Len(payload)
             /\ payload \in Seq(Byte) /\ 40 + Len(payload) < Base
             /\ payload = IF reply.len = 0 THEN <<>> ELSE Page
<1>1. /\ seg.src \in Long \X Word /\ seg.dst \in Long \X Word /\ seg.seq \in Long
      /\ seg.ack \in Long /\ seg.len \in Int
  BY DEF RawSegment
<1>2. PICK N \in Nat \ {0} : N = Base * Base /\ Long = 0 .. N - 1
  <2>1. Base \in Nat /\ Base >= 1 /\ 1 * Base <= Base * Base /\ Base * Base \in Nat
    BY Bytes, Times
  <2> QED
    BY <2>1 DEF Long
<1>3. PICK n \in Int : n = Segments!Plus(seg.seq, Segments!AckAdvance(seg)) /\ n \in Long
  <2>1. PICK a \in Int : a = seg.seq + Segments!AckAdvance(seg)
    BY <1>1, <1>2 DEF Segments!AckAdvance
  <2>2. a % N \in 0 .. N - 1
    OBVIOUS
  <2>3. Segments!Plus(seg.seq, Segments!AckAdvance(seg)) = a % N
    BY <1>2, <2>1 DEF Segments!Plus
  <2> QED
    BY <1>2, <2>2, <2>3
<1>4. PICK k \in Nat : k = Len(payload)
  BY RawServerAssumption, LenProperties
<1>5. Reply(seg, flags, payload)
        = [src |-> seg.dst, dst |-> seg.src, seq |-> seg.ack, ack |-> n,
           flags |-> flags, len |-> k]
  BY <1>3, <1>4 DEF Reply, Segments!buildRawTcpIpPacket
<1>6. flags \in Byte /\ flags \in 0 .. 255
  <2>1. flags \in {1, 16, 18}
    BY DEF AnswerFlags, FLAG_FIN, FLAG_ACK, FLAG_SYN
  <2>2. 1 \in Byte /\ 16 \in Byte /\ 18 \in Byte
    BY FixedBytes
  <2> QED
    BY <2>1, <2>2
<1>7. payload \in Seq(Byte) /\ 40 + Len(payload) < Base
  <2>1. CASE payload = <<>>
    <3>1. Len(<<>>) = 0 /\ 40 + 0 < Base
      BY NoOptions, Bytes
    <3> QED
      BY <2>1, <3>1
  <2>2. CASE payload = Page
    BY <2>2, RawServerAssumption
  <2> QED
    BY <2>1, <2>2
<1>8. payload = IF k = 0 THEN <<>> ELSE Page
  BY <1>4, NoOptions, RawServerAssumption
<1> QED
  BY <1>1, <1>3, <1>4, <1>5, <1>6, <1>7, <1>8 DEF RawSegment

(* An answer's flags and the length of its payload.                        *)
LEMMA AnswerParts ==
  ASSUME NEW seg \in RawSegment, NEW flags \in AnswerFlags, NEW payload \in {<<>>, Page}
  PROVE  LET reply == Reply(seg, flags, payload)
             p == AsPacket(reply, payload)
             f == RawAnswer(reply, payload)
         IN  /\ p \in Packet /\ SizeOf(p) < Base /\ p.ipOptions = <<>>
             /\ f = FrameOf(p, AnswerTcp(p), AnswerIp(p))
             /\ f \in Seq(Byte) /\ f # None /\ f[34] = flags
             /\ Len(SubSeq(f, 41, Len(f))) = Len(payload)
<1> DEFINE reply == Reply(seg, flags, payload)  p == AsPacket(reply, payload)
           f == RawAnswer(reply, payload)  c == AnswerTcp(p)  d == AnswerIp(p)
<1>0. payload \in Seq(Byte)
  <2>1. <<>> \in Seq(Byte) /\ Page \in Seq(Byte)
    BY RawServerAssumption
  <2> QED
    BY <2>1
<1>11. /\ reply \in RawSegment /\ reply.flags = flags /\ flags \in 0 .. 255
       /\ 40 + Len(payload) < Base
  BY ReplyType
<1> HIDE DEF reply
<1>1. /\ reply \in RawSegment /\ reply.flags = flags /\ reply.flags \in 0 .. 255
      /\ payload \in Seq(Byte) /\ 40 + Len(payload) < Base
  BY <1>0, <1>11
<1>2. /\ p \in Packet /\ SizeOf(p) = 40 + Len(payload) /\ p.ipOptions = <<>>
      /\ p.tcpOptions = <<>> /\ p.payload = payload /\ p.flags = flags
      /\ f = FrameOf(p, c, d)
  BY <1>1, AnswerPacket, AnswerIsFrame
<1>3. SizeOf(p) < Base
  BY <1>1, <1>2
<1> HIDE DEF p, f
<1>4. c \in Seq(Byte) /\ Len(c) = 2 /\ d \in Seq(Byte) /\ Len(d) = 2
  BY <1>2, <1>3, AnswerChecksums
<1> HIDE DEF c, d
<1>5. PICK k \in Nat : k = Len(payload)
  BY <1>1, LenProperties
<1>6. PICK t \in Seq(Byte), h \in Seq(Byte) :
        /\ t = HostTcp(p, c) /\ h = TcpHead(p, c) /\ Len(h) = 20
        /\ Len(t) = 20 + Len(p.tcpOptions) + Len(p.payload)
        /\ At(t, 0, h) /\ At(h, 12, <<TcpWords(p) * Nibble, p.flags>>)
  BY <1>2, <1>4, TcpShape DEF TcpFields
<1>7. Len(t) = 20 + k
  <2>1. Len(t) = 20 + 0 + k
    BY <1>2, <1>5, <1>6, NoOptions
  <2>2. 20 + 0 + k = 20 + k
    OBVIOUS
  <2> QED
    BY <2>1, <2>2
<1>8. f \in Seq(Byte) /\ Len(f) = 20 + Len(t) /\ At(f, 20, t)
  BY <1>2, <1>4, <1>6, FrameParts
<1>9. f[34] = flags
  <2>1. h[12 + 2] = flags
    <3>1. PICK w : w = <<TcpWords(p) * Nibble, p.flags>>
      OBVIOUS
    <3>2. At(h, 12, w) /\ Len(w) = 2 /\ w[2] = flags
      BY <1>2, <1>6, <3>1
    <3> QED
      BY <3>2, At2
  <2>2. \A i \in 1 .. 20 : t[0 + i] = h[i]
    BY <1>6 DEF At
  <2>3. \A i \in 1 .. 20 + k : f[20 + i] = t[i]
    BY <1>7, <1>8 DEF At
  <2>4. 12 + 2 = 14 /\ 14 \in 1 .. 20 /\ 0 + 14 = 14 /\ 14 \in 1 .. 20 + k /\ 20 + 14 = 34
    OBVIOUS
  <2>5. t[14] = h[14] /\ f[34] = t[14]
    BY <2>2, <2>3, <2>4
  <2> QED
    BY <2>1, <2>4, <2>5
<1>10. Len(SubSeq(f, 41, Len(f))) = k
  <2>1. PICK m \in Nat : m = Len(f) /\ m = 40 + k
    BY <1>7, <1>8
  <2>2. 41 \in Int /\ m \in Int /\ \A i \in 41 .. m : f[i] \in Byte
    BY <1>8, <2>1, ElementOfSeq
  <2>3. Len(SubSeq(f, 41, m)) = IF 41 <= m THEN m - 41 + 1 ELSE 0
    BY <2>2, SubSeqProperties
  <2>4. (IF 41 <= m THEN m - 41 + 1 ELSE 0) = k
    BY <2>1
  <2> QED
    BY <2>1, <2>3, <2>4
<1>12. f # None
  <2>1. Len(f) = 40 + k
    BY <1>7, <1>8
  <2>2. Len(f) # Len(None)
    BY <2>1, NoOptions DEF None
  <2> QED
    BY <2>2
<1> QED
  BY <1>2, <1>3, <1>5, <1>8, <1>9, <1>10, <1>12 DEF reply, p, f, c, d

(* What is taken is a segment.                                             *)
LEMMA HeardType ==
  ASSUME RawInv
  PROVE  Read(inRawBuf) \in RawSegment /\ (heard # None => heard = Read(inRawBuf))
<1>1. inRawBuf \in Seq(Byte) /\ Len(inRawBuf) = BufSize /\ BufSize >= 4 * Nibble + 20
  BY RawServerAssumption DEF RawInv, BufferInv
<1>2. Read(inRawBuf) \in RawSegment
  BY <1>1, ReadType
<1> QED
  BY <1>2 DEF RawInv, HeardInv

(* The bytes of an answer are those a host would send, except a checksum   *)
(* whose sum leaves a carry: buildRawTcpIpPacket and sendRawPacket.        *)
THEOREM AnswersAreHosts == Spec => []AnswersAsAHostWould
<1>1. RawInv => AnswersAsAHostWould
  <2> SUFFICES ASSUME RawInv, answer # None
               PROVE  LET reply == Reply(heard, answer[34], SubSeq(answer, 41, Len(answer)))
                      IN  SameAsHost(answer,
                                     AsPacket(reply, IF reply.len = 0 THEN <<>> ELSE Page))
    BY DEF AnswersAsAHostWould
  <2>1. /\ heard # None
        /\ \E flags \in AnswerFlags, payload \in {<<>>, Page} :
             answer = RawAnswer(Reply(heard, flags, payload), payload)
    BY DEF RawInv, AnswerInv
  <2>2. PICK flags \in AnswerFlags, payload \in {<<>>, Page} :
          answer = RawAnswer(Reply(heard, flags, payload), payload)
    BY <2>1
  <2>3. PICK seg \in RawSegment : seg = heard
    BY <2>1, HeardType
  <2>4. PICK reply, p :
          reply = Reply(seg, flags, payload) /\ p = AsPacket(reply, payload)
    OBVIOUS
  <2>5. /\ p \in Packet /\ SizeOf(p) < Base /\ p.ipOptions = <<>>
        /\ answer = FrameOf(p, AnswerTcp(p), AnswerIp(p))
        /\ answer[34] = flags /\ Len(SubSeq(answer, 41, Len(answer))) = Len(payload)
    <3>1. PICK f : f = RawAnswer(reply, payload)
      OBVIOUS
    <3>2. /\ p \in Packet /\ SizeOf(p) < Base /\ p.ipOptions = <<>>
          /\ f = FrameOf(p, AnswerTcp(p), AnswerIp(p))
          /\ f[34] = flags /\ Len(SubSeq(f, 41, Len(f))) = Len(payload)
      BY <2>4, <3>1, AnswerParts
    <3>3. f = answer
      BY <2>2, <2>3, <2>4, <3>1
    <3> QED
      BY <3>2, <3>3
  <2>6. SameAsHost(answer, p)
    BY <2>5, AnswerSame
  <2>7. Reply(heard, answer[34], SubSeq(answer, 41, Len(answer))) = reply
    BY <2>3, <2>4, <2>5 DEF Reply
  <2>8. payload = IF reply.len = 0 THEN <<>> ELSE Page
    BY <2>4, ReplyType
  <2> QED
    BY <2>4, <2>6, <2>7, <2>8
<1> QED
  BY <1>1, RawServerInvariant, PTL

-----------------------------------------------------------------------------
(* The server on judged frames.  The flags byte and the set of its bits.   *)
FlagSet(n) == {f \in DOMAIN FlagBit : (n \div FlagBit[f]) % 2 = 1}

LEMMA Bits ==
  ASSUME NEW n \in 0 .. 255
  PROVE  n = (n % 2) + 2 * ((n \div 2) % 2) + 4 * ((n \div 4) % 2) + 8 * ((n \div 8) % 2)
             + 16 * ((n \div 16) % 2) + 32 * ((n \div 32) % 2) + 64 * ((n \div 64) % 2)
             + 128 * ((n \div 128) % 2)
OBVIOUS

LEMMA Members ==
  ASSUME NEW n \in 0 .. 255
  PROVE  /\ FlagSet(n) \subseteq {"FIN", "SYN", "RST", "PSH", "ACK", "URG", "ECE", "CWR"}
         /\ "FIN" \in FlagSet(n) <=> n % 2 = 1
         /\ "SYN" \in FlagSet(n) <=> (n \div 2) % 2 = 1
         /\ "RST" \in FlagSet(n) <=> (n \div 4) % 2 = 1
         /\ "PSH" \in FlagSet(n) <=> (n \div 8) % 2 = 1
         /\ "ACK" \in FlagSet(n) <=> (n \div 16) % 2 = 1
         /\ "URG" \in FlagSet(n) <=> (n \div 32) % 2 = 1
         /\ "ECE" \in FlagSet(n) <=> (n \div 64) % 2 = 1
         /\ "CWR" \in FlagSet(n) <=> (n \div 128) % 2 = 1
<1>1. DOMAIN FlagBit = {"FIN", "SYN", "RST", "PSH", "ACK", "URG", "ECE", "CWR"}
  BY DEF FlagBit
<1>2. /\ FlagBit["FIN"] = 1 /\ FlagBit["SYN"] = 2 /\ FlagBit["RST"] = 4 /\ FlagBit["PSH"] = 8
      /\ FlagBit["ACK"] = 16 /\ FlagBit["URG"] = 32 /\ FlagBit["ECE"] = 64
      /\ FlagBit["CWR"] = 128
  BY DEF FlagBit
<1>3. n \div 1 = n
  OBVIOUS
<1> QED
  BY <1>1, <1>2, <1>3 DEF FlagSet

(* The flags the server looks for, and those it sends.                     *)
LEMMA FlagSets ==
  ASSUME NEW n \in 0 .. 255
  PROVE  /\ FlagSet(n) \subseteq Segments!Flag
         /\ n = FLAG_SYN <=> FlagSet(n) = {"SYN"}
         /\ n = FLAG_ACK <=> FlagSet(n) = {"ACK"}
         /\ n = FLAG_FIN => FlagSet(n) = {"FIN"}
         /\ n = FLAG_SYN + FLAG_ACK => FlagSet(n) = {"SYN", "ACK"}
         /\ HasFin(n) <=> "FIN" \in FlagSet(n)
<1> DEFINE b0 == n % 2  b1 == (n \div 2) % 2  b2 == (n \div 4) % 2  b3 == (n \div 8) % 2
           b4 == (n \div 16) % 2  b5 == (n \div 32) % 2  b6 == (n \div 64) % 2
           b7 == (n \div 128) % 2
<1>1. /\ b0 \in 0 .. 1 /\ b1 \in 0 .. 1 /\ b2 \in 0 .. 1 /\ b3 \in 0 .. 1
      /\ b4 \in 0 .. 1 /\ b5 \in 0 .. 1 /\ b6 \in 0 .. 1 /\ b7 \in 0 .. 1
  OBVIOUS
<1>2. n = b0 + 2 * b1 + 4 * b2 + 8 * b3 + 16 * b4 + 32 * b5 + 64 * b6 + 128 * b7
  BY Bits
<1>3. /\ FlagSet(n) \subseteq {"FIN", "SYN", "RST", "PSH", "ACK", "URG", "ECE", "CWR"}
      /\ "FIN" \in FlagSet(n) <=> b0 = 1
      /\ "SYN" \in FlagSet(n) <=> b1 = 1
      /\ "RST" \in FlagSet(n) <=> b2 = 1
      /\ "PSH" \in FlagSet(n) <=> b3 = 1
      /\ "ACK" \in FlagSet(n) <=> b4 = 1
      /\ "URG" \in FlagSet(n) <=> b5 = 1
      /\ "ECE" \in FlagSet(n) <=> b6 = 1
      /\ "CWR" \in FlagSet(n) <=> b7 = 1
  BY Members
<1>4. HasFin(n) <=> b0 = 1
  BY DEF HasFin
<1> HIDE DEF b0, b1, b2, b3, b4, b5, b6, b7
<1>5. ASSUME n = 2 PROVE FlagSet(n) = {"SYN"}
  <2>1. b0 = 0 /\ b1 = 1 /\ b2 = 0 /\ b3 = 0 /\ b4 = 0 /\ b5 = 0 /\ b6 = 0 /\ b7 = 0
    BY <1>1, <1>2, <1>5
  <2> QED
    BY <1>3, <2>1
<1>6. ASSUME n = 16 PROVE FlagSet(n) = {"ACK"}
  <2>1. b0 = 0 /\ b1 = 0 /\ b2 = 0 /\ b3 = 0 /\ b4 = 1 /\ b5 = 0 /\ b6 = 0 /\ b7 = 0
    BY <1>1, <1>2, <1>6
  <2> QED
    BY <1>3, <2>1
<1>7. ASSUME n = 1 PROVE FlagSet(n) = {"FIN"}
  <2>1. b0 = 1 /\ b1 = 0 /\ b2 = 0 /\ b3 = 0 /\ b4 = 0 /\ b5 = 0 /\ b6 = 0 /\ b7 = 0
    BY <1>1, <1>2, <1>7
  <2> QED
    BY <1>3, <2>1
<1>8. ASSUME n = 18 PROVE FlagSet(n) = {"SYN", "ACK"}
  <2>1. b0 = 0 /\ b1 = 1 /\ b2 = 0 /\ b3 = 0 /\ b4 = 1 /\ b5 = 0 /\ b6 = 0 /\ b7 = 0
    BY <1>1, <1>2, <1>8
  <2> QED
    BY <1>3, <2>1
<1>9. ASSUME FlagSet(n) = {"SYN"} PROVE n = 2
  <2>1. b0 # 1 /\ b1 = 1 /\ b2 # 1 /\ b3 # 1 /\ b4 # 1 /\ b5 # 1 /\ b6 # 1 /\ b7 # 1
    BY <1>3, <1>9
  <2> QED
    BY <1>1, <1>2, <2>1
<1>10. ASSUME FlagSet(n) = {"ACK"} PROVE n = 16
  <2>1. b0 # 1 /\ b1 # 1 /\ b2 # 1 /\ b3 # 1 /\ b4 = 1 /\ b5 # 1 /\ b6 # 1 /\ b7 # 1
    BY <1>3, <1>10
  <2> QED
    BY <1>1, <1>2, <2>1
<1>11. FLAG_SYN = 2 /\ FLAG_ACK = 16 /\ FLAG_FIN = 1 /\ FLAG_SYN + FLAG_ACK = 18
  BY DEF FLAG_SYN, FLAG_ACK, FLAG_FIN
<1> QED
  BY <1>3, <1>4, <1>5, <1>6, <1>7, <1>8, <1>9, <1>10, <1>11 DEF Segments!Flag

(* A segment with its flags as a set.                                      *)
LEMMA FlagsAsSet ==
  ASSUME NEW seg \in RawSegment
  PROVE  WithFlagSet(seg) = [src |-> seg.src, dst |-> seg.dst, seq |-> seg.seq,
                             ack |-> seg.ack, flags |-> FlagSet(seg.flags), len |-> seg.len]
<1>1. seg = [src |-> seg.src, dst |-> seg.dst, seq |-> seg.seq, ack |-> seg.ack,
             flags |-> seg.flags, len |-> seg.len]
  BY DEF RawSegment
<1>2. WithFlagSet(seg) = [seg EXCEPT !.flags = FlagSet(seg.flags)]
  BY DEF WithFlagSet, FlagSet
<1> QED
  BY <1>1, <1>2

(* A host reads in an answer the segment the server means.                 *)
LEMMA AnswerReads ==
  ASSUME NEW seg \in RawSegment, NEW flags \in AnswerFlags, NEW payload \in {<<>>, Page}
  PROVE  Read(RawAnswer(Reply(seg, flags, payload), payload)) = Reply(seg, flags, payload)
<1>1. PICK reply, p, f : /\ reply = Reply(seg, flags, payload)
                         /\ p = AsPacket(reply, payload) /\ f = RawAnswer(reply, payload)
  OBVIOUS
<1>2. /\ p \in Packet /\ SizeOf(p) < Base /\ p.ipOptions = <<>> /\ f \in Seq(Byte)
      /\ f = FrameOf(p, AnswerTcp(p), AnswerIp(p))
  BY <1>1, AnswerParts
<1>3. /\ AnswerTcp(p) \in Seq(Byte) /\ Len(AnswerTcp(p)) = 2
      /\ AnswerIp(p) \in Seq(Byte) /\ Len(AnswerIp(p)) = 2
  BY <1>2, AnswerChecksums
<1>4. At(f, 0, f)
  <2>1. Len(f) \in Nat
    BY <1>2, LenProperties
  <2>2. \A i \in 1 .. Len(f) : 0 + i = i
    OBVIOUS
  <2> QED
    BY <2>1, <2>2 DEF At
<1>5. Read(f) = Meant(p)
  BY <1>2, <1>3, <1>4, ReadFrame
<1>6. reply \in RawSegment /\ reply.len = Len(payload)
  BY <1>1, ReplyType
<1>7. /\ p.src = reply.src[1] /\ p.srcPort = reply.src[2]
      /\ p.dst = reply.dst[1] /\ p.dstPort = reply.dst[2]
      /\ p.seq = reply.seq /\ p.ack = reply.ack /\ p.flags = reply.flags
      /\ p.payload = payload
  BY <1>1 DEF AsPacket
<1>8. /\ reply = [src |-> reply.src, dst |-> reply.dst, seq |-> reply.seq,
                  ack |-> reply.ack, flags |-> reply.flags, len |-> reply.len]
      /\ reply.src = <<reply.src[1], reply.src[2]>>
      /\ reply.dst = <<reply.dst[1], reply.dst[2]>>
  BY <1>6 DEF RawSegment
<1> QED
  BY <1>1, <1>5, <1>6, <1>7, <1>8 DEF Meant

LEMMA AnswerSegment ==
  ASSUME NEW seg \in RawSegment, NEW flags \in AnswerFlags, NEW payload \in {<<>>, Page}
  PROVE  WithFlagSet(Read(RawAnswer(Reply(seg, flags, payload), payload)))
           = Judged!buildRawTcpIpPacket(WithFlagSet(seg), FlagSet(flags), Len(payload))
<1>1. PICK reply \in RawSegment : reply = Reply(seg, flags, payload)
  BY ReplyType
<1>2. reply = [src |-> seg.dst, dst |-> seg.src, seq |-> seg.ack,
               ack |-> Segments!Plus(seg.seq, Segments!AckAdvance(seg)),
               flags |-> flags, len |-> Len(payload)]
  BY <1>1 DEF Reply, Segments!buildRawTcpIpPacket
<1>3. WithFlagSet(reply)
        = [src |-> seg.dst, dst |-> seg.src, seq |-> seg.ack,
           ack |-> Segments!Plus(seg.seq, Segments!AckAdvance(seg)),
           flags |-> FlagSet(flags), len |-> Len(payload)]
  BY <1>2, FlagsAsSet
<1>4. PICK s : s = WithFlagSet(seg)
  OBVIOUS
<1>5. s.src = seg.src /\ s.dst = seg.dst /\ s.seq = seg.seq /\ s.ack = seg.ack /\ s.len = seg.len
  BY <1>4, FlagsAsSet
<1>6. Judged!Plus(s.seq, Judged!AckAdvance(s)) = Segments!Plus(seg.seq, Segments!AckAdvance(seg))
  BY <1>5 DEF Judged!Plus, Judged!AckAdvance, Segments!Plus, Segments!AckAdvance
<1>7. Judged!buildRawTcpIpPacket(s, FlagSet(flags), Len(payload)) = WithFlagSet(reply)
  BY <1>3, <1>5, <1>6 DEF Judged!buildRawTcpIpPacket
<1> QED
  BY <1>1, <1>4, <1>7, AnswerReads

(* Nobody is remembered while the server listens.                          *)
SessionInv == pc = "listen" => session = <<>>

LEMMA SessionInvNext == SessionInv /\ [Next]_vars => SessionInv'
<1> SUFFICES ASSUME SessionInv, [Next]_vars PROVE SessionInv'
  OBVIOUS
<1>1. CASE HostPacketComes \/ ForeignComes \/ DamagedComes
  BY <1>1 DEF HostPacketComes, ForeignComes, DamagedComes, readRawPacket, SessionInv
<1>2. CASE DropFrame \/ AnswerSent
  BY <1>2 DEF DropFrame, AnswerSent, program, SessionInv
<1>3. CASE ThreeWayHandshake
  BY <1>3 DEF ThreeWayHandshake, NextTcpIpPacket, SessionInv
<1>4. CASE ServeRequest
  BY <1>4 DEF ServeRequest, SessionInv
<1>5. CASE FourWayClose
  BY <1>5 DEF FourWayClose, NextTcpIpPacket, SessionInv
<1>6. CASE UNCHANGED vars
  BY <1>6 DEF vars, program, SessionInv
<1> QED
  BY <1>1, <1>2, <1>3, <1>4, <1>5, <1>6 DEF Next

(* The frames that are awaited, and how WebServer has them.                *)
LEMMA FrameArrives ==
  ASSUME NEW raw, readRawPacket(raw),
         judged' \in {Unfit} \cup {Fit(Meant(p)) : p \in HostPackets}
  PROVE  Judged!Arrive
<1>1. /\ doing = "read" /\ doing' = "parse" /\ answer = None /\ answer' = None
      /\ UNCHANGED <<pc, session>>
  BY DEF readRawPacket
<1>2. Len(<<>>) + Len(<<>>) < 1
  BY NoOptions
<1>3. Judged!Room
  BY <1>1, <1>2 DEF Judged!Room
<1>4. Append(<<>>, judged') = <<judged'>>
  OBVIOUS
<1>5. \E f \in {Unfit} \cup {Fit(Meant(p)) : p \in HostPackets} :
        (IF doing = "read" THEN <<>> ELSE <<judged>>)'
          = Append(IF doing = "read" THEN <<>> ELSE <<judged>>, f)
  BY <1>1, <1>4
<1>6. UNCHANGED (IF answer = None THEN <<>> ELSE <<WithFlagSet(Read(answer))>>)
  BY <1>1
<1> QED
  BY <1>1, <1>3, <1>5, <1>6 DEF Judged!Arrive

LEMMA FrameTaken ==
  ASSUME RawInv, MeantInv, NEW wait, NextTcpIpPacket(wait)
  PROVE  /\ Judged!NextTcpIpPacket(wait) /\ Judged!Packet = WithFlagSet(heard')
         /\ heard' \in RawSegment /\ answer = None /\ pc = wait
         /\ Judged!Packet.flags = {"SYN"} <=> heard'.flags = FLAG_SYN
         /\ Judged!Packet.flags = {"ACK"} <=> heard'.flags = FLAG_ACK
         /\ "FIN" \in Judged!Packet.flags <=> HasFin(heard'.flags)
<1>1. /\ heard' = Read(inRawBuf) /\ answer = None /\ origin # None
      /\ judged = Judgement(inRawBuf, bufSz) /\ doing = "parse" /\ doing' = "read"
      /\ Accepted(inRawBuf, bufSz) /\ pc = wait
  BY Taken
<1>2. judged = Fit(heard')
  BY <1>1 DEF Judgement
<1>3. PICK p \in HostPackets : p = origin
  BY <1>1 DEF RawInv, BufferInv
<1>4. heard' = Meant(p)
  BY <1>1, <1>3 DEF MeantInv
<1>5. heard'.flags \in 0 .. 255
  BY <1>3, <1>4, HostFrames, PacketType DEF Meant
<1>6. heard' \in RawSegment
  BY <1>1, HeardType
<1>7. /\ judged.ipOk /\ judged.ver = IPv4 /\ judged.protocol = PROTOCOL_TCP /\ judged.tcpOk
      /\ judged.seg = WithFlagSet(heard')
  BY <1>2 DEF Fit
<1>8. Head(<<judged>>) = judged /\ Tail(<<judged>>) = <<>> /\ <<judged>> # <<>>
  OBVIOUS
<1>9. Judged!Accepted(judged)
  BY <1>7 DEF Judged!Accepted, IPv4, PROTOCOL_TCP, Judged!IPv4, Judged!PROTOCOL_TCP
<1>10. Judged!NextTcpIpPacket(wait)
  BY <1>1, <1>8, <1>9 DEF Judged!NextTcpIpPacket
<1>11. Judged!Packet = WithFlagSet(heard')
  BY <1>1, <1>7, <1>8 DEF Judged!Packet
<1>12. PICK seg \in RawSegment, n \in 0 .. 255 : seg = heard' /\ n = seg.flags
  BY <1>5, <1>6
<1>13. WithFlagSet(seg).flags = FlagSet(n)
  BY <1>12, FlagsAsSet
<1>14. Judged!Packet.flags = FlagSet(n) /\ heard'.flags = n
  BY <1>11, <1>12, <1>13
<1>15. /\ Judged!Packet.flags = {"SYN"} <=> heard'.flags = FLAG_SYN
       /\ Judged!Packet.flags = {"ACK"} <=> heard'.flags = FLAG_ACK
       /\ "FIN" \in Judged!Packet.flags <=> HasFin(heard'.flags)
  <2>1. HasFin(heard'.flags) <=> HasFin(n)
    BY <1>14 DEF HasFin
  <2>2. n = FLAG_SYN <=> FlagSet(n) = {"SYN"}
    BY FlagSets
  <2>3. n = FLAG_ACK <=> FlagSet(n) = {"ACK"}
    BY FlagSets
  <2>4. HasFin(n) <=> "FIN" \in FlagSet(n)
    BY FlagSets
  <2> QED
    BY <1>14, <2>1, <2>2, <2>3, <2>4
<1> QED
  BY <1>1, <1>6, <1>10, <1>11, <1>15

LEMMA AnswerIsSent ==
  ASSUME RawInv, MeantInv, NEW wait, NextTcpIpPacket(wait),
         NEW flags \in AnswerFlags, NEW payload \in {<<>>, Page}, SendAnswer(flags, payload)
  PROVE  Judged!SendAnswer(FlagSet(flags), Len(payload))
<1>1. heard' \in RawSegment /\ answer = None /\ Judged!Packet = WithFlagSet(heard')
  BY FrameTaken
<1>2. PICK seg \in RawSegment :
        seg = heard' /\ answer' = RawAnswer(Reply(seg, flags, payload), payload)
  BY <1>1 DEF SendAnswer
<1>3. answer' # None
  BY <1>2, AnswerParts
<1>4. WithFlagSet(Read(answer'))
        = Judged!buildRawTcpIpPacket(Judged!Packet, FlagSet(flags), Len(payload))
  BY <1>1, <1>2, AnswerSegment
<1>5. (IF answer = None THEN <<>> ELSE <<WithFlagSet(Read(answer))>>)'
        = <<WithFlagSet(Read(answer'))>>
  BY <1>3
<1>6. \A s : Append(<<>>, s) = <<s>>
  OBVIOUS
<1> QED
  BY <1>1, <1>4, <1>5, <1>6 DEF Judged!SendAnswer

LEMMA FrameDropped ==
  ASSUME RawInv, DropFrame
  PROVE  Judged!DropFrame
<1>1. /\ doing = "parse" /\ ~Accepted(inRawBuf, bufSz) /\ doing' = "read"
      /\ UNCHANGED <<pc, session, answer>>
  BY DEF DropFrame, program
<1>2. judged = Unfit
  BY <1>1 DEF RawInv, ParseInv, Judgement
<1>3. ~Judged!Accepted(judged)
  BY <1>2 DEF Unfit, Judged!Accepted
<1>4. Head(<<judged>>) = judged /\ Tail(<<judged>>) = <<>> /\ <<judged>> # <<>>
  OBVIOUS
<1>5. UNCHANGED (IF answer = None THEN <<>> ELSE <<WithFlagSet(Read(answer))>>)
  BY <1>1
<1> QED
  BY <1>1, <1>3, <1>4, <1>5 DEF Judged!DropFrame

(* What comes is unfit, or what a host means.                              *)
LEMMA FrameJudged ==
  ASSUME Cuts \subseteq 4 .. 39, DamageShows, RawInv, MeantInv,
         HostPacketComes \/ ForeignComes \/ DamagedComes
  PROVE  Judged!Arrive
<1>1. RawInv' /\ MeantInv'
  BY RawInvNext, MeantInvNext DEF Next
<1>2. PICK raw : readRawPacket(raw)
  BY DEF HostPacketComes, ForeignComes, DamagedComes
<1>5. PICK buf, sz : buf = inRawBuf' /\ sz = bufSz'
  OBVIOUS
<1>3. doing' = "parse" /\ judged' = Judgement(buf, sz)
  BY <1>2, <1>5 DEF readRawPacket
<1>4. judged' \in {Unfit} \cup {Fit(Meant(p)) : p \in HostPackets}
  <2>1. CASE ~Accepted(buf, sz)
    BY <1>3, <2>1 DEF Judgement
  <2>2. CASE Accepted(buf, sz)
    <3>1. Accepted(inRawBuf, bufSz)' /\ Read(inRawBuf)' = Read(buf)
      BY <1>5, <2>2, Later
    <3>2. origin' # None /\ origin' \in {None} \cup HostPackets
      BY <1>1, <1>3, <3>1 DEF RawInv, BufferInv, HeardInv
    <3>3. Read(buf) = Meant(origin')
      BY <1>1, <3>1, <3>2 DEF MeantInv, Meant
    <3>4. judged' = Fit(Meant(origin'))
      BY <1>3, <2>2, <3>3 DEF Judgement
    <3> QED
      BY <3>2, <3>4
  <2> QED
    BY <2>1, <2>2
<1> QED
  BY <1>2, <1>4, FrameArrives

LEMMA HandshakeStep ==
  ASSUME RawInv, MeantInv, SessionInv, ThreeWayHandshake
  PROVE  Judged!Server
<1>1. CASE NextTcpIpPacket("listen") /\ heard'.flags = FLAG_SYN
  <2>1. SendAnswer(FLAG_SYN + FLAG_ACK, <<>>) /\ pc' = "handshake" /\ Remember
    BY <1>1 DEF ThreeWayHandshake, NextTcpIpPacket
  <2>2. /\ Judged!NextTcpIpPacket("listen") /\ Judged!Packet = WithFlagSet(heard')
        /\ pc = "listen"
    BY <1>1, FrameTaken
  <2>3. Judged!Packet.flags = {"SYN"}
    BY <1>1, FrameTaken
  <2>4. Judged!SendAnswer(FlagSet(FLAG_SYN + FLAG_ACK), Len(<<>>))
    BY <1>1, <2>1, AnswerIsSent DEF AnswerFlags
  <2>5. FlagSet(FLAG_SYN + FLAG_ACK) = {"SYN", "ACK"} /\ Len(<<>>) = 0
    <3>1. FLAG_SYN + FLAG_ACK \in 0 .. 255
      BY DEF FLAG_SYN, FLAG_ACK
    <3> QED
      BY <3>1, FlagSets, NoOptions
  <2>6. session' = <<Judged!Packet>>
    <3>1. session = <<>>
      BY <2>2 DEF SessionInv
    <3>2. session' = Append(<<>>, Judged!Packet)
      BY <2>1, <2>2, <3>1 DEF Remember
    <3>3. \A s : Append(<<>>, s) = <<s>>
      OBVIOUS
    <3> QED
      BY <3>2, <3>3
  <2> QED
    BY <2>1, <2>2, <2>3, <2>4, <2>5, <2>6 DEF Judged!Server, Judged!AnswerSyn
<1>2. CASE NextTcpIpPacket("listen") /\ heard'.flags # FLAG_SYN
  <2>1. StaySilent /\ UNCHANGED <<pc, session>>
    BY <1>2 DEF ThreeWayHandshake, NextTcpIpPacket
  <2>2. Judged!NextTcpIpPacket("listen") /\ Judged!Packet = WithFlagSet(heard')
    BY <1>2, FrameTaken
  <2>3. Judged!Packet.flags # {"SYN"}
    BY <1>2, FrameTaken
  <2>4. UNCHANGED (IF answer = None THEN <<>> ELSE <<WithFlagSet(Read(answer))>>)
    BY <2>1 DEF StaySilent
  <2> QED
    BY <2>1, <2>2, <2>3, <2>4 DEF Judged!Server, Judged!IgnoreNotSyn
<1>3. CASE NextTcpIpPacket("handshake") /\ heard'.flags = FLAG_ACK
  <2>1. StaySilent /\ pc' = "request" /\ Remember
    BY <1>3 DEF ThreeWayHandshake, NextTcpIpPacket
  <2>2. Judged!NextTcpIpPacket("handshake") /\ Judged!Packet = WithFlagSet(heard')
    BY <1>3, FrameTaken
  <2>3. Judged!Packet.flags = {"ACK"}
    BY <1>3, FrameTaken
  <2>4. UNCHANGED (IF answer = None THEN <<>> ELSE <<WithFlagSet(Read(answer))>>)
    BY <2>1 DEF StaySilent
  <2>5. session' = Append(session, Judged!Packet)
    BY <2>1, <2>2 DEF Remember
  <2> QED
    BY <2>1, <2>2, <2>3, <2>4, <2>5 DEF Judged!Server, Judged!CompleteHandshake
<1>4. CASE NextTcpIpPacket("handshake") /\ heard'.flags # FLAG_ACK
  <2>1. StaySilent /\ pc' = "listen" /\ session' = <<>>
    BY <1>4 DEF ThreeWayHandshake, NextTcpIpPacket
  <2>2. Judged!NextTcpIpPacket("handshake") /\ Judged!Packet = WithFlagSet(heard')
    BY <1>4, FrameTaken
  <2>3. Judged!Packet.flags # {"ACK"}
    BY <1>4, FrameTaken
  <2>4. UNCHANGED (IF answer = None THEN <<>> ELSE <<WithFlagSet(Read(answer))>>)
    BY <2>1 DEF StaySilent
  <2> QED
    BY <2>1, <2>2, <2>3, <2>4 DEF Judged!Server, Judged!AbandonHandshake
<1> QED
  BY <1>1, <1>2, <1>3, <1>4 DEF ThreeWayHandshake

LEMMA RequestStep ==
  ASSUME RawInv, MeantInv, ServeRequest
  PROVE  Judged!Server
<1>1. /\ NextTcpIpPacket("request") /\ SendAnswer(FLAG_ACK, Page)
      /\ pc' = "ack" /\ Remember
  BY DEF ServeRequest
<1>2. Judged!NextTcpIpPacket("request") /\ Judged!Packet = WithFlagSet(heard')
  BY <1>1, FrameTaken
<1>3. Judged!SendAnswer(FlagSet(FLAG_ACK), Len(Page))
  BY <1>1, AnswerIsSent DEF AnswerFlags
<1>4. FlagSet(FLAG_ACK) = {"ACK"}
  <2>1. FLAG_ACK \in 0 .. 255
    BY DEF FLAG_ACK
  <2> QED
    BY <2>1, FlagSets
<1>5. session' = Append(session, Judged!Packet)
  BY <1>1, <1>2 DEF Remember
<1> QED
  BY <1>1, <1>2, <1>3, <1>4, <1>5 DEF Judged!Server, Judged!ServeRequest

LEMMA CloseStep ==
  ASSUME RawInv, MeantInv, FourWayClose
  PROVE  Judged!Server
<1>0. FlagSet(FLAG_FIN) = {"FIN"} /\ FlagSet(FLAG_ACK) = {"ACK"} /\ Len(<<>>) = 0
  <2>1. FLAG_ACK \in 0 .. 255 /\ FLAG_FIN \in 0 .. 255
    BY DEF FLAG_ACK, FLAG_FIN
  <2> QED
    BY <2>1, FlagSets, NoOptions
<1>1. CASE NextTcpIpPacket("ack")
  <2>1. SendAnswer(FLAG_FIN, <<>>) /\ pc' = "fin" /\ Remember
    BY <1>1 DEF FourWayClose, NextTcpIpPacket
  <2>2. Judged!NextTcpIpPacket("ack") /\ Judged!Packet = WithFlagSet(heard')
    BY <1>1, FrameTaken
  <2>3. Judged!SendAnswer(FlagSet(FLAG_FIN), Len(<<>>))
    BY <1>1, <2>1, AnswerIsSent DEF AnswerFlags
  <2>4. session' = Append(session, Judged!Packet)
    BY <2>1, <2>2 DEF Remember
  <2> QED
    BY <1>0, <2>1, <2>2, <2>3, <2>4 DEF Judged!Server, Judged!StartClose
<1>2. CASE NextTcpIpPacket("fin") /\ HasFin(heard'.flags)
  <2>1. SendAnswer(FLAG_ACK, <<>>) /\ pc' = "listen" /\ session' = <<>>
    BY <1>2 DEF FourWayClose, NextTcpIpPacket
  <2>2. Judged!NextTcpIpPacket("fin") /\ Judged!Packet = WithFlagSet(heard')
    BY <1>2, FrameTaken
  <2>3. "FIN" \in Judged!Packet.flags
    BY <1>2, FrameTaken
  <2>4. Judged!SendAnswer(FlagSet(FLAG_ACK), Len(<<>>))
    BY <1>2, <2>1, AnswerIsSent DEF AnswerFlags
  <2> QED
    BY <1>0, <2>1, <2>2, <2>3, <2>4 DEF Judged!Server, Judged!FinishClose
<1>3. CASE NextTcpIpPacket("fin") /\ ~HasFin(heard'.flags)
  <2>1. StaySilent /\ UNCHANGED <<pc, session>>
    BY <1>3 DEF FourWayClose, NextTcpIpPacket
  <2>2. Judged!NextTcpIpPacket("fin") /\ Judged!Packet = WithFlagSet(heard')
    BY <1>3, FrameTaken
  <2>3. "FIN" \notin Judged!Packet.flags
    BY <1>3, FrameTaken
  <2>4. UNCHANGED (IF answer = None THEN <<>> ELSE <<WithFlagSet(Read(answer))>>)
    BY <2>1 DEF StaySilent
  <2> QED
    BY <2>1, <2>2, <2>3, <2>4 DEF Judged!Server, Judged!AwaitFin
<1> QED
  BY <1>1, <1>2, <1>3 DEF FourWayClose

LEMMA AnswerLeaves == AnswerSent => Judged!Transmit
<1> SUFFICES ASSUME AnswerSent PROVE Judged!Transmit
  OBVIOUS
<1>1. answer # None /\ answer' = None /\ UNCHANGED <<judged, doing, pc, session>>
  BY DEF AnswerSent, frame
<1>2. <<WithFlagSet(Read(answer))>> # <<>> /\ Tail(<<WithFlagSet(Read(answer))>>) = <<>>
  OBVIOUS
<1> QED
  BY <1>1, <1>2 DEF Judged!Transmit

(* The server on bytes is the server on judged frames: what it takes is    *)
(* what a host means, what it sends is read as what it means, and it waits *)
(* and remembers alike (nextTcpIpPacket, threeWayHandshake, fourWayClose,  *)
(* sendRawPacket).                                                         *)
THEOREM RawServerImplements ==
  ASSUME Cuts \subseteq 4 .. 39, DamageShows
  PROVE  Spec => ImplementsWebServer
<1>1. Init => Judged!OpenInit
  BY DEF Init, Judged!OpenInit, Judged!LineInit, Judged!ServerInit
<1>2. Init => MeantInv /\ SessionInv
  BY DEF Init, MeantInv, SessionInv
<1>3. RawInv /\ MeantInv /\ SessionInv /\ [Next]_vars => MeantInv' /\ SessionInv'
  BY MeantInvNext, SessionInvNext
<1>4. RawInv /\ MeantInv /\ SessionInv /\ [Next]_vars
        => [Judged!OpenNext]_(Judged!serverVars)
  <2> SUFFICES ASSUME RawInv, MeantInv, SessionInv, [Next]_vars
               PROVE  [Judged!OpenNext]_(Judged!serverVars)
    OBVIOUS
  <2>1. CASE HostPacketComes \/ ForeignComes \/ DamagedComes
    BY <2>1, FrameJudged DEF Judged!OpenNext
  <2>2. CASE DropFrame
    BY <2>2, FrameDropped DEF Judged!OpenNext, Judged!Server
  <2>3. CASE ThreeWayHandshake
    BY <2>3, HandshakeStep DEF Judged!OpenNext
  <2>4. CASE ServeRequest
    BY <2>4, RequestStep DEF Judged!OpenNext
  <2>5. CASE FourWayClose
    BY <2>5, CloseStep DEF Judged!OpenNext
  <2>6. CASE AnswerSent
    BY <2>6, AnswerLeaves DEF Judged!OpenNext
  <2>7. CASE UNCHANGED vars
    BY <2>7 DEF vars, program, frame, Judged!serverVars
  <2> QED
    BY <2>1, <2>2, <2>3, <2>4, <2>5, <2>6, <2>7 DEF Next
<1> QED
  BY <1>1, <1>2, <1>3, <1>4, RawServerInvariant, PTL
     DEF Spec, ImplementsWebServer, Judged!OpenSpec

-----------------------------------------------------------------------------
(* What WebServer guarantees it so guarantees on bytes: the constants it   *)
(* has here are such as it asks for.                                       *)
Guarantees == INSTANCE WebServer_proofs WITH
  Hosts <- Long \X Word, SeqMod <- Base * Base, MaxLen <- Base - 1, PageLen <- Len(Page),
  InFlight <- 1, Arrivals <- {Unfit} \cup {Fit(Meant(p)) : p \in HostPackets},
  rx <- IF doing = "read" THEN <<>> ELSE <<judged>>,
  tx <- IF answer = None THEN <<>> ELSE <<WithFlagSet(Read(answer))>>

LEMMA MeantIsFrame ==
  ASSUME NEW p \in HostPackets
  PROVE  Fit(Meant(p)) \in Guarantees!Frame
<1>1. p \in Packet /\ SizeOf(p) < Base
  BY RawServerAssumption
<1>2. /\ Len(p.payload) \in Nat /\ Len(p.ipOptions) \in Nat /\ Len(p.tcpOptions) \in Nat
      /\ p.src \in Long /\ p.dst \in Long /\ p.srcPort \in Word /\ p.dstPort \in Word
      /\ p.seq \in Long /\ p.ack \in Long /\ p.flags \in Byte /\ p.flags \in 0 .. 255
  BY <1>1, PacketType
<1>3. Base \in Nat
  BY Bytes
<1>4. Len(p.payload) \in -(Base - 1) .. Base - 1
  <2>1. ASSUME NEW a \in Nat, NEW b \in Nat, NEW c \in Nat, 40 + a + b + c < Base
        PROVE  c \in -(Base - 1) .. Base - 1
    BY <1>3, <2>1
  <2> QED
    BY <1>1, <1>2, <2>1 DEF SizeOf
<1>5. Meant(p) \in RawSegment
  BY <1>2 DEF Meant, RawSegment
<1>6. WithFlagSet(Meant(p)) =
        [src |-> <<p.src, p.srcPort>>, dst |-> <<p.dst, p.dstPort>>, seq |-> p.seq,
         ack |-> p.ack, flags |-> FlagSet(p.flags), len |-> Len(p.payload)]
  BY <1>5, FlagsAsSet DEF Meant
<1>7. FlagSet(p.flags) \subseteq Guarantees!Flag
  BY <1>2, FlagSets DEF Segments!Flag, Guarantees!Flag
<1>8. WithFlagSet(Meant(p)) \in Guarantees!Segment
  BY <1>2, <1>4, <1>6, <1>7 DEF Guarantees!Segment, Guarantees!SeqNumber, Long
<1> QED
  BY <1>8 DEF Fit, Guarantees!Frame, IPv4, PROTOCOL_TCP

LEMMA UnfitIsFrame == Unfit \in Guarantees!Frame
<1>1. 0 \in Long /\ 0 \in Word /\ 0 \in -(Base - 1) .. Base - 1
  BY Bytes DEF Long, Word
<1>2. NoSegment \in Guarantees!Segment
  BY <1>1 DEF NoSegment, Guarantees!Segment, Guarantees!SeqNumber, Long
<1> QED
  BY <1>2 DEF Unfit, Guarantees!Frame

LEMMA ConstantsFit ==
  /\ {Unfit} \cup {Fit(Meant(p)) : p \in HostPackets} \subseteq Guarantees!Frame
  /\ 1 \in Nat
  /\ Base * Base \in Nat /\ Base - 1 \in Nat /\ Base - 1 < Base * Base
  /\ Len(Page) \in 1 .. Base - 1
<1>1. Base * Base \in Nat /\ Base \in Nat /\ Base > 1
  BY Bytes
<1>2. 1 * Base <= Base * Base
  BY <1>1, Times
<1>3. Len(Page) \in Nat /\ Len(Page) > 0 /\ 40 + Len(Page) < Base
  BY RawServerAssumption, LenProperties
<1>4. Base - 1 \in Nat /\ Base - 1 < Base * Base /\ Len(Page) \in 1 .. Base - 1
  BY <1>1, <1>2, <1>3
<1> QED
  BY <1>1, <1>4, MeantIsFrame, UnfitIsFrame

LEMMA SameServer == ImplementsWebServer => Guarantees!OpenSpec
<1>1. Judged!OpenInit => Guarantees!OpenInit
  BY DEF Judged!OpenInit, Judged!LineInit, Judged!ServerInit,
         Guarantees!OpenInit, Guarantees!LineInit, Guarantees!ServerInit
<1>2. [Judged!OpenNext]_(Judged!serverVars) => [Guarantees!OpenNext]_(Guarantees!serverVars)
  BY DEF Judged!OpenNext, Judged!serverVars, Guarantees!OpenNext, Guarantees!serverVars,
         Judged!Server, Guarantees!Server, Judged!Arrive, Guarantees!Arrive,
         Judged!Room, Guarantees!Room, Judged!Transmit, Guarantees!Transmit,
         Judged!DropFrame, Guarantees!DropFrame, Judged!Accepted, Guarantees!Accepted,
         Judged!IPv4, Guarantees!IPv4, Judged!PROTOCOL_TCP, Guarantees!PROTOCOL_TCP,
         Judged!AnswerSyn, Guarantees!AnswerSyn, Judged!IgnoreNotSyn, Guarantees!IgnoreNotSyn,
         Judged!CompleteHandshake, Guarantees!CompleteHandshake,
         Judged!AbandonHandshake, Guarantees!AbandonHandshake,
         Judged!ServeRequest, Guarantees!ServeRequest, Judged!StartClose, Guarantees!StartClose,
         Judged!AwaitFin, Guarantees!AwaitFin, Judged!FinishClose, Guarantees!FinishClose,
         Judged!NextTcpIpPacket, Guarantees!NextTcpIpPacket,
         Judged!Packet, Guarantees!Packet, Judged!SendAnswer, Guarantees!SendAnswer,
         Judged!buildRawTcpIpPacket, Guarantees!buildRawTcpIpPacket,
         Judged!Plus, Guarantees!Plus, Judged!AckAdvance, Guarantees!AckAdvance
<1> QED
  BY <1>1, <1>2, PTL DEF ImplementsWebServer, Judged!OpenSpec, Guarantees!OpenSpec

(* Whatever whole, foreign or damaged frames come: while the server waits  *)
(* for a request or later it has taken a SYN and right after it a bare ACK *)
(* from the bytes it read (kernel_main, threeWayHandshake on a frame       *)
(* buffer).                                                                *)
THEOREM HandshakeFirstOnBytes ==
  ASSUME Cuts \subseteq 4 .. 39, DamageShows
  PROVE  Spec => []Judged!HandshakeFirst
<1>1. Guarantees!HandshakeFirst => Judged!HandshakeFirst
  BY DEF Guarantees!HandshakeFirst, Judged!HandshakeFirst
<1>2. Spec => ImplementsWebServer
  BY RawServerImplements
<1>3. Guarantees!OpenSpec => []Guarantees!HandshakeFirst
  BY Guarantees!HandshakeComesFirst, ConstantsFit, PTL
<1> QED
  BY <1>1, <1>2, <1>3, SameServer, PTL
=============================================================================
