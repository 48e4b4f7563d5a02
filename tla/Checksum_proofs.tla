-------------------------- MODULE Checksum_proofs ---------------------------
(***************************************************************************)
(* What the server's validation lets pass, for bytes of every width, every *)
(* header and every length.  What the loop of _checksum computes (SumOf)   *)
(* and what RFC 1071 asks for (OnesSumOf) are compared step by step; then  *)
(* both are numbers, and the rest is arithmetic modulo Base - 1.           *)
(***************************************************************************)
EXTENDS Checksum, SequenceTheorems, WellFoundedInduction, TLAPS

(* There is one quotient and one remainder.                                *)
LEMMA DivMod ==
  ASSUME NEW B \in Nat \ {0}, NEW q \in Int, NEW r \in 0 .. B - 1
  PROVE  (q * B + r) \div B = q /\ (q * B + r) % B = r
  OBVIOUS

LEMMA DivModExists ==
  ASSUME NEW B \in Nat \ {0}, NEW a \in Nat
  PROVE  /\ a \div B \in Nat /\ a % B \in 0 .. B - 1
         /\ a = (a \div B) * B + (a % B)
  OBVIOUS

(* The sum of the two halves of a number, and the complement of a number   *)
(* of up to twice a word's values, cut off to a word.                      *)
LEMMA HalvesSum ==
  ASSUME NEW B \in Nat \ {0}, NEW q \in Int, NEW r \in 0 .. B - 1,
         NEW t, t = q * B + r
  PROVE  (t \div B) + (t % B) = q + r
<1>1. t \div B = q /\ t % B = r
  BY DivMod
<1> QED
  BY <1>1

LEMMA ComplementMod ==
  ASSUME NEW B \in Nat \ {0}, B > 3, NEW f \in 0 .. 2 * B - 3
  PROVE  /\ f < B => (B * B - 1 - f) % B = B - 1 - f
         /\ f >= B => (B * B - 1 - f) % B = 2 * B - 1 - f
<1>1. ASSUME f < B PROVE (B * B - 1 - f) % B = B - 1 - f
  <2>1. B - 1 - f \in 0 .. B - 1 /\ B - 1 \in Int
    BY <1>1
  <2>2. ((B - 1) * B + (B - 1 - f)) % B = B - 1 - f
    BY <2>1, DivMod
  <2>3. (B - 1) * B + (B - 1 - f) = B * B - 1 - f
    OBVIOUS
  <2> QED
    BY <2>2, <2>3
<1>2. ASSUME f >= B PROVE (B * B - 1 - f) % B = 2 * B - 1 - f
  <2>1. 2 * B - 1 - f \in 0 .. B - 1 /\ B - 2 \in Int
    BY <1>2
  <2>2. ((B - 2) * B + (2 * B - 1 - f)) % B = 2 * B - 1 - f
    BY <2>1, DivMod
  <2>3. (B - 2) * B + (2 * B - 1 - f) = B * B - 1 - f
    OBVIOUS
  <2> QED
    BY <2>2, <2>3
<1> QED
  BY <1>1, <1>2

(* A word has more than one value.                                         *)
LEMMA BaseType == Base \in Nat /\ Base > 3
<1>1. ByteBase \in Nat /\ ByteBase >= 2
  BY ChecksumAssumption
<1>2. ByteBase * ByteBase >= 2 * ByteBase
  BY <1>1
<1> QED
  BY <1>1, <1>2 DEF Base

(* The upper half of a sum of fewer than Base words is less than a word,   *)
(* and what is left after one fold less than two.                          *)
LEMMA FoldBound ==
  ASSUME NEW sum \in Nat, sum < Base * (Base - 1)
  PROVE  /\ sum \div Base \in 0 .. Base - 2
         /\ sum % Base \in 0 .. Base - 1
         /\ FoldOnce(sum) \in 0 .. 2 * Base - 3
<1> DEFINE B == Base  q == sum \div B  r == sum % B
<1>1. B \in Nat \ {0} /\ B > 3
  BY BaseType
<1>2. q \in Nat /\ r \in 0 .. B - 1 /\ sum = q * B + r
  BY <1>1, DivModExists
<1>3. q < B - 1
  <2>1. SUFFICES ASSUME q >= B - 1 PROVE FALSE
    BY <1>1, <1>2
  <2> HIDE DEF q, r, B
  <2>2. q * B >= (B - 1) * B
    BY <1>1, <1>2, <2>1
  <2>3. sum < B * (B - 1)
    BY DEF B
  <2> QED
    BY <1>1, <1>2, <2>2, <2>3
<1>4. q \in 0 .. B - 2 /\ r \in 0 .. B - 1
  <2> HIDE DEF q, r, B
  <2> QED
    BY <1>1, <1>2, <1>3
<1>5. q + r \in 0 .. 2 * B - 3
  <2> HIDE DEF q, r, B
  <2> QED
    BY <1>1, <1>4
<1> QED
  BY <1>4, <1>5 DEF FoldOnce

(* The complement of a folded sum is taken in a word: where the fold left  *)
(* a carry, the carry is dropped.                                          *)
LEMMA ComplementValue ==
  ASSUME NEW sum \in Nat, sum < Base * (Base - 1)
  PROVE  /\ FoldOnce(sum) < Base => ComplementOf(sum) = Base - 1 - FoldOnce(sum)
         /\ FoldOnce(sum) >= Base => ComplementOf(sum) = 2 * Base - 1 - FoldOnce(sum)
<1>1. Base \in Nat \ {0} /\ Base > 3 /\ FoldOnce(sum) \in 0 .. 2 * Base - 3
  BY BaseType, FoldBound
<1> QED
  BY <1>1, ComplementMod DEF ComplementOf

-----------------------------------------------------------------------------
(* The complement of a sum is zero just if its two halves add up to all    *)
(* ones.                                                                   *)
LEMMA FoldTest ==
  ASSUME NEW sum \in Nat, sum < Base * (Base - 1)
  PROVE  ComplementOf(sum) = 0 <=> FoldOnce(sum) = Base - 1
<1>1. Base \in Nat /\ Base > 3 /\ FoldOnce(sum) \in 0 .. 2 * Base - 3
  BY BaseType, FoldBound
<1> QED
  BY <1>1, ComplementValue

(* A checksum built without a carry is one: with it in the packet the sum  *)
(* folds to all ones.  With a carry it is one too large, and not even the  *)
(* server would accept its own packet (buildRawTcpIpPacket, both times).   *)
THEOREM BuiltBarCarry ==
  ASSUME NEW sum \in Nat, sum < Base * (Base - 1)
  PROVE  LET total == sum + ComplementOf(sum)
         IN  /\ FoldOnce(sum) < Base => FoldOnce(total) = Base - 1
             /\ FoldOnce(sum) >= Base => FoldOnce(total) = Base
<1> DEFINE q == sum \div Base  r == sum % Base
           total == sum + ComplementOf(sum)
<1>1. Base \in Nat \ {0} /\ Base > 3
  BY BaseType
<1>2. q \in 0 .. Base - 2 /\ r \in 0 .. Base - 1 /\ FoldOnce(sum) = q + r
  BY FoldBound DEF FoldOnce
<1>3. sum = q * Base + r
  BY <1>1, DivModExists
<1>4. FoldOnce(total) = (total \div Base) + (total % Base)
  BY DEF FoldOnce
<1>5. ASSUME FoldOnce(sum) < Base PROVE FoldOnce(total) = Base - 1
  <2>1. ComplementOf(sum) = Base - 1 - FoldOnce(sum)
    BY <1>5, ComplementValue
  <2>2. total = sum + (Base - 1 - FoldOnce(sum))
    BY <2>1
  <2> HIDE DEF q, r, total
  <2>3. total = q * Base + (Base - 1 - q)
    BY <1>1, <1>2, <1>3, <2>2
  <2>4. Base - 1 - q \in 0 .. Base - 1 /\ q \in Int
    BY <1>1, <1>2
  <2>5. (total \div Base) + (total % Base) = q + (Base - 1 - q)
    BY <1>1, <2>3, <2>4, HalvesSum
  <2> QED
    BY <1>1, <1>2, <1>4, <2>5
<1>6. ASSUME FoldOnce(sum) >= Base PROVE FoldOnce(total) = Base
  <2>1. ComplementOf(sum) = 2 * Base - 1 - FoldOnce(sum)
    BY <1>6, ComplementValue
  <2>2. total = sum + (2 * Base - 1 - FoldOnce(sum))
    BY <2>1
  <2> HIDE DEF q, r, total
  <2>3. total = (q + 1) * Base + (Base - 1 - q)
    BY <1>1, <1>2, <1>3, <2>2
  <2>4. Base - 1 - q \in 0 .. Base - 1 /\ q + 1 \in Int
    BY <1>1, <1>2
  <2>5. (total \div Base) + (total % Base) = (q + 1) + (Base - 1 - q)
    BY <1>1, <2>3, <2>4, HalvesSum
  <2> QED
    BY <1>1, <1>2, <1>4, <2>5
<1> QED
  BY <1>5, <1>6

-----------------------------------------------------------------------------
(* Induction, for the set of the numbers that have the property.           *)
LEMMA SetInduction ==
  ASSUME NEW S, 0 \in S, \A n \in Nat : n \in S => n + 1 \in S
  PROVE  Nat \subseteq S
<1> DEFINE Less == {pair \in Nat \X Nat : pair[1] < pair[2]}
           T == Nat \ S
<1>1. IsWellFoundedOn(Less, Nat)
  BY NatLessThanWellFounded DEF OpToRel
<1>2. SUFFICES ASSUME T # {} PROVE FALSE
  OBVIOUS
<1>3. T \subseteq Nat
  OBVIOUS
<1> HIDE DEF T, Less
<1>4. PICK n \in T : \A m \in T : ~(<<m, n>> \in Less)
  BY <1>1, <1>2, <1>3, WFMin
<1>5. n \in Nat /\ n \notin S
  BY <1>3, <1>4 DEF T
<1>6. n - 1 \in Nat /\ n - 1 < n /\ (n - 1) + 1 = n
  BY <1>5
<1>7. n - 1 \notin T
  BY <1>4, <1>5, <1>6 DEF Less
<1>8. n - 1 \in S
  BY <1>6, <1>7 DEF T
<1> QED
  BY <1>5, <1>6, <1>8

(* The sums the loop goes through.                                         *)
Sums(w, s) ==
  /\ s \in [0 .. Len(w) -> Nat] /\ s[0] = 0
  /\ \A i \in 1 .. Len(w) : s[i] = s[i - 1] + w[i]

LEMMA SumsExist ==
  ASSUME NEW w \in Seq(Nat)
  PROVE  \E s : Sums(w, s) /\ SumOf(w) = s[Len(w)]
<1> DEFINE Upto(m, s) == /\ s \in [0 .. m -> Nat] /\ s[0] = 0
                         /\ \A i \in 1 .. m : s[i] = s[i - 1] + w[i]
           S == {m \in Nat : m <= Len(w) => \E s : Upto(m, s)}
<1>1. Len(w) \in Nat /\ \A i \in 1 .. Len(w) : w[i] \in Nat
  BY LenProperties, ElementOfSeq
<1>2. 0 \in S
  <2>1. Upto(0, [i \in 0 .. 0 |-> 0])
    OBVIOUS
  <2> QED
    BY <2>1
<1> HIDE DEF Upto
<1>3. ASSUME NEW m \in Nat, m \in S PROVE m + 1 \in S
  <2>1. SUFFICES ASSUME m + 1 <= Len(w) PROVE \E s : Upto(m + 1, s)
    OBVIOUS
  <2>2. PICK s : Upto(m, s)
    BY <1>1, <1>3, <2>1
  <2> DEFINE t == [i \in 0 .. m + 1 |-> IF i = m + 1 THEN s[m] + w[m + 1] ELSE s[i]]
  <2>3. m + 1 \in 1 .. Len(w) /\ w[m + 1] \in Nat /\ s[m] \in Nat
    BY <1>1, <2>1, <2>2 DEF Upto
  <2>4. \A i \in 0 .. m + 1 : t[i] \in Nat
    BY <2>2, <2>3 DEF Upto
  <2>5. t \in [0 .. m + 1 -> Nat] /\ t[0] = 0
    BY <2>2, <2>4 DEF Upto
  <2>6. \A i \in 1 .. m + 1 : t[i] = t[i - 1] + w[i]
    <3>1. \A i \in 0 .. m : t[i] = s[i]
      OBVIOUS
    <3>2. t[m + 1] = s[m] + w[m + 1]
      OBVIOUS
    <3> HIDE DEF t
    <3>3. ASSUME NEW i \in 1 .. m + 1 PROVE t[i] = t[i - 1] + w[i]
      <4>1. CASE i = m + 1
        BY <3>1, <3>2, <4>1
      <4>2. CASE i \in 1 .. m
        BY <2>2, <3>1, <4>2 DEF Upto
      <4> QED
        BY <4>1, <4>2
    <3> QED
      BY <3>3
  <2> QED
    BY <2>5, <2>6 DEF Upto
<1>4. PICK s : Upto(Len(w), s)
  <2> HIDE DEF S
  <2>1. Len(w) \in S
    BY <1>1, <1>2, <1>3, SetInduction
  <2> QED
    BY <1>1, <2>1 DEF S
<1>5. s = [i \in 0 .. Len(w) |-> IF i = 0 THEN 0 ELSE s[i - 1] + w[i]]
  BY <1>1, <1>4 DEF Upto
<1>6. PICK t : /\ t = [i \in 0 .. Len(w) |-> IF i = 0 THEN 0 ELSE t[i - 1] + w[i]]
               /\ SumOf(w) = t[Len(w)]
  BY <1>5 DEF SumOf
<1>7. \A i \in 0 .. Len(w) : t[i] = IF i = 0 THEN 0 ELSE t[i - 1] + w[i]
  BY <1>6
<1> DEFINE E == {i \in Nat : i <= Len(w) => t[i] = s[i]}
<1>8. 0 \in E
  BY <1>1, <1>4, <1>7 DEF Upto
<1>9. ASSUME NEW i \in Nat, i \in E PROVE i + 1 \in E
  <2>1. SUFFICES ASSUME i + 1 <= Len(w) PROVE t[i + 1] = s[i + 1]
    OBVIOUS
  <2>2. t[i] = s[i]
    BY <1>1, <1>9, <2>1
  <2>3. i + 1 \in 0 .. Len(w) /\ i + 1 \in 1 .. Len(w) /\ i + 1 # 0 /\ (i + 1) - 1 = i
    BY <1>1, <2>1
  <2>4. t[i + 1] = t[(i + 1) - 1] + w[i + 1]
    BY <1>7, <2>3
  <2>5. s[i + 1] = s[(i + 1) - 1] + w[i + 1]
    BY <1>4, <2>3 DEF Upto
  <2> QED
    BY <2>2, <2>3, <2>4, <2>5
<1>10. t[Len(w)] = s[Len(w)]
  <2> HIDE DEF E
  <2>1. Len(w) \in E
    BY <1>1, <1>8, <1>9, SetInduction
  <2> QED
    BY <1>1, <2>1 DEF E
<1> QED
  BY <1>4, <1>6, <1>10 DEF Sums, Upto

LEMMA SumType ==
  ASSUME NEW w \in Seq(Nat)
  PROVE  SumOf(w) \in Nat
BY SumsExist, LenProperties DEF Sums

(* The sum of up to n words.                                               *)
LEMMA SumBound ==
  ASSUME NEW w \in Seq(Nat), NEW b \in Nat, \A i \in 1 .. Len(w) : w[i] <= b
  PROVE  SumOf(w) <= Len(w) * b
<1>1. PICK s : Sums(w, s) /\ SumOf(w) = s[Len(w)]
  BY SumsExist
<1>2. Len(w) \in Nat /\ \A i \in 1 .. Len(w) : w[i] \in Nat
  BY LenProperties, ElementOfSeq
<1> DEFINE S == {m \in Nat : m <= Len(w) => s[m] <= m * b}
<1>3. 0 \in S
  BY <1>1 DEF Sums
<1>4. ASSUME NEW m \in Nat, m \in S PROVE m + 1 \in S
  <2>1. ASSUME m + 1 <= Len(w) PROVE s[m + 1] <= (m + 1) * b
    <3>1. m \in 0 .. Len(w) /\ m + 1 \in 1 .. Len(w) /\ (m + 1) - 1 = m
      BY <1>2, <2>1
    <3>2. s[m + 1] = s[m] + w[m + 1] /\ s[m] \in Nat
      BY <1>1, <3>1 DEF Sums
    <3>3. s[m] <= m * b /\ w[m + 1] <= b /\ w[m + 1] \in Nat
      BY <1>2, <1>4, <3>1
    <3>4. (m + 1) * b = m * b + b /\ m * b \in Nat
      OBVIOUS
    <3> QED
      BY <3>2, <3>3, <3>4
  <2> QED
    BY <2>1
<1> HIDE DEF S
<1>5. Len(w) \in S
  BY <1>2, <1>3, <1>4, SetInduction
<1> QED
  BY <1>1, <1>2, <1>5 DEF S

(* One word is changed.                                                    *)
LEMMA SumChange ==
  ASSUME NEW u \in Seq(Nat), NEW v \in Seq(Nat), Len(v) = Len(u), NEW j \in 1 .. Len(u),
         \A i \in 1 .. Len(u) : i # j => v[i] = u[i]
  PROVE  SumOf(v) + u[j] = SumOf(u) + v[j]
<1>1. PICK s : Sums(u, s) /\ SumOf(u) = s[Len(u)]
  BY SumsExist
<1>2. PICK t : Sums(v, t) /\ SumOf(v) = t[Len(v)]
  BY SumsExist
<1>3. /\ Len(u) \in Nat /\ \A i \in 1 .. Len(u) : u[i] \in Nat /\ v[i] \in Nat
      /\ u[j] \in Nat /\ v[j] \in Nat /\ j \in Nat
  BY LenProperties, ElementOfSeq
<1> DEFINE S == {m \in Nat : m <= Len(u) => /\ m < j => t[m] = s[m]
                                            /\ m >= j => t[m] + u[j] = s[m] + v[j]}
<1>4. 0 \in S
  BY <1>1, <1>2 DEF Sums
<1>5. ASSUME NEW m \in Nat, m \in S PROVE m + 1 \in S
  <2>1. ASSUME m + 1 <= Len(u)
        PROVE  /\ m + 1 < j => t[m + 1] = s[m + 1]
               /\ m + 1 >= j => t[m + 1] + u[j] = s[m + 1] + v[j]
    <3>1. m \in 0 .. Len(u) /\ m + 1 \in 1 .. Len(u) /\ (m + 1) - 1 = m
      BY <1>3, <2>1
    <3>2. s[m + 1] = s[m] + u[m + 1] /\ s[m] \in Nat /\ u[m + 1] \in Nat
      BY <1>1, <1>3, <3>1 DEF Sums
    <3>3. t[m + 1] = t[m] + v[m + 1] /\ t[m] \in Nat /\ v[m + 1] \in Nat
      BY <1>2, <1>3, <3>1 DEF Sums
    <3>4. /\ m < j => t[m] = s[m]
          /\ m >= j => t[m] + u[j] = s[m] + v[j]
      BY <1>5, <3>1
    <3>5. CASE m + 1 < j
      <4>1. m < j /\ v[m + 1] = u[m + 1] /\ ~(m + 1 >= j)
        BY <1>3, <3>1, <3>5
      <4> QED
        BY <3>2, <3>3, <3>4, <4>1
    <3>6. CASE m + 1 = j
      <4>1. t[m + 1] = t[m] + v[j] /\ s[m + 1] = s[m] + u[j] /\ t[m] = s[m] /\ ~(m + 1 < j)
        BY <1>3, <3>2, <3>3, <3>4, <3>6
      <4>2. u[j] \in Nat /\ v[j] \in Nat /\ s[m] \in Nat
        BY <1>3, <3>2
      <4>3. t[m + 1] + u[j] = s[m + 1] + v[j]
        BY <4>1, <4>2
      <4> QED
        BY <4>1, <4>3
    <3>7. CASE m + 1 > j
      <4>1. m >= j /\ v[m + 1] = u[m + 1] /\ ~(m + 1 < j)
        BY <1>3, <3>1, <3>7
      <4>2. t[m + 1] = t[m] + u[m + 1] /\ t[m] + u[j] = s[m] + v[j]
        BY <3>3, <3>4, <4>1
      <4>3. u[j] \in Nat /\ v[j] \in Nat
        BY <1>3
      <4>4. t[m + 1] + u[j] = s[m + 1] + v[j]
        <5> DEFINE a == t[m]  b == s[m]  c == u[m + 1]  x == u[j]  y == v[j]
        <5>1. a \in Nat /\ b \in Nat /\ c \in Nat /\ x \in Nat /\ y \in Nat /\ a + x = b + y
          BY <3>2, <3>3, <4>2, <4>3
        <5>2. t[m + 1] = a + c /\ s[m + 1] = b + c
          BY <3>2, <4>2
        <5> HIDE DEF a, b, c, x, y
        <5>3. (a + c) + x = (b + c) + y
          BY ONLY <5>1
        <5> QED
          BY <5>2, <5>3 DEF x, y
      <4> QED
        BY <4>1, <4>4
    <3> QED
      BY <3>5, <3>6, <3>7
  <2> QED
    BY <2>1
<1> HIDE DEF S
<1>6. Len(u) \in S
  BY <1>3, <1>4, <1>5, SetInduction
<1> QED
  BY <1>1, <1>2, <1>3, <1>6 DEF S

(* One word is put in.                                                     *)
LEMMA SumInsert ==
  ASSUME NEW u \in Seq(Nat), NEW v \in Seq(Nat), Len(v) = Len(u) + 1, NEW j \in 1 .. Len(v),
         \A i \in 1 .. Len(v) : /\ i < j => v[i] = u[i]
                                /\ i > j => v[i] = u[i - 1]
  PROVE  SumOf(v) = SumOf(u) + v[j]
<1>1. PICK s : Sums(u, s) /\ SumOf(u) = s[Len(u)]
  BY SumsExist
<1>2. PICK t : Sums(v, t) /\ SumOf(v) = t[Len(v)]
  BY SumsExist
<1>3. /\ Len(u) \in Nat /\ \A i \in 1 .. Len(u) : u[i] \in Nat
      /\ \A i \in 1 .. Len(v) : v[i] \in Nat
      /\ v[j] \in Nat /\ j \in Nat
  <2>1. Len(u) \in Nat /\ Len(v) \in Nat
    BY LenProperties
  <2>2. \A i \in 1 .. Len(u) : u[i] \in Nat
    BY ElementOfSeq
  <2>3. \A i \in 1 .. Len(v) : v[i] \in Nat
    BY ElementOfSeq
  <2> QED
    BY <2>1, <2>2, <2>3
<1> DEFINE S == {m \in Nat : m <= Len(v) => /\ m < j => t[m] = s[m]
                                            /\ m >= j => t[m] = s[m - 1] + v[j]}
<1>4. 0 \in S
  BY <1>1, <1>2 DEF Sums
<1>5. ASSUME NEW m \in Nat, m \in S PROVE m + 1 \in S
  <2>1. ASSUME m + 1 <= Len(v)
        PROVE  /\ m + 1 < j => t[m + 1] = s[m + 1]
               /\ m + 1 >= j => t[m + 1] = s[(m + 1) - 1] + v[j]
    <3>1. m \in 0 .. Len(v) /\ m + 1 \in 1 .. Len(v) /\ (m + 1) - 1 = m /\ m \in 0 .. Len(u)
      BY <1>3, <2>1
    <3>2. t[m + 1] = t[m] + v[m + 1] /\ t[m] \in Nat /\ v[m + 1] \in Nat /\ s[m] \in Nat
      BY <1>1, <1>2, <1>3, <3>1 DEF Sums
    <3>3. /\ m < j => t[m] = s[m]
          /\ m >= j => t[m] = s[m - 1] + v[j]
      BY <1>5, <3>1
    <3>4. CASE m + 1 < j
      <4>1. m + 1 \in 1 .. Len(u) /\ v[m + 1] = u[m + 1]
        <5>1. m + 1 \in 1 .. Len(u)
          BY <1>3, <3>1, <3>4
        <5> QED
          BY <3>1, <3>4, <5>1
      <4>2. s[m + 1] = s[m] + u[m + 1] /\ m < j /\ ~(m + 1 >= j)
        BY <1>1, <1>3, <3>1, <3>4, <4>1, SMTT(20) DEF Sums
      <4> QED
        BY <3>1, <3>2, <3>3, <3>4, <4>1, <4>2
    <3>5. CASE m + 1 = j
      <4>1. t[m + 1] = t[m] + v[j] /\ t[m] = s[m] /\ ~(m + 1 < j)
        BY <1>3, <3>2, <3>3, <3>5
      <4> QED
        BY <3>1, <4>1
    <3>6. CASE m + 1 > j
      <4>1. m \in 1 .. Len(u) /\ v[m + 1] = u[m] /\ u[m] \in Nat
        <5>1. m \in 1 .. Len(u)
          BY <1>3, <3>1, <3>6
        <5>2. v[m + 1] = u[(m + 1) - 1]
          BY <3>1, <3>6
        <5> QED
          BY <1>3, <3>1, <5>1, <5>2
      <4>2. s[m] = s[m - 1] + u[m] /\ s[m - 1] \in Nat
        <5>1. m - 1 \in 0 .. Len(u)
          BY <1>3, <4>1
        <5> QED
          BY <1>1, <4>1, <5>1 DEF Sums
      <4>3. t[m] = s[m - 1] + v[j] /\ ~(m + 1 < j)
        BY <1>3, <3>1, <3>3, <3>6
      <4>4. t[m + 1] = s[m] + v[j]
        <5>1. PICK a \in Nat, b \in Nat, c \in Nat : a = s[m - 1] /\ b = u[m] /\ c = v[j]
          BY <1>3, <4>1, <4>2
        <5>2. t[m + 1] = (a + c) + b /\ s[m] = a + b
          BY <3>2, <4>1, <4>2, <4>3, <5>1
        <5>3. (a + c) + b = (a + b) + c
          OBVIOUS
        <5> QED
          BY <5>1, <5>2, <5>3
      <4> QED
        BY <3>1, <4>3, <4>4
    <3> QED
      BY <3>4, <3>5, <3>6
  <2> QED
    BY <2>1
<1> HIDE DEF S
<1>6. Len(v) \in S
  BY <1>3, <1>4, <1>5, SetInduction
<1> QED
  BY <1>1, <1>2, <1>3, <1>6 DEF S

-----------------------------------------------------------------------------
(* A one's complement sum is the sum modulo Base - 1, where Base - 1, all  *)
(* ones, stands for a multiple that is not 0.                              *)
Ones(sum) == IF sum = 0 THEN 0 ELSE ((sum - 1) % (Base - 1)) + 1

LEMMA OnesAdd ==
  ASSUME NEW a \in Nat, NEW w \in Word
  PROVE  Ones(a) \in Word /\ OnesPlus(Ones(a), w) = Ones(a + w)
<1> DEFINE D == Base - 1
<1>1. D \in Nat \ {0} /\ Base = D + 1 /\ w \in 0 .. D /\ Word = 0 .. D
  BY BaseType DEF Word
<1> HIDE DEF D
<1>2. CASE a = 0
  <2>1. Ones(a) = 0
    BY <1>2 DEF Ones
  <2>2. OnesPlus(0, w) = w
    BY <1>1 DEF OnesPlus
  <2>3. CASE w = 0
    BY <1>1, <1>2, <2>1, <2>2, <2>3 DEF Ones
  <2>4. CASE w # 0
    <3>1. (0 * D + (w - 1)) % D = w - 1
      BY <1>1, <2>4, DivMod
    <3>2. (w - 1) % D = w - 1
      BY <1>1, <2>4, <3>1
    <3>3. Ones(w) = (w - 1) + 1
      BY <2>4, <3>2 DEF Ones, D
    <3> QED
      BY <1>1, <1>2, <2>1, <2>2, <3>3
  <2> QED
    BY <2>3, <2>4
<1>3. CASE a # 0
  <2> DEFINE q == (a - 1) \div D  r == (a - 1) % D
  <2>1. q \in Nat /\ q \in Int /\ q + 1 \in Int /\ r \in 0 .. D - 1 /\ a - 1 = q * D + r
    <3>1. a - 1 \in Nat /\ D \in Nat \ {0}
      BY <1>1, <1>3
    <3> QED
      BY <3>1, DivModExists
  <2>2. Ones(a) = r + 1
    BY <1>3 DEF Ones, D
  <2>3. Ones(a + w) = ((a + w - 1) % D) + 1
    BY <1>1, <1>3 DEF Ones, D
  <2> HIDE DEF q, r
  <2>4. CASE r + w < D
    <3>1. (q * D + (r + w)) % D = r + w
      <4>1. r + w \in 0 .. D - 1
        BY <1>1, <2>1, <2>4
      <4> QED
        BY <1>1, <2>1, <4>1, DivMod
    <3>2. a + w - 1 = q * D + (r + w)
      BY <1>1, <2>1
    <3>3. OnesPlus(r + 1, w) = r + 1 + w
      BY <1>1, <2>1, <2>4 DEF OnesPlus
    <3> QED
      BY <1>1, <2>1, <2>2, <2>3, <3>1, <3>2, <3>3
  <2>5. CASE ~(r + w < D)
    <3>1. ((q + 1) * D + (r + w - D)) % D = r + w - D
      <4>1. r + w - D \in 0 .. D - 1
        BY <1>1, <2>1, <2>5
      <4> QED
        BY <1>1, <2>1, <4>1, DivMod
    <3>2. a + w - 1 = (q + 1) * D + (r + w - D)
      BY <1>1, <2>1
    <3>3. OnesPlus(r + 1, w) = r + w - D + 1
      BY <1>1, <2>1, <2>5 DEF OnesPlus
    <3> QED
      BY <1>1, <2>1, <2>2, <2>3, <3>1, <3>2, <3>3
  <2> QED
    BY <2>4, <2>5
<1> QED
  BY <1>2, <1>3

LEMMA WordsAreNumbers ==
  ASSUME NEW w \in Seq(Word)
  PROVE  w \in Seq(Nat) /\ \A i \in 1 .. Len(w) : w[i] \in Word /\ w[i] <= Base - 1
<1>1. Word \subseteq Nat /\ Base \in Nat
  BY BaseType DEF Word
<1>2. w \in Seq(Nat)
  <2>1. Len(w) \in Nat /\ w \in [1 .. Len(w) -> Word]
    BY LenProperties
  <2>2. w \in [1 .. Len(w) -> Nat]
    BY <1>1, <2>1
  <2> QED
    BY <2>1, <2>2, SeqDef
<1>3. \A i \in 1 .. Len(w) : w[i] \in Word
  BY ElementOfSeq
<1> QED
  BY <1>1, <1>2, <1>3 DEF Word

LEMMA OnesSumValue ==
  ASSUME NEW w \in Seq(Word)
  PROVE  OnesSumOf(w) = Ones(SumOf(w))
<1>1. w \in Seq(Nat) /\ Len(w) \in Nat /\ \A i \in 1 .. Len(w) : w[i] \in Word
  BY WordsAreNumbers, LenProperties
<1>2. PICK s : Sums(w, s) /\ SumOf(w) = s[Len(w)]
  BY <1>1, SumsExist
<1>3. PICK o : o = [i \in 0 .. Len(w) |-> Ones(s[i])]
  OBVIOUS
<1>4. \A i \in 0 .. Len(w) : o[i] = IF i = 0 THEN 0 ELSE OnesPlus(o[i - 1], w[i])
  <2>1. o[0] = 0
    BY <1>1, <1>2, <1>3 DEF Ones, Sums
  <2>2. ASSUME NEW i \in 1 .. Len(w) PROVE o[i] = OnesPlus(o[i - 1], w[i])
    <3>1. i - 1 \in 0 .. Len(w) /\ i \in 0 .. Len(w)
      BY <1>1
    <3>2. s[i - 1] \in Nat /\ s[i] = s[i - 1] + w[i] /\ w[i] \in Word
      BY <1>1, <1>2, <3>1 DEF Sums
    <3>3. o[i] = Ones(s[i]) /\ o[i - 1] = Ones(s[i - 1])
      BY <1>3, <3>1
    <3> QED
      BY <3>2, <3>3, OnesAdd
  <2> QED
    BY <1>1, <2>1, <2>2
<1>5. o = [i \in 0 .. Len(w) |-> IF i = 0 THEN 0 ELSE OnesPlus(o[i - 1], w[i])]
  BY <1>3, <1>4
<1>6. PICK t : /\ t = [i \in 0 .. Len(w) |-> IF i = 0 THEN 0 ELSE OnesPlus(t[i - 1], w[i])]
               /\ OnesSumOf(w) = t[Len(w)]
  BY <1>5 DEF OnesSumOf
<1>7. \A i \in 0 .. Len(w) : t[i] = IF i = 0 THEN 0 ELSE OnesPlus(t[i - 1], w[i])
  BY <1>6
<1> DEFINE E == {i \in Nat : i <= Len(w) => t[i] = o[i]}
<1>8. 0 \in E
  BY <1>1, <1>4, <1>7
<1>9. ASSUME NEW i \in Nat, i \in E PROVE i + 1 \in E
  <2>1. SUFFICES ASSUME i + 1 <= Len(w) PROVE t[i + 1] = o[i + 1]
    OBVIOUS
  <2>2. t[i] = o[i]
    BY <1>1, <1>9, <2>1
  <2>3. i + 1 \in 0 .. Len(w) /\ i + 1 # 0 /\ (i + 1) - 1 = i
    BY <1>1, <2>1
  <2>4. t[i + 1] = OnesPlus(t[(i + 1) - 1], w[i + 1])
    BY <1>7, <2>3
  <2>5. o[i + 1] = OnesPlus(o[(i + 1) - 1], w[i + 1])
    BY <1>4, <2>3
  <2> QED
    BY <2>2, <2>3, <2>4, <2>5
<1> HIDE DEF E
<1>10. Len(w) \in E
  BY <1>1, <1>8, <1>9, SetInduction
<1>11. t[Len(w)] = o[Len(w)] /\ o[Len(w)] = Ones(s[Len(w)])
  BY <1>1, <1>3, <1>10 DEF E
<1> QED
  BY <1>2, <1>6, <1>11

(* The test of RFC 1071 and the test of the server, which folds only once, *)
(* of fewer than Base words.                                               *)
LEMMA SameTest ==
  ASSUME NEW w \in Seq(Word), Len(w) < Base
  PROVE  /\ SumOf(w) \in Nat /\ SumOf(w) < Base * (Base - 1)
         /\ FoldOnce(SumOf(w)) = Base - 1 <=> SumOf(w) # 0 /\ SumOf(w) % (Base - 1) = 0
         /\ OnesSumOf(w) = Base - 1 <=> SumOf(w) # 0 /\ SumOf(w) % (Base - 1) = 0
<1> DEFINE D == Base - 1  sum == SumOf(w)
<1>1. D \in Nat \ {0} /\ D > 2 /\ Base = D + 1 /\ Len(w) \in Nat /\ w \in Seq(Nat)
  BY BaseType, WordsAreNumbers, LenProperties
<1>2. sum \in Nat /\ sum <= Len(w) * D
  BY <1>1, SumType, SumBound, WordsAreNumbers
<1>3. sum < Base * D
  <2>1. \A n, m, e \in Nat : n <= m => n * e <= m * e
    OBVIOUS
  <2>2. Len(w) * D <= D * D
    BY <1>1, <2>1
  <2>3. Base * D = D * D + D
    BY <1>1
  <2>4. Len(w) * D \in Nat /\ D * D \in Nat
    BY <1>1
  <2> QED
    BY <1>1, <1>2, <2>2, <2>3, <2>4
<1>4. OnesSumOf(w) = Ones(sum)
  BY OnesSumValue
<1> DEFINE q == sum \div Base  r == sum % Base
<1>5. /\ q \in 0 .. D - 1 /\ r \in 0 .. D /\ sum = q * (D + 1) + r
      /\ FoldOnce(sum) = q + r /\ q \in Int /\ q + 1 \in Int
  <2>1. sum \in Nat /\ sum < Base * (Base - 1) /\ Base \in Nat \ {0}
    BY <1>1, <1>2, <1>3
  <2>2. sum = q * Base + r
    BY <2>1, DivModExists
  <2>3. q \in 0 .. Base - 2 /\ r \in 0 .. Base - 1
    BY <2>1, FoldBound
  <2>4. FoldOnce(sum) = q + r
    BY DEF FoldOnce
  <2> HIDE DEF q, r, sum, D
  <2> QED
    BY <1>1, <2>2, <2>3, <2>4
<1> HIDE DEF D, sum, q, r
<1>6. FoldOnce(sum) = D <=> sum # 0 /\ sum % D = 0
  <2>1. sum = q * D + (q + r)
    BY <1>1, <1>5
  <2>2. CASE q + r < D
    <3>1. sum % D = q + r
      <4>1. q + r \in 0 .. D - 1
        BY <1>1, <1>5, <2>2
      <4>2. (q * D + (q + r)) % D = q + r
        BY <1>1, <1>5, <4>1, DivMod
      <4> QED
        BY <2>1, <4>2
    <3>2. q + r = 0 => sum = 0
      BY <1>1, <1>5, <2>1
    <3> QED
      BY <1>1, <1>5, <2>2, <3>1, <3>2
  <2>3. CASE q + r >= D
    <3>1. q + r - D \in 0 .. D - 1
      BY <1>1, <1>5, <2>3
    <3>2. ((q + 1) * D + (q + r - D)) % D = q + r - D
      BY <1>1, <1>5, <3>1, DivMod
    <3>3. (q + 1) * D + (q + r - D) = sum
      BY <1>1, <1>5, <2>1
    <3>4. sum # 0
      BY <1>1, <1>5, <2>3
    <3> QED
      BY <1>1, <1>5, <3>1, <3>2, <3>3, <3>4
  <2> QED
    BY <1>1, <1>5, <2>2, <2>3
<1>7. Ones(sum) = D <=> sum # 0 /\ sum % D = 0
  <2>1. CASE sum = 0
    BY <1>1, <2>1 DEF Ones
  <2>2. CASE sum # 0
    <3>1. PICK n \in Nat : n = sum - 1
      BY <1>2, <2>2
    <3> DEFINE k == n \div D  m == n % D
    <3>2. /\ k \in Nat /\ k \in Int /\ k + 1 \in Int
          /\ m \in 0 .. D - 1 /\ n = k * D + m
      <4>1. D \in Nat \ {0} /\ n \in Nat
        BY <1>1
      <4>2. k \in Nat /\ m \in 0 .. D - 1 /\ n = k * D + m
        BY ONLY <4>1, DivModExists
      <4> HIDE DEF k, m
      <4> QED
        BY <4>2
    <3>3. Ones(sum) = m + 1
      BY <2>2, <3>1 DEF Ones, D
    <3> HIDE DEF k, m
    <3>4. CASE m + 1 < D
      <4>1. m + 1 \in 0 .. D - 1
        BY <1>1, <3>2, <3>4
      <4>2. (k * D + (m + 1)) % D = m + 1
        BY <1>1, <3>2, <4>1, DivMod
      <4>3. sum = k * D + (m + 1)
        BY <1>1, <1>2, <3>1, <3>2
      <4> QED
        BY <1>1, <3>2, <3>3, <3>4, <4>2, <4>3
    <3>5. CASE m + 1 = D
      <4>1. ((k + 1) * D + 0) % D = 0
        <5>1. 0 \in 0 .. D - 1
          BY <1>1
        <5> QED
          BY <1>1, <3>2, <5>1, DivMod
      <4>2. sum = (k + 1) * D + 0
        BY <1>1, <1>2, <3>1, <3>2, <3>5
      <4> QED
        BY <2>2, <3>3, <3>5, <4>1, <4>2
    <3> QED
      BY <1>1, <3>2, <3>4, <3>5
  <2> QED
    BY <2>1, <2>2
<1> QED
  BY <1>2, <1>3, <1>4, <1>6, <1>7 DEF D, sum

-----------------------------------------------------------------------------
LEMMA WordValue ==
  ASSUME NEW a \in Byte, NEW b \in Byte
  PROVE  a * ByteBase + b \in Word
<1>1. ByteBase \in Nat /\ ByteBase > 1 /\ a \in 0 .. ByteBase - 1 /\ b \in 0 .. ByteBase - 1
  BY ChecksumAssumption DEF Byte
<1>2. \A x, y, z \in Nat : x <= y => x * z <= y * z
  OBVIOUS
<1>3. a * ByteBase <= (ByteBase - 1) * ByteBase
  BY <1>1, <1>2
<1>4. (ByteBase - 1) * ByteBase = ByteBase * ByteBase - ByteBase
  BY <1>1
<1>5. a * ByteBase \in Nat /\ ByteBase * ByteBase \in Nat
  BY <1>1
<1> QED
  BY <1>1, <1>3, <1>4, <1>5 DEF Word, Base

(* The words of a block, which the host and the server agree about.        *)
LEMMA WordsOf ==
  ASSUME NEW d \in Seq(Byte)
  PROVE  /\ Len(d) \in Nat /\ Len(Words(d)) = (Len(d) + 1) \div 2
         /\ \A i \in 1 .. Len(Words(d)) :
              /\ 2 * i - 1 \in 1 .. Len(d) /\ d[2 * i - 1] \in Byte
              /\ 2 * i <= Len(d) => 2 * i \in 1 .. Len(d) /\ d[2 * i] \in Byte
              /\ Words(d)[i] = d[2 * i - 1] * ByteBase
                               + IF 2 * i > Len(d) THEN 0 ELSE d[2 * i]
         /\ Words(d) \in Seq(Word)
         /\ HostWords(d) = Words(d)
<1>1. Len(d) \in Nat /\ \A i \in 1 .. Len(d) : d[i] \in Byte
  BY LenProperties, ElementOfSeq
<1>2. PICK m \in Nat : m = (Len(d) + 1) \div 2 /\ 2 * m >= Len(d) /\ 2 * m <= Len(d) + 1
  BY <1>1
<1>3. PICK low : low = [i \in 1 .. m |-> IF 2 * i > Len(d) THEN 0 ELSE d[2 * i]]
  OBVIOUS
<1>4. ASSUME NEW i \in 1 .. m
      PROVE  /\ 2 * i - 1 \in 1 .. Len(d) /\ d[2 * i - 1] \in Byte
             /\ 2 * i <= Len(d) => 2 * i \in 1 .. Len(d) /\ d[2 * i] \in Byte
             /\ low[i] = IF 2 * i > Len(d) THEN 0 ELSE d[2 * i]
             /\ low[i] \in Byte
  <2>1. 2 * i - 1 \in 1 .. Len(d) /\ (2 * i <= Len(d) => 2 * i \in 1 .. Len(d))
    BY <1>1, <1>2
  <2>2. 0 \in Byte
    BY ChecksumAssumption DEF Byte
  <2>3. low[i] = IF 2 * i > Len(d) THEN 0 ELSE d[2 * i]
    BY <1>3
  <2>4. 2 * i > Len(d) \/ 2 * i <= Len(d)
    BY <1>1
  <2> QED
    BY <1>1, <2>1, <2>2, <2>3, <2>4
<1>5. Words(d) = [i \in 1 .. m |-> d[2 * i - 1] * ByteBase + low[i]]
  <2>1. ASSUME NEW i \in 1 .. m
        PROVE  toNative16(<<d[2 * i - 1], IF 2 * i > Len(d) THEN 0 ELSE d[2 * i]>>)
               = d[2 * i - 1] * ByteBase + low[i]
    BY <1>4 DEF toNative16
  <2> QED
    BY <1>2, <2>1 DEF Words
<1>6. /\ Words(d) \in [1 .. m -> Word]
      /\ \A i \in 1 .. m : Words(d)[i] = d[2 * i - 1] * ByteBase + low[i]
  BY <1>4, <1>5, WordValue
<1>7. Words(d) \in Seq(Word) /\ Len(Words(d)) = m
  <2>1. Words(d) \in Seq(Word)
    BY <1>6, SeqDef
  <2>2. DOMAIN Words(d) = 1 .. m
    BY <1>6
  <2> QED
    BY <1>2, <2>1, <2>2, LenProperties
<1>8. HostWords(d) = Words(d)
  <2>1. CASE Len(d) % 2 = 0
    <3>1. m = Len(d) \div 2
      BY <1>1, <1>2, <2>1
    <3>2. HostWords(d) = [i \in 1 .. m |-> d[2 * i - 1] * ByteBase + d[2 * i]]
      BY <2>1, <3>1 DEF HostWords
    <3>3. ASSUME NEW i \in 1 .. m PROVE low[i] = d[2 * i]
      <4>1. ~(2 * i > Len(d))
        BY <1>1, <2>1, <3>1
      <4> QED
        BY <1>4, <4>1
    <3> QED
      BY <1>5, <3>2, <3>3
  <2>2. CASE Len(d) % 2 # 0
    <3>1. PICK e : e = Append(d, 0)
      OBVIOUS
    <3>2. 0 \in Byte
      BY ChecksumAssumption DEF Byte
    <3>3. /\ Len(e) = Len(d) + 1 /\ e[Len(d) + 1] = 0
          /\ \A i \in 1 .. Len(d) : e[i] = d[i]
      BY <3>1, <3>2, AppendProperties
    <3>4. m = Len(e) \div 2 /\ 2 * m = Len(d) + 1
      BY <1>1, <1>2, <2>2, <3>3
    <3>5. HostWords(d) = [i \in 1 .. m |-> e[2 * i - 1] * ByteBase + e[2 * i]]
      BY <2>2, <3>1, <3>4 DEF HostWords
    <3>6. ASSUME NEW i \in 1 .. m PROVE e[2 * i - 1] = d[2 * i - 1] /\ low[i] = e[2 * i]
      <4>1. e[2 * i - 1] = d[2 * i - 1]
        BY <1>4, <3>3
      <4>2. CASE 2 * i <= Len(d)
        BY <1>1, <1>4, <3>3, <4>2
      <4>3. CASE 2 * i > Len(d)
        <5>1. 2 * i = Len(d) + 1
          BY <1>1, <3>4, <4>3
        <5> QED
          BY <1>4, <3>3, <4>3, <5>1
      <4> QED
        BY <1>1, <4>1, <4>2, <4>3
    <3> QED
      BY <1>5, <3>5, <3>6
  <2> QED
    BY <2>1, <2>2
<1>9. \A i \in 1 .. m : Words(d)[i] = d[2 * i - 1] * ByteBase
                               + IF 2 * i > Len(d) THEN 0 ELSE d[2 * i]
  BY <1>4, <1>6
<1> QED
  BY <1>1, <1>2, <1>4, <1>7, <1>8, <1>9

LEMMA Joined ==
  ASSUME NEW S, NEW a \in Seq(S), NEW b \in Seq(S)
  PROVE  /\ a \o b \in Seq(S) /\ Len(a \o b) = Len(a) + Len(b)
         /\ Len(a) \in Nat /\ Len(b) \in Nat
         /\ \A j \in 1 .. Len(a) + Len(b) :
              (a \o b)[j] = IF j <= Len(a) THEN a[j] ELSE b[j - Len(a)]
  BY ConcatProperties, LenProperties

(* A word as it is written.                                                *)
LEMMA Written ==
  ASSUME NEW c \in Word
  PROVE  /\ toNetwork16(c) \in Seq(Byte) /\ Len(toNetwork16(c)) = 2
         /\ toNetwork16(c)[1] * ByteBase + toNetwork16(c)[2] = c
<1>1. ByteBase \in Nat \ {0} /\ c \in Nat /\ c < ByteBase * ByteBase
  BY ChecksumAssumption, BaseType DEF Word, Base
<1> DEFINE q == c \div ByteBase  r == c % ByteBase
<1>2. q \in Nat /\ r \in 0 .. ByteBase - 1 /\ c = q * ByteBase + r
  BY ONLY <1>1, DivModExists
<1> HIDE DEF q, r
<1>3. q < ByteBase
  <2>1. SUFFICES ASSUME q >= ByteBase PROVE FALSE
    BY <1>1, <1>2
  <2>2. \A x, y, z \in Nat : x <= y => x * z <= y * z
    OBVIOUS
  <2>3. ByteBase * ByteBase <= q * ByteBase
    BY <1>1, <1>2, <2>1, <2>2
  <2>4. q * ByteBase \in Nat /\ ByteBase * ByteBase \in Nat
    BY <1>1, <1>2
  <2> QED
    BY <1>1, <1>2, <2>3, <2>4
<1>4. q \in Byte /\ r \in Byte
  BY <1>1, <1>2, <1>3 DEF Byte
<1>5. toNetwork16(c) = <<q, r>>
  BY DEF toNetwork16, q, r
<1> DEFINE t == <<q, r>>
<1>6. t \in Seq(Byte) /\ Len(t) = 2 /\ t[1] = q /\ t[2] = r
  BY <1>4
<1>7. toNetwork16(c) = t
  BY <1>5
<1> HIDE DEF t
<1> QED
  BY <1>2, <1>6, <1>7

(* With a checksum in front a segment has one word more.                   *)
Prefixed(v, c, d) ==
  /\ v \in Seq(Byte) /\ Len(v) = Len(d) + 2
  /\ Len(Words(v)) = Len(Words(d)) + 1 /\ Words(v)[1] = c
  /\ \A i \in 1 .. Len(Words(d)) : Words(v)[i + 1] = Words(d)[i]

LEMMA WireWords ==
  ASSUME NEW d \in Seq(Byte), NEW c \in Word
  PROVE  Prefixed(toNetwork16(c) \o d, c, d)
<1> SUFFICES ASSUME NEW v, v = toNetwork16(c) \o d PROVE Prefixed(v, c, d)
  OBVIOUS
<1>1. PICK t : t = toNetwork16(c)
              /\ t \in Seq(Byte) /\ Len(t) = 2 /\ t[1] * ByteBase + t[2] = c
  BY Written
<1>2. /\ v \in Seq(Byte) /\ Len(v) = 2 + Len(d) /\ Len(d) \in Nat
      /\ \A j \in 1 .. 2 + Len(d) : v[j] = IF j <= 2 THEN t[j] ELSE d[j - 2]
  <2>1. v = t \o d /\ t \in Seq(Byte) /\ d \in Seq(Byte)
    BY <1>1
  <2>2. /\ t \o d \in Seq(Byte) /\ Len(t \o d) = Len(t) + Len(d) /\ Len(d) \in Nat
        /\ \A j \in 1 .. Len(t) + Len(d) :
             (t \o d)[j] = IF j <= Len(t) THEN t[j] ELSE d[j - Len(t)]
    BY ONLY <2>1, Joined
  <2> QED
    BY <1>1, <2>1, <2>2
<1>3. /\ v[1] = t[1] /\ v[2] = t[2]
      /\ \A j \in 1 .. Len(d) : v[j + 2] = d[j]
  <2>1. 1 \in 1 .. 2 + Len(d) /\ 2 \in 1 .. 2 + Len(d)
    BY <1>2
  <2>2. ASSUME NEW j \in 1 .. Len(d) PROVE v[j + 2] = d[j]
    <3>1. j + 2 \in 1 .. 2 + Len(d) /\ ~(j + 2 <= 2) /\ (j + 2) - 2 = j
      BY <1>2
    <3> QED
      BY <1>2, <3>1
  <2> QED
    BY <1>2, <2>1, <2>2
<1>4. Len(Words(v)) = (Len(v) + 1) \div 2 /\ Len(Words(d)) = (Len(d) + 1) \div 2
  BY <1>2, WordsOf
<1>5. Len(Words(v)) = Len(Words(d)) + 1 /\ Len(Words(d)) \in Nat
  BY <1>2, <1>4
<1>6. \A i \in 1 .. Len(Words(v)) :
        Words(v)[i] = v[2 * i - 1] * ByteBase + IF 2 * i > Len(v) THEN 0 ELSE v[2 * i]
  BY <1>2, WordsOf
<1>7. Words(v)[1] = c
  <2>1. 1 \in 1 .. Len(Words(v)) /\ 2 * 1 - 1 = 1 /\ 2 * 1 = 2 /\ ~(2 > Len(v))
    BY <1>2, <1>5
  <2>2. Words(v)[1] = v[1] * ByteBase + v[2]
    BY <1>6, <2>1
  <2> QED
    BY <1>1, <1>3, <2>2
<1>8. ASSUME NEW i \in 1 .. Len(Words(d)) PROVE Words(v)[i + 1] = Words(d)[i]
  <2>1. i + 1 \in 1 .. Len(Words(v))
    BY <1>5
  <2>2. 2 * i - 1 \in 1 .. Len(d) /\ (2 * i <= Len(d) => 2 * i \in 1 .. Len(d))
        /\ Words(d)[i] = d[2 * i - 1] * ByteBase + IF 2 * i > Len(d) THEN 0 ELSE d[2 * i]
    BY WordsOf
  <2>3. 2 * (i + 1) - 1 = (2 * i - 1) + 2 /\ 2 * (i + 1) = 2 * i + 2
    OBVIOUS
  <2>4. v[2 * (i + 1) - 1] = d[2 * i - 1]
    BY <1>3, <2>2, <2>3
  <2>5. CASE 2 * i <= Len(d)
    <3>1. ~(2 * i > Len(d)) /\ ~(2 * (i + 1) > Len(v))
      BY <1>2, <2>5
    <3>2. v[2 * (i + 1)] = d[2 * i]
      BY <1>3, <2>2, <2>3, <2>5
    <3> QED
      BY <1>6, <2>1, <2>2, <2>4, <3>1, <3>2
  <2>6. CASE 2 * i > Len(d)
    <3>1. 2 * (i + 1) > Len(v)
      BY <1>2, <2>6
    <3> QED
      BY <1>6, <2>1, <2>2, <2>4, <2>6, <3>1
  <2> QED
    BY <1>2, <2>5, <2>6
<1> QED
  BY <1>2, <1>5, <1>7, <1>8 DEF Prefixed

LEMMA WireSum ==
  ASSUME header \in Seq(Word), NEW d \in Seq(Byte), NEW c \in Word
  PROVE  Sum32(toNetwork16(c) \o d) = Sum32(d) + c
<1> SUFFICES ASSUME NEW v, v = toNetwork16(c) \o d PROVE Sum32(v) = Sum32(d) + c
  OBVIOUS
<1> DEFINE x == header \o Words(d)  y == header \o Words(v)  j == Len(header) + 1
<1>1. /\ v \in Seq(Byte) /\ Words(d) \in Seq(Word) /\ Words(v) \in Seq(Word)
      /\ Len(Words(v)) = Len(Words(d)) + 1 /\ Words(v)[1] = c
      /\ \A i \in 1 .. Len(Words(d)) : Words(v)[i + 1] = Words(d)[i]
  <2>1. Prefixed(v, c, d)
    BY WireWords
  <2> QED
    BY <2>1, WordsOf DEF Prefixed
<1>2. /\ x \in Seq(Word) /\ Len(x) = Len(header) + Len(Words(d))
      /\ Len(header) \in Nat /\ Len(Words(d)) \in Nat
      /\ \A i \in 1 .. Len(header) + Len(Words(d)) :
           x[i] = IF i <= Len(header) THEN header[i] ELSE Words(d)[i - Len(header)]
  BY <1>1, Joined
<1>3. /\ y \in Seq(Word) /\ Len(y) = Len(header) + Len(Words(v))
      /\ \A i \in 1 .. Len(header) + Len(Words(v)) :
           y[i] = IF i <= Len(header) THEN header[i] ELSE Words(v)[i - Len(header)]
  BY <1>1, Joined
<1> HIDE DEF x, y
<1>4. Len(y) = Len(x) + 1 /\ j \in 1 .. Len(y) /\ Len(x) \in Nat
  BY <1>1, <1>2, <1>3
<1>5. ASSUME NEW i \in 1 .. Len(y)
      PROVE  (i < j => y[i] = x[i]) /\ (i > j => y[i] = x[i - 1])
  <2>1. ASSUME i < j PROVE y[i] = x[i]
    <3>1. i \in 1 .. Len(header) + Len(Words(d)) /\ i <= Len(header)
      BY <1>2, <1>4, <2>1
    <3>2. i \in 1 .. Len(header) + Len(Words(v))
      BY <1>3
    <3> QED
      BY <1>2, <1>3, <3>1, <3>2
  <2>2. ASSUME i > j PROVE y[i] = x[i - 1]
    <3>1. /\ i - 1 \in 1 .. Len(header) + Len(Words(d)) /\ ~(i - 1 <= Len(header))
          /\ i \in 1 .. Len(header) + Len(Words(v)) /\ ~(i <= Len(header))
      BY <1>1, <1>2, <1>3, <2>2
    <3>2. PICK k : k = (i - 1) - Len(header)
      OBVIOUS
    <3>3. k \in 1 .. Len(Words(d)) /\ i - Len(header) = k + 1
      BY <1>2, <3>1, <3>2
    <3>4. x[i - 1] = Words(d)[k]
      BY <1>2, <3>1, <3>2
    <3>5. y[i] = Words(v)[k + 1]
      BY <1>3, <3>1, <3>3
    <3> QED
      BY <1>1, <3>3, <3>4, <3>5
  <2> QED
    BY <2>1, <2>2
<1>6. y[j] = c
  <2>1. j \in 1 .. Len(header) + Len(Words(v)) /\ ~(j <= Len(header)) /\ j - Len(header) = 1
    BY <1>2, <1>3, <1>4
  <2> QED
    BY <1>1, <1>3, <2>1
<1>7. x \in Seq(Nat) /\ y \in Seq(Nat)
  BY <1>2, <1>3, WordsAreNumbers
<1> HIDE DEF j
<1>8. SumOf(y) = SumOf(x) + y[j]
  BY <1>4, <1>5, <1>7, SumInsert
<1> QED
  BY <1>6, <1>8 DEF Sum32, x, y

(* A damaged byte changes one word, and the sum by less than a word's      *)
(* largest value.                                                          *)
LEMMA ByteShift ==
  ASSUME NEW p \in Byte, NEW q \in Byte, p # q
  PROVE  /\ p * ByteBase # q * ByteBase
         /\ p * ByteBase - q * ByteBase < Base - 1
         /\ p # q /\ p - q < Base - 1
<1>1. ByteBase \in Nat /\ ByteBase > 1 /\ p \in 0 .. ByteBase - 1 /\ q \in 0 .. ByteBase - 1
  BY ChecksumAssumption DEF Byte
<1>2. \A x, y, z \in Nat : x <= y => x * z <= y * z
  OBVIOUS
<1>3. /\ p * ByteBase <= (ByteBase - 1) * ByteBase
      /\ (ByteBase - 1) * ByteBase = Base - ByteBase
      /\ p * ByteBase \in Nat /\ q * ByteBase \in Nat /\ Base \in Nat
  BY <1>1, <1>2 DEF Base
<1>4. p < q => (p + 1) * ByteBase <= q * ByteBase
  BY <1>1, <1>2
<1>5. q < p => (q + 1) * ByteBase <= p * ByteBase
  BY <1>1, <1>2
<1>6. (p + 1) * ByteBase = p * ByteBase + ByteBase /\ (q + 1) * ByteBase = q * ByteBase + ByteBase
  BY <1>1
<1>7. p * ByteBase # q * ByteBase
  BY <1>1, <1>3, <1>4, <1>5, <1>6
<1>8. ByteBase <= Base
  <2>1. 1 * ByteBase <= ByteBase * ByteBase
    BY <1>1, <1>2
  <2> QED
    BY <1>1, <2>1 DEF Base
<1> QED
  BY <1>1, <1>3, <1>7, <1>8

OneWordOff(w, o) ==
  /\ w \in Seq(Byte) /\ Len(Words(w)) = Len(Words(o))
  /\ \E k \in 1 .. Len(Words(o)) :
       /\ \A n \in 1 .. Len(Words(o)) : n # k => Words(w)[n] = Words(o)[n]
       /\ Words(w)[k] # Words(o)[k]
       /\ Words(w)[k] - Words(o)[k] < Base - 1
       /\ Words(o)[k] - Words(w)[k] < Base - 1

LEMMA DamagedWords ==
  ASSUME NEW o \in Seq(Byte), NEW i \in 1 .. Len(o), NEW b \in Byte, b # o[i]
  PROVE  OneWordOff([o EXCEPT ![i] = b], o)
<1> SUFFICES ASSUME NEW w, w = [o EXCEPT ![i] = b] PROVE OneWordOff(w, o)
  OBVIOUS
<1>1. /\ w \in Seq(Byte) /\ Len(w) = Len(o) /\ Len(o) \in Nat /\ w[i] = b
      /\ \A n \in 1 .. Len(o) : n # i => w[n] = o[n]
  BY LenProperties, ExceptSeq
<1>2. PICK m \in Nat : m = (Len(o) + 1) \div 2
  BY <1>1
<1>3. /\ Len(Words(o)) = m /\ Len(Words(w)) = m
      /\ \A n \in 1 .. m :
           /\ 2 * n - 1 \in 1 .. Len(o) /\ o[2 * n - 1] \in Byte
           /\ 2 * n <= Len(o) => 2 * n \in 1 .. Len(o) /\ o[2 * n] \in Byte
           /\ Words(o)[n] = o[2 * n - 1] * ByteBase + IF 2 * n > Len(o) THEN 0 ELSE o[2 * n]
  BY <1>1, <1>2, WordsOf
<1>4. \A n \in 1 .. m :
        Words(w)[n] = w[2 * n - 1] * ByteBase + IF 2 * n > Len(o) THEN 0 ELSE w[2 * n]
  <2>1. \A n \in 1 .. Len(Words(w)) :
          Words(w)[n] = w[2 * n - 1] * ByteBase + IF 2 * n > Len(w) THEN 0 ELSE w[2 * n]
    BY <1>1, WordsOf
  <2>2. Len(Words(w)) = m /\ Len(w) = Len(o)
    BY <1>1, <1>3
  <2> QED
    BY ONLY <2>1, <2>2
<1>5. PICK k \in 1 .. m : i = 2 * k - 1 \/ i = 2 * k
  <2>1. (i + 1) \div 2 \in 1 .. m
    BY <1>1, <1>2
  <2>2. i = 2 * ((i + 1) \div 2) - 1 \/ i = 2 * ((i + 1) \div 2)
    BY <1>1
  <2> QED
    BY <2>1, <2>2
<1>6. ASSUME NEW n \in 1 .. m, n # k PROVE Words(w)[n] = Words(o)[n]
  <2>1. 2 * n - 1 # i /\ 2 * n # i
    BY <1>5, <1>6
  <2>2. w[2 * n - 1] = o[2 * n - 1]
    BY <1>1, <1>3, <2>1
  <2>3. 2 * n <= Len(o) => w[2 * n] = o[2 * n]
    BY <1>1, <1>3, <2>1
  <2>4. 2 * n <= Len(o) \/ 2 * n > Len(o)
    BY <1>1
  <2>5. /\ Words(w)[n] = w[2 * n - 1] * ByteBase + IF 2 * n > Len(o) THEN 0 ELSE w[2 * n]
        /\ Words(o)[n] = o[2 * n - 1] * ByteBase + IF 2 * n > Len(o) THEN 0 ELSE o[2 * n]
    BY <1>3, <1>4
  <2>6. (IF 2 * n > Len(o) THEN 0 ELSE w[2 * n]) = IF 2 * n > Len(o) THEN 0 ELSE o[2 * n]
    BY <1>1, <2>3, <2>4
  <2> QED
    BY ONLY <2>2, <2>5, <2>6
<1>7. PICK p \in Byte, q \in Byte : p = b /\ q = o[i] /\ p # q
  BY ElementOfSeq
<1>8. p \in Int /\ q \in Int /\ ByteBase \in Nat
  BY ChecksumAssumption DEF Byte
<1> DEFINE Only(n) ==
      /\ \A l \in 1 .. Len(Words(o)) : l # n => Words(w)[l] = Words(o)[l]
      /\ Words(w)[n] # Words(o)[n]
      /\ Words(w)[n] - Words(o)[n] < Base - 1
      /\ Words(o)[n] - Words(w)[n] < Base - 1
<1>9. ASSUME i = 2 * k - 1 PROVE Only(k)
  <2>1. PICK z \in Byte : z = IF 2 * k > Len(o) THEN 0 ELSE o[2 * k]
    <3>1. 0 \in Byte
      BY ChecksumAssumption DEF Byte
    <3> QED
      BY <1>1, <1>3, <3>1
  <2>2. 2 * k <= Len(o) => w[2 * k] = o[2 * k]
    BY <1>1, <1>3, <1>9
  <2>3. Words(w)[k] = p * ByteBase + z
    <3>1. z = IF 2 * k > Len(o) THEN 0 ELSE w[2 * k]
      BY <1>1, <2>1, <2>2
    <3> QED
      BY <1>1, <1>4, <1>7, <1>9, <3>1
  <2>4. Words(o)[k] = q * ByteBase + z
    BY <1>3, <1>7, <1>9, <2>1
  <2>5. z \in Int /\ p * ByteBase \in Int /\ q * ByteBase \in Int /\ Base \in Int
    BY <1>8, BaseType DEF Byte
  <2>6. /\ p * ByteBase # q * ByteBase
        /\ p * ByteBase - q * ByteBase < Base - 1
        /\ q * ByteBase - p * ByteBase < Base - 1
    BY <1>7, ByteShift
  <2>7. /\ Words(w)[k] # Words(o)[k]
        /\ Words(w)[k] - Words(o)[k] < Base - 1
        /\ Words(o)[k] - Words(w)[k] < Base - 1
    BY <2>3, <2>4, <2>5, <2>6
  <2> QED
    BY <1>1, <1>3, <1>6, <2>7
<1>10. ASSUME i = 2 * k PROVE Only(k)
  <2>1. ~(2 * k > Len(o))
    BY <1>1, <1>10
  <2>2. PICK z \in Byte : z = o[2 * k - 1] /\ z = w[2 * k - 1]
    BY <1>1, <1>3, <1>10
  <2>3. Words(w)[k] = z * ByteBase + p
    BY <1>1, <1>4, <1>7, <1>10, <2>1, <2>2
  <2>4. Words(o)[k] = z * ByteBase + q
    BY <1>3, <1>7, <1>10, <2>1, <2>2
  <2>5. z * ByteBase \in Int /\ Base \in Int
    BY <1>8, BaseType DEF Byte
  <2>6. p - q < Base - 1 /\ q - p < Base - 1
    BY <1>7, ByteShift
  <2>7. /\ Words(w)[k] # Words(o)[k]
        /\ Words(w)[k] - Words(o)[k] < Base - 1
        /\ Words(o)[k] - Words(w)[k] < Base - 1
    BY <1>7, <1>8, <2>3, <2>4, <2>5, <2>6
  <2> QED
    BY <1>1, <1>3, <1>6, <2>7
<1>11. \E n \in 1 .. Len(Words(o)) : Only(n)
  <2> HIDE DEF Only
  <2> QED
    BY <1>3, <1>5, <1>9, <1>10
<1>12. w \in Seq(Byte) /\ Len(Words(w)) = Len(Words(o))
  BY <1>1, <1>3
<1> QED
  BY ONLY <1>11, <1>12 DEF OneWordOff

LEMMA Difference ==
  ASSUME NEW s \in Nat, NEW t \in Nat, NEW p \in Nat, NEW q \in Nat, NEW m \in Nat,
         t + q = s + p, p # q, p - q < m, q - p < m
  PROVE  \E e \in Int : t = s + e /\ e # 0 /\ e < m /\ -m < e
<1>1. PICK e \in Int : e = p - q
  OBVIOUS
<1>2. t = s + e /\ e # 0 /\ e < m /\ -m < e
  BY <1>1
<1> QED
  BY <1>2

LEMMA DamagedSum ==
  ASSUME header \in Seq(Word),
         NEW o \in Seq(Byte), NEW i \in 1 .. Len(o), NEW b \in Byte, b # o[i]
  PROVE  LET w == [o EXCEPT ![i] = b]
         IN  /\ w \in Seq(Byte) /\ Len(Words(w)) = Len(Words(o))
             /\ \E e \in Int : /\ Sum32(w) = Sum32(o) + e
                             /\ e # 0 /\ e < Base - 1 /\ -(Base - 1) < e
<1> SUFFICES ASSUME NEW w, w = [o EXCEPT ![i] = b]
             PROVE  /\ w \in Seq(Byte) /\ Len(Words(w)) = Len(Words(o))
                    /\ \E e \in Int : /\ Sum32(w) = Sum32(o) + e
                                    /\ e # 0 /\ e < Base - 1 /\ -(Base - 1) < e
  OBVIOUS
<1>1. OneWordOff(w, o) /\ w \in Seq(Byte) /\ Len(Words(w)) = Len(Words(o))
  <2>1. OneWordOff(w, o)
    <3>1. o \in Seq(Byte) /\ i \in 1 .. Len(o) /\ b \in Byte /\ b # o[i]
      OBVIOUS
    <3>2. OneWordOff([o EXCEPT ![i] = b], o)
      BY ONLY <3>1, DamagedWords
    <3> QED
      BY <3>2
  <2> QED
    BY <2>1 DEF OneWordOff
<1>2. PICK k \in 1 .. Len(Words(o)) :
           /\ \A n \in 1 .. Len(Words(o)) : n # k => Words(w)[n] = Words(o)[n]
           /\ Words(w)[k] # Words(o)[k]
           /\ Words(w)[k] - Words(o)[k] < Base - 1
           /\ Words(o)[k] - Words(w)[k] < Base - 1
  BY <1>1 DEF OneWordOff
<1>3. Words(o) \in Seq(Word) /\ Words(w) \in Seq(Word)
  BY <1>1, WordsOf
<1>4. PICK x : /\ x = header \o Words(o)
               /\ x \in Seq(Word) /\ Len(x) = Len(header) + Len(Words(o))
               /\ Len(header) \in Nat /\ Len(Words(o)) \in Nat
               /\ \A n \in 1 .. Len(header) + Len(Words(o)) :
                    x[n] = IF n <= Len(header) THEN header[n] ELSE Words(o)[n - Len(header)]
  <2>1. header \in Seq(Word) /\ Words(o) \in Seq(Word)
    BY <1>3
  <2>2. PICK h, u : h = header /\ u = Words(o) /\ h \in Seq(Word) /\ u \in Seq(Word)
    BY <2>1
  <2>3. /\ h \o u \in Seq(Word) /\ Len(h \o u) = Len(h) + Len(u)
        /\ Len(h) \in Nat /\ Len(u) \in Nat
        /\ \A n \in 1 .. Len(h) + Len(u) :
             (h \o u)[n] = IF n <= Len(h) THEN h[n] ELSE u[n - Len(h)]
    BY <2>2, Joined
  <2> QED
    BY <2>2, <2>3
<1>5. PICK y : /\ y = header \o Words(w)
               /\ y \in Seq(Word) /\ Len(y) = Len(header) + Len(Words(w))
               /\ \A n \in 1 .. Len(header) + Len(Words(w)) :
                    y[n] = IF n <= Len(header) THEN header[n] ELSE Words(w)[n - Len(header)]
  <2>1. header \in Seq(Word) /\ Words(w) \in Seq(Word)
    BY <1>3
  <2>2. PICK h, u : h = header /\ u = Words(w) /\ h \in Seq(Word) /\ u \in Seq(Word)
    BY <2>1
  <2>3. /\ h \o u \in Seq(Word) /\ Len(h \o u) = Len(h) + Len(u)
        /\ Len(h) \in Nat /\ Len(u) \in Nat
        /\ \A n \in 1 .. Len(h) + Len(u) :
             (h \o u)[n] = IF n <= Len(h) THEN h[n] ELSE u[n - Len(h)]
    BY <2>2, Joined
  <2> QED
    BY <2>2, <2>3
<1>6. PICK j \in 1 .. Len(x) : j = Len(header) + k
  BY <1>4
<1>7. ASSUME NEW n \in 1 .. Len(x), n # j PROVE y[n] = x[n]
  <2>1. n \in 1 .. Len(header) + Len(Words(w)) /\ n \in 1 .. Len(header) + Len(Words(o))
    BY <1>1, <1>4
  <2>2. CASE n <= Len(header)
    BY <1>4, <1>5, <2>1, <2>2
  <2>3. CASE ~(n <= Len(header))
    <3>1. n - Len(header) \in 1 .. Len(Words(o)) /\ n - Len(header) # k
      BY <1>4, <1>6, <1>7, <2>1, <2>3
    <3> QED
      BY <1>2, <1>4, <1>5, <2>1, <2>3, <3>1
  <2> QED
    BY <2>2, <2>3
<1>8. x[j] = Words(o)[k] /\ y[j] = Words(w)[k]
  <2>1. /\ j \in 1 .. Len(header) + Len(Words(w)) /\ j \in 1 .. Len(header) + Len(Words(o))
        /\ ~(j <= Len(header)) /\ j - Len(header) = k
    BY <1>1, <1>4, <1>6
  <2> QED
    BY <1>4, <1>5, <2>1
<1>9. x \in Seq(Nat) /\ y \in Seq(Nat) /\ Len(y) = Len(x) /\ x[j] \in Nat /\ y[j] \in Nat
  <2>1. x \in Seq(Nat) /\ y \in Seq(Nat) /\ Len(y) = Len(x)
    BY <1>1, <1>4, <1>5, WordsAreNumbers
  <2> QED
    BY <2>1, ElementOfSeq
<1>10. SumOf(y) + x[j] = SumOf(x) + y[j]
  BY <1>7, <1>9, SumChange
<1>11. SumOf(x) \in Nat /\ SumOf(y) \in Nat
  BY <1>9, SumType
<1>12. y[j] # x[j] /\ y[j] - x[j] < Base - 1 /\ x[j] - y[j] < Base - 1 /\ Base - 1 \in Nat
  BY <1>2, <1>8, BaseType
<1>13. \E e \in Int : /\ SumOf(y) = SumOf(x) + e
                     /\ e # 0 /\ e < Base - 1 /\ -(Base - 1) < e
  <2>1. PICK s \in Nat, t \in Nat, p \in Nat, q \in Nat, m \in Nat :
          /\ s = SumOf(x) /\ t = SumOf(y) /\ p = y[j] /\ q = x[j] /\ m = Base - 1
    BY <1>9, <1>11, <1>12
  <2>2. t + q = s + p /\ p # q /\ p - q < m /\ q - p < m
    BY <1>10, <1>12, <2>1
  <2>3. \E e \in Int : t = s + e /\ e # 0 /\ e < m /\ -m < e
    BY ONLY <2>2, Difference
  <2> QED
    BY <2>1, <2>3
<1> QED
  BY <1>1, <1>4, <1>5, <1>13 DEF Sum32

(* What the two ends say of a block of fewer than Base words.              *)
LEMMA Tests ==
  ASSUME header \in Seq(Word), NEW v \in Seq(Byte), Len(header) + Len(Words(v)) < Base
  PROVE  /\ Sum32(v) \in Nat /\ Sum32(v) < Base * (Base - 1)
         /\ OnesSum(v) = Ones(Sum32(v))
         /\ ServerAccepts(v) <=> Sum32(v) # 0 /\ Sum32(v) % (Base - 1) = 0
         /\ HostAccepts(v) <=> FoldOnce(Sum32(v)) = Base - 1
<1>1. PICK w \in Seq(Word) : w = header \o Words(v) /\ Len(w) < Base
  <2>1. PICK h \in Seq(Word), u \in Seq(Word) : h = header /\ u = Words(v)
    BY WordsOf
  <2>2. h \o u \in Seq(Word) /\ Len(h \o u) = Len(h) + Len(u)
    BY <2>1, Joined
  <2> QED
    BY <2>1, <2>2
<1>2. Sum32(v) = SumOf(w) /\ OnesSum(v) = OnesSumOf(w)
  BY <1>1, WordsOf DEF Sum32, OnesSum
<1>3. /\ SumOf(w) \in Nat /\ SumOf(w) < Base * (Base - 1)
      /\ FoldOnce(SumOf(w)) = Base - 1 <=> SumOf(w) # 0 /\ SumOf(w) % (Base - 1) = 0
      /\ OnesSumOf(w) = Base - 1 <=> SumOf(w) # 0 /\ SumOf(w) % (Base - 1) = 0
  BY <1>1, SameTest
<1>4. OnesSumOf(w) = Ones(SumOf(w))
  BY OnesSumValue
<1>5. ComplementOf(SumOf(w)) = 0 <=> FoldOnce(SumOf(w)) = Base - 1
  BY <1>3, FoldTest
<1> QED
  BY <1>2, <1>3, <1>4, <1>5 DEF ServerAccepts, checksum, HostAccepts

(* Validation is exact although it folds once: of the blocks of fewer than *)
(* Base words, header included, _checksum is zero for just those that      *)
(* RFC 1071 accepts, whose one's complement sum, carries added until none  *)
(* is left, is all ones (validateTcpPacket and parseRawIpPacket).          *)
THEOREM ValidationExact ==
  ASSUME header \in Seq(Word), NEW v \in Seq(Byte), Len(header) + Len(Words(v)) < Base
  PROVE  ServerAccepts(v) <=> HostAccepts(v)
<1>1. /\ ServerAccepts(v) <=> Sum32(v) # 0 /\ Sum32(v) % (Base - 1) = 0
      /\ HostAccepts(v) <=> OnesSum(v) = Base - 1
  BY Tests DEF HostAccepts
<1>2. PICK w \in Seq(Word) : w = header \o Words(v) /\ Len(w) < Base
  <2>1. PICK h \in Seq(Word), u \in Seq(Word) : h = header /\ u = Words(v)
    BY WordsOf
  <2>2. h \o u \in Seq(Word) /\ Len(h \o u) = Len(h) + Len(u)
    BY <2>1, Joined
  <2> QED
    BY <2>1, <2>2
<1>3. Sum32(v) = SumOf(w) /\ OnesSum(v) = OnesSumOf(w)
  BY <1>2, WordsOf DEF Sum32, OnesSum
<1>4. OnesSumOf(w) = Base - 1 <=> SumOf(w) # 0 /\ SumOf(w) % (Base - 1) = 0
  BY <1>2, SameTest
<1> QED
  BY <1>1, <1>3, <1>4

(* The sum of a segment with its host's checksum: all ones, some times.    *)
LEMMA Completed ==
  ASSUME NEW s \in Nat
  PROVE  /\ Base - 1 - Ones(s) \in Word
         /\ \E k \in Nat \ {0} : s + (Base - 1 - Ones(s)) = k * (Base - 1)
<1> DEFINE D == Base - 1
<1>1. D \in Nat \ {0} /\ Base = D + 1
  BY BaseType
<1> HIDE DEF D
<1>2. CASE s = 0
  <2>1. Ones(s) = 0
    BY <1>2 DEF Ones
  <2>2. s + (Base - 1 - Ones(s)) = 1 * D /\ Base - 1 - Ones(s) \in 0 .. Base - 1
    BY <1>1, <1>2, <2>1
  <2> QED
    BY <2>2 DEF D, Word
<1>3. CASE s # 0
  <2>1. PICK n \in Nat : n = s - 1
    BY <1>3
  <2> DEFINE k == n \div D  m == n % D
  <2>2. k \in Nat /\ m \in 0 .. D - 1 /\ n = k * D + m
    BY <1>1, DivModExists
  <2>3. Ones(s) = m + 1
    BY <1>3, <2>1 DEF Ones, D
  <2> HIDE DEF k, m
  <2>4. Base - 1 - Ones(s) \in 0 .. Base - 1
    BY <1>1, <2>2, <2>3
  <2>5. s + (Base - 1 - Ones(s)) = (k + 1) * D
    <3>1. (k + 1) * D = k * D + D /\ k * D \in Nat
      BY <1>1, <2>2
    <3> QED
      BY <1>1, <2>1, <2>2, <2>3, <3>1
  <2>6. k + 1 \in Nat \ {0}
    BY <2>2
  <2> QED
    BY <2>4, <2>5, <2>6 DEF D, Word
<1> QED
  BY <1>2, <1>3

LEMMA Multiple ==
  ASSUME NEW D \in Nat \ {0}, NEW k \in Nat \ {0}
  PROVE  /\ k * D # 0 /\ (k * D) % D = 0
         /\ \A e \in Int : e # 0 /\ e < D /\ -D < e => (k * D + e) % D # 0
<1>1. k * D # 0
  OBVIOUS
<1>2. (k * D) % D = 0
  <2>1. 0 \in 0 .. D - 1 /\ k \in Int /\ k * D + 0 = k * D
    OBVIOUS
  <2> QED
    BY <2>1, DivMod
<1>3. ASSUME NEW e \in Int, e # 0, e < D, -D < e PROVE (k * D + e) % D # 0
  <2>1. CASE e > 0
    <3>1. e \in 0 .. D - 1 /\ k \in Int
      BY <1>3, <2>1
    <3>2. (k * D + e) % D = e
      BY <3>1, DivMod
    <3> QED
      BY <1>3, <3>2
  <2>2. CASE e < 0
    <3>1. PICK r \in 0 .. D - 1, q \in Int : r = D + e /\ q = k - 1 /\ r # 0
      BY <1>3, <2>2
    <3>2. (q * D + r) % D = r
      BY DivMod
    <3>3. q * D = k * D - D
      BY <3>1
    <3>4. q * D + r = k * D + e
      BY <3>1, <3>3
    <3> QED
      BY <3>1, <3>2, <3>4
  <2> QED
    BY <1>3, <2>1, <2>2
<1> QED
  BY <1>1, <1>2, <1>3

-----------------------------------------------------------------------------
(* The segment a host or the server sends.                                 *)
Sent == toNetwork16(IF builder = "host" THEN HostChecksum(data) ELSE checksum(data)) \o data

(* What the wire carries: the segment as it was sent, or one byte wrong.   *)
ChecksumInv ==
  /\ header \in Headers
  /\ \E n \in Lengths : data \in [1 .. n -> Byte]
  /\ builder \in {"nobody", "host", "server"} /\ damaged \in BOOLEAN
  /\ builder = "nobody" => ~damaged
  /\ builder # "nobody" /\ ~damaged => wire = Sent
  /\ builder # "nobody" /\ damaged =>
       \E i \in 1 .. Len(Sent), b \in Byte :
         b # Sent[i] /\ wire = [Sent EXCEPT ![i] = b]

(* The line damages at most one byte of what is sent, and nothing else     *)
(* happens to it.                                                          *)
THEOREM ChecksumInvariant == Spec => []ChecksumInv
<1>1. Init => ChecksumInv
  <2> SUFFICES ASSUME Init PROVE ChecksumInv
    OBVIOUS
  <2>1. \E n \in Lengths : data \in [1 .. n -> Byte]
    BY DEF Init
  <2> QED
    BY <2>1 DEF Init, ChecksumInv
<1>2. ChecksumInv /\ [Next]_vars => ChecksumInv'
  <2> SUFFICES ASSUME ChecksumInv, [Next]_vars PROVE ChecksumInv'
    OBVIOUS
  <2>1. CASE HostBuilds
    <3>1. /\ builder' = "host" /\ header' = header /\ data' = data /\ damaged' = damaged
          /\ ~damaged /\ wire' = toNetwork16(HostChecksum(data)) \o data
      BY <2>1 DEF HostBuilds, ChecksumInv
    <3>2. HostChecksum(data)' = HostChecksum(data)
      BY <3>1 DEF HostChecksum, OnesSum
    <3>3. wire' = Sent'
      BY <3>1, <3>2 DEF Sent
    <3> QED
      BY <3>1, <3>3 DEF ChecksumInv
  <2>2. CASE ServerBuilds
    <3>1. /\ builder' = "server" /\ header' = header /\ data' = data /\ damaged' = damaged
          /\ ~damaged /\ wire' = toNetwork16(checksum(data)) \o data
      BY <2>2 DEF ServerBuilds, ChecksumInv
    <3>2. checksum(data)' = checksum(data)
      BY <3>1 DEF checksum, Sum32
    <3>3. wire' = Sent'
      BY <3>1, <3>2 DEF Sent
    <3> QED
      BY <3>1, <3>3 DEF ChecksumInv
  <2>3. CASE DamageByte
    <3>1. /\ builder # "nobody" /\ builder' = builder /\ header' = header /\ data' = data
          /\ damaged' = TRUE /\ wire = Sent
          /\ \E i \in 1 .. Len(wire), b \in Byte : b # wire[i] /\ wire' = [wire EXCEPT ![i] = b]
      BY <2>3 DEF DamageByte, ChecksumInv
    <3>2. Sent' = Sent
      BY <3>1 DEF Sent, HostChecksum, OnesSum, checksum, Sum32
    <3> QED
      BY <3>1, <3>2 DEF ChecksumInv
  <2>4. CASE UNCHANGED vars
    <3>1. Sent' = Sent
      BY <2>4 DEF vars, Sent, HostChecksum, OnesSum, checksum, Sum32
    <3> QED
      BY <2>4, <3>1 DEF vars, ChecksumInv
  <2> QED
    BY <2>1, <2>2, <2>3, <2>4 DEF Next
<1> QED
  BY <1>1, <1>2, PTL DEF Spec

(* The segment and its sum are within the bounds of the arithmetic.        *)
LEMMA Bounded ==
  ASSUME ChecksumInv
  PROVE  /\ header \in Seq(Word) /\ data \in Seq(Byte)
         /\ Len(header) + Len(Words(data)) + 1 < Base
<1>1. PICK n \in Nat : n \in Lengths /\ data \in [1 .. n -> Byte]
  BY ChecksumAssumption DEF ChecksumInv
<1>2. data \in Seq(Byte)
  BY <1>1, SeqDef
<1>3. Len(data) = n
  BY <1>1, <1>2, LenProperties
<1>4. header \in Seq(Word) /\ Len(header) + (n + 3) \div 2 < Base /\ Len(header) \in Nat
  BY <1>1, ChecksumAssumption, LenProperties DEF ChecksumInv
<1>5. Len(Words(data)) = (n + 1) \div 2
  BY <1>2, <1>3, WordsOf
<1>6. (n + 3) \div 2 = (n + 1) \div 2 + 1
  OBVIOUS
<1> QED
  BY <1>2, <1>4, <1>5, <1>6, BaseType

(* The sum of what is sent is the data's sum and the checksum.             *)
LEMMA SentSum ==
  ASSUME header \in Seq(Word), data \in Seq(Byte), NEW c \in Word,
         Len(header) + Len(Words(data)) + 1 < Base
  PROVE  LET v == toNetwork16(c) \o data
         IN  /\ v \in Seq(Byte) /\ Len(Words(v)) = Len(Words(data)) + 1
             /\ Len(header) + Len(Words(v)) < Base
             /\ Sum32(v) = Sum32(data) + c
<1>1. PICK d \in Seq(Byte) : d = data
  OBVIOUS
<1>2. Prefixed(toNetwork16(c) \o d, c, d) /\ Sum32(toNetwork16(c) \o d) = Sum32(d) + c
  BY WireWords, WireSum
<1>3. Len(header) \in Nat /\ Len(Words(d)) \in Nat
  BY WordsOf, LenProperties
<1> QED
  BY <1>1, <1>2, <1>3, BaseType DEF Prefixed

-----------------------------------------------------------------------------
(* The segment of a host: its sum is a multiple of all ones.               *)
LEMMA HostSent ==
  ASSUME ChecksumInv, builder = "host"
  PROVE  /\ Sent \in Seq(Byte) /\ Len(header) + Len(Words(Sent)) < Base
         /\ \E k \in Nat \ {0} : Sum32(Sent) = k * (Base - 1)
<1>1. /\ header \in Seq(Word) /\ data \in Seq(Byte)
      /\ Len(header) + Len(Words(data)) + 1 < Base
  BY Bounded
<1>2. Len(header) \in Nat /\ Len(Words(data)) \in Nat
  BY <1>1, WordsOf, LenProperties
<1>3. Sum32(data) \in Nat /\ OnesSum(data) = Ones(Sum32(data))
  <2>1. Len(header) + Len(Words(data)) < Base
    BY <1>1, <1>2, BaseType
  <2> QED
    BY <1>1, <2>1, Tests
<1>4. PICK c \in Word : c = Base - 1 - Ones(Sum32(data)) /\ c = HostChecksum(data)
  BY <1>3, Completed DEF HostChecksum
<1>5. PICK v : v = toNetwork16(c) \o data /\ v = Sent
  BY <1>4 DEF Sent
<1>6. /\ v \in Seq(Byte) /\ Len(header) + Len(Words(v)) < Base
      /\ Sum32(v) = Sum32(data) + c
  BY <1>1, <1>5, SentSum
<1>7. \E k \in Nat \ {0} : Sum32(data) + c = k * (Base - 1)
  BY <1>3, <1>4, Completed
<1> QED
  BY <1>5, <1>6, <1>7

(* The server drops no segment of a host that arrives as it was sent.      *)
(* ServerAccepts folds once where RFC 1071 goes on, and data may be of odd *)
(* length: neither makes a difference to this test.                        *)
THEOREM HostSegmentAccepted == Spec => []HostSegmentsAccepted
<1>1. ChecksumInv => HostSegmentsAccepted
  <2> SUFFICES ASSUME ChecksumInv, builder = "host", ~damaged PROVE ServerAccepts(wire)
    BY DEF HostSegmentsAccepted
  <2>1. header \in Seq(Word) /\ wire = Sent
    BY Bounded DEF ChecksumInv
  <2>2. wire \in Seq(Byte) /\ Len(header) + Len(Words(wire)) < Base
    BY <2>1, HostSent
  <2>3. PICK k \in Nat \ {0} : Sum32(wire) = k * (Base - 1)
    BY <2>1, HostSent
  <2>4. Base - 1 \in Nat \ {0}
    BY BaseType
  <2>5. k * (Base - 1) # 0 /\ (k * (Base - 1)) % (Base - 1) = 0
    BY <2>4, Multiple
  <2>6. ServerAccepts(wire) <=> Sum32(wire) # 0 /\ Sum32(wire) % (Base - 1) = 0
    BY <2>1, <2>2, Tests
  <2> QED
    BY <2>3, <2>5, <2>6
<1> QED
  BY <1>1, ChecksumInvariant, PTL

(* One wrong byte moves the sum by less than all ones, and off every       *)
(* multiple of it: the server drops the segment.                           *)
THEOREM DamagedSegmentDropped == Spec => []DamageNoticed
<1>1. ChecksumInv => DamageNoticed
  <2> SUFFICES ASSUME ChecksumInv, builder = "host", damaged PROVE ~ServerAccepts(wire)
    BY DEF DamageNoticed
  <2>1. header \in Seq(Word)
    BY Bounded
  <2>2. PICK o \in Seq(Byte) : o = Sent /\ Len(header) + Len(Words(o)) < Base
    BY HostSent
  <2>3. PICK k \in Nat \ {0} : Sum32(o) = k * (Base - 1)
    BY <2>2, HostSent
  <2>4. PICK i \in 1 .. Len(o), b \in Byte : b # o[i] /\ wire = [o EXCEPT ![i] = b]
    BY <2>2 DEF ChecksumInv
  <2>5. /\ wire \in Seq(Byte) /\ Len(Words(wire)) = Len(Words(o))
        /\ \E e \in Int : /\ Sum32(wire) = Sum32(o) + e
                       /\ e # 0 /\ e < Base - 1 /\ -(Base - 1) < e
    BY <2>1, <2>4, DamagedSum
  <2>6. PICK e \in Int : /\ Sum32(wire) = Sum32(o) + e
                         /\ e # 0 /\ e < Base - 1 /\ -(Base - 1) < e
    BY <2>5
  <2>7. (k * (Base - 1) + e) % (Base - 1) # 0
    <3>1. PICK D \in Nat \ {0} : D = Base - 1
      BY BaseType
    <3> QED
      BY <2>6, <3>1, Multiple
  <2>8. ServerAccepts(wire) <=> Sum32(wire) # 0 /\ Sum32(wire) % (Base - 1) = 0
    BY <2>1, <2>2, <2>5, Tests
  <2> QED
    BY <2>3, <2>6, <2>7, <2>8
<1> QED
  BY <1>1, ChecksumInvariant, PTL

(* A host accepts what the server builds just if adding the carries once   *)
(* left no carry: the server's one fold is exactly what is wrong with it.  *)
THEOREM AnswerAcceptedBarCarry == Spec => []AnswersAcceptedBarCarry
<1>1. ChecksumInv => AnswersAcceptedBarCarry
  <2> SUFFICES ASSUME ChecksumInv, builder = "server", ~damaged
               PROVE  HostAccepts(wire) <=> FoldOnce(Sum32(data)) < Base
    BY DEF AnswersAcceptedBarCarry
  <2>1. /\ header \in Seq(Word) /\ data \in Seq(Byte)
        /\ Len(header) + Len(Words(data)) + 1 < Base
    BY Bounded
  <2>2. Len(header) + Len(Words(data)) < Base
    <3>1. Len(header) \in Nat /\ Len(Words(data)) \in Nat
      BY <2>1, WordsOf, LenProperties
    <3> QED
      BY <2>1, <3>1, BaseType
  <2>3. PICK s \in Nat : s = Sum32(data) /\ s < Base * (Base - 1)
    BY <2>1, <2>2, Tests
  <2>4. PICK c \in Word : c = ComplementOf(s) /\ c = checksum(data)
    <3>1. ComplementOf(s) \in Word
      <4>1. FoldOnce(s) \in Nat /\ Base \in Nat \ {0} /\ Base * Base - 1 - FoldOnce(s) \in Int
        BY <2>3, FoldBound, BaseType
      <4> QED
        BY <4>1 DEF ComplementOf, Word
    <3> QED
      BY <2>3, <3>1 DEF checksum
  <2>5. PICK v : v = toNetwork16(c) \o data /\ v = wire
    BY <2>4 DEF ChecksumInv, Sent
  <2>6. /\ v \in Seq(Byte) /\ Len(header) + Len(Words(v)) < Base
        /\ Sum32(v) = Sum32(data) + c
    BY <2>1, <2>5, SentSum
  <2>7. HostAccepts(v) <=> FoldOnce(s + c) = Base - 1
    BY <2>1, <2>3, <2>6, Tests
  <2>8. /\ FoldOnce(s) < Base => FoldOnce(s + c) = Base - 1
        /\ FoldOnce(s) >= Base => FoldOnce(s + c) = Base
    BY <2>3, <2>4, BuiltBarCarry
  <2>9. FoldOnce(s) \in Nat /\ Base \in Nat
    BY <2>3, FoldBound, BaseType
  <2> QED
    BY <2>3, <2>5, <2>7, <2>8, <2>9
<1> QED
  BY <1>1, ChecksumInvariant, PTL

-----------------------------------------------------------------------------
(* Sums of blocks that are put together, for whoever computes checksums of *)
(* headers.                                                                *)
LEMMA SumAppend ==
  ASSUME NEW u \in Seq(Nat), NEW v \in Seq(Nat), Len(v) = Len(u) + 1,
         \A i \in 1 .. Len(u) : v[i] = u[i]
  PROVE  SumOf(v) = SumOf(u) + v[Len(v)]
<1>1. Len(u) \in Nat /\ Len(v) \in Nat
  BY LenProperties
<1>2. PICK j \in 1 .. Len(v) : j = Len(v)
  BY <1>1
<1>3. \A i \in 1 .. Len(v) : /\ i < j => v[i] = u[i]
                             /\ i > j => v[i] = u[i - 1]
  BY <1>1, <1>2
<1>4. SumOf(v) = SumOf(u) + v[j]
  BY <1>3, SumInsert
<1> QED
  BY <1>2, <1>4

LEMMA SumConcat ==
  ASSUME NEW u \in Seq(Nat), NEW v \in Seq(Nat)
  PROVE  SumOf(u \o v) = SumOf(u) + SumOf(v)
<1> DEFINE first(n) == SubSeq(v, 1, n)
           S == {n \in Nat : n <= Len(v) => SumOf(u \o first(n)) = SumOf(u) + SumOf(first(n))}
<1>1. Len(u) \in Nat /\ Len(v) \in Nat /\ SumOf(u) \in Nat
  BY LenProperties, SumType
<1>2. ASSUME NEW n \in Nat, n <= Len(v)
      PROVE  /\ first(n) \in Seq(Nat) /\ Len(first(n)) = n
             /\ \A i \in 1 .. n : first(n)[i] = v[i]
  <2>1. \A i \in 1 .. n : v[i] \in Nat
    BY <1>1, <1>2, ElementOfSeq
  <2> QED
    BY <1>1, <1>2, <2>1, SubSeqProperties
<1> HIDE DEF first
<1>3. 0 \in S
  <2>1. first(0) \in Seq(Nat) /\ Len(first(0)) = 0
    BY <1>1, <1>2
  <2>2. first(0) = <<>>
    BY <2>1, EmptySeq
  <2>3. u \o first(0) = u
    BY <2>2, ConcatEmptySeq
  <2>4. SumOf(first(0)) = 0
    <3>1. PICK s : Sums(first(0), s) /\ SumOf(first(0)) = s[Len(first(0))]
      BY <2>1, SumsExist
    <3> QED
      BY <2>1, <3>1 DEF Sums
  <2>5. SumOf(u) = SumOf(u) + 0
    BY <1>1
  <2>6. SumOf(u \o first(0)) = SumOf(u) + SumOf(first(0))
    BY <2>3, <2>4, <2>5
  <2> QED
    BY <2>6
<1>4. ASSUME NEW n \in Nat, n \in S PROVE n + 1 \in S
  <2>1. ASSUME n + 1 <= Len(v)
        PROVE  SumOf(u \o first(n + 1)) = SumOf(u) + SumOf(first(n + 1))
    <3>1. PICK a \in Seq(Nat), b \in Seq(Nat) :
            /\ a = first(n) /\ b = first(n + 1) /\ Len(a) = n /\ Len(b) = n + 1
            /\ \A i \in 1 .. n : b[i] = a[i]
      <4>1. n <= Len(v) /\ n + 1 \in Nat /\ \A i \in 1 .. n : i \in 1 .. n + 1
        BY <1>1, <2>1
      <4>2. /\ first(n) \in Seq(Nat) /\ Len(first(n)) = n
            /\ \A i \in 1 .. n : first(n)[i] = v[i]
        BY <1>2, <4>1
      <4>3. /\ first(n + 1) \in Seq(Nat) /\ Len(first(n + 1)) = n + 1
            /\ \A i \in 1 .. n + 1 : first(n + 1)[i] = v[i]
        BY <1>2, <2>1, <4>1
      <4> QED
        BY <4>1, <4>2, <4>3
    <3>2. SumOf(u \o a) = SumOf(u) + SumOf(a)
      BY <1>1, <1>4, <2>1, <3>1 DEF S
    <3>3. /\ u \o a \in Seq(Nat) /\ Len(u \o a) = Len(u) + n
          /\ u \o b \in Seq(Nat) /\ Len(u \o b) = Len(u) + (n + 1)
          /\ \A i \in 1 .. Len(u) + n :
               (u \o a)[i] = IF i <= Len(u) THEN u[i] ELSE a[i - Len(u)]
          /\ \A i \in 1 .. Len(u) + (n + 1) :
               (u \o b)[i] = IF i <= Len(u) THEN u[i] ELSE b[i - Len(u)]
      <4>1. /\ u \o a \in Seq(Nat) /\ Len(u \o a) = Len(u) + Len(a)
            /\ \A i \in 1 .. Len(u) + Len(a) :
                 (u \o a)[i] = IF i <= Len(u) THEN u[i] ELSE a[i - Len(u)]
        BY Joined
      <4>2. /\ u \o b \in Seq(Nat) /\ Len(u \o b) = Len(u) + Len(b)
            /\ \A i \in 1 .. Len(u) + Len(b) :
                 (u \o b)[i] = IF i <= Len(u) THEN u[i] ELSE b[i - Len(u)]
        BY Joined
      <4> QED
        BY <3>1, <4>1, <4>2
    <3>4. PICK x \in Seq(Nat), y \in Seq(Nat) : x = u \o a /\ y = u \o b
      BY <3>3
    <3>5. Len(y) = Len(x) + 1 /\ y[Len(y)] = b[Len(b)]
      <4>1. PICK k \in Nat : k = Len(u)
        BY <1>1
      <4>2. /\ k + (n + 1) \in 1 .. k + (n + 1) /\ ~(k + (n + 1) <= k)
            /\ (k + (n + 1)) - k = n + 1 /\ k + (n + 1) = (k + n) + 1
        OBVIOUS
      <4>3. Len(y) = k + (n + 1) /\ Len(x) = k + n
        BY <3>3, <3>4, <4>1
      <4>4. y[k + (n + 1)] = b[n + 1]
        BY <3>3, <3>4, <4>1, <4>2
      <4> QED
        BY <3>1, <4>2, <4>3, <4>4
    <3>6. ASSUME NEW i \in 1 .. Len(x) PROVE y[i] = x[i]
      <4>1. i \in 1 .. Len(u) + n /\ i \in 1 .. Len(u) + (n + 1)
        BY <1>1, <3>3, <3>4
      <4>2. ~(i <= Len(u)) => i - Len(u) \in 1 .. n
        BY <1>1, <4>1
      <4> QED
        BY <3>1, <3>3, <3>4, <4>1, <4>2
    <3>7. SumOf(y) = SumOf(x) + y[Len(y)]
      BY <3>5, <3>6, SumAppend
    <3>8. SumOf(b) = SumOf(a) + b[Len(b)]
      BY <3>1, SumAppend
    <3>9. SumOf(a) \in Nat /\ b[Len(b)] \in Nat
      BY <3>1, SumType, ElementOfSeq
    <3>10. SumOf(u \o b) = (SumOf(u) + SumOf(a)) + b[Len(b)]
      BY <3>2, <3>4, <3>5, <3>7
    <3>11. SumOf(u \o b) = SumOf(u) + SumOf(b)
      BY <1>1, <3>8, <3>9, <3>10
    <3> QED
      BY <3>1, <3>11
  <2> QED
    BY <2>1
<1> HIDE DEF S
<1>5. Len(v) \in S
  BY <1>1, <1>3, <1>4, SetInduction
<1>6. first(Len(v)) = v
  <2>1. PICK w \in Seq(Nat) : w = first(Len(v)) /\ Len(w) = Len(v)
                            /\ \A i \in 1 .. Len(v) : w[i] = v[i]
    BY <1>1, <1>2
  <2>2. w = v
    BY <2>1, SeqEqual
  <2> QED
    BY <2>1, <2>2
<1> QED
  BY <1>1, <1>5, <1>6 DEF S

(* Blocks whose first part is of even length: their words are the words of *)
(* the parts.                                                              *)
LEMMA WordsConcat ==
  ASSUME NEW x \in Seq(Byte), NEW y \in Seq(Byte), Len(x) % 2 = 0
  PROVE  Words(x \o y) = Words(x) \o Words(y)
<1>1. /\ Len(x) \in Nat /\ Len(y) \in Nat
      /\ x \o y \in Seq(Byte) /\ Len(x \o y) = Len(x) + Len(y)
      /\ \A j \in 1 .. Len(x) + Len(y) :
           (x \o y)[j] = IF j <= Len(x) THEN x[j] ELSE y[j - Len(x)]
  BY Joined
<1>2. PICK m \in Nat : Len(x) = 2 * m
  BY <1>1
<1>3. PICK z \in Seq(Byte) : z = x \o y
  BY <1>1
<1>4. PICK n \in Nat : n = (Len(y) + 1) \div 2
  BY <1>1
<1>5. PICK u \in Seq(Word) :
        /\ u = Words(x) /\ Len(u) = m
        /\ \A i \in 1 .. m : u[i] = x[2 * i - 1] * ByteBase + IF 2 * i > Len(x) THEN 0 ELSE x[2 * i]
  <2>1. (2 * m + 1) \div 2 = m
    OBVIOUS
  <2>2. Len(Words(x)) = m
    BY <1>2, <2>1, WordsOf
  <2>3. /\ Words(x) \in Seq(Word)
        /\ \A i \in 1 .. Len(Words(x)) :
             Words(x)[i] = x[2 * i - 1] * ByteBase + IF 2 * i > Len(x) THEN 0 ELSE x[2 * i]
    BY WordsOf
  <2> QED
    BY <2>2, <2>3
<1>6. PICK v \in Seq(Word) :
        /\ v = Words(y) /\ Len(v) = n
        /\ \A i \in 1 .. n : v[i] = y[2 * i - 1] * ByteBase + IF 2 * i > Len(y) THEN 0 ELSE y[2 * i]
  BY <1>4, WordsOf
<1>7. PICK w \in Seq(Word) :
        /\ w = Words(z) /\ Len(w) = m + n
        /\ \A i \in 1 .. m + n :
             w[i] = z[2 * i - 1] * ByteBase + IF 2 * i > Len(z) THEN 0 ELSE z[2 * i]
  <2>1. (Len(z) + 1) \div 2 = m + n
    <3>1. PICK l \in Nat : l = Len(y) /\ Len(z) = 2 * m + l
      BY <1>1, <1>2, <1>3
    <3>2. ((2 * m + l) + 1) \div 2 = m + (l + 1) \div 2
      OBVIOUS
    <3> QED
      BY <1>4, <3>1, <3>2
  <2> QED
    BY <2>1, WordsOf
<1>8. /\ u \o v \in Seq(Word) /\ Len(u \o v) = m + n
      /\ \A i \in 1 .. m + n : (u \o v)[i] = IF i <= m THEN u[i] ELSE v[i - m]
  <2>1. /\ u \o v \in Seq(Word) /\ Len(u \o v) = Len(u) + Len(v)
        /\ \A i \in 1 .. Len(u) + Len(v) :
             (u \o v)[i] = IF i <= Len(u) THEN u[i] ELSE v[i - Len(u)]
    BY Joined
  <2> QED
    BY <1>5, <1>6, <2>1
<1>9. ASSUME NEW i \in 1 .. m + n PROVE w[i] = (u \o v)[i]
  <2>1. CASE i <= m
    <3>1. /\ i \in 1 .. m /\ 2 * i - 1 \in 1 .. Len(x) + Len(y) /\ 2 * i \in 1 .. Len(x) + Len(y)
          /\ 2 * i - 1 <= Len(x) /\ 2 * i <= Len(x) /\ ~(2 * i > Len(x)) /\ ~(2 * i > Len(z))
      BY <1>1, <1>2, <1>3, <2>1
    <3>2. z[2 * i - 1] = x[2 * i - 1] /\ z[2 * i] = x[2 * i]
      BY <1>1, <1>3, <3>1
    <3> QED
      BY <1>5, <1>7, <1>8, <2>1, <3>1, <3>2
  <2>2. CASE ~(i <= m)
    <3>1. PICK k \in 1 .. n : k = i - m /\ 2 * i = 2 * k + Len(x)
      BY <1>2, <2>2
    <3>2. 2 * k - 1 \in 1 .. Len(y)
      BY <1>1, <1>4, <3>1
    <3>3. z[2 * i - 1] = y[2 * k - 1]
      <4>1. /\ 2 * i - 1 \in 1 .. Len(x) + Len(y) /\ ~(2 * i - 1 <= Len(x))
            /\ (2 * i - 1) - Len(x) = 2 * k - 1
        BY <1>1, <3>1, <3>2
      <4> QED
        BY <1>1, <1>3, <4>1
    <3>4. 2 * i > Len(z) <=> 2 * k > Len(y)
      BY <1>1, <1>3, <3>1
    <3>5. ~(2 * k > Len(y)) => z[2 * i] = y[2 * k]
      <4>1. SUFFICES ASSUME ~(2 * k > Len(y)) PROVE z[2 * i] = y[2 * k]
        OBVIOUS
      <4>2. /\ 2 * i \in 1 .. Len(x) + Len(y) /\ ~(2 * i <= Len(x))
            /\ 2 * i - Len(x) = 2 * k
        <5>1. PICK l \in Nat, r \in Nat : l = Len(x) /\ r = Len(y)
          BY <1>1
        <5>2. 2 * i = 2 * k + l /\ ~(2 * k > r) /\ k \in Nat \ {0} /\ i \in Nat
          BY <3>1, <4>1, <5>1
        <5>3. 2 * i \in 1 .. l + r /\ ~(2 * i <= l) /\ 2 * i - l = 2 * k
          BY <5>2
        <5> QED
          BY <5>1, <5>3
      <4> QED
        BY <1>1, <1>3, <4>2
    <3>6. w[i] = v[k]
      <4>1. w[i] = z[2 * i - 1] * ByteBase + IF 2 * i > Len(z) THEN 0 ELSE z[2 * i]
        BY <1>7
      <4>2. v[k] = y[2 * k - 1] * ByteBase + IF 2 * k > Len(y) THEN 0 ELSE y[2 * k]
        BY <1>6
      <4> QED
        BY <3>3, <3>4, <3>5, <4>1, <4>2
    <3> QED
      BY <1>8, <2>2, <3>1, <3>6
  <2> QED
    BY <2>1, <2>2
<1>10. w = u \o v
  BY <1>7, <1>8, <1>9, SeqEqual
<1> QED
  BY <1>3, <1>5, <1>6, <1>7, <1>10

(* A field that was zero is filled in: the sum grows by its value.         *)
LEMMA FieldSum ==
  ASSUME NEW a \in Seq(Byte), NEW b \in Seq(Byte), Len(b) = Len(a),
         NEW j \in Nat \ {0}, 2 * j <= Len(a),
         \A i \in 1 .. Len(a) : i # 2 * j - 1 /\ i # 2 * j => b[i] = a[i],
         a[2 * j - 1] = 0, a[2 * j] = 0
  PROVE  SumOf(Words(b)) = SumOf(Words(a)) + (b[2 * j - 1] * ByteBase + b[2 * j])
<1>1. Len(a) \in Nat
  BY LenProperties
<1>2. PICK u \in Seq(Word) :
        /\ u = Words(a) /\ Len(u) = (Len(a) + 1) \div 2
        /\ \A i \in 1 .. Len(u) : u[i] = a[2 * i - 1] * ByteBase + IF 2 * i > Len(a) THEN 0 ELSE a[2 * i]
  BY WordsOf
<1>3. PICK v \in Seq(Word) :
        /\ v = Words(b) /\ Len(v) = Len(u)
        /\ \A i \in 1 .. Len(u) : v[i] = b[2 * i - 1] * ByteBase + IF 2 * i > Len(a) THEN 0 ELSE b[2 * i]
  <2>1. Len(Words(b)) = Len(u)
    BY <1>2, WordsOf
  <2>2. /\ Words(b) \in Seq(Word)
        /\ \A i \in 1 .. Len(Words(b)) :
             Words(b)[i] = b[2 * i - 1] * ByteBase + IF 2 * i > Len(b) THEN 0 ELSE b[2 * i]
    BY WordsOf
  <2> QED
    BY <2>1, <2>2
<1>4. j \in 1 .. Len(u)
  BY <1>1, <1>2
<1>5. ASSUME NEW i \in 1 .. Len(u), i # j PROVE v[i] = u[i]
  <2>1. /\ 2 * i - 1 \in 1 .. Len(a) /\ 2 * i - 1 # 2 * j - 1 /\ 2 * i - 1 # 2 * j
        /\ 2 * i # 2 * j - 1 /\ 2 * i # 2 * j
        /\ ~(2 * i > Len(a)) => 2 * i \in 1 .. Len(a)
    BY <1>1, <1>2, <1>5
  <2>2. b[2 * i - 1] = a[2 * i - 1] /\ (~(2 * i > Len(a)) => b[2 * i] = a[2 * i])
    BY <2>1
  <2> QED
    BY <1>2, <1>3, <2>2
<1>6. ByteBase \in Nat /\ ByteBase > 1
  BY ChecksumAssumption
<1>7. u[j] = 0
  <2>1. u[j] = 0 * ByteBase + 0
    BY <1>1, <1>2, <1>4
  <2> QED
    BY <1>6, <2>1
<1>8. v[j] = b[2 * j - 1] * ByteBase + b[2 * j]
  BY <1>1, <1>3, <1>4
<1>9. u \in Seq(Nat) /\ v \in Seq(Nat) /\ v[j] \in Nat
  BY <1>2, <1>3, <1>4, WordsAreNumbers, ElementOfSeq
<1>10. SumOf(v) + u[j] = SumOf(u) + v[j]
  BY <1>3, <1>4, <1>5, <1>9, SumChange
<1>11. SumOf(u) \in Nat /\ SumOf(v) \in Nat
  BY <1>9, SumType
<1> QED
  BY <1>2, <1>3, <1>7, <1>8, <1>9, <1>10, <1>11
=============================================================================
