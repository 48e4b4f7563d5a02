---------------------------- MODULE Framing_proofs ----------------------------
(***************************************************************************)
(* Where the frames of a stream begin, for the proofs about its two        *)
(* readers.                                                                *)
(***************************************************************************)
EXTENDS Framing, SequenceTheorems, WellFoundedInduction, TLAPS

(* Induction, for the set of the numbers that have the property.           *)
LEMMA SetInduction ==
  ASSUME NEW S, 0 \in S, \A n \in Nat : n \in S => n + 1 \in S
  PROVE  Nat \subseteq S
<1> DEFINE Less == {pair \in Nat \X Nat : pair[1] < pair[2]}
           T == Nat \ S
<1>1. IsWellFoundedOn(Less, Nat)
  BY NatLessThanWellFounded DEF OpToRel
<1>2. SUFFICES ASSUME T # {} PROVE FALSE
  OBVIOUS
<1>3. T \subseteq Nat
  OBVIOUS
<1> HIDE DEF T, Less
<1>4. PICK n \in T : \A m \in T : ~(<<m, n>> \in Less)
  BY <1>1, <1>2, <1>3, WFMin
<1>5. n \in Nat /\ n \notin S
  BY <1>3, <1>4 DEF T
<1>6. n - 1 \in Nat /\ n - 1 < n /\ (n - 1) + 1 = n
  BY <1>5
<1>7. n - 1 \notin T
  BY <1>4, <1>5, <1>6 DEF Less
<1>8. n - 1 \in S
  BY <1>6, <1>7 DEF T
<1> QED
  BY <1>5, <1>6, <1>8

Bytes == Seq(Nat)

LEMMA ByteBasePositive == ByteBase \in Nat \ {0} /\ MAGIC_NUMBER \in Bytes /\ Len(MAGIC_NUMBER) = 3
<1>1. MAGIC_NUMBER \in [1 .. 3 -> 0 .. ByteBase - 1] /\ ByteBase \in Nat
  BY FramingAssumption DEF Byte
<1>2. MAGIC_NUMBER[1] \in 0 .. ByteBase - 1
  BY <1>1
<1>3. MAGIC_NUMBER \in [1 .. 3 -> Nat]
  BY <1>1
<1>4. MAGIC_NUMBER \in Bytes /\ Len(MAGIC_NUMBER) = 3
  <2>1. MAGIC_NUMBER \in Seq(Nat)
    BY <1>3, SeqDef
  <2>2. DOMAIN MAGIC_NUMBER = 1 .. Len(MAGIC_NUMBER) /\ Len(MAGIC_NUMBER) \in Nat
    BY <2>1, LenProperties
  <2> QED
    BY <1>3, <2>1, <2>2 DEF Bytes
<1> QED
  BY <1>1, <1>2, <1>4

(* Facts of SequenceTheorems in the form that is needed here.              *)
LEMMA Appended ==
  ASSUME NEW S, NEW w \in Seq(S), NEW e \in S
  PROVE  /\ Append(w, e) \in Seq(S) /\ Len(Append(w, e)) = Len(w) + 1
         /\ Append(w, e)[Len(w) + 1] = e
         /\ \A i \in 1 .. Len(w) : Append(w, e)[i] = w[i]
  BY AppendProperties

LEMMA Joined ==
  ASSUME NEW a \in Bytes, NEW b \in Bytes
  PROVE  /\ a \o b \in Bytes /\ Len(a \o b) = Len(a) + Len(b)
         /\ Len(a) \in Nat /\ Len(b) \in Nat
         /\ \A j \in 1 .. Len(a) + Len(b) :
              (a \o b)[j] = IF j <= Len(a) THEN a[j] ELSE b[j - Len(a)]
  BY ConcatProperties, LenProperties DEF Bytes

LEMMA Regrouped ==
  ASSUME NEW a \in Bytes, NEW b \in Bytes, NEW c \in Bytes
  PROVE  (a \o b) \o c = a \o (b \o c)
  BY ConcatAssociative, SMTT(30) DEF Bytes

LEMMA PacketBytes ==
  ASSUME NEW p \in Packets
  PROVE  p \in Bytes /\ Len(p) \in Nat \ {0}
<1>1. p \in Seq(Byte) /\ Len(p) \in 1 .. ByteBase * ByteBase - 1
  BY FramingAssumption
<1>2. Byte \subseteq Nat
  BY FramingAssumption DEF Byte
<1>3. p \in Bytes
  BY <1>1, <1>2, SeqMonotonic DEF Bytes
<1> QED
  BY <1>1, <1>3, LenProperties DEF Bytes

(* A size survives being written as two bytes.                             *)
LEMMA SizeBytes ==
  ASSUME NEW n \in Nat
  PROVE  /\ u2B(n) \in Bytes /\ Len(u2B(n)) = 2
         /\ B2u(u2B(n)[1], u2B(n)[2]) = n
<1> DEFINE high == n \div ByteBase  low == n % ByteBase
<1>1. high \in Nat /\ low \in Nat /\ n = high * ByteBase + low
  BY ByteBasePositive
<1>2. u2B(n) = <<high, low>>
  BY DEF u2B
<1>3. B2u(high, low) = n
  BY <1>1 DEF B2u
<1> HIDE DEF high, low
<1>4. <<high, low>> \in Bytes /\ Len(<<high, low>>) = 2
  BY <1>1 DEF Bytes
<1> QED
  BY <1>2, <1>3, <1>4

LEMMA FrameBytes ==
  ASSUME NEW p \in Packets
  PROVE  /\ FrameOf(p) \in Bytes
         /\ Len(FrameOf(p)) = Len(p) + 5
         /\ \A j \in 1 .. 3 : FrameOf(p)[j] = MAGIC_NUMBER[j]
         /\ FrameOf(p)[4] = u2B(Len(p))[1]
         /\ FrameOf(p)[5] = u2B(Len(p))[2]
         /\ \A j \in 1 .. Len(p) : FrameOf(p)[5 + j] = p[j]
<1> DEFINE z == u2B(Len(p))  prolog == MAGIC_NUMBER \o z
<1>1. p \in Bytes /\ Len(p) \in Nat
  BY PacketBytes
<1>2. z \in Bytes /\ Len(z) = 2
  BY <1>1, SizeBytes
<1>3. FrameOf(p) = prolog \o p
  <2>1. FrameOf(p) = MAGIC_NUMBER \o z \o p
    BY DEF FrameOf
  <2> HIDE DEF z
  <2>2. (MAGIC_NUMBER \o z) \o p = MAGIC_NUMBER \o (z \o p)
    BY <1>1, <1>2, ByteBasePositive, Regrouped
  <2> QED
    BY <2>1, <2>2
<1> HIDE DEF z
<1>4. /\ prolog \in Bytes /\ Len(prolog) = 5
      /\ \A j \in 1 .. 5 : prolog[j] = IF j <= 3 THEN MAGIC_NUMBER[j] ELSE z[j - 3]
  <2>1. /\ prolog \in Bytes /\ Len(prolog) = Len(MAGIC_NUMBER) + Len(z)
        /\ \A j \in 1 .. Len(MAGIC_NUMBER) + Len(z) : prolog[j] =
             IF j <= Len(MAGIC_NUMBER) THEN MAGIC_NUMBER[j] ELSE z[j - Len(MAGIC_NUMBER)]
    BY <1>2, ByteBasePositive, Joined
  <2>2. Len(MAGIC_NUMBER) = 3 /\ Len(z) = 2
    BY <1>2, ByteBasePositive
  <2> QED
    BY <2>1, <2>2
<1> HIDE DEF prolog
<1>5. /\ prolog \o p \in Bytes /\ Len(prolog \o p) = 5 + Len(p)
      /\ \A j \in 1 .. 5 + Len(p) : (prolog \o p)[j] = IF j <= 5 THEN prolog[j] ELSE p[j - 5]
  <2>1. /\ prolog \o p \in Bytes /\ Len(prolog \o p) = Len(prolog) + Len(p)
        /\ \A j \in 1 .. Len(prolog) + Len(p) : (prolog \o p)[j] =
             IF j <= Len(prolog) THEN prolog[j] ELSE p[j - Len(prolog)]
    BY <1>1, <1>4, Joined
  <2>2. Len(prolog) = 5
    BY <1>4
  <2> QED
    BY <2>1, <2>2
<1>6. /\ \A j \in 1 .. 3 : FrameOf(p)[j] = MAGIC_NUMBER[j]
      /\ FrameOf(p)[4] = z[1] /\ FrameOf(p)[5] = z[2]
  BY <1>1, <1>3, <1>4, <1>5
<1>7. ASSUME NEW j \in 1 .. Len(p) PROVE FrameOf(p)[5 + j] = p[j]
  BY <1>1, <1>3, <1>5
<1> QED
  BY <1>1, <1>3, <1>5, <1>6, <1>7 DEF z

(* A byte of a frame that lies before total, n bytes back and forth.       *)
LEMMA Within ==
  ASSUME NEW first \in Int, NEW len \in Nat, NEW total \in Nat, NEW n \in Nat,
         NEW j \in 1 .. len + 5, first + len + 5 <= total + 1,
         first - n + j - 1 >= 1
  PROVE  /\ first - n + j - 1 \in 1 .. total - n
         /\ first + j - 1 \in 1 .. total /\ first + j - 1 >= 1
         /\ n + (first - n + j - 1) = first + j - 1
  OBVIOUS

-----------------------------------------------------------------------------
(* The stream rest, of which packets in s have been sent and some read:    *)
(* frame i begins at cut[i], before 1 if it has been read in part or       *)
(* whole.                                                                  *)
Cuts(s, rest, cut) ==
  /\ cut \in [1 .. Len(s) + 1 -> Int]
  /\ cut[Len(s) + 1] = Len(rest) + 1
  /\ \A i \in 1 .. Len(s) + 1 : cut[i] <= Len(rest) + 1
  /\ \A i \in 1 .. Len(s) : cut[i + 1] = cut[i] + Len(s[i]) + 5
  /\ \A i \in 1 .. Len(s) : \A j \in 1 .. Len(s[i]) + 5 :
       cut[i] + j - 1 >= 1 => rest[cut[i] + j - 1] = FrameOf(s[i])[j]

LEMMA CutsContents ==
  ASSUME NEW s, NEW rest, NEW cut, Cuts(s, rest, cut),
         NEW i \in 1 .. Len(s), NEW j \in 1 .. Len(s[i]) + 5, cut[i] + j - 1 >= 1
  PROVE  rest[cut[i] + j - 1] = FrameOf(s[i])[j]
  BY DEF Cuts

LEMMA CutsNothing == Cuts(<<>>, <<>>, [i \in 1 .. 1 |-> 1])
  BY DEF Cuts

(* What is next is the part of frame i that has not been read.             *)
LEMMA CutsNext ==
  ASSUME NEW s \in Seq(Packets), NEW rest \in Bytes, NEW cut, Cuts(s, rest, cut),
         NEW i \in 1 .. Len(s) + 1, NEW off \in Nat, cut[i] = 1 - off,
         NEW n \in 1 .. Len(rest)
  PROVE  /\ i \in 1 .. Len(s)
         /\ s[i] \in Packets
         /\ Len(s[i]) + 5 <= off + Len(rest)
         /\ off + n <= Len(s[i]) + 5 =>
              rest[n] = FrameOf(s[i])[off + n]
<1>1. Len(rest) \in Nat /\ Len(s) \in Nat
  BY LenProperties DEF Bytes
<1>2. i \in 1 .. Len(s)
  BY <1>1 DEF Cuts
<1>3. s[i] \in Packets
  BY <1>2, ElementOfSeq
<1>4. Len(s[i]) \in Nat
  BY <1>3, PacketBytes
<1>5. cut[i + 1] = cut[i] + Len(s[i]) + 5 /\ i + 1 \in 1 .. Len(s) + 1
  BY <1>1, <1>2 DEF Cuts
<1>6. cut[i + 1] <= Len(rest) + 1
  BY <1>5 DEF Cuts
<1>7. Len(s[i]) + 5 <= off + Len(rest)
  <2>1. cut[i + 1] = (1 - off) + Len(s[i]) + 5
    BY <1>5
  <2> QED
    BY <1>1, <1>4, <1>6, <2>1
<1>8. ASSUME off + n <= Len(s[i]) + 5 PROVE rest[n] = FrameOf(s[i])[off + n]
  <2>1. off + n \in 1 .. Len(s[i]) + 5 /\ cut[i] + (off + n) - 1 = n /\ n >= 1
    BY <1>1, <1>4, <1>8
  <2> QED
    BY <1>2, <2>1 DEF Cuts
<1> QED
  BY <1>2, <1>3, <1>7, <1>8

(* n bytes are read.                                                       *)
LEMMA CutsRead ==
  ASSUME NEW s \in Seq(Packets), NEW rest \in Bytes, NEW cut, Cuts(s, rest, cut),
         NEW n \in 0 .. Len(rest), NEW left \in Bytes, Len(left) = Len(rest) - n,
         \A j \in 1 .. Len(left) : left[j] = rest[n + j]
  PROVE  Cuts(s, left, [i \in 1 .. Len(s) + 1 |-> cut[i] - n])
<1> DEFINE moved == [i \in 1 .. Len(s) + 1 |-> cut[i] - n]
<1>1. Len(rest) \in Nat /\ Len(left) \in Nat /\ Len(s) \in Nat
  BY LenProperties DEF Bytes
<1>2. cut \in [1 .. Len(s) + 1 -> Int]
  BY DEF Cuts
<1>3. /\ moved \in [1 .. Len(s) + 1 -> Int]
      /\ \A i \in 1 .. Len(s) + 1 : moved[i] = cut[i] - n /\ cut[i] \in Int
  BY <1>2
<1> HIDE DEF moved
<1>4. moved[Len(s) + 1] = Len(left) + 1
  BY <1>1, <1>3 DEF Cuts
<1>5. \A i \in 1 .. Len(s) + 1 : moved[i] <= Len(left) + 1
  BY <1>1, <1>3 DEF Cuts
<1>6. ASSUME NEW i \in 1 .. Len(s)
      PROVE  /\ moved[i + 1] = moved[i] + Len(s[i]) + 5
             /\ \A j \in 1 .. Len(s[i]) + 5 :
                  moved[i] + j - 1 >= 1 => left[moved[i] + j - 1] = FrameOf(s[i])[j]
  <2>1. i \in 1 .. Len(s) + 1 /\ i + 1 \in 1 .. Len(s) + 1
    BY <1>1
  <2>2. Len(s[i]) \in Nat
    BY ElementOfSeq, PacketBytes
  <2>3. cut[i + 1] = cut[i] + Len(s[i]) + 5 /\ cut[i + 1] <= Len(rest) + 1
    BY <2>1 DEF Cuts
  <2>4. moved[i] = cut[i] - n /\ cut[i] \in Int /\ moved[i + 1] = cut[i + 1] - n
    BY <1>3, <2>1
  <2>5. ASSUME NEW j \in 1 .. Len(s[i]) + 5, moved[i] + j - 1 >= 1
        PROVE  left[moved[i] + j - 1] = FrameOf(s[i])[j]
    <3>1. /\ cut[i] - n + j - 1 \in 1 .. Len(left)
          /\ cut[i] + j - 1 >= 1
          /\ n + (cut[i] - n + j - 1) = cut[i] + j - 1
      <4>1. cut[i] + Len(s[i]) + 5 <= Len(rest) + 1 /\ cut[i] - n + j - 1 >= 1
        BY <2>3, <2>4, <2>5
      <4>2. n \in Nat
        BY <1>1
      <4>3. /\ cut[i] - n + j - 1 \in 1 .. Len(rest) - n
            /\ cut[i] + j - 1 >= 1
            /\ n + (cut[i] - n + j - 1) = cut[i] + j - 1
        <5> DEFINE first == cut[i]  len == Len(s[i])  total == Len(rest)
        <5>1. /\ first \in Int /\ len \in Nat /\ total \in Nat
              /\ j \in 1 .. len + 5 /\ first + len + 5 <= total + 1
              /\ first - n + j - 1 >= 1
          BY <1>1, <2>2, <2>4, <4>1
        <5> HIDE DEF first, len, total
        <5>2. /\ first - n + j - 1 \in 1 .. total - n
              /\ first + j - 1 >= 1
              /\ n + (first - n + j - 1) = first + j - 1
          BY <4>2, <5>1, Within
        <5> QED
          BY <5>2 DEF first, len, total
      <4> QED
        BY <4>3
    <3>2. left[cut[i] - n + j - 1] = rest[n + (cut[i] - n + j - 1)]
      BY <3>1
    <3>4. rest[cut[i] + j - 1] = FrameOf(s[i])[j]
      BY <3>1 DEF Cuts
    <3> QED
      BY <2>4, <3>1, <3>2, <3>4
  <2> QED
    BY <2>2, <2>3, <2>4, <2>5
<1> QED
  BY <1>3, <1>4, <1>5, <1>6 DEF Cuts, moved

(* If the first frame has begun, one is the last to have begun.            *)
LEMMA CutsReached ==
  ASSUME NEW s \in Seq(Packets), NEW rest \in Bytes, NEW cut, Cuts(s, rest, cut), cut[1] <= 1
  PROVE  \E i \in 1 .. Len(s) + 1 : cut[i] <= 1 /\ (i <= Len(s) => cut[i + 1] > 1)
<1> SUFFICES ASSUME \A i \in 1 .. Len(s) + 1 : cut[i] <= 1 => i <= Len(s) /\ ~(cut[i + 1] > 1)
             PROVE  FALSE
  OBVIOUS
<1>1. Len(s) \in Nat /\ cut \in [1 .. Len(s) + 1 -> Int]
  BY LenProperties DEF Cuts
<1> DEFINE T == {n \in Nat : n <= Len(s) /\ cut[n + 1] <= 1}
<1>2. 0 \in T
  BY <1>1
<1>3. ASSUME NEW n \in Nat, n \in T PROVE n + 1 \in T
  <2>1. n + 1 \in 1 .. Len(s) + 1 /\ cut[n + 1] <= 1
    BY <1>1, <1>3
  <2>2. n + 1 <= Len(s) /\ ~(cut[(n + 1) + 1] > 1)
    BY <2>1
  <2>3. (n + 1) + 1 \in 1 .. Len(s) + 1
    BY <1>1, <2>2
  <2> QED
    BY <1>1, <2>2, <2>3
<1> HIDE DEF T
<1>4. Len(s) + 1 \in T
  BY <1>1, <1>2, <1>3, SetInduction
<1> QED
  BY <1>1, <1>4 DEF T

(* A frame is written.                                                     *)
LEMMA CutsSend ==
  ASSUME NEW s \in Seq(Packets), NEW rest \in Bytes, NEW cut, Cuts(s, rest, cut),
         NEW p \in Packets
  PROVE  \E longer : /\ Cuts(Append(s, p), rest \o FrameOf(p), longer)
                     /\ \A i \in 1 .. Len(s) + 1 : longer[i] = cut[i]
<1> DEFINE t == Append(s, p)
           more == rest \o FrameOf(p)
           longer == [i \in 1 .. Len(t) + 1 |->
                        IF i <= Len(s) + 1 THEN cut[i] ELSE Len(more) + 1]
<1>1. Len(rest) \in Nat /\ Len(s) \in Nat
  BY LenProperties DEF Bytes
<1>2. Len(t) = Len(s) + 1 /\ t[Len(s) + 1] = p /\ \A i \in 1 .. Len(s) : t[i] = s[i]
  BY AppendProperties
<1>3. FrameOf(p) \in Bytes /\ Len(FrameOf(p)) = Len(p) + 5 /\ Len(p) \in Nat
  BY FrameBytes, PacketBytes
<1>4. /\ Len(more) = Len(rest) + Len(p) + 5
      /\ \A j \in 1 .. Len(rest) + Len(p) + 5 :
           more[j] = IF j <= Len(rest) THEN rest[j] ELSE FrameOf(p)[j - Len(rest)]
  <2>1. /\ Len(more) = Len(rest) + Len(FrameOf(p))
        /\ \A j \in 1 .. Len(rest) + Len(FrameOf(p)) :
             more[j] = IF j <= Len(rest) THEN rest[j] ELSE FrameOf(p)[j - Len(rest)]
    BY <1>3, Joined
  <2>2. Len(rest) + Len(FrameOf(p)) = Len(rest) + Len(p) + 5
    BY <1>1, <1>3
  <2> QED
    BY <2>1, <2>2
<1> HIDE DEF t, more
<1>5. cut \in [1 .. Len(s) + 1 -> Int]
  BY DEF Cuts
<1>6. /\ longer \in [1 .. Len(t) + 1 -> Int]
      /\ \A i \in 1 .. Len(s) + 1 : longer[i] = cut[i] /\ cut[i] \in Int
      /\ longer[Len(t) + 1] = Len(more) + 1
  <2>1. Len(t) = Len(s) + 1 /\ Len(s) \in Nat /\ Len(more) + 1 \in Int
    BY <1>1, <1>2, <1>3, <1>4
  <2>2. longer \in [1 .. Len(t) + 1 -> Int]
    BY <1>5, <2>1
  <2>3. \A i \in 1 .. Len(s) + 1 : longer[i] = cut[i] /\ cut[i] \in Int
    BY <1>5, <2>1
  <2>4. longer[Len(t) + 1] = Len(more) + 1
    BY <2>1
  <2> QED
    BY <2>2, <2>3, <2>4
<1> HIDE DEF longer
<1>7. \A i \in 1 .. Len(s) + 1 : longer[i] <= Len(rest) + 1
  BY <1>6 DEF Cuts
<1>8. \A i \in 1 .. Len(t) + 1 : longer[i] <= Len(more) + 1
  <2>1. ASSUME NEW i \in 1 .. Len(t) + 1 PROVE longer[i] <= Len(more) + 1
    <3>1. Len(more) >= Len(rest) /\ Len(more) \in Nat
      BY <1>1, <1>3, <1>4
    <3>2. CASE i = Len(t) + 1
      BY <1>6, <3>1, <3>2
    <3>3. CASE i \in 1 .. Len(s) + 1
      BY <1>1, <1>6, <1>7, <3>1, <3>3
    <3> QED
      BY <1>1, <1>2, <3>2, <3>3
  <2> QED
    BY <2>1
<1>9. cut[Len(s) + 1] = Len(rest) + 1
  BY DEF Cuts
<1>10. ASSUME NEW i \in 1 .. Len(t)
       PROVE  /\ longer[i + 1] = longer[i] + Len(t[i]) + 5
              /\ \A j \in 1 .. Len(t[i]) + 5 :
                   longer[i] + j - 1 >= 1 => more[longer[i] + j - 1] = FrameOf(t[i])[j]
  <2>1. CASE i = Len(s) + 1
    <3>1. longer[i] = Len(rest) + 1 /\ longer[i + 1] = Len(more) + 1 /\ t[i] = p
      BY <1>1, <1>2, <1>6, <1>9, <2>1
    <3>2. ASSUME NEW j \in 1 .. Len(p) + 5
          PROVE  more[Len(rest) + 1 + j - 1] = FrameOf(p)[j]
      <4>1. Len(rest) + j \in 1 .. Len(rest) + Len(p) + 5 /\ ~(Len(rest) + j <= Len(rest))
        BY <1>1, <1>3
      <4> QED
        BY <1>1, <1>4, <4>1
    <3>3. Len(more) + 1 = (Len(rest) + 1) + Len(p) + 5
      BY <1>1, <1>3, <1>4
    <3> QED
      BY <3>1, <3>2, <3>3
  <2>2. CASE i \in 1 .. Len(s)
    <3>1. /\ longer[i] = cut[i] /\ longer[i + 1] = cut[i + 1] /\ cut[i] \in Int
          /\ t[i] = s[i] /\ longer[i + 1] <= Len(rest) + 1
      <4>1. i \in 1 .. Len(s) + 1 /\ i + 1 \in 1 .. Len(s) + 1
        BY <1>1, <2>2
      <4> QED
        BY <1>2, <1>6, <1>7, <2>2, <4>1
    <3>2. Len(s[i]) \in Nat
      BY <2>2, ElementOfSeq, PacketBytes
    <3>3. longer[i + 1] = longer[i] + Len(s[i]) + 5
      BY <2>2, <3>1 DEF Cuts
    <3>4. ASSUME NEW j \in 1 .. Len(s[i]) + 5, longer[i] + j - 1 >= 1
          PROVE  more[longer[i] + j - 1] = FrameOf(s[i])[j]
      <4>1. cut[i] + j - 1 \in 1 .. Len(rest)
        <5>1. cut[i] + Len(s[i]) + 5 <= Len(rest) + 1 /\ cut[i] - 0 + j - 1 >= 1
          BY <3>1, <3>3, <3>4
        <5> QED
          BY <1>1, <3>1, <3>2, <5>1, Within
      <4>2. more[cut[i] + j - 1] = rest[cut[i] + j - 1]
        BY <1>1, <1>3, <1>4, <4>1
      <4>3. rest[cut[i] + j - 1] = FrameOf(s[i])[j]
        <5>1. cut[i] + j - 1 >= 1
          BY <4>1
        <5> QED
          BY <2>2, <3>4, <5>1, CutsContents
      <4> QED
        BY <3>1, <4>2, <4>3
    <3> QED
      BY <3>1, <3>3, <3>4
  <2> QED
    BY <1>1, <1>2, <2>1, <2>2
<1>11. Cuts(t, more, longer)
  BY <1>6, <1>8, <1>10 DEF Cuts
<1> QED
  BY <1>6, <1>11 DEF t, more
=============================================================================
