----------------------------- MODULE WordProofs -----------------------------
(***************************************************************************)
(* Facts about words that hold for every even byte base: their range, what *)
(* cutting to a word does, and that bytes put together make a word.        *)
(***************************************************************************)
EXTENDS ALU, WellFoundedInduction, TLAPS

(* The bases are naturals, and there are as many negative words as others. *)
LEMMA Bases ==
  /\ HwordBase \in Nat
  /\ HwordBase >= ByteBase
  /\ WordBase \in Nat
  /\ SignBit \in Nat
  /\ SignBit > 0
  /\ WordBase = 2 * SignBit
<1> USE ByteBaseAssumption
<1>1. /\ HwordBase \in Nat
      /\ HwordBase >= ByteBase
  <2>1. ByteBase * (ByteBase - 1) >= 0
    OBVIOUS
  <2>2. ByteBase * (ByteBase - 1) = ByteBase * ByteBase - ByteBase
    OBVIOUS
  <2>3. QED
    BY <2>1, <2>2 DEF HwordBase
<1>2. WordBase \in Nat
  BY <1>1 DEF WordBase
<1> DEFINE H == ByteBase \div 2
<1>3. H \in Nat /\ H > 0 /\ ByteBase = 2 * H
  OBVIOUS
<1> HIDE DEF H
<1>4. H * ByteBase \in Nat /\ H * ByteBase > 0
  BY <1>3
<1>5. SignBit = (H * ByteBase) * HwordBase
  BY DEF SignBit, H
<1>6. SignBit \in Nat /\ SignBit > 0
  BY <1>1, <1>4, <1>5
<1>7. HwordBase = 2 * (H * ByteBase)
  BY <1>3 DEF HwordBase
<1>8. WordBase = 2 * SignBit
  <2>1. \A p, q \in Nat : (2 * p) * q = 2 * (p * q)
    OBVIOUS
  <2>2. WordBase = (2 * (H * ByteBase)) * HwordBase
    BY <1>7 DEF WordBase
  <2>3. QED
    BY <2>1, <2>2, <1>1, <1>4, <1>5
<1>9. QED
  BY <1>1, <1>2, <1>6, <1>8

(* A value no further than one turn from the words is cut by adding or     *)
(* subtracting the base once.                                              *)
LEMMA CutOnce ==
  ASSUME NEW i \in Int, -WordBase <= i, i < 2 * WordBase
  PROVE  ToWord(i) = IF i < 0 THEN i + WordBase
                     ELSE IF i < WordBase THEN i ELSE i - WordBase
<1> DEFINE r == IF i < 0 THEN i + WordBase
                ELSE IF i < WordBase THEN i ELSE i - WordBase
<1>1. r \in 0..(WordBase - 1)
  BY Bases
<1>2. \E k \in {-1, 0, 1} : i = k * WordBase + r
  <2>1. CASE i < 0
    <3>1. i = (-1) * WordBase + r
      BY <2>1, Bases
    <3>2. QED BY <3>1
  <2>2. CASE i >= 0 /\ i < WordBase
    <3>1. i = 0 * WordBase + r
      BY <2>2, Bases
    <3>2. QED BY <3>1
  <2>3. CASE i >= WordBase
    <3>1. i = 1 * WordBase + r
      BY <2>3, Bases
    <3>2. QED BY <3>1
  <2>4. QED BY <2>1, <2>2, <2>3, Bases
<1>3. i % WordBase = r
  BY <1>1, <1>2, Bases
<1>4. QED
  BY <1>3 DEF ToWord

(* A conversion to the unsigned type gives a word.                         *)
LEMMA ToWordType ==
  ASSUME NEW i \in Int
  PROVE  ToWord(i) \in Word
BY Bases DEF ToWord, Word

(* A conversion to the unsigned type leaves a word as it is.               *)
LEMMA ToWordOfWord ==
  ASSUME NEW w \in Word
  PROVE  ToWord(w) = w
BY CutOnce, Bases DEF Word

-----------------------------------------------------------------------------
(* Every set of natural numbers has a least member; what it takes to       *)
(* reason about lists, which are counted from their beginning.             *)
LEMMA LeastMember ==
  ASSUME NEW T, T \subseteq Nat, T # {}
  PROVE  \E x \in T : \A y \in T : x <= y
<1> DEFINE R == OpToRel(<, Nat)
<1>1. IsWellFoundedOn(R, Nat)
  BY NatLessThanWellFounded, Zenon
<1>2. \A x, y \in Nat : x < y => <<x, y>> \in R
  BY DEF OpToRel
<1> HIDE DEF R
<1>3. PICK x \in T : \A y \in T : ~(<<y, x>> \in R)
  BY <1>1, WFMin, Zenon
<1>4. \A y \in T : ~(y < x)
  BY <1>2, <1>3, Zenon
<1>5. \A y \in T : x <= y
  BY <1>4
<1>6. QED
  BY <1>5

(* A set of numbers that has 0 and with each number the next one.          *)
LEMMA CountingUp ==
  ASSUME NEW n \in Nat, NEW S, 0 \in S, \A k \in 1..n : k - 1 \in S => k \in S
  PROVE  0..n \subseteq S
<1> DEFINE T == {k \in 0..n : k \notin S}
<1>1. SUFFICES ASSUME T # {}
               PROVE  FALSE
  OBVIOUS
<1>2. T \subseteq Nat
  OBVIOUS
<1>3. PICK x \in T : \A y \in T : x <= y
  BY <1>1, <1>2, LeastMember
<1>4. x \in 1..n /\ x - 1 \notin T
  BY <1>3
<1>5. QED
  BY <1>3, <1>4

-----------------------------------------------------------------------------
(* Division of naturals.                                                   *)
LEMMA DivisionOfNats ==
  ASSUME NEW a \in Nat, NEW b \in Nat, b > 0
  PROVE  /\ a \div b \in Nat
         /\ a % b \in Nat
         /\ a % b < b
         /\ a = b * (a \div b) + (a % b)
         /\ a \div b <= a
         /\ b = 1 => a \div b = a
         /\ b > 1 => 2 * (a \div b) <= a
<1> DEFINE q == a \div b
           m == a % b
<1>1. q \in Int /\ m \in Int /\ 0 <= m /\ m < b /\ a = b * q + m
  OBVIOUS
<1> HIDE DEF q, m
<1>2. q >= 0
  <2>1. ASSUME q <= -1
        PROVE  FALSE
    <3>1. b * (q + 1) <= 0
      BY <1>1, <2>1
    <3>2. b * (q + 1) = b * q + b
      BY <1>1
    <3>3. QED
      BY <1>1, <3>1, <3>2
  <2>2. QED
    BY <1>1, <2>1
<1>3. (b - 1) * q >= 0
  BY <1>1, <1>2
<1>4. (b - 1) * q = b * q - q
  BY <1>1
<1>5. b > 1 => (b - 2) * q >= 0
  BY <1>1, <1>2
<1>6. (b - 2) * q = b * q - 2 * q
  BY <1>1
<1>7. b = 1 => b * q = q
  BY <1>1
<1>8. QED
  BY <1>1, <1>2, <1>3, <1>4, <1>5, <1>6, <1>7 DEF q, m

(* Quotient and remainder are determined by their equation.                *)
LEMMA RemainderIsUnique ==
  ASSUME NEW i \in Int, NEW b \in Nat, b > 0, NEW k \in Int, NEW m \in Int,
         0 <= m, m < b, i = k * b + m
  PROVE  i % b = m
<1> DEFINE q == i \div b
           z == i % b
<1>1. q \in Int /\ z \in Int /\ 0 <= z /\ z < b /\ i = b * q + z
  OBVIOUS
<1> HIDE DEF q, z
<1>2. b * (q - k) = m - z
  <2>1. b * (q - k) = b * q - k * b
    BY <1>1
  <2>2. QED
    BY <1>1, <2>1
<1>3. q - k < 1
  <2>1. ASSUME q - k >= 1
        PROVE  FALSE
    <3>1. b * ((q - k) - 1) >= 0
      BY <1>1, <2>1
    <3>2. b * ((q - k) - 1) = b * (q - k) - b
      BY <1>1
    <3>3. QED
      BY <1>1, <1>2, <3>1, <3>2
  <2>2. QED
    BY <1>1, <2>1
<1>4. q - k > -1
  <2>1. ASSUME q - k <= -1
        PROVE  FALSE
    <3>1. b * ((q - k) + 1) <= 0
      BY <1>1, <2>1
    <3>2. b * ((q - k) + 1) = b * (q - k) + b
      BY <1>1
    <3>3. QED
      BY <1>1, <1>2, <3>1, <3>2
  <2>2. QED
    BY <1>1, <2>1
<1>5. q = k
  BY <1>1, <1>3, <1>4
<1>6. z = m
  BY <1>1, <1>5
<1>7. QED
  BY <1>6 DEF z

(* ... and so the quotient.                                                *)
LEMMA QuotientIsUnique ==
  ASSUME NEW i \in Int, NEW b \in Nat, b > 0, NEW k \in Int, NEW m \in Int,
         0 <= m, m < b, i = k * b + m
  PROVE  i \div b = k
<1> DEFINE q == i \div b
           z == i % b
<1>1. q \in Int /\ z = m /\ i = b * q + z
  BY RemainderIsUnique
<1> HIDE DEF q, z
<1>2. b * (q - k) = 0
  <2>1. b * (q - k) = b * q - k * b
    BY <1>1
  <2>2. QED
    BY <1>1, <2>1
<1>3. q - k < 1
  <2>1. ASSUME q - k >= 1
        PROVE  FALSE
    <3>1. b * ((q - k) - 1) >= 0
      BY <1>1, <2>1
    <3>2. b * ((q - k) - 1) = b * (q - k) - b
      BY <1>1
    <3>3. QED
      BY <1>1, <1>2, <3>1, <3>2
  <2>2. QED
    BY <1>1, <2>1
<1>4. q - k > -1
  <2>1. ASSUME q - k <= -1
        PROVE  FALSE
    <3>1. b * ((q - k) + 1) <= 0
      BY <1>1, <2>1
    <3>2. b * ((q - k) + 1) = b * (q - k) + b
      BY <1>1
    <3>3. QED
      BY <1>1, <1>2, <3>1, <3>2
  <2>2. QED
    BY <1>1, <2>1
<1>5. QED
  BY <1>1, <1>3, <1>4 DEF q

(* Whole turns do not change the word.                                     *)
LEMMA ToWordTurns ==
  ASSUME NEW i \in Int, NEW k \in Int
  PROVE  ToWord(i + k * WordBase) = ToWord(i)
<1> DEFINE q == i \div WordBase
           m == i % WordBase
<1>1. /\ q \in Int /\ m \in Int /\ 0 <= m /\ m < WordBase
      /\ i = WordBase * q + m
  BY Bases
<1> HIDE DEF q, m
<1>2. i + k * WordBase = (q + k) * WordBase + m
  <2>1. (q + k) * WordBase = WordBase * q + k * WordBase
    BY <1>1, Bases
  <2>2. QED
    BY <1>1, <2>1, Bases
<1>3. (i + k * WordBase) % WordBase = m
  <2> DEFINE x == i + k * WordBase
             y == q + k
  <2>1. x \in Int /\ y \in Int /\ x = y * WordBase + m
    BY <1>1, <1>2, Bases
  <2> HIDE DEF x, y
  <2>2. x % WordBase = m
    BY <1>1, <2>1, Bases, RemainderIsUnique
  <2>3. QED
    BY <2>2 DEF x
<1>4. QED
  BY <1>3 DEF m, ToWord

-----------------------------------------------------------------------------
(* Bytes, halfwords and words.  A number below X * Y is a digit below X    *)
(* and Y times that; replacing the digit keeps the number below X * Y.     *)
LEMMA Join ==
  ASSUME NEW X \in Nat, NEW Y \in Nat, NEW a \in 0..(X - 1),
         NEW b \in 0..(Y - 1)
  PROVE  a + X * b \in 0..(X * Y - 1)
<1>1. X * ((Y - 1) - b) >= 0
  OBVIOUS
<1>2. X * ((Y - 1) - b) = X * Y - X - X * b
  OBVIOUS
<1>3. X * b \in Nat /\ X * Y \in Nat
  OBVIOUS
<1>4. QED
  BY <1>1, <1>2, <1>3

(* Replacing equal factors of a product.                                   *)
LEMMA Replace ==
  ASSUME NEW X \in Nat, NEW Y \in Nat, X > 0, NEW w \in 0..(X * Y - 1),
         NEW a \in 0..(X - 1)
  PROVE  w - (w % X) + a \in 0..(X * Y - 1)
<1> DEFINE q == w \div X
           m == w % X
<1>1. X * Y \in Nat /\ w \in Nat /\ w < X * Y
  OBVIOUS
<1>2. q \in Nat /\ m \in Nat /\ w = X * q + m
  BY <1>1, DivisionOfNats
<1> HIDE DEF q, m
<1>3. q < Y
  <2>1. ASSUME q >= Y
        PROVE  FALSE
    <3>1. X * (q - Y) >= 0
      BY <1>2, <2>1
    <3>2. X * (q - Y) = X * q - X * Y
      BY <1>2
    <3>3. X * q \in Nat
      BY <1>2
    <3>4. QED
      BY <1>1, <1>2, <3>1, <3>2, <3>3
  <2>2. QED
    BY <1>2, <2>1
<1>4. a + X * q \in 0..(X * Y - 1)
  BY <1>2, <1>3, Join
<1>5. w - m = X * q
  <2>1. X * q \in Nat
    BY <1>2
  <2>2. QED
    BY <1>2, <2>1
<1>6. w - m + a = a + X * q
  <2>1. X * q \in Nat
    BY <1>2
  <2>2. QED
    BY <1>5, <2>1, <1>2
<1>7. QED
  BY <1>4, <1>6 DEF m

(* Two bytes make a halfword.                                              *)
LEMMA JoinHwordType ==
  ASSUME NEW b0 \in Byte, NEW b1 \in Byte
  PROVE  JoinHword(b0, b1) \in Hword
BY Join, ByteBaseAssumption DEF Byte, JoinHword, Hword, HwordBase

(* Two halfwords make a word.                                              *)
LEMMA JoinWordType ==
  ASSUME NEW h0 \in Hword, NEW h1 \in Hword
  PROVE  JoinWord(h0, h1) \in Word
BY Join, Bases DEF Hword, JoinWord, Word, WordBase

(* vm_write_scalar cuts a word into bytes.                                 *)
LEMMA ByteOfType ==
  ASSUME NEW w \in Word, NEW i \in 0..3
  PROVE  ByteOf(w, i) \in Byte
<1> USE ByteBaseAssumption
<1>1. w \in Nat
  BY Bases DEF Word
<1>2. HwordBase * ByteBase \in Nat /\ HwordBase * ByteBase > 0
  BY Bases
<1>3. ByteWeight[i + 1] \in Nat /\ ByteWeight[i + 1] > 0
  BY <1>2, Bases DEF ByteWeight
<1>4. w \div ByteWeight[i + 1] \in Int
  BY <1>1, <1>3, DivisionOfNats
<1>5. QED
  BY <1>4 DEF ByteOf, Byte

(* The bytes of a word, joined again, are the word.                        *)
LEMMA WordRejoins ==
  ASSUME NEW w \in Word
  PROVE  JoinWord(JoinHword(ByteOf(w, 0), ByteOf(w, 1)),
                  JoinHword(ByteOf(w, 2), ByteOf(w, 3))) = w
<1> DEFINE B  == ByteBase
           H  == HwordBase
           T  == H * B
           q1 == w \div B
           r0 == w % B
           q2 == q1 \div B
           r1 == q1 % B
           q3 == q2 \div B
           r2 == q2 % B
<1>1. B \in Nat /\ B > 0 /\ H \in Nat /\ H > 0 /\ w \in Nat /\ H = B * B
  BY ByteBaseAssumption, Bases DEF Word, HwordBase
<1>2. T \in Nat /\ T > 0
  BY <1>1
<1>3. q1 \in Nat /\ r0 \in Nat /\ r0 < B /\ w = B * q1 + r0
  BY <1>1, DivisionOfNats
<1>4. q2 \in Nat /\ r1 \in Nat /\ r1 < B /\ q1 = B * q2 + r1
  BY <1>1, <1>3, DivisionOfNats
<1>5. q3 \in Nat /\ r2 \in Nat /\ r2 < B /\ q2 = B * q3 + r2
  BY <1>1, <1>4, DivisionOfNats
<1> HIDE DEF B, H, T, q1, r0, q2, r1, q3, r2
<1>6. w \div H = q2
  <2>1. B * r1 + r0 \in Nat /\ B * r1 + r0 < H
    <3>1. B * (B - 1 - r1) >= 0
      BY <1>1, <1>4
    <3>2. B * (B - 1 - r1) = B * B - B - B * r1
      BY <1>1, <1>4
    <3>3. QED
      BY <1>1, <1>3, <1>4, <3>1, <3>2
  <2>2. w = q2 * H + (B * r1 + r0)
    <3>1. B * q1 = B * (B * q2) + B * r1
      BY <1>1, <1>4
    <3>2. B * (B * q2) = q2 * (B * B)
      BY <1>1, <1>4
    <3>3. B * (B * q2) = q2 * H
      BY <1>1, <3>2
    <3>4. B * r1 \in Int /\ q2 * H \in Int
      BY <1>1, <1>4
    <3>5. QED
      BY <1>3, <3>1, <3>3, <3>4
  <2>3. QED
    BY <1>1, <1>4, <2>1, <2>2, QuotientIsUnique
<1>7. w \div T = q3
  <2> DEFINE low == H * r2 + B * r1 + r0
  <2>1. low \in Nat /\ low < T
    <3>1. B * r1 + r0 < H /\ B * r1 + r0 \in Nat
      <4>1. B * (B - 1 - r1) >= 0
        BY <1>1, <1>4
      <4>2. B * (B - 1 - r1) = B * B - B - B * r1
        BY <1>1, <1>4
      <4>3. QED
        BY <1>1, <1>3, <1>4, <4>1, <4>2
    <3>2. H * (B - 1 - r2) >= 0
      BY <1>1, <1>5
    <3>3. H * (B - 1 - r2) = H * B - H - H * r2
      BY <1>1, <1>5
    <3>4. H * r2 \in Nat
      BY <1>1, <1>5
    <3>5. H * r2 <= T - H
      BY <1>1, <3>2, <3>3, <3>4 DEF T
    <3>6. low = H * r2 + (B * r1 + r0)
      BY <1>1, <1>3, <1>4, <3>1, <3>4
    <3>7. QED
      BY <1>1, <1>2, <3>1, <3>4, <3>5, <3>6
  <2>2. w = q3 * T + low
    <3>1. B * q1 = B * (B * q2) + B * r1
      BY <1>1, <1>4
    <3>2. B * (B * q2) = H * q2
      BY <1>1, <1>4
    <3>3. H * q2 = H * (B * q3) + H * r2
      BY <1>1, <1>5
    <3>4. H * (B * q3) = q3 * T
      BY <1>1, <1>5 DEF T
    <3>5. B * r1 \in Int /\ H * r2 \in Int /\ q3 * T \in Int
      BY <1>1, <1>2, <1>4, <1>5
    <3>6. w = q3 * T + H * r2 + B * r1 + r0
      BY <1>3, <3>1, <3>2, <3>3, <3>4, <3>5
    <3>7. QED
      BY <1>3, <3>5, <3>6
  <2> HIDE DEF low
  <2>3. QED
    BY <1>1, <1>2, <1>5, <2>1, <2>2, QuotientIsUnique
<1>8. q3 < B
  <2>1. ASSUME q3 >= B
        PROVE  FALSE
    <3>1. T * (q3 - B) >= 0
      BY <1>2, <1>1, <1>5, <2>1
    <3>2. T * (q3 - B) = T * q3 - T * B
      BY <1>1, <1>2, <1>5
    <3>3. T * B = H * H
      BY <1>1 DEF T
    <3>4. w < H * H
      BY Bases DEF Word, WordBase, H
    <3>5. w >= T * q3
      <4>1. T * q3 = H * (B * q3)
        BY <1>1, <1>5 DEF T
      <4>2. H * q2 = H * (B * q3) + H * r2 /\ H * r2 >= 0
        BY <1>1, <1>5
      <4>3. B * q1 = H * q2 + B * r1 /\ B * r1 >= 0
        BY <1>1, <1>3, <1>4
      <4>4. H * q2 \in Int /\ H * (B * q3) \in Int /\ B * q1 \in Int
            /\ H * r2 \in Int /\ B * r1 \in Int
        BY <1>1, <1>3, <1>4, <1>5
      <4>5. QED
        BY <1>1, <1>3, <4>1, <4>2, <4>3, <4>4
    <3>6. QED
      BY <1>1, <1>2, <1>5, <3>1, <3>2, <3>3, <3>4, <3>5
  <2>2. QED
    BY <1>1, <1>5, <2>1
<1>9. q3 % B = q3
  BY <1>1, <1>5, <1>8, RemainderIsUnique
<1>10. w \div 1 = w
  BY <1>1
<1>11. ByteOf(w, 0) = r0
  BY <1>10 DEF ByteOf, ByteWeight, r0, B
<1>12. ByteOf(w, 1) = r1
  BY DEF ByteOf, ByteWeight, r1, q1, B
<1>13. ByteOf(w, 2) = r2
  BY <1>6 DEF ByteOf, ByteWeight, r2, H, B
<1>14. ByteOf(w, 3) = q3
  BY <1>7, <1>9 DEF ByteOf, ByteWeight, T, H, B
<1>15. (r0 + B * r1) + H * (r2 + B * q3) = w
  <2>1. H * (r2 + B * q3) = H * q2
    <3>1. B * q3 \in Int
      BY <1>1, <1>5
    <3>2. r2 + B * q3 = q2
      BY <1>5, <3>1
    <3>3. QED
      BY <3>2
  <2>2. H * q2 = B * (B * q2)
    BY <1>1, <1>4
  <2>3. B * q1 = B * (B * q2) + B * r1
    BY <1>1, <1>4
  <2>4. B * (B * q2) \in Int /\ B * r1 \in Int /\ B * q1 \in Int
    BY <1>1, <1>3, <1>4
  <2>5. QED
    BY <1>3, <2>1, <2>2, <2>3, <2>4
<1>16. QED
  BY <1>11, <1>12, <1>13, <1>14, <1>15 DEF JoinWord, JoinHword, B, H

(* Its lower two bytes, joined again, are its lower halfword.              *)
LEMMA HwordRejoins ==
  ASSUME NEW w \in Word
  PROVE  JoinHword(ByteOf(w, 0), ByteOf(w, 1)) = w % HwordBase
<1> DEFINE B  == ByteBase
           H  == HwordBase
           q1 == w \div B
           r0 == w % B
           q2 == q1 \div B
           r1 == q1 % B
<1>1. B \in Nat /\ B > 0 /\ H \in Nat /\ H > 0 /\ w \in Nat /\ H = B * B
  BY ByteBaseAssumption, Bases DEF Word, HwordBase
<1>2. q1 \in Nat /\ r0 \in Nat /\ r0 < B /\ w = B * q1 + r0
  BY <1>1, DivisionOfNats
<1>3. q2 \in Nat /\ r1 \in Nat /\ r1 < B /\ q1 = B * q2 + r1
  BY <1>1, <1>2, DivisionOfNats
<1> HIDE DEF B, H, q1, r0, q2, r1
<1>4. B * r1 + r0 \in Nat /\ B * r1 + r0 < H
  <2>1. B * (B - 1 - r1) >= 0
    BY <1>1, <1>3
  <2>2. B * (B - 1 - r1) = B * B - B - B * r1
    BY <1>1, <1>3
  <2>3. QED
    BY <1>1, <1>2, <1>3, <2>1, <2>2
<1>5. w = q2 * H + (B * r1 + r0)
  <2>1. B * q1 = B * (B * q2) + B * r1
    BY <1>1, <1>3
  <2>2. B * (B * q2) = q2 * (B * B)
    BY <1>1, <1>3
  <2>3. B * (B * q2) = q2 * H
    BY <1>1, <2>2
  <2>4. B * r1 \in Int /\ q2 * H \in Int
    BY <1>1, <1>3
  <2>5. QED
    BY <1>2, <2>1, <2>3, <2>4
<1>6. w % H = B * r1 + r0
  <2> DEFINE low == B * r1 + r0
  <2>1. low \in Int /\ 0 <= low /\ low < H /\ w = q2 * H + low
    BY <1>4, <1>5
  <2> HIDE DEF low
  <2>2. w % H = low
    BY <1>1, <1>3, <2>1, RemainderIsUnique
  <2>3. QED
    BY <2>2 DEF low
<1>7. ByteOf(w, 0) = r0
  <2>1. w \div 1 = w
    BY <1>1
  <2>2. QED
    BY <2>1 DEF ByteOf, ByteWeight, r0, B
<1>8. ByteOf(w, 1) = r1
  BY DEF ByteOf, ByteWeight, r1, q1, B
<1>9. r0 + B * r1 = B * r1 + r0
  BY <1>1, <1>2, <1>3
<1>10. QED
  BY <1>6, <1>7, <1>8, <1>9 DEF JoinHword, B, H

(* Operations bit by bit stay within the word.                             *)
LEMMA LogicType ==
  ASSUME NEW v \in Word, NEW w \in Word
  PROVE  /\ WordAnd(v, w) \in Word
         /\ WordOr(v, w) \in Word
         /\ WordXor(v, w) \in Word
         /\ WordNot(w) \in Word
<1>1. \A a, b \in Byte : /\ ByteConj(a, b) \in Byte
                         /\ ByteDisj(a, b) \in Byte
                         /\ ByteExcl(a, b) \in Byte
  <2> TAKE a, b \in Byte
  <2>1. ByteAnd[a][b] \in Byte
    BY ByteAndAssumption
  <2>2. /\ ByteAnd[a][b] <= a
        /\ ByteAnd[a][b] <= b
        /\ a + b - ByteAnd[a][b] < ByteBase
    BY ByteAndAssumption
  <2>3. QED
    BY <2>1, <2>2, ByteBaseAssumption DEF Byte, ByteConj, ByteDisj, ByteExcl
<1>2. \A i \in 0..3 : ByteOf(v, i) \in Byte /\ ByteOf(w, i) \in Byte
  BY ByteOfType
<1>3. \A b0, b1, b2, b3 \in Byte :
        JoinWord(JoinHword(b0, b1), JoinHword(b2, b3)) \in Word
  BY JoinHwordType, JoinWordType
<1>4. 0 \in 0..3 /\ 1 \in 0..3 /\ 2 \in 0..3 /\ 3 \in 0..3
  OBVIOUS
<1>5. WordAnd(v, w) \in Word
  BY <1>1, <1>2, <1>3, <1>4, Zenon DEF WordAnd, Bytewise
<1>6. WordOr(v, w) \in Word
  BY <1>1, <1>2, <1>3, <1>4, Zenon DEF WordOr, Bytewise
<1>7. WordXor(v, w) \in Word
  BY <1>1, <1>2, <1>3, <1>4, Zenon DEF WordXor, Bytewise
<1>8. WordNot(w) \in Word
  BY Bases DEF WordNot, WORD_MAX, Word
<1>9. QED
  BY <1>5, <1>6, <1>7, <1>8

(* The cast of a word to sword gives an integer of that range.             *)
LEMMA SignedType ==
  ASSUME NEW w \in Word
  PROVE  Signed(w) \in Int /\ (w # 0 => Signed(w) # 0)
BY Bases DEF Word, Signed

(* Signed quotients and remainders are integers.                           *)
LEMMA SignedDivisionType ==
  ASSUME NEW a \in Int, NEW b \in Int, b # 0
  PROVE  Quotient(a, b) \in Int /\ Remainder(a, b) \in Int
<1> DEFINE m == Magnitude(a)
           n == Magnitude(b)
<1>1. m \in Nat /\ n \in Nat /\ n > 0
  BY DEF Magnitude
<1>2. m \div n \in Int /\ m % n \in Int
  BY <1>1, DivisionOfNats
<1>3. QED
  BY <1>2 DEF Quotient, Remainder

(* Every result is a word.                                                 *)
LEMMA ResultType ==
  ASSUME NEW op \in Operations, NEW l \in Word, NEW r \in Word
  PROVE  Result(op, l, r) \in Word
<1>1. l \in Int /\ r \in Int /\ l >= 0 /\ r >= 0
  BY Bases DEF Word
<1>2. Signed(l) \in Int /\ Signed(r) \in Int
  BY SignedType
<1>3. /\ l + r \in Int /\ l - r \in Int /\ l * r \in Int
      /\ l + 1 \in Int /\ l - 1 \in Int /\ 0 \in Int
      /\ Signed(l) + Signed(r) \in Int
      /\ Signed(l) - Signed(r) \in Int
      /\ Signed(l) * Signed(r) \in Int
  BY <1>1, <1>2
<1>4. r # 0 => l \div r \in Int /\ l % r \in Int
  BY <1>1, DivisionOfNats
<1>5. r # 0 => /\ Quotient(Signed(l), Signed(r)) \in Int
               /\ Remainder(Signed(l), Signed(r)) \in Int
  BY <1>2, SignedType, SignedDivisionType
<1>6. Word \subseteq Int
  BY Bases DEF Word
<1>7. /\ WordNot(l) \in Int /\ WordAnd(l, r) \in Int
      /\ WordOr(l, r) \in Int /\ WordXor(l, r) \in Int
      /\ WordNot(WordAnd(l, r)) \in Int /\ WordNot(WordOr(l, r)) \in Int
  BY <1>6, LogicType
<1>8. Exact(op, l, r) \in Int
  <2>1. CASE op \in DivisionOps /\ r = 0
    <3>1. Exact(op, l, r) = 0
      BY <2>1, Zenon DEF Exact
    <3>2. QED
      BY <3>1
  <2>2. CASE op \in DivisionOps /\ r # 0
    BY <2>2, <1>4, <1>5, Zenon DEF Exact, DivisionOps
  <2>3. CASE op \in {"ID", "ADD", "SUB", "MUL", "INC", "DEC"}
    BY <2>3, <1>1, <1>3, Zenon DEF Exact, DivisionOps
  <2>4. CASE op \in {"NOT", "AND", "OR", "XOR", "NAND", "NOR"}
    BY <2>4, <1>7, Zenon DEF Exact, DivisionOps
  <2>5. CASE op \in {"SADD", "SSUB", "SMUL"}
    BY <2>5, <1>3, Zenon DEF Exact, DivisionOps
  <2>6. QED
    BY <2>1, <2>2, <2>3, <2>4, <2>5, Zenon
       DEF Operations, SignedOps, UnsignedOps, DivisionOps
<1>9. QED
  BY <1>8, ToWordType DEF Result

(* alu_setFlags gives truth values.                                        *)
LEMMA FlagsType ==
  ASSUME NEW op, NEW left, NEW right
  PROVE  Flags(op, left, right) \in FlagSet
<1>1. NoFlags \in FlagSet
  BY DEF NoFlags, FlagSet
<1>2. /\ Carry(op, left, right) \in BOOLEAN
      /\ Overflow(op, left, right) \in BOOLEAN
  BY Zenon DEF Carry, Overflow, OutsideSword
<1>3. /\ (Signed(Result(op, left, right)) < 0) \in BOOLEAN
      /\ (Result(op, left, right) = 0) \in BOOLEAN
      /\ (op \in SignedOps) \in BOOLEAN
  BY SMT
<1>4. QED
  BY <1>1, <1>2, <1>3, Zenon DEF Flags, FlagSet

=============================================================================
