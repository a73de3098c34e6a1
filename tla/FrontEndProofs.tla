--------------------------- MODULE FrontEndProofs ---------------------------
(***************************************************************************)
(* The first half of the assembler, for every source: the tokens that the  *)
(* lexer makes are the whole text, each at its place, the parser takes     *)
(* exactly the lines of the grammar and loses no token of them, and the    *)
(* stack of the macro expander stays in its bounds.                        *)
(***************************************************************************)
EXTENDS Reader, Macros, SequenceTheorems, FiniteSetTheorems,
        WellFoundedInduction, TLAPS

-----------------------------------------------------------------------------
(* Least and greatest members.                                             *)
LEMMA LeastMember ==
  ASSUME NEW T, T \subseteq Nat, T # {}
  PROVE  \E x \in T : \A y \in T : x <= y
<1> DEFINE R == OpToRel(<, Nat)
<1>1. IsWellFoundedOn(R, Nat)
  BY NatLessThanWellFounded, Zenon
<1>2. \A x, y \in Nat : x < y => <<x, y>> \in R
  BY DEF OpToRel
<1> HIDE DEF R
<1>3. PICK x \in T : \A y \in T : ~(<<y, x>> \in R)
  BY <1>1, WFMin, Zenon
<1>4. \A y \in T : ~(y < x)
  BY <1>2, <1>3, Zenon
<1>5. \A y \in T : x <= y
  BY <1>4
<1>6. QED
  BY <1>5

LEMMA MinIs ==
  ASSUME NEW T, T \subseteq Nat, T # {}
  PROVE  Min(T) \in T /\ \A y \in T : Min(T) <= y
BY LeastMember, Zenon DEF Min

LEMMA MaxIs ==
  ASSUME NEW n \in Nat, NEW T, T \subseteq 0..n, T # {}
  PROVE  Max(T) \in T /\ \A y \in T : Max(T) >= y
<1> DEFINE U == {k \in Nat : \A y \in T : y <= k}
<1>1. n \in U
  OBVIOUS
<1>2. PICK k \in U : \A y \in U : k <= y
  BY <1>1, LeastMember
<1>3. k \in T
  <2>1. SUFFICES ASSUME k \notin T PROVE FALSE
    OBVIOUS
  <2>2. \A y \in T : y \in Nat /\ y < k
    BY <1>2, <2>1
  <2>3. k \in Nat /\ k # 0
    <3>1. PICK y \in T : TRUE
      OBVIOUS
    <3>2. QED
      BY <2>2, <3>1
  <2>4. k - 1 \in Nat /\ \A y \in T : y <= k - 1
    BY <2>2, <2>3
  <2>5. k - 1 \in U /\ ~(k <= k - 1)
    BY <2>3, <2>4
  <2>6. QED
    BY <1>2, <2>5
<1>4. \E x \in T : \A y \in T : x >= y
  BY <1>2, <1>3
<1>5. QED
  BY <1>4, Zenon DEF Max

LEMMA MaxOfInterval ==
  ASSUME NEW a \in Nat, NEW b \in Nat, a <= b
  PROVE  Max(a..b) = b
<1>1. a..b \subseteq 0..b /\ a..b # {}
  OBVIOUS
<1>2. Max(a..b) \in a..b /\ Max(a..b) >= b
  <2> DEFINE T == a..b
  <2> HIDE DEF T
  <2>1. T \subseteq 0..b /\ T # {}
    BY <1>1 DEF T
  <2>2. Max(T) \in T /\ \A y \in T : Max(T) >= y
    BY <2>1, MaxIs
  <2>3. b \in T
    BY DEF T
  <2>4. QED
    BY <2>2, <2>3 DEF T
<1>3. QED
  BY <1>2

(* The first character of a set, at or behind a place.                     *)
LEMMA FirstIs ==
  ASSUME NEW text \in Seq(STRING), NEW i \in Nat \ {0}, NEW chars
  PROVE  /\ First(text, i, chars) \in 1..(Len(text) + 1)
         /\ i <= Len(text) + 1 => i <= First(text, i, chars)
         /\ First(text, i, chars) <= Len(text) =>
              i <= First(text, i, chars) /\ text[First(text, i, chars)] \in chars
         /\ \A k \in i..Len(text) : k < First(text, i, chars) => text[k] \notin chars
<1> DEFINE at == {k \in i..Len(text) : text[k] \in chars}
<1>1. Len(text) \in Nat
  OBVIOUS
<1>2. CASE at = {}
  BY <1>1, <1>2 DEF First
<1>3. CASE at # {}
  <2>1. First(text, i, chars) = Min(at)
    BY <1>3 DEF First
  <2>2. at \subseteq Nat
    BY <1>1
  <2>3. Min(at) \in at /\ \A y \in at : Min(at) <= y
    BY <1>3, <2>2, MinIs
  <2> DEFINE f == First(text, i, chars)
  <2>4. f \in i..Len(text) /\ text[f] \in chars
    BY <2>1, <2>3
  <2>5. \A k \in i..Len(text) : text[k] \in chars => f <= k
    BY <2>1, <2>3
  <2> HIDE DEF f
  <2>6. \A k \in i..Len(text) : k < f => text[k] \notin chars
    BY <1>1, <2>4, <2>5
  <2>7. f \in 1..(Len(text) + 1) /\ i <= f
    BY <1>1, <2>4
  <2>8. QED
    BY <2>4, <2>6, <2>7 DEF f
<1>4. QED
  BY <1>2, <1>3

LEMMA FirstWhere ==
  ASSUME NEW text \in Seq(STRING), NEW i \in Nat \ {0}, NEW chars,
         NEW f \in Nat, i <= f, f <= Len(text) + 1,
         f <= Len(text) => text[f] \in chars,
         \A k \in i..Len(text) : k < f => text[k] \notin chars
  PROVE  First(text, i, chars) = f
<1> DEFINE g == First(text, i, chars)
<1>1. /\ g \in 1..(Len(text) + 1) /\ (i <= Len(text) + 1 => i <= g)
      /\ (g <= Len(text) => text[g] \in chars)
      /\ \A k \in i..Len(text) : k < g => text[k] \notin chars
  BY FirstIs
<1> HIDE DEF g
<1>2. Len(text) \in Nat
  OBVIOUS
<1>3. ~(g < f)
  BY <1>1, <1>2
<1>4. ~(f < g)
  BY <1>1, <1>2
<1>5. QED
  BY <1>1, <1>3, <1>4 DEF g

LEMMA CountingUp ==
  ASSUME NEW n \in Nat, NEW S, 0 \in S, \A k \in 1..n : k - 1 \in S => k \in S
  PROVE  0..n \subseteq S
<1> DEFINE T == {k \in 0..n : k \notin S}
<1>1. SUFFICES ASSUME T # {}
               PROVE  FALSE
  OBVIOUS
<1>2. T \subseteq Nat
  OBVIOUS
<1>3. PICK x \in T : \A y \in T : x <= y
  BY <1>1, <1>2, LeastMember
<1>4. x \in 1..n /\ x - 1 \notin T
  BY <1>3
<1>5. QED
  BY <1>3, <1>4

-----------------------------------------------------------------------------
(* Where a word ends, counted from its end.                                *)
Close(text, k) == First(text, k + 1, {text[k]})

WordStep(text, end, k) ==
  IF k > Len(text) \/ text[k] \in WordEnds THEN k
  ELSE IF text[k] \notin Quotes THEN end[k + 1]
  ELSE IF Close(text, k) > Len(text) THEN 0 ELSE end[Close(text, k) + 1]

LEMMA CloseIs ==
  ASSUME NEW text \in Seq(STRING), NEW k \in 1..Len(text)
  PROVE  Close(text, k) \in (k + 1)..(Len(text) + 1)
<1>1. k + 1 \in Nat \ {0} /\ k + 1 <= Len(text) + 1
  OBVIOUS
<1>2. QED
  BY <1>1, FirstIs DEF Close

LEMMA WordEndsExist ==
  ASSUME NEW text \in Seq(STRING), NEW i \in 1..(Len(text) + 1)
  PROVE  \E f : f = [k \in i..(Len(text) + 1) |-> WordStep(text, f, k)]
<1> DEFINE n == Len(text)
           P(d) == \E f : f = [k \in (n + 1 - d)..(n + 1) |-> WordStep(text, f, k)]
           S == {d \in 0..(n + 1 - i) : P(d)}
<1>0. n \in Nat /\ n + 1 - i \in Nat
  OBVIOUS
<1>1. 0 \in S
  <2> DEFINE f == [k \in (n + 1 - 0)..(n + 1) |-> k]
  <2>1. \A k \in (n + 1 - 0)..(n + 1) : WordStep(text, f, k) = k
    BY <1>0 DEF WordStep
  <2>2. f = [k \in (n + 1 - 0)..(n + 1) |-> WordStep(text, f, k)]
    BY <2>1
  <2> HIDE DEF f
  <2>3. P(0)
    BY <2>2
  <2> HIDE DEF P
  <2>4. QED
    BY <1>0, <2>3
<1>2. ASSUME NEW d \in 1..(n + 1 - i), d - 1 \in S
      PROVE  d \in S
  <2> DEFINE a == n + 1 - d
  <2>1. a \in 1..n /\ n + 1 - (d - 1) = a + 1
    BY <1>0
  <2>2. PICK f : f = [k \in (n + 1 - (d - 1))..(n + 1) |-> WordStep(text, f, k)]
    BY <1>2
  <2>3. f = [k \in (a + 1)..(n + 1) |-> WordStep(text, f, k)]
    BY <2>1, <2>2
  <2> DEFINE g == [k \in a..(n + 1) |-> IF k = a THEN WordStep(text, f, a) ELSE f[k]]
  <2>4. ASSUME NEW k \in a..(n + 1)
        PROVE  g[k] = WordStep(text, g, k)
    <3>1. \A j \in (a + 1)..(n + 1) : g[j] = f[j]
      BY <2>1
    <3>2. g[a] = WordStep(text, f, a)
      BY <2>1
    <3>3. \A j \in (a + 1)..(n + 1) : f[j] = WordStep(text, f, j)
      BY <2>3
    <3> HIDE DEF g, a
    <3>4. k \in 1..n => Close(text, k) \in (k + 1)..(n + 1)
      BY CloseIs
    <3>5. WordStep(text, g, k) = WordStep(text, f, k)
      <4>1. k > n => WordStep(text, g, k) = k /\ WordStep(text, f, k) = k
        BY DEF WordStep
      <4>2. k \in 1..n => k + 1 \in (a + 1)..(n + 1)
        BY <2>1
      <4>3. k \in 1..n /\ Close(text, k) <= n => Close(text, k) + 1 \in (a + 1)..(n + 1)
        BY <2>1, <3>4
      <4>4. k > n \/ k \in 1..n
        BY <2>1
      <4>5. CASE k \in 1..n
        <5>1. g[k + 1] = f[k + 1]
          BY <3>1, <4>2, <4>5
        <5>2. ~(Close(text, k) > n) => g[Close(text, k) + 1] = f[Close(text, k) + 1]
          BY <3>1, <3>4, <4>3, <4>5
        <5>3. QED
          BY <5>1, <5>2, Zenon DEF WordStep
      <4>6. QED
        BY <4>1, <4>4, <4>5
    <3>6. CASE k = a
      BY <3>2, <3>5, <3>6
    <3>7. CASE k # a
      <4>1. k \in (a + 1)..(n + 1)
        BY <2>1, <3>7
      <4>2. QED
        BY <3>1, <3>3, <3>5, <4>1
    <3>8. QED
      BY <3>6, <3>7
  <2>5. g = [k \in a..(n + 1) |-> g[k]]
    OBVIOUS
  <2> HIDE DEF g
  <2>6. g = [k \in a..(n + 1) |-> WordStep(text, g, k)]
    BY <2>4, <2>5
  <2>7. P(d)
    BY <2>6
  <2> HIDE DEF P
  <2>8. QED
    BY <2>7
<1> HIDE DEF S
<1>3. 0..(n + 1 - i) \subseteq S
  BY <1>0, <1>1, <1>2, CountingUp
<1>4. n + 1 - i \in S
  BY <1>0, <1>3
<1>5. P(n + 1 - i)
  BY <1>4, Zenon DEF S
<1>6. n + 1 - (n + 1 - i) = i
  OBVIOUS
<1>7. QED
  BY <1>5, <1>6, Zenon

LEMMA WordEndIs ==
  ASSUME NEW text \in Seq(STRING), NEW i \in 1..(Len(text) + 1)
  PROVE  \E f : /\ f = [k \in i..(Len(text) + 1) |-> WordStep(text, f, k)]
                /\ WordEnd(text, i) = f[i]
<1> DEFINE end == CHOOSE f : f = [k \in i..(Len(text) + 1) |-> WordStep(text, f, k)]
<1>1. end = [k \in i..(Len(text) + 1) |-> WordStep(text, end, k)]
  BY WordEndsExist, Zenon
<1>2. WordEnd(text, i) = end[i]
  BY Zenon DEF WordEnd, WordStep, Close
<1>3. QED
  BY <1>1, <1>2, Zenon

LEMMA WordEndsRange ==
  ASSUME NEW text \in Seq(STRING), NEW i \in 1..(Len(text) + 1),
         NEW f, f = [k \in i..(Len(text) + 1) |-> WordStep(text, f, k)],
         NEW k \in i..(Len(text) + 1)
  PROVE  f[k] = 0 \/ f[k] \in k..(Len(text) + 1)
<1> DEFINE n == Len(text)
           Good(j) == f[j] = 0 \/ f[j] \in j..(n + 1)
           T == {j \in i..(n + 1) : ~Good(j)}
<1>1. n \in Nat /\ n + 1 \in Nat /\ T \subseteq 0..(n + 1)
  OBVIOUS
<1>2. \A j \in i..(n + 1) : f[j] = WordStep(text, f, j)
  OBVIOUS
<1>3. SUFFICES ASSUME T # {} PROVE FALSE
  OBVIOUS
<1>4. PICK x \in T : \A y \in T : x >= y
  <2> HIDE DEF T
  <2>1. Max(T) \in T /\ \A y \in T : Max(T) >= y
    BY <1>1, <1>3, MaxIs
  <2>2. QED
    BY <2>1
<1>5. x \in i..(n + 1) /\ ~Good(x)
  OBVIOUS
<1>6. \A j \in (x + 1)..(n + 1) : Good(j)
  BY <1>4, <1>5
<1>7. f[x] = WordStep(text, f, x)
  BY <1>2, <1>5
<1>8. CASE x > n \/ text[x] \in WordEnds
  BY <1>5, <1>7, <1>8 DEF WordStep
<1>9. CASE ~(x > n \/ text[x] \in WordEnds)
  <2>1. x \in 1..n
    BY <1>5, <1>9
  <2>2. Close(text, x) \in (x + 1)..(n + 1)
    BY <2>1, CloseIs
  <2> DEFINE c == Close(text, x)
  <2>3. f[x] = f[x + 1] \/ f[x] = 0 \/ (c <= n /\ f[x] = f[c + 1])
    BY <1>7, <1>9, <2>2 DEF WordStep
  <2> HIDE DEF c
  <2>4. CASE f[x] = f[x + 1]
    <3>1. x + 1 \in (x + 1)..(n + 1)
      BY <2>1
    <3>2. f[x + 1] = 0 \/ f[x + 1] \in (x + 1)..(n + 1)
      BY <1>6, <3>1
    <3>3. QED
      BY <1>5, <2>1, <2>4, <3>2
  <2>5. CASE c <= n /\ f[x] = f[c + 1]
    <3>1. c + 1 \in (x + 1)..(n + 1)
      BY <2>1, <2>2, <2>5 DEF c
    <3>2. f[c + 1] = 0 \/ f[c + 1] \in (c + 1)..(n + 1)
      BY <1>6, <3>1
    <3>3. QED
      BY <1>5, <2>1, <2>5, <3>1, <3>2
  <2>6. QED
    BY <1>5, <2>3, <2>4, <2>5
<1>10. QED
  BY <1>8, <1>9

(* The characters of a token alone.                                        *)
Alone(text, i, e) == SubSeq(text, i, e - 1)

LEMMA AloneIs ==
  ASSUME NEW text \in Seq(STRING), NEW i \in 1..Len(text),
         NEW e \in (i + 1)..(Len(text) + 1)
  PROVE  /\ Alone(text, i, e) \in Seq(STRING)
         /\ Len(Alone(text, i, e)) = e - i
         /\ \A k \in 1..(e - i) : Alone(text, i, e)[k] = text[i + k - 1]
<1>1. /\ Alone(text, i, e) \in Seq(STRING)
      /\ Len(Alone(text, i, e)) = (e - 1) - i + 1
      /\ \A k \in 1..((e - 1) - i + 1) : Alone(text, i, e)[k] = text[i + k - 1]
  BY DEF Alone
<1>2. (e - 1) - i + 1 = e - i
  OBVIOUS
<1>3. QED
  BY <1>1, <1>2

(* A character looked for in the token alone.                              *)
LEMMA FirstAlone ==
  ASSUME NEW text \in Seq(STRING), NEW i \in 1..Len(text),
         NEW e \in (i + 1)..(Len(text) + 1), NEW j \in i..e, NEW chars
  PROVE  /\ First(text, j, chars) >= e =>
              First(Alone(text, i, e), j - i + 1, chars) = e - i + 1
         /\ First(text, j, chars) < e =>
              First(Alone(text, i, e), j - i + 1, chars) =
                First(text, j, chars) - i + 1
<1> DEFINE alone == Alone(text, i, e)
           f == First(text, j, chars)
           m == j - i + 1
           h == IF f >= e THEN e - i + 1 ELSE f - i + 1
<1>1. /\ alone \in Seq(STRING) /\ Len(alone) = e - i
      /\ \A k \in 1..(e - i) : alone[k] = text[i + k - 1]
  BY AloneIs
<1>2. /\ f \in 1..(Len(text) + 1) /\ j <= f
      /\ f <= Len(text) => text[f] \in chars
      /\ \A k \in j..Len(text) : k < f => text[k] \notin chars
  <2>1. j \in Nat \ {0} /\ j <= Len(text) + 1
    OBVIOUS
  <2>2. QED
    BY <2>1, FirstIs
<1>3. m \in Nat \ {0}
  OBVIOUS
<1> HIDE DEF f, alone
<1>4. h \in Nat /\ m <= h /\ h <= e - i + 1
  BY <1>2
<1>5. h <= e - i => alone[h] \in chars
  <2>1. ASSUME h <= e - i
        PROVE  alone[h] \in chars
    <3>1. f < e /\ h = f - i + 1 /\ i + h - 1 = f /\ f <= Len(text)
      BY <1>2, <2>1
    <3>2. h \in 1..(e - i)
      BY <1>3, <1>4, <2>1
    <3>3. alone[h] = text[f]
      BY <1>1, <3>1, <3>2
    <3>4. QED
      BY <1>2, <3>1, <3>3
  <2>2. QED
    BY <2>1
<1>6. ASSUME NEW k \in m..(e - i), k < h
      PROVE  alone[k] \notin chars
  <2>1. i + k - 1 \in j..Len(text) /\ i + k - 1 < f /\ k \in 1..(e - i)
    BY <1>2, <1>6
  <2>2. alone[k] = text[i + k - 1]
    BY <1>1, <2>1
  <2>3. QED
    BY <1>2, <2>1, <2>2
<1> HIDE DEF m, h
<1>7. First(alone, m, chars) = h
  <2>1. h <= Len(alone) + 1
    BY <1>1, <1>4
  <2>2. h <= Len(alone) => alone[h] \in chars
    BY <1>1, <1>5
  <2>3. \A k \in m..Len(alone) : k < h => alone[k] \notin chars
    BY <1>1, <1>6
  <2>4. QED
    BY <1>1, <1>3, <1>4, <2>1, <2>2, <2>3, FirstWhere
<1>8. QED
  BY <1>2, <1>7 DEF h, m, f, alone

LEMMA WordAlone ==
  ASSUME NEW text \in Seq(STRING), NEW i \in 1..Len(text),
         NEW e \in (i + 1)..(Len(text) + 1), WordEnd(text, i) = e
  PROVE  WordEnd(Alone(text, i, e), 1) = e - i + 1
<1> DEFINE n == Len(text)
           alone == Alone(text, i, e)
<1>0. n \in Nat /\ n + 1 \in Nat
  OBVIOUS
<1>1. /\ alone \in Seq(STRING) /\ Len(alone) = e - i
      /\ \A k \in 1..(e - i) : alone[k] = text[i + k - 1]
  BY AloneIs
<1> HIDE DEF alone
<1>2. PICK f : /\ f = [k \in i..(n + 1) |-> WordStep(text, f, k)]
               /\ WordEnd(text, i) = f[i]
  BY WordEndIs
<1>3. PICK g : /\ g = [k \in 1..(Len(alone) + 1) |-> WordStep(alone, g, k)]
               /\ WordEnd(alone, 1) = g[1]
  <2>1. 1 \in 1..(Len(alone) + 1)
    BY <1>1
  <2>2. QED
    BY <1>1, <2>1, WordEndIs
<1> DEFINE m(j) == j - i + 1
           T == {j \in i..e : f[j] = e /\ g[m(j)] # e - i + 1}
<1>4. SUFFICES T = {}
  <2>1. i \in i..e /\ m(i) = 1
    BY <1>0
  <2>2. f[i] = e
    BY <1>2
  <2>3. ASSUME T = {} PROVE g[1] = e - i + 1
    BY <2>1, <2>2, <2>3
  <2>4. QED
    BY <1>3, <2>3 DEF alone
<1>5. SUFFICES ASSUME T # {} PROVE FALSE
  OBVIOUS
<1>6. PICK x \in T : \A y \in T : x >= y
  <2>1. T \subseteq 0..(n + 1)
    BY <1>0
  <2> HIDE DEF T
  <2>2. Max(T) \in T /\ \A y \in T : Max(T) >= y
    BY <1>0, <1>5, <2>1, MaxIs
  <2>3. QED
    BY <2>2
<1>7. x \in i..e /\ f[x] = e /\ g[m(x)] # e - i + 1
  OBVIOUS
<1>8. \A y \in (x + 1)..e : f[y] = e => g[m(y)] = e - i + 1
  BY <1>6, <1>7
<1> HIDE DEF T
<1>9. f[x] = WordStep(text, f, x)
  <2>1. x \in i..(n + 1)
    BY <1>7
  <2>2. \A k \in i..(n + 1) : f[k] = WordStep(text, f, k)
    BY <1>2
  <2>3. QED
    BY <2>1, <2>2
<1>10. m(x) \in 1..(e - i + 1) /\ g[m(x)] = WordStep(alone, g, m(x))
  <2>1. m(x) \in 1..(e - i + 1) /\ m(x) \in 1..(Len(alone) + 1)
    BY <1>1, <1>7
  <2>2. \A k \in 1..(Len(alone) + 1) : g[k] = WordStep(alone, g, k)
    BY <1>3
  <2> HIDE DEF m
  <2>3. QED
    BY <2>1, <2>2
<1>11. x # e
  <2>1. SUFFICES ASSUME x = e PROVE FALSE
    OBVIOUS
  <2>2. m(x) > Len(alone)
    BY <1>1, <2>1
  <2>3. g[m(x)] = m(x)
    BY <1>10, <2>2, Zenon DEF WordStep
  <2>4. QED
    BY <1>7, <2>1, <2>3
<1>12. /\ x \in i..n /\ m(x) \in 1..(e - i)
       /\ ~(x > n) /\ ~(m(x) > Len(alone)) /\ alone[m(x)] = text[x]
  <2>1. x \in i..n /\ m(x) \in 1..(e - i) /\ i + m(x) - 1 = x
    BY <1>7, <1>11
  <2>2. QED
    BY <1>1, <2>1
<1>13. text[x] \notin WordEnds
  BY <1>7, <1>9, <1>11, Zenon DEF WordStep
<1>14. CASE text[x] \notin Quotes
  <2>1. f[x + 1] = e
    BY <1>7, <1>9, <1>12, <1>13, <1>14 DEF WordStep
  <2>2. x + 1 \in (x + 1)..e /\ m(x + 1) = m(x) + 1
    BY <1>7, <1>11
  <2>3. g[m(x + 1)] = e - i + 1
    BY <1>8, <2>1, <2>2
  <2>4. g[m(x)] = g[m(x) + 1]
    BY <1>10, <1>12, <1>13, <1>14 DEF WordStep
  <2>5. QED
    BY <1>7, <2>2, <2>3, <2>4
<1>15. CASE text[x] \in Quotes
  <2> DEFINE c == Close(text, x)
  <2>1. c \in (x + 1)..(n + 1)
    BY <1>12, CloseIs
  <2>2. ~(c > n)
    <3>1. c > n => f[x] = 0
      BY <1>9, <1>12, <1>13, <1>15 DEF WordStep
    <3>2. QED
      BY <1>7, <3>1
  <2>3. f[c + 1] = e
    BY <1>7, <1>9, <1>12, <1>13, <1>15, <2>2 DEF WordStep
  <2>4. c + 1 \in i..(n + 1)
    BY <1>7, <2>1, <2>2
  <2>5. c + 1 <= e
    <3>1. f[c + 1] = 0 \/ f[c + 1] \in (c + 1)..(n + 1)
      BY <1>2, <2>4, WordEndsRange
    <3> HIDE DEF c
    <3>2. QED
      BY <2>1, <2>3, <3>1
  <2>6. Close(alone, m(x)) = c - i + 1
    <3>1. x + 1 \in i..e /\ m(x) + 1 = (x + 1) - i + 1
      BY <1>7, <1>11
    <3>2. First(text, x + 1, {text[x]}) < e
      BY <2>1, <2>2, <2>5 DEF Close
    <3>3. First(alone, (x + 1) - i + 1, {text[x]}) = First(text, x + 1, {text[x]}) - i + 1
      BY <3>1, <3>2, FirstAlone DEF alone
    <3>4. QED
      BY <1>12, <3>1, <3>3 DEF Close
  <2>7. ~(Close(alone, m(x)) > Len(alone)) /\ Close(alone, m(x)) + 1 = m(c + 1)
    <3> HIDE DEF c
    <3>1. c - i + 1 <= e - i /\ (c - i + 1) + 1 = m(c + 1)
      BY <1>7, <2>1, <2>2, <2>5
    <3>2. QED
      BY <1>1, <2>1, <2>6, <3>1
  <2>8. g[m(x)] = g[Close(alone, m(x)) + 1]
    BY <1>10, <1>12, <1>13, <1>15, <2>7 DEF WordStep
  <2>9. g[m(c + 1)] = e - i + 1
    <3>1. c + 1 \in (x + 1)..e
      <4> HIDE DEF c
      <4>1. QED
        BY <1>7, <2>1, <2>5
    <3>2. QED
      BY <1>8, <2>3, <3>1
  <2>10. QED
    BY <1>7, <2>7, <2>8, <2>9
<1>16. QED
  BY <1>14, <1>15

-----------------------------------------------------------------------------
(* Where tokens end.                                                       *)
Class(c) ==
  CASE c \in {"nl", ","}     -> "one"
    [] c = ";"               -> "comment"
    [] c \in {"#", "$", "."} -> "marked"
    [] c \in Quotes          -> "quoted"
    [] c \in DecChars        -> "number"
    [] OTHER                 -> "word"

LEMMA DecCharsAre ==
  /\ DecChars = {"0", "1", "2", "3", "4", "5", "6", "7", "8", "9", "_"}
  /\ DecChars \cap NumberEnds = {}
<1>1. {Digits[d] : d \in 1..10} = {"0", "1", "2", "3", "4", "5", "6", "7", "8", "9"}
  <2>1. /\ Digits[1] = "0" /\ Digits[2] = "1" /\ Digits[3] = "2" /\ Digits[4] = "3"
        /\ Digits[5] = "4" /\ Digits[6] = "5" /\ Digits[7] = "6" /\ Digits[8] = "7"
        /\ Digits[9] = "8" /\ Digits[10] = "9"
    BY DEF Digits
  <2>2. 1..10 = {1, 2, 3, 4, 5, 6, 7, 8, 9, 10}
    OBVIOUS
  <2>3. QED
    BY <2>1, <2>2
<1>2. QED
  BY <1>1 DEF DecChars, Delimiter, NumberEnds, WordEnds, Ignored

LEMMA EndByClass ==
  ASSUME NEW text, NEW i
  PROVE  /\ Class(text[i]) \in {"one", "comment", "marked", "quoted", "number", "word"}
         /\ Class(text[i]) = "one" => End(text, i) = i + 1
         /\ Class(text[i]) = "comment" =>
              End(text, i) = First(text, i, {"nl"}) /\ text[i] = ";"
         /\ Class(text[i]) = "marked" =>
              End(text, i) = First(text, i + 1, WordEnds)
         /\ Class(text[i]) = "quoted" =>
              End(text, i) = QuoteEnd(text, i)
         /\ Class(text[i]) = "number" =>
              End(text, i) = First(text, i, NumberEnds) /\ text[i] \in DecChars
         /\ Class(text[i]) = "word" =>
              /\ End(text, i) = WordEnd(text, i)
              /\ text[i] \notin {"nl", ",", ";"} /\ text[i] \notin Quotes
<1> DEFINE c == text[i]
           one == {"nl", ","}
           marked == {"#", "$", "."}
<1>0. /\ c \notin one \/ (c # ";" /\ c \notin marked /\ c \notin Quotes /\ c \notin DecChars)
      /\ c # ";" \/ (c \notin one /\ c \notin marked /\ c \notin Quotes /\ c \notin DecChars)
      /\ c \notin marked \/ (c \notin one /\ c # ";" /\ c \notin Quotes /\ c \notin DecChars)
      /\ c \notin Quotes \/ (c \notin one /\ c # ";" /\ c \notin marked /\ c \notin DecChars)
      /\ c \notin DecChars \/ (c \notin one /\ c # ";" /\ c \notin marked /\ c \notin Quotes)
      /\ c \in one \/ c = ";" => c \in {"nl", ",", ";"}
  BY DecCharsAre DEF Quotes
<1>a. Class(c) =
        CASE c \in one -> "one" [] c = ";" -> "comment" [] c \in marked -> "marked"
          [] c \in Quotes -> "quoted" [] c \in DecChars -> "number" [] OTHER -> "word"
  BY DEF Class
<1>b. End(text, i) =
        CASE c \in one    -> i + 1
          [] c = ";"      -> First(text, i, {"nl"})
          [] c \in marked -> First(text, i + 1, WordEnds)
          [] c \in Quotes -> QuoteEnd(text, i)
          [] c \in DecChars -> First(text, i, NumberEnds)
          [] OTHER        -> WordEnd(text, i)
  BY DEF End
<1>7. (c \notin one /\ c # ";") => c \notin {"nl", ",", ";"}
  OBVIOUS
<1> HIDE DEF c, one, marked
<1>1. CASE c \in one
  <2>1. Class(c) = "one" /\ End(text, i) = i + 1
    BY <1>0, <1>1, <1>a, <1>b
  <2>2. QED
    BY <2>1 DEF c
<1>2. CASE c = ";"
  <2>1. Class(c) = "comment" /\ End(text, i) = First(text, i, {"nl"})
    BY <1>0, <1>2, <1>a, <1>b
  <2>2. QED
    BY <1>2, <2>1 DEF c
<1>3. CASE c \in marked
  <2>1. Class(c) = "marked" /\ End(text, i) = First(text, i + 1, WordEnds)
    BY <1>0, <1>3, <1>a, <1>b
  <2>2. QED
    BY <2>1 DEF c
<1>4. CASE c \in Quotes
  <2>1. Class(c) = "quoted" /\ End(text, i) = QuoteEnd(text, i)
    BY <1>0, <1>4, <1>a, <1>b
  <2>2. QED
    BY <2>1 DEF c
<1>5. CASE c \in DecChars
  <2>1. Class(c) = "number" /\ End(text, i) = First(text, i, NumberEnds)
    BY <1>0, <1>5, <1>a, <1>b
  <2>2. QED
    BY <1>5, <2>1 DEF c
<1>6. CASE c \notin one /\ c # ";" /\ c \notin marked /\ c \notin Quotes /\ c \notin DecChars
  <2>1. Class(c) = "word" /\ End(text, i) = WordEnd(text, i)
    BY <1>6, <1>a, <1>b
  <2>2. QED
    BY <1>6, <1>7, <2>1 DEF c
<1>8. QED
  BY <1>1, <1>2, <1>3, <1>4, <1>5, <1>6

LEMMA EndIs ==
  ASSUME NEW text \in Seq(STRING), NEW i \in 1..Len(text), text[i] \notin Ignored
  PROVE  End(text, i) = 0 \/ End(text, i) \in (i + 1)..(Len(text) + 1)
<1> DEFINE n == Len(text)
<1>0. n \in Nat /\ i \in Nat \ {0} /\ i + 1 \in Nat \ {0} /\ i + 1 <= n + 1
  OBVIOUS
<1>1. \A chars : /\ First(text, i + 1, chars) \in (i + 1)..(n + 1)
                 /\ text[i] \notin chars => First(text, i, chars) \in (i + 1)..(n + 1)
  <2> SUFFICES ASSUME NEW chars
               PROVE  /\ First(text, i + 1, chars) \in (i + 1)..(n + 1)
                      /\ text[i] \notin chars => First(text, i, chars) \in (i + 1)..(n + 1)
    OBVIOUS
  <2>1. First(text, i + 1, chars) \in (i + 1)..(n + 1)
    BY <1>0, FirstIs
  <2>2. /\ First(text, i, chars) \in i..(n + 1)
        /\ First(text, i, chars) <= n => text[First(text, i, chars)] \in chars
    BY <1>0, FirstIs
  <2>3. text[i] \notin chars => First(text, i, chars) # i
    BY <2>2
  <2>4. QED
    BY <1>0, <2>1, <2>2, <2>3
<1>2. CASE Class(text[i]) = "one"
  <2>1. End(text, i) = i + 1
    BY <1>2, EndByClass
  <2>2. QED
    BY <1>0, <2>1
<1>3. CASE Class(text[i]) = "comment"
  <2>1. text[i] = ";" /\ End(text, i) = First(text, i, {"nl"})
    BY <1>3, EndByClass
  <2>2. text[i] \notin {"nl"}
    BY <2>1
  <2>3. QED
    BY <1>1, <2>1, <2>2
<1>4. CASE Class(text[i]) = "marked"
  BY <1>1, <1>4, EndByClass
<1>5. CASE Class(text[i]) = "quoted"
  <2>1. First(text, i + 1, {text[i]}) \in (i + 1)..(n + 1)
    BY <1>1
  <2>2. End(text, i) = QuoteEnd(text, i)
    BY <1>5, EndByClass
  <2>3. QED
    BY <1>0, <2>1, <2>2 DEF QuoteEnd
<1>6. CASE Class(text[i]) = "number"
  <2>1. text[i] \notin NumberEnds
    BY <1>6, EndByClass, DecCharsAre
  <2>2. QED
    BY <1>1, <1>6, <2>1, EndByClass
<1>7. CASE Class(text[i]) = "word"
  <2>1. i \in 1..(n + 1) /\ i + 1 \in i..(n + 1) /\ i \in i..(n + 1) /\ ~(i > n)
    BY <1>0
  <2>2. PICK f : /\ f = [k \in i..(n + 1) |-> WordStep(text, f, k)]
                 /\ WordEnd(text, i) = f[i]
    BY <2>1, WordEndIs
  <2>3. text[i] \notin WordEnds /\ text[i] \notin Quotes
    BY <1>7, EndByClass DEF WordEnds
  <2>4. \A k \in i..(n + 1) : f[k] = WordStep(text, f, k)
    BY <2>2
  <2>5. f[i] = WordStep(text, f, i)
    BY <2>1, <2>4
  <2>6. f[i] = f[i + 1]
    BY <2>1, <2>3, <2>5, Zenon DEF WordStep
  <2>7. f[i + 1] = 0 \/ f[i + 1] \in (i + 1)..(n + 1)
    BY <2>1, <2>2, WordEndsRange
  <2>8. QED
    BY <1>7, <2>2, <2>6, <2>7, EndByClass
<1>8. QED
  BY <1>2, <1>3, <1>4, <1>5, <1>6, <1>7, EndByClass

(* A token that is read alone ends where it does.                          *)
LEMMA EndAlone ==
  ASSUME NEW text \in Seq(STRING), NEW i \in 1..Len(text), text[i] \notin Ignored,
         NEW e, End(text, i) = e, e # 0
  PROVE  /\ e \in (i + 1)..(Len(text) + 1)
         /\ Alone(text, i, e) \in Seq(STRING)
         /\ Len(Alone(text, i, e)) = e - i
         /\ \A k \in 1..(e - i) : Alone(text, i, e)[k] = text[i + k - 1]
         /\ Alone(text, i, e)[1] = text[i]
         /\ End(Alone(text, i, e), 1) = e - i + 1
<1> DEFINE n == Len(text)
           alone == Alone(text, i, e)
<1>1. e \in (i + 1)..(n + 1)
  BY EndIs
<1>2. /\ alone \in Seq(STRING) /\ Len(alone) = e - i
      /\ \A k \in 1..(e - i) : alone[k] = text[i + k - 1]
  BY <1>1, AloneIs
<1>3. alone[1] = text[i]
  <2>1. 1 \in 1..(e - i) /\ i + 1 - 1 = i
    BY <1>1
  <2>2. QED
    BY <1>2, <2>1
<1>4. \A chars :
        /\ First(text, i, chars) = e => First(alone, 1, chars) = e - i + 1
        /\ First(text, i + 1, chars) = e => First(alone, 2, chars) = e - i + 1
  <2> SUFFICES ASSUME NEW chars
               PROVE  /\ First(text, i, chars) = e => First(alone, 1, chars) = e - i + 1
                      /\ First(text, i + 1, chars) = e => First(alone, 2, chars) = e - i + 1
    OBVIOUS
  <2> HIDE DEF alone
  <2>1. i \in i..e /\ i - i + 1 = 1 /\ i + 1 \in i..e /\ i + 1 - i + 1 = 2 /\ e >= e
    BY <1>1
  <2>2. First(text, i, chars) = e => First(alone, i - i + 1, chars) = e - i + 1
    BY <1>1, <2>1, FirstAlone DEF alone
  <2>3. First(text, i + 1, chars) = e => First(alone, i + 1 - i + 1, chars) = e - i + 1
    BY <1>1, <2>1, FirstAlone DEF alone
  <2>4. QED
    BY <2>1, <2>2, <2>3
<1> HIDE DEF alone
<1>5. CASE Class(text[i]) = "one"
  <2>1. e = i + 1 /\ End(alone, 1) = 1 + 1
    BY <1>3, <1>5, EndByClass
  <2>2. QED
    BY <1>1, <1>2, <1>3, <2>1 DEF alone
<1>6. CASE Class(text[i]) = "comment"
  <2>1. End(alone, 1) = First(alone, 1, {"nl"}) /\ e = First(text, i, {"nl"})
    BY <1>3, <1>6, EndByClass
  <2>2. QED
    BY <1>1, <1>2, <1>3, <1>4, <2>1 DEF alone
<1>7. CASE Class(text[i]) = "marked"
  <2>1. End(alone, 1) = First(alone, 1 + 1, WordEnds) /\ e = First(text, i + 1, WordEnds)
    BY <1>3, <1>7, EndByClass
  <2>2. QED
    BY <1>1, <1>2, <1>3, <1>4, <2>1 DEF alone
<1>8. CASE Class(text[i]) = "quoted"
  <2> DEFINE c == First(text, i + 1, {text[i]})
             d == First(alone, 1 + 1, {text[i]})
  <2>1. End(alone, 1) = IF d > Len(alone) THEN 0 ELSE d + 1
    <3>1. End(alone, 1) = QuoteEnd(alone, 1)
      BY <1>3, <1>8, EndByClass
    <3>2. QuoteEnd(alone, 1) = IF First(alone, 1 + 1, {alone[1]}) > Len(alone) THEN 0
                               ELSE First(alone, 1 + 1, {alone[1]}) + 1
      BY DEF QuoteEnd
    <3>3. QED
      BY <1>3, <3>1, <3>2
  <2>2. e = IF c > n THEN 0 ELSE c + 1
    BY <1>8, EndByClass, Zenon DEF QuoteEnd
  <2>3. c \in Nat
    <3>1. i + 1 \in Nat \ {0}
      OBVIOUS
    <3>2. QED
      BY <3>1, FirstIs
  <2>4. i + 1 \in i..e /\ (i + 1) - i + 1 = 1 + 1
    BY <1>1
  <2>5. c < e => d = c - i + 1
    BY <1>1, <2>4, FirstAlone DEF alone
  <2> HIDE DEF c, d
  <2>6. End(alone, 1) = e - i + 1
    <3>1. e = c + 1 /\ c < e
      BY <2>2, <2>3
    <3>2. d = e - i /\ ~(d > Len(alone))
      BY <1>1, <1>2, <2>3, <2>5, <3>1
    <3>3. QED
      BY <1>1, <2>1, <3>2
  <2>7. QED
    BY <1>1, <1>2, <1>3, <2>6 DEF alone
<1>9. CASE Class(text[i]) = "number"
  <2>1. End(alone, 1) = First(alone, 1, NumberEnds) /\ e = First(text, i, NumberEnds)
    BY <1>3, <1>9, EndByClass
  <2>2. QED
    BY <1>1, <1>2, <1>3, <1>4, <2>1 DEF alone
<1>10. CASE Class(text[i]) = "word"
  <2>1. WordEnd(text, i) = e /\ End(alone, 1) = WordEnd(alone, 1)
    BY <1>3, <1>10, EndByClass
  <2>2. WordEnd(alone, 1) = e - i + 1
    BY <1>1, <2>1, WordAlone DEF alone
  <2>3. QED
    BY <1>1, <1>2, <1>3, <2>1, <2>2 DEF alone
<1>11. QED
  BY <1>5, <1>6, <1>7, <1>8, <1>9, <1>10, EndByClass

LEMMA PartAlone ==
  ASSUME NEW text \in Seq(STRING), NEW i \in 1..Len(text),
         NEW e \in (i + 1)..(Len(text) + 1), NEW j \in i..e, NEW m \in (i - 1)..(e - 1)
  PROVE  SubSeq(Alone(text, i, e), j - i + 1, m - i + 1) = SubSeq(text, j, m)
<1> DEFINE alone == Alone(text, i, e)
           a == j - i + 1
           b == m - i + 1
           s == SubSeq(alone, a, b)
           t == SubSeq(text, j, m)
<1>1. /\ alone \in Seq(STRING) /\ Len(alone) = e - i
      /\ \A k \in 1..(e - i) : alone[k] = text[i + k - 1]
  BY AloneIs
<1> HIDE DEF alone
<1>2. a \in 1..(e - i + 1) /\ b \in 0..(e - i) /\ a \in Int /\ b \in Int
  OBVIOUS
<1>3. CASE m < j
  <2>1. t = << >> /\ b < a
    BY <1>3
  <2>2. s = << >>
    BY <1>1, <1>2, <2>1
  <2>3. QED
    BY <2>1, <2>2 DEF alone
<1>4. CASE j <= m
  <2>1. /\ Len(t) = m - j + 1
        /\ t = [k \in 1..(m - j + 1) |-> text[j + k - 1]]
    BY <1>4
  <2>2. s = [k \in 1..(b - a + 1) |-> alone[a + k - 1]]
    <3>1. a <= b
      BY <1>4
    <3> HIDE DEF a, b
    <3>2. QED
      BY <1>1, <1>2, <3>1
  <2>3. b - a + 1 = m - j + 1
    OBVIOUS
  <2>4. \A k \in 1..(m - j + 1) : alone[a + k - 1] = text[j + k - 1]
    <3> SUFFICES ASSUME NEW k \in 1..(m - j + 1)
                 PROVE  alone[a + k - 1] = text[j + k - 1]
      OBVIOUS
    <3>1. a + k - 1 \in 1..(e - i) /\ i + (a + k - 1) - 1 = j + k - 1
      BY <1>4
    <3>2. QED
      BY <1>1, <3>1
  <2>5. QED
    BY <2>1, <2>2, <2>3, <2>4 DEF alone
<1>5. QED
  BY <1>3, <1>4

LEMMA KindAlone ==
  ASSUME NEW text \in Seq(STRING), NEW i \in 1..Len(text), text[i] \notin Ignored,
         NEW e, End(text, i) = e, e # 0
  PROVE  Kind(Alone(text, i, e), 1) = Kind(text, i)
<1> DEFINE alone == Alone(text, i, e)
<1>1. /\ alone[1] = text[i] /\ End(alone, 1) = e - i + 1
      /\ e \in (i + 1)..(Len(text) + 1)
      /\ \A k \in 1..(e - i) : alone[k] = text[i + k - 1]
  BY EndAlone
<1> HIDE DEF alone
<1>2. alone[End(alone, 1) - 1] = text[End(text, i) - 1]
  <2>1. e - i \in 1..(e - i) /\ i + (e - i) - 1 = e - 1 /\ (e - i + 1) - 1 = e - i
    BY <1>1
  <2>2. QED
    BY <1>1, <2>1
<1>3. QED
  BY <1>1, <1>2, Zenon DEF Kind, alone

LEMMA PrefixAlone ==
  ASSUME NEW text \in Seq(STRING), NEW i \in 1..Len(text), text[i] \notin Ignored,
         NEW e, End(text, i) = e, e # 0, Class(text[i]) = "number"
  PROVE  /\ HasPrefix(Alone(text, i, e), 1) <=> HasPrefix(text, i)
         /\ HasPrefix(text, i) => i + 2 <= e
<1> DEFINE alone == Alone(text, i, e)
           n == Len(text)
<1>1. /\ alone[1] = text[i] /\ Len(alone) = e - i /\ e \in (i + 1)..(n + 1)
      /\ \A k \in 1..(e - i) : alone[k] = text[i + k - 1]
  BY EndAlone
<1>2. e = First(text, i, NumberEnds)
  BY EndByClass
<1>3. e <= n => text[e] \in NumberEnds
  BY <1>2, FirstIs
<1>4. DOMAIN PrefixBase \cap NumberEnds = {}
  BY DEF PrefixBase, NumberEnds, WordEnds, Ignored
<1> HIDE DEF alone
<1>5. HasPrefix(text, i) => i + 2 <= e
  <2>1. HasPrefix(text, i) => i < n /\ text[i + 1] \in DOMAIN PrefixBase
    BY DEF HasPrefix
  <2> HIDE DEF n
  <2>2. HasPrefix(text, i) => e # i + 1
    <3>1. n \in Nat
      BY DEF n
    <3>2. i < n => i + 1 <= n
      BY <3>1
    <3>3. QED
      BY <1>3, <1>4, <2>1, <3>2
  <2>3. QED
    BY <1>1, <2>2 DEF n
<1>6. 1 < Len(alone) <=> i + 2 <= e
  BY <1>1
<1>7. i + 2 <= e => /\ i < n
                    /\ alone[1 + 1] = text[i + 1]
  <2>1. i + 2 <= e => 2 \in 1..(e - i) /\ i + 2 - 1 = i + 1 /\ i < n
    BY <1>1
  <2>2. QED
    BY <1>1, <2>1
<1>8. QED
  BY <1>1, <1>5, <1>6, <1>7 DEF HasPrefix, alone

LEMMA NumberAlone ==
  ASSUME NEW text \in Seq(STRING), NEW i \in 1..Len(text), text[i] \notin Ignored,
         NEW e, End(text, i) = e, e # 0, Class(text[i]) = "number"
  PROVE  /\ NumberText(Alone(text, i, e), 1) = NumberText(text, i)
         /\ Base(Alone(text, i, e), 1) = Base(text, i)
<1> DEFINE alone == Alone(text, i, e)
<1>1. /\ alone[1] = text[i] /\ Len(alone) = e - i /\ e \in (i + 1)..(Len(text) + 1)
      /\ \A k \in 1..(e - i) : alone[k] = text[i + k - 1]
      /\ End(alone, 1) = e - i + 1
  BY EndAlone
<1>2. /\ HasPrefix(alone, 1) <=> HasPrefix(text, i)
      /\ HasPrefix(text, i) => i + 2 <= e
  BY PrefixAlone
<1>3. HasPrefix(text, i) => SubSeq(alone, 1 + 2, e - i) = SubSeq(text, i + 2, e - 1)
  <2>1. CASE HasPrefix(text, i)
    <3>1. i + 2 \in i..e /\ e - 1 \in (i - 1)..(e - 1)
      BY <1>1, <1>2, <2>1
    <3>2. SubSeq(alone, (i + 2) - i + 1, (e - 1) - i + 1) = SubSeq(text, i + 2, e - 1)
      BY <1>1, <3>1, PartAlone
    <3>3. (i + 2) - i + 1 = 1 + 2 /\ (e - 1) - i + 1 = e - i
      BY <1>1
    <3>4. QED
      BY <3>2, <3>3
  <2>2. QED
    BY <2>1
<1>4. SubSeq(alone, 1, e - i) = SubSeq(text, i, e - 1)
  <2>1. i \in i..e /\ e - 1 \in (i - 1)..(e - 1)
    BY <1>1
  <2>2. SubSeq(alone, i - i + 1, (e - 1) - i + 1) = SubSeq(text, i, e - 1)
    BY <1>1, <2>1, PartAlone
  <2>3. i - i + 1 = 1 /\ (e - 1) - i + 1 = e - i
    BY <1>1
  <2>4. QED
    BY <2>2, <2>3
<1> HIDE DEF alone
<1>5. End(alone, 1) - 1 = e - i
  BY <1>1
<1>6. NumberText(alone, 1) = NumberText(text, i)
  <2>1. CASE HasPrefix(text, i)
    BY <1>2, <1>3, <1>5, <2>1, Zenon DEF NumberText
  <2>2. CASE ~HasPrefix(text, i)
    BY <1>2, <1>4, <1>5, <2>2, Zenon DEF NumberText
  <2>3. QED
    BY <2>1, <2>2
<1>7. Base(alone, 1) = Base(text, i)
  <2>1. CASE HasPrefix(text, i)
    <3>1. alone[1 + 1] = text[i + 1]
      <4>1. 2 \in 1..(e - i) /\ i + 2 - 1 = i + 1 /\ 1 + 1 = 2
        BY <1>1, <1>2, <2>1
      <4>2. QED
        BY <1>1, <4>1
    <3>2. QED
      BY <1>2, <2>1, <3>1, Zenon DEF Base
  <2>2. CASE ~HasPrefix(text, i)
    BY <1>2, <2>2, Zenon DEF Base
  <2>3. QED
    BY <2>1, <2>2
<1>8. QED
  BY <1>6, <1>7 DEF alone

LEMMA IntIsNumber ==
  ASSUME NEW text, NEW i, Kind(text, i) = "int"
  PROVE  Class(text[i]) = "number"
<1>1. DOMAIN Marks = {"nl", ",", ";", "#", "$", ".", "dq", "sq"}
  BY DEF Marks
<1>2. \A c \in DOMAIN Marks : Marks[c] # "int"
  BY DEF Marks
<1>3. text[i] \notin DOMAIN Marks /\ text[i] \in DecChars
  BY <1>2 DEF Kind
<1>4. text[i] \notin {"nl", ","} /\ text[i] # ";" /\ text[i] \notin {"#", "$", "."}
      /\ text[i] \notin Quotes
  BY <1>1, <1>3 DEF Quotes
<1>5. QED
  BY <1>3, <1>4 DEF Class

LEMMA ValueAlone ==
  ASSUME NEW text \in Seq(STRING), NEW i \in 1..Len(text), text[i] \notin Ignored,
         NEW e, End(text, i) = e, e # 0
  PROVE  Value(Alone(text, i, e), 1) = Value(text, i)
<1> DEFINE alone == Alone(text, i, e)
           kind == Kind(text, i)
<1>1. e \in (i + 1)..(Len(text) + 1) /\ End(alone, 1) = e - i + 1
  BY EndAlone
<1>2. Kind(alone, 1) = kind
  BY KindAlone
<1>3. /\ SubSeq(alone, 1, e - i) = SubSeq(text, i, e - 1)
      /\ SubSeq(alone, 1, (e - i) - 1) = SubSeq(text, i, (e - 1) - 1)
      /\ SubSeq(alone, 1 + 1, (e - i) - 1) = SubSeq(text, i + 1, (e - 1) - 1)
      /\ SubSeq(alone, 1 + 1, e - i) = SubSeq(text, i + 1, e - 1)
  <2>2. SubSeq(alone, 1, e - i) = SubSeq(text, i, e - 1)
    <3>1. i \in i..e /\ e - 1 \in (i - 1)..(e - 1)
      BY <1>1
    <3>2. SubSeq(alone, i - i + 1, (e - 1) - i + 1) = SubSeq(text, i, e - 1)
      BY <1>1, <3>1, PartAlone
    <3>3. i - i + 1 = 1 /\ (e - 1) - i + 1 = e - i
      BY <1>1
    <3>4. QED
      BY <3>2, <3>3
  <2>3. SubSeq(alone, 1, (e - i) - 1) = SubSeq(text, i, (e - 1) - 1)
    <3>1. i \in i..e /\ (e - 1) - 1 \in (i - 1)..(e - 1)
      BY <1>1
    <3>2. SubSeq(alone, i - i + 1, ((e - 1) - 1) - i + 1) = SubSeq(text, i, (e - 1) - 1)
      BY <1>1, <3>1, PartAlone
    <3>3. i - i + 1 = 1 /\ ((e - 1) - 1) - i + 1 = (e - i) - 1
      BY <1>1
    <3>4. QED
      BY <3>2, <3>3
  <2>4. SubSeq(alone, 1 + 1, (e - i) - 1) = SubSeq(text, i + 1, (e - 1) - 1)
    <3>1. i + 1 \in i..e /\ (e - 1) - 1 \in (i - 1)..(e - 1)
      BY <1>1
    <3>2. SubSeq(alone, (i + 1) - i + 1, ((e - 1) - 1) - i + 1) = SubSeq(text, i + 1, (e - 1) - 1)
      BY <1>1, <3>1, PartAlone
    <3>3. (i + 1) - i + 1 = 1 + 1 /\ ((e - 1) - 1) - i + 1 = (e - i) - 1
      BY <1>1
    <3>4. QED
      BY <3>2, <3>3
  <2>5. SubSeq(alone, 1 + 1, e - i) = SubSeq(text, i + 1, e - 1)
    <3>1. i + 1 \in i..e /\ e - 1 \in (i - 1)..(e - 1)
      BY <1>1
    <3>2. SubSeq(alone, (i + 1) - i + 1, (e - 1) - i + 1) = SubSeq(text, i + 1, e - 1)
      BY <1>1, <3>1, PartAlone
    <3>3. (i + 1) - i + 1 = 1 + 1 /\ (e - 1) - i + 1 = e - i
      BY <1>1
    <3>4. QED
      BY <3>2, <3>3
  <2>6. QED
    BY <2>2, <2>3, <2>4, <2>5
<1>4. kind = "int" =>
        /\ NumberText(alone, 1) = NumberText(text, i)
        /\ Base(alone, 1) = Base(text, i)
  BY IntIsNumber, NumberAlone
<1>5. End(alone, 1) - 1 = e - i
  BY <1>1
<1> DEFINE small == {"newline", "comma", "id"}
           quoted == {"string", "char"}
<1>6. Value(alone, 1) =
        CASE kind \in small -> SubSeq(alone, 1, e - i)
          [] kind = "label" -> SubSeq(alone, 1, (e - i) - 1)
          [] kind \in quoted -> SubSeq(alone, 1 + 1, (e - i) - 1)
          [] kind = "int" -> IntValue(NumberText(alone, 1), Base(alone, 1)).value
          [] OTHER -> SubSeq(alone, 1 + 1, e - i)
  BY <1>2, <1>5 DEF Value
<1>7. Value(text, i) =
        CASE kind \in small -> SubSeq(text, i, e - 1)
          [] kind = "label" -> SubSeq(text, i, (e - 1) - 1)
          [] kind \in quoted -> SubSeq(text, i + 1, (e - 1) - 1)
          [] kind = "int" -> IntValue(NumberText(text, i), Base(text, i)).value
          [] OTHER -> SubSeq(text, i + 1, e - 1)
  BY DEF Value
<1>8. /\ kind \in small => kind \notin quoted /\ kind # "label" /\ kind # "int"
      /\ kind = "label" => kind \notin quoted /\ kind # "int"
      /\ kind \in quoted => kind # "int"
  OBVIOUS
<1> HIDE DEF kind, small, quoted
<1>9. CASE kind \in small
  BY <1>3, <1>6, <1>7, <1>8, <1>9
<1>10. CASE kind = "label"
  BY <1>3, <1>6, <1>7, <1>8, <1>10
<1>11. CASE kind \in quoted
  BY <1>3, <1>6, <1>7, <1>8, <1>11
<1>12. CASE kind = "int"
  BY <1>4, <1>6, <1>7, <1>8, <1>12
<1>13. CASE kind \notin small /\ kind # "label" /\ kind \notin quoted /\ kind # "int"
  BY <1>3, <1>6, <1>7, <1>13
<1>14. QED
  BY <1>9, <1>10, <1>11, <1>12, <1>13

LEMMA FlawAlone ==
  ASSUME NEW text \in Seq(STRING), NEW i \in 1..Len(text), text[i] \notin Ignored,
         Flaw(text, i) = "NONE"
  PROVE  Flaw(Alone(text, i, End(text, i)), 1) = "NONE"
<1> DEFINE e == End(text, i)
           alone == Alone(text, i, e)
<1>1. e # 0
  BY DEF Flaw
<1>2. e \in (i + 1)..(Len(text) + 1) /\ End(alone, 1) = e - i + 1
  BY <1>1, EndAlone
<1>3. Kind(alone, 1) = Kind(text, i)
  BY <1>1, KindAlone
<1>4. Kind(text, i) = "int" =>
        /\ NumberText(alone, 1) = NumberText(text, i)
        /\ Base(alone, 1) = Base(text, i)
  BY <1>1, IntIsNumber, NumberAlone
<1>5. End(alone, 1) # 0
  BY <1>2
<1> HIDE DEF alone, e
<1>6. QED
  BY <1>1, <1>3, <1>4, <1>5, Zenon DEF Flaw, e, alone

-----------------------------------------------------------------------------
(* Lists.                                                                  *)
IsList(list) == \E T : list \in Seq(T)

LEMMA AppendToList ==
  ASSUME NEW list, IsList(list), NEW e
  PROVE  /\ IsList(Append(list, e))
         /\ Len(list) \in Nat
         /\ Len(Append(list, e)) = Len(list) + 1
         /\ \A i \in 1..Len(list) : Append(list, e)[i] = list[i]
         /\ Append(list, e)[Len(list) + 1] = e
<1>1. PICK T : list \in Seq(T)
  BY DEF IsList
<1>2. list \in Seq(T \cup {e}) /\ e \in T \cup {e}
  BY <1>1
<1>3. Append(list, e) \in Seq(T \cup {e})
  BY <1>2
<1>4. IsList(Append(list, e))
  BY <1>3, Zenon DEF IsList
<1>5. QED
  BY <1>1, <1>4

-----------------------------------------------------------------------------
(* Lines and columns.                                                      *)
Newlines(a, b) == {k \in a..(b - 1) : Text[k] = "nl"}

LineIs(i, l)   == l = 1 + Cardinality(Newlines(1, i))
ColumnIs(i, c) == c = IF Newlines(1, i) = {} THEN i ELSE i - Max(Newlines(1, i))

LEMMA NewlinesCounted ==
  ASSUME NEW a \in Nat, NEW b \in Nat
  PROVE  /\ IsFiniteSet(Newlines(a, b)) /\ Cardinality(Newlines(a, b)) \in Nat
         /\ Cardinality(Newlines(a, b)) = 0 <=> Newlines(a, b) = {}
         /\ Newlines(a, b) # {} => /\ Max(Newlines(a, b)) \in a..(b - 1)
                                   /\ \A k \in Newlines(a, b) : k <= Max(Newlines(a, b))
<1>1. IsFiniteSet(a..(b - 1))
  BY FS_Interval
<1>2. Newlines(a, b) \subseteq a..(b - 1)
  BY DEF Newlines
<1>3. IsFiniteSet(Newlines(a, b))
  BY <1>1, <1>2, FS_Subset
<1> DEFINE N == Newlines(a, b)
<1>4. ASSUME N # {}
      PROVE  Max(N) \in N /\ \A k \in N : Max(N) >= k
  <2>1. N \subseteq 0..b
    BY <1>2
  <2> HIDE DEF N
  <2>2. QED
    BY <1>4, <2>1, MaxIs
<1>5. N # {} => Max(N) \in a..(b - 1) /\ \A k \in N : k <= Max(N)
  <2>1. \A k \in N : k \in Int
    BY <1>2
  <2> HIDE DEF N
  <2>2. N \subseteq a..(b - 1)
    BY <1>2 DEF N
  <2>3. QED
    BY <1>4, <2>1, <2>2
<1>6. QED
  BY <1>3, <1>5, FS_CardinalityType, FS_EmptySet

LEMMA NewlinesJoin ==
  ASSUME NEW a \in Nat \ {0}, NEW b \in Nat, a <= b
  PROVE  /\ Newlines(1, b) = Newlines(1, a) \cup Newlines(a, b)
         /\ Newlines(1, a) \cap Newlines(a, b) = {}
BY DEF Newlines

LEMMA LineAfter ==
  ASSUME NEW a \in Nat \ {0}, NEW b \in Nat, a <= b, NEW l, LineIs(a, l)
  PROVE  LineIs(b, l + Cardinality(Newlines(a, b)))
<1> DEFINE M == Newlines(1, a)
           N == Newlines(a, b)
<1>1. IsFiniteSet(M) /\ IsFiniteSet(N) /\ Cardinality(M) \in Nat /\ Cardinality(N) \in Nat
  BY NewlinesCounted
<1>2. M \cap N = {}
  BY NewlinesJoin
<1> HIDE DEF M, N
<1>3. Cardinality(M \cup N) = Cardinality(M) + Cardinality(N) - Cardinality(M \cap N)
  BY <1>1, FS_Union
<1>4. Cardinality(M \cup N) = Cardinality(M) + Cardinality(N)
  BY <1>1, <1>2, <1>3, FS_EmptySet
<1>5. Newlines(1, b) = M \cup N
  BY NewlinesJoin DEF M, N
<1>6. l = 1 + Cardinality(M)
  BY DEF LineIs, M
<1>7. l + Cardinality(N) = 1 + Cardinality(M \cup N)
  BY <1>1, <1>4, <1>6
<1>8. QED
  BY <1>5, <1>7, Zenon DEF LineIs, N

LEMMA ColumnAfter ==
  ASSUME NEW a \in Nat \ {0}, NEW b \in Nat, a <= b, NEW c, ColumnIs(a, c)
  PROVE  ColumnIs(b, IF Newlines(a, b) = {} THEN c + (b - a)
                     ELSE b - Max(Newlines(a, b)))
<1> DEFINE M == Newlines(1, a)
           N == Newlines(a, b)
<1>1. Newlines(1, b) = M \cup N
  BY NewlinesJoin
<1>2. /\ M \subseteq 1..(a - 1) /\ N \subseteq a..(b - 1)
      /\ M # {} => Max(M) \in 1..(a - 1)
      /\ N # {} => Max(N) \in a..(b - 1) /\ \A k \in N : k <= Max(N)
  BY NewlinesCounted DEF Newlines
<1>3. c = IF M = {} THEN a ELSE a - Max(M)
  BY DEF ColumnIs
<1>4. CASE N = {}
  <2>1. Newlines(1, b) = M
    BY <1>1, <1>4
  <2> HIDE DEF M, N
  <2>2. c + (b - a) = IF M = {} THEN b ELSE b - Max(M)
    BY <1>2, <1>3
  <2>3. QED
    BY <1>4, <2>1, <2>2 DEF ColumnIs, N
<1>5. CASE N # {}
  <2> DEFINE U == M \cup N
             x == Max(N)
  <2>1. x \in N
    <3> HIDE DEF N
    <3>1. N \subseteq 0..b
      BY <1>2
    <3>2. QED
      BY <1>5, <3>1, MaxIs
  <2>2. /\ x \in a..(b - 1) /\ \A k \in N : k <= x
        /\ M \subseteq 1..(a - 1) /\ N \subseteq a..(b - 1)
    BY <1>2, <1>5
  <2> HIDE DEF M, N, x
  <2>3. x \in U /\ U \subseteq 0..b /\ U # {}
    BY <2>1, <2>2
  <2>4. \A k \in U : k \in Nat /\ x >= k
    BY <2>2
  <2> HIDE DEF U
  <2>5. Max(U) \in U /\ \A k \in U : Max(U) >= k
    BY <2>3, MaxIs
  <2>6. Max(U) = x
    <3>1. Max(U) >= x /\ x >= Max(U) /\ Max(U) \in Nat /\ x \in Nat
      BY <2>3, <2>4, <2>5
    <3>2. QED
      BY <3>1
  <2>7. Newlines(1, b) = U
    BY <1>1 DEF U
  <2>8. QED
    BY <1>5, <2>3, <2>6, <2>7 DEF ColumnIs, N, x
<1>6. QED
  BY <1>4, <1>5

-----------------------------------------------------------------------------
(* The lexer.                                                              *)

(* A token says what is at its place.                                      *)
IsToken(token) ==
  LET b == Begin(token.place)
      e == b + token.place.size
  IN  /\ b \in 1..Len(Text) /\ token.place.size \in Nat \ {0} /\ e <= Len(Text) + 1
      /\ Text[b] \notin Ignored /\ Flaw(Text, b) = "NONE" /\ End(Text, b) = e
      /\ token.kind = Kind(Text, b) /\ token.value = Value(Text, b)

(* A place is counted from the beginning.                                  *)
IsPlaced(place) ==
  /\ Begin(place) \in 1..Len(Text) /\ place.size \in Nat \ {0}
  /\ Begin(place) + place.size <= Len(Text) + 1
  /\ place.line = LineOf(Begin(place)) /\ place.col = ColumnOf(Begin(place))

First1(k) == Begin(lexed[k].place)
Behind(k) == Begin(lexed[k].place) + lexed[k].place.size

TextInv ==
  /\ source \in Sources
  /\ pos \in 1..(Len(Text) + 1) /\ LineIs(pos, line) /\ ColumnIs(pos, col)
  /\ IsList(lexed)
  /\ \A k \in 1..Len(lexed) : IsToken(lexed[k]) /\ IsPlaced(lexed[k].place)
                              /\ Behind(k) <= pos
  /\ \A k, n \in 1..Len(lexed) : k < n => Behind(k) <= First1(n)
  /\ fault = NoFault =>
       \A i \in 1..(pos - 1) :
         Text[i] # "sp" => \E k \in 1..Len(lexed) : First1(k) <= i /\ i < Behind(k)
  /\ fault # NoFault => IsPlaced(fault.place)

LEMMA SourceIs ==
  ASSUME source \in Sources
  PROVE  /\ Text \in Seq(STRING) /\ Len(Text) \in Nat
         /\ source.pos \in Nat /\ source.line \in Nat /\ source.col \in Nat
<1>1. source.text \in Seq(STRING) /\ {source.pos, source.line, source.col} \subseteq Nat
  BY SourcesAssumption
<1>2. QED
  BY <1>1 DEF Text

(* What is skipped, and where the token begins and ends.                   *)
LEMMA NextToken ==
  ASSUME TextInv
  PROVE  /\ Start \in pos..(Len(Text) + 1)
         /\ \A k \in pos..(Start - 1) : Text[k] = "sp"
         /\ Newlines(pos, Start) = {}
         /\ Start <= Len(Text) =>
              /\ Text[Start] \notin Ignored
              /\ Stop \in (Start + 1)..(Len(Text) + 1)
              /\ End(Text, Start) # 0 => Stop = End(Text, Start)
<1> DEFINE n == Len(Text)
           chars == {Text[k] : k \in 1..n} \ Ignored
<1>1. Text \in Seq(STRING) /\ n \in Nat
  BY SourceIs DEF TextInv
<1>2. pos \in 1..(n + 1) /\ pos \in Nat \ {0}
  BY DEF TextInv
<1>3. Start = First(Text, pos, chars)
  BY DEF Start
<1> HIDE DEF chars
<1>4. /\ Start \in 1..(n + 1) /\ pos <= Start
      /\ Start <= n => Text[Start] \in chars
      /\ \A k \in pos..n : k < Start => Text[k] \notin chars
  BY <1>1, <1>2, <1>3, FirstIs
<1>5. \A k \in pos..(Start - 1) : Text[k] = "sp"
  <2> SUFFICES ASSUME NEW k \in pos..(Start - 1)
               PROVE  Text[k] = "sp"
    OBVIOUS
  <2>1. k \in pos..n /\ k < Start /\ k \in 1..n
    BY <1>1, <1>2, <1>4
  <2>2. Text[k] \notin chars
    BY <1>4, <2>1
  <2>3. QED
    BY <2>1, <2>2 DEF chars, Ignored
<1>6. Newlines(pos, Start) = {}
  BY <1>5 DEF Newlines
<1>7. ASSUME Start <= n
      PROVE  /\ Text[Start] \notin Ignored
             /\ Stop \in (Start + 1)..(n + 1)
             /\ End(Text, Start) # 0 => Stop = End(Text, Start)
  <2>1. Start \in 1..n /\ Text[Start] \notin Ignored
    BY <1>4, <1>7 DEF chars
  <2>2. End(Text, Start) = 0 \/ End(Text, Start) \in (Start + 1)..(n + 1)
    BY <1>1, <2>1, EndIs
  <2>3. n + 1 \in (Start + 1)..(n + 1)
    BY <1>1, <2>1
  <2>4. QED
    BY <2>1, <2>2, <2>3 DEF Stop
<1>8. QED
  BY <1>1, <1>2, <1>4, <1>5, <1>6, <1>7

LEMMA PlaceIsTrue ==
  ASSUME TextInv, Lexing
  PROVE  /\ IsPlaced(Place)
         /\ Begin(Place) = Start /\ Place.size = Stop - Start
         /\ Begin(Place) + Place.size = Stop
<1> DEFINE n == Len(Text)
<1>1. /\ Text \in Seq(STRING) /\ n \in Nat
      /\ source.pos \in Nat /\ source.line \in Nat /\ source.col \in Nat
  BY SourceIs DEF TextInv
<1>2. /\ pos \in 1..(n + 1) /\ Start \in pos..(n + 1) /\ Start <= n
      /\ Stop \in (Start + 1)..(n + 1) /\ Newlines(pos, Start) = {}
  BY NextToken DEF TextInv, Lexing
<1>3. /\ Place.pos = source.pos + Start - 1 /\ Place.line = source.line + line - 1
      /\ Place.col = Column /\ Place.size = Stop - Start
  BY DEF Place
<1>4. Begin(Place) = Start
  BY <1>1, <1>2, <1>3 DEF Begin
<1>a. /\ pos \in Nat \ {0} /\ pos \in Nat /\ Start \in Nat /\ pos <= Start /\ 1 \in Nat
      /\ LineIs(pos, line) /\ ColumnIs(pos, col)
  BY <1>1, <1>2 DEF TextInv
<1>5. LineIs(Start, line)
  <2>1. LineIs(Start, line + Cardinality(Newlines(pos, Start)))
    BY <1>a, LineAfter
  <2>2. line \in Nat
    <3>1. Cardinality(Newlines(1, pos)) \in Nat
      BY <1>a, NewlinesCounted
    <3>2. QED
      BY <1>a, <3>1 DEF LineIs
  <2>3. line + Cardinality(Newlines(pos, Start)) = line
    BY <1>2, <2>2, FS_EmptySet
  <2>4. QED
    BY <2>1, <2>3
<1>6. ColumnIs(Start, col + (Start - pos))
  <2>1. ColumnIs(Start, IF Newlines(pos, Start) = {} THEN col + (Start - pos)
                        ELSE Start - Max(Newlines(pos, Start)))
    BY <1>a, ColumnAfter
  <2>2. QED
    BY <1>2, <2>1
<1> DEFINE N == Newlines(1, Start)
<1>7. N = {k \in 1..(Start - 1) : Text[k] = "nl"}
  BY DEF Newlines
<1>8. Cardinality(N) \in Nat /\ (Cardinality(N) = 0 <=> N = {})
  BY <1>a, NewlinesCounted
<1>9. Place.line = LineOf(Start)
  <2>1. LineOf(Start) = source.line + Cardinality(N)
    BY <1>7 DEF LineOf
  <2>2. line = 1 + Cardinality(N)
    BY <1>5 DEF LineIs
  <2> HIDE DEF N
  <2>3. QED
    BY <1>1, <1>3, <1>8, <2>1, <2>2
<1>10. Place.col = ColumnOf(Start)
  <2>1. ColumnOf(Start) = IF N = {} THEN source.col + Start - 1 ELSE Start - Max(N)
    BY <1>7 DEF ColumnOf
  <2>2. col + (Start - pos) = IF N = {} THEN Start ELSE Start - Max(N)
    BY <1>6 DEF ColumnIs
  <2>3. line = 1 <=> N = {}
    <3>1. line = 1 + Cardinality(N)
      BY <1>5 DEF LineIs
    <3> HIDE DEF N
    <3>2. QED
      BY <1>8, <3>1
  <2>4. Column = IF line = 1 THEN source.col + (col + (Start - pos)) - 1
                 ELSE col + (Start - pos)
    BY DEF Column
  <2> HIDE DEF N
  <2>5. QED
    BY <1>3, <2>1, <2>2, <2>3, <2>4
<1>11. QED
  BY <1>1, <1>2, <1>3, <1>4, <1>9, <1>10 DEF IsPlaced

LEMMA SameText ==
  ASSUME source' = source
  PROVE  /\ Text' = Text
         /\ \A p : Begin(p)' = Begin(p)
         /\ \A a, b : Newlines(a, b)' = Newlines(a, b)
         /\ \A t : IsToken(t)' <=> IsToken(t)
         /\ \A p : IsPlaced(p)' <=> IsPlaced(p)
<1>1. Text' = Text
  BY DEF Text
<1>2. \A p : Begin(p)' = Begin(p)
  BY DEF Begin
<1>3. \A a, b : Newlines(a, b)' = Newlines(a, b)
  BY <1>1 DEF Newlines
<1>4. \A t : IsToken(t)' <=> IsToken(t)
  BY <1>1, <1>2 DEF IsToken
<1>5. \A i : LineOf(i)' = LineOf(i) /\ ColumnOf(i)' = ColumnOf(i)
  BY <1>1 DEF LineOf, ColumnOf
<1>6. \A p : IsPlaced(p)' <=> IsPlaced(p)
  <2> SUFFICES ASSUME NEW p PROVE IsPlaced(p)' <=> IsPlaced(p)
    OBVIOUS
  <2>1. /\ LineOf(Begin(p))' = LineOf(Begin(p)) /\ ColumnOf(Begin(p))' = ColumnOf(Begin(p))
    BY <1>1, <1>2 DEF LineOf, ColumnOf
  <2>2. QED
    BY <1>1, <1>2, <2>1 DEF IsPlaced
<1>7. QED
  BY <1>1, <1>2, <1>3, <1>4, <1>6

LEMMA Advanced ==
  ASSUME TextInv, Lexing, Advance, source' = source
  PROVE  /\ pos' = Stop /\ pos' \in (pos + 1)..(Len(Text) + 1)
         /\ LineIs(pos, line)' /\ ColumnIs(pos, col)'
<1>1. /\ pos \in 1..(Len(Text) + 1) /\ LineIs(pos, line) /\ ColumnIs(pos, col)
      /\ Len(Text) \in Nat
  BY SourceIs DEF TextInv
<1>2. Start \in pos..(Len(Text) + 1) /\ Start <= Len(Text)
      /\ Stop \in (Start + 1)..(Len(Text) + 1)
  BY NextToken DEF Lexing
<1>3. pos \in Nat \ {0} /\ Stop \in Nat /\ pos <= Stop
      /\ Stop \in (pos + 1)..(Len(Text) + 1)
  BY <1>1, <1>2
<1> DEFINE N == Newlines(pos, Stop)
<1>4. /\ pos' = Stop /\ line' = line + Cardinality(N)
      /\ col' = IF N = {} THEN col + (Stop - pos) ELSE Stop - Max(N)
  BY DEF Advance, Newlines
<1>5. LineIs(Stop, line') /\ ColumnIs(Stop, col')
  BY <1>1, <1>3, <1>4, LineAfter, ColumnAfter
<1>6. Newlines(1, pos)' = Newlines(1, Stop)
  BY <1>4, SameText DEF Newlines
<1>7. QED
  BY <1>3, <1>4, <1>5, <1>6 DEF LineIs, ColumnIs

LEMMA ReadTokenKeeps ==
  ASSUME TextInv, ReadToken
  PROVE  TextInv'
<1> DEFINE token == [kind |-> Kind(Text, Start), value |-> Value(Text, Start),
                     place |-> Place]
<1>0. PICK n \in Nat : n = Len(lexed)
  BY AppendToList DEF TextInv
<1>1. /\ Lexing /\ Flaw(Text, Start) = "NONE" /\ lexed' = Append(lexed, token)
      /\ Advance /\ source' = source /\ fault' = fault /\ fault = NoFault
  BY DEF ReadToken, Lexing
<1>2. /\ Text' = Text
      /\ \A t : IsToken(t)' <=> IsToken(t)
      /\ \A p : IsPlaced(p)' <=> IsPlaced(p)
      /\ \A p : Begin(p)' = Begin(p)
  BY <1>1, SameText
<1>3. /\ pos' = Stop /\ pos' \in (pos + 1)..(Len(Text) + 1)
      /\ LineIs(pos, line)' /\ ColumnIs(pos, col)'
  BY <1>1, Advanced
<1>4. /\ IsPlaced(Place) /\ Begin(Place) = Start /\ Place.size = Stop - Start
      /\ Begin(Place) + Place.size = Stop
  BY <1>1, PlaceIsTrue
<1>5. /\ IsList(Append(lexed, token)) /\ n \in Nat
      /\ Len(lexed') = n + 1 /\ \A k \in 1..n : lexed'[k] = lexed[k]
      /\ lexed'[n + 1] = token
  BY <1>0, <1>1, AppendToList DEF TextInv
<1>6. /\ token.kind = Kind(Text, Start) /\ token.value = Value(Text, Start)
      /\ token.place = Place
  OBVIOUS
<1>7. /\ Start \in pos..(Len(Text) + 1) /\ Start <= Len(Text)
      /\ \A k \in pos..(Start - 1) : Text[k] = "sp"
      /\ Text[Start] \notin Ignored /\ Stop \in (Start + 1)..(Len(Text) + 1)
      /\ End(Text, Start) = Stop
  <2>1. Start <= Len(Text) /\ End(Text, Start) # 0
    BY <1>1 DEF Lexing, Flaw
  <2>2. QED
    BY <2>1, NextToken
<1> HIDE DEF token
<1>8. pos \in 1..(Len(Text) + 1) /\ Len(Text) \in Nat
  BY SourceIs DEF TextInv
<1>9. IsToken(token)
  <2>1. Begin(token.place) = Start /\ token.place.size = Stop - Start
        /\ Begin(token.place) + token.place.size = Stop
    BY <1>4, <1>6
  <2>2. Start \in 1..Len(Text) /\ Stop - Start \in Nat \ {0} /\ Stop <= Len(Text) + 1
    BY <1>7, <1>8
  <2>3. QED
    BY <1>1, <1>6, <1>7, <2>1, <2>2 DEF IsToken
<1>10. /\ \A k \in 1..n : First1(k)' = First1(k) /\ Behind(k)' = Behind(k)
       /\ First1(n + 1)' = Start /\ Behind(n + 1)' = Stop
  <2>1. \A k \in 1..n : First1(k)' = First1(k) /\ Behind(k)' = Behind(k)
    BY <1>2, <1>5 DEF First1, Behind
  <2>2. First1(n + 1)' = Start /\ Behind(n + 1)' = Stop
    BY <1>2, <1>4, <1>5, <1>6 DEF First1, Behind
  <2>3. QED
    BY <2>1, <2>2
<1>11. \A k \in 1..n : Behind(k) <= pos /\ Behind(k) \in Nat /\ First1(k) \in Nat
  BY <1>0 DEF TextInv, IsToken, Behind, First1
<1>12. \A k \in 1..Len(lexed') : k \in 1..n \/ k = n + 1
  BY <1>5
<1>13. \A k \in 1..Len(lexed') : /\ (IsToken(lexed[k]) /\ IsPlaced(lexed[k].place))'
                                 /\ Behind(k)' <= pos'
  <2> SUFFICES ASSUME NEW k \in 1..Len(lexed')
               PROVE  /\ (IsToken(lexed[k]) /\ IsPlaced(lexed[k].place))'
                      /\ Behind(k)' <= pos'
    OBVIOUS
  <2>1. CASE k \in 1..n
    <3>1. IsToken(lexed[k]) /\ IsPlaced(lexed[k].place)
      BY <1>0, <2>1 DEF TextInv
    <3>2. Behind(k)' <= pos'
      BY <1>3, <1>8, <1>10, <1>11, <2>1
    <3>3. QED
      BY <1>2, <1>5, <2>1, <3>1, <3>2
  <2>2. CASE k = n + 1
    <3>1. Stop <= Stop
      BY <1>7, <1>8
    <3>2. QED
      BY <1>2, <1>3, <1>4, <1>5, <1>6, <1>9, <1>10, <2>2, <3>1
  <2>3. QED
    BY <1>12, <2>1, <2>2
<1>14. \A k, m \in 1..Len(lexed') : k < m => Behind(k)' <= First1(m)'
  <2> SUFFICES ASSUME NEW k \in 1..Len(lexed'), NEW m \in 1..Len(lexed'), k < m
               PROVE  Behind(k)' <= First1(m)'
    OBVIOUS
  <2>1. k \in 1..n
    BY <1>5
  <2>2. CASE m \in 1..n
    <3>1. Behind(k) <= First1(m)
      BY <1>0, <2>1, <2>2 DEF TextInv
    <3>2. QED
      BY <1>10, <2>1, <2>2, <3>1
  <2>3. CASE m = n + 1
    BY <1>7, <1>8, <1>10, <1>11, <2>1, <2>3
  <2>4. QED
    BY <1>12, <2>2, <2>3
<1>15. ASSUME NEW i \in 1..(pos' - 1), Text'[i] # "sp"
       PROVE  \E k \in 1..Len(lexed') : First1(k)' <= i /\ i < Behind(k)'
  <2>1. Text[i] # "sp"
    BY <1>2, <1>15
  <2>2. CASE i < pos
    <3>1. i \in 1..(pos - 1)
      BY <1>8, <2>2
    <3>2. PICK k \in 1..n : First1(k) <= i /\ i < Behind(k)
      BY <1>0, <1>1, <2>1, <3>1 DEF TextInv
    <3>3. k \in 1..Len(lexed')
      BY <1>5
    <3>4. QED
      BY <1>10, <3>2, <3>3
  <2>3. CASE ~(i < pos)
    <3>1. i \notin pos..(Start - 1)
      BY <1>7, <2>1
    <3>2. Start <= i /\ i < Stop
      BY <1>3, <1>7, <1>8, <2>3, <3>1
    <3>3. n + 1 \in 1..Len(lexed')
      BY <1>5
    <3>4. QED
      BY <1>10, <3>2, <3>3
  <2>4. QED
    BY <2>2, <2>3
<1>16. source' \in Sources
  BY <1>1 DEF TextInv
<1>17. pos' \in 1..(Len(Text') + 1)
  BY <1>2, <1>3, <1>8
<1>18. IsList(lexed')
  BY <1>1, <1>5
<1>19. QED
  BY <1>1, <1>3, <1>13, <1>14, <1>15, <1>16, <1>17, <1>18 DEF TextInv

LEMMA RejectTokenKeeps ==
  ASSUME TextInv, RejectToken
  PROVE  TextInv'
<1>1. /\ Lexing /\ Advance /\ source' = source /\ lexed' = lexed /\ fault = NoFault
      /\ fault'.code # "NONE" /\ fault'.place = Place
  BY DEF RejectToken, Lexing
<1>2. /\ Text' = Text
      /\ \A t : IsToken(t)' <=> IsToken(t)
      /\ \A p : IsPlaced(p)' <=> IsPlaced(p)
      /\ \A p : Begin(p)' = Begin(p)
  BY <1>1, SameText
<1>3. /\ pos' = Stop /\ pos' \in (pos + 1)..(Len(Text) + 1)
      /\ LineIs(pos, line)' /\ ColumnIs(pos, col)'
  BY <1>1, Advanced
<1>4. pos \in 1..(Len(Text) + 1) /\ Len(Text) \in Nat
  BY SourceIs DEF TextInv
<1>5. fault' # NoFault
  BY <1>1 DEF NoFault
<1>6. IsPlaced(fault.place)'
  BY <1>1, <1>2, PlaceIsTrue
<1>7. \A k : First1(k)' = First1(k) /\ Behind(k)' = Behind(k)
  BY <1>1, <1>2 DEF First1, Behind
<1>8. \A k \in 1..Len(lexed) : Behind(k) <= pos /\ Behind(k) \in Nat
  BY DEF TextInv, IsToken, Behind
<1>9. \A k \in 1..Len(lexed') : /\ (IsToken(lexed[k]) /\ IsPlaced(lexed[k].place))'
                                /\ Behind(k)' <= pos'
  <2> SUFFICES ASSUME NEW k \in 1..Len(lexed')
               PROVE  /\ (IsToken(lexed[k]) /\ IsPlaced(lexed[k].place))'
                      /\ Behind(k)' <= pos'
    OBVIOUS
  <2>1. k \in 1..Len(lexed) /\ IsToken(lexed[k]) /\ IsPlaced(lexed[k].place)
    BY <1>1 DEF TextInv
  <2>2. Behind(k)' <= pos'
    BY <1>3, <1>4, <1>7, <1>8, <2>1
  <2>3. QED
    BY <1>1, <1>2, <2>1, <2>2
<1>10. \A k, m \in 1..Len(lexed') : k < m => Behind(k)' <= First1(m)'
  BY <1>1, <1>7 DEF TextInv
<1>11. source' \in Sources /\ IsList(lexed')
  BY <1>1 DEF TextInv
<1>12. pos' \in 1..(Len(Text') + 1)
  BY <1>2, <1>3, <1>4
<1>13. QED
  BY <1>3, <1>5, <1>6, <1>9, <1>10, <1>11, <1>12 DEF TextInv

LEMMA ReadEndKeeps ==
  ASSUME TextInv, ReadEnd
  PROVE  TextInv'
<1>1. /\ fault = NoFault /\ fault' = fault /\ pos <= Len(Text) /\ Start > Len(Text)
      /\ pos' = Start /\ col' = col + (Start - pos) /\ line' = line
      /\ source' = source /\ lexed' = lexed
  BY DEF ReadEnd
<1>2. /\ Text' = Text
      /\ \A t : IsToken(t)' <=> IsToken(t)
      /\ \A p : IsPlaced(p)' <=> IsPlaced(p)
      /\ \A p : Begin(p)' = Begin(p)
      /\ \A a, b : Newlines(a, b)' = Newlines(a, b)
  BY <1>1, SameText
<1>3. pos \in 1..(Len(Text) + 1) /\ Len(Text) \in Nat
      /\ LineIs(pos, line) /\ ColumnIs(pos, col)
  BY SourceIs DEF TextInv
<1>4. Start \in pos..(Len(Text) + 1) /\ Newlines(pos, Start) = {}
      /\ \A k \in pos..(Start - 1) : Text[k] = "sp"
  BY NextToken
<1>5. pos \in Nat \ {0} /\ Start \in Nat /\ pos <= Start /\ pos \in Nat
  BY <1>3, <1>4
<1>6. LineIs(Start, line)
  <2>1. LineIs(Start, line + Cardinality(Newlines(pos, Start)))
    BY <1>3, <1>5, LineAfter
  <2>2. line \in Nat
    <3>1. Cardinality(Newlines(1, pos)) \in Nat
      BY <1>5, NewlinesCounted
    <3>2. QED
      BY <1>3, <3>1 DEF LineIs
  <2>3. line + Cardinality(Newlines(pos, Start)) = line
    BY <1>4, <2>2, FS_EmptySet
  <2>4. QED
    BY <2>1, <2>3
<1>7. ColumnIs(Start, col')
  <2>1. ColumnIs(Start, IF Newlines(pos, Start) = {} THEN col + (Start - pos)
                        ELSE Start - Max(Newlines(pos, Start)))
    BY <1>3, <1>5, ColumnAfter
  <2>2. QED
    BY <1>1, <1>4, <2>1
<1>8. LineIs(pos, line)' /\ ColumnIs(pos, col)'
  <2>1. Newlines(1, pos)' = Newlines(1, Start)
    BY <1>1, <1>2 DEF Newlines
  <2>2. QED
    BY <1>1, <1>6, <1>7, <2>1 DEF LineIs, ColumnIs
<1>9. \A k : First1(k)' = First1(k) /\ Behind(k)' = Behind(k)
  BY <1>1, <1>2 DEF First1, Behind
<1>10. \A k \in 1..Len(lexed) : Behind(k) <= pos /\ Behind(k) \in Nat
  BY DEF TextInv, IsToken, Behind
<1>11. \A k \in 1..Len(lexed') : /\ (IsToken(lexed[k]) /\ IsPlaced(lexed[k].place))'
                                 /\ Behind(k)' <= pos'
  <2> SUFFICES ASSUME NEW k \in 1..Len(lexed')
               PROVE  /\ (IsToken(lexed[k]) /\ IsPlaced(lexed[k].place))'
                      /\ Behind(k)' <= pos'
    OBVIOUS
  <2>1. k \in 1..Len(lexed) /\ IsToken(lexed[k]) /\ IsPlaced(lexed[k].place)
    BY <1>1 DEF TextInv
  <2>2. Behind(k)' <= pos'
    BY <1>1, <1>5, <1>9, <1>10, <2>1
  <2>3. QED
    BY <1>1, <1>2, <2>1, <2>2
<1>12. \A k, m \in 1..Len(lexed') : k < m => Behind(k)' <= First1(m)'
  BY <1>1, <1>9 DEF TextInv
<1>13. source' \in Sources /\ IsList(lexed')
  BY <1>1 DEF TextInv
<1>14. pos' \in 1..(Len(Text') + 1)
  BY <1>1, <1>2, <1>3, <1>4
<1>15. ASSUME NEW i \in 1..(pos' - 1), Text'[i] # "sp"
       PROVE  \E k \in 1..Len(lexed') : First1(k)' <= i /\ i < Behind(k)'
  <2>1. i \in 1..(pos - 1) /\ Text[i] # "sp"
    BY <1>1, <1>2, <1>3, <1>4, <1>15
  <2>2. PICK k \in 1..Len(lexed) : First1(k) <= i /\ i < Behind(k)
    BY <1>1, <2>1 DEF TextInv
  <2>3. QED
    BY <1>1, <1>9, <2>2
<1>16. QED
  BY <1>1, <1>8, <1>11, <1>12, <1>13, <1>14, <1>15 DEF TextInv

LEMMA TextBegins ==
  ASSUME LexerInit
  PROVE  TextInv
<1>1. /\ source \in Sources /\ pos = 1 /\ line = 1 /\ col = 1 /\ lexed = << >>
      /\ fault = NoFault
  BY DEF LexerInit
<1>2. Len(Text) \in Nat
  BY <1>1, SourceIs
<1>3. Newlines(1, 1) = {}
  BY DEF Newlines
<1>4. LineIs(1, 1) /\ ColumnIs(1, 1)
  BY <1>3, FS_EmptySet DEF LineIs, ColumnIs
<1>5. IsList(lexed) /\ Len(lexed) = 0
  BY <1>1 DEF IsList
<1>6. QED
  BY <1>1, <1>2, <1>4, <1>5 DEF TextInv

LEMMA TextGoesOn ==
  ASSUME TextInv, [LexerNext]_lexerVars
  PROVE  TextInv'
<1>1. CASE LexerNext
  BY <1>1, ReadTokenKeeps, RejectTokenKeeps, ReadEndKeeps DEF LexerNext
<1>2. CASE UNCHANGED lexerVars
  <2>1. /\ source' = source /\ pos' = pos /\ line' = line /\ col' = col
        /\ lexed' = lexed /\ fault' = fault
    BY <1>2 DEF lexerVars
  <2>2. /\ Text' = Text
        /\ \A t : IsToken(t)' <=> IsToken(t)
        /\ \A p : IsPlaced(p)' <=> IsPlaced(p)
        /\ \A p : Begin(p)' = Begin(p)
        /\ \A a, b : Newlines(a, b)' = Newlines(a, b)
    BY <2>1, SameText
  <2>3. \A k : First1(k)' = First1(k) /\ Behind(k)' = Behind(k)
    BY <2>1, <2>2 DEF First1, Behind
  <2>4. LineIs(pos, line)' /\ ColumnIs(pos, col)'
    BY <2>1, <2>2 DEF TextInv, LineIs, ColumnIs
  <2>5. \A k \in 1..Len(lexed) : /\ (IsToken(lexed[k]) /\ IsPlaced(lexed[k].place))'
                                 /\ Behind(k)' <= pos'
    BY <2>1, <2>2, <2>3 DEF TextInv
  <2>6. fault' # NoFault => IsPlaced(fault.place)'
    BY <2>1, <2>2 DEF TextInv
  <2>7. \A k, m \in 1..Len(lexed) : k < m => Behind(k)' <= First1(m)'
    BY <2>1, <2>3 DEF TextInv
  <2>8. fault' = NoFault =>
          \A i \in 1..(pos' - 1) :
            Text'[i] # "sp" => \E k \in 1..Len(lexed') : First1(k)' <= i /\ i < Behind(k)'
    BY <2>1, <2>2, <2>3 DEF TextInv
  <2>9. source' \in Sources /\ pos' \in 1..(Len(Text') + 1) /\ IsList(lexed')
    BY <2>1, <2>2 DEF TextInv
  <2>10. QED
    BY <2>1, <2>4, <2>5, <2>6, <2>7, <2>8, <2>9 DEF TextInv
<1>3. QED
  BY <1>1, <1>2

LEMMA TextFollows ==
  ASSUME TextInv
  PROVE  TokensAreTheText /\ PlacesAreTrue
<1>1. Text \in Seq(STRING) /\ Len(Text) \in Nat /\ pos \in 1..(Len(Text) + 1)
  BY SourceIs DEF TextInv
<1>2. /\ DOMAIN Places = 1..Len(lexed) /\ DOMAIN lexed = 1..Len(lexed)
      /\ \A k \in 1..Len(lexed) : Places[k] = lexed[k].place
  <2>1. DOMAIN lexed = 1..Len(lexed)
    BY DEF TextInv, IsList
  <2>2. QED
    BY <2>1 DEF Places
<1>3. ASSUME NEW k \in 1..Len(lexed)
      PROVE  /\ First1(k) \in 1..Len(Text) /\ Behind(k) \in (First1(k) + 1)..pos
             /\ Covered(Places[k]) = First1(k)..(Behind(k) - 1)
             /\ Begin(Places[k]) = First1(k)
  <2>1. IsToken(lexed[k]) /\ Behind(k) <= pos
    BY DEF TextInv
  <2>2. First1(k) \in 1..Len(Text) /\ Behind(k) \in (First1(k) + 1)..pos
    BY <1>1, <2>1 DEF IsToken, First1, Behind
  <2> DEFINE place == lexed[k].place
             b == Begin(place)
  <2>3. b \in Nat /\ place.size \in Nat
    BY <2>1 DEF IsToken
  <2> HIDE DEF b, place
  <2>4. b + place.size - 1 = (b + place.size) - 1
    BY <2>3
  <2>5. Covered(place) = b..((b + place.size) - 1)
    BY <2>4 DEF Covered, b
  <2>6. First1(k) = b /\ Behind(k) = b + place.size /\ Places[k] = place
    BY <1>2 DEF First1, Behind, b, place
  <2>7. QED
    BY <2>2, <2>5, <2>6 DEF b
<1>4. SourceIsCovered
  <2>1. ASSUME NEW k \in DOMAIN Places
        PROVE  Covered(Places[k]) \in (SUBSET (1..(pos - 1))) \ {{}}
    <3>1. /\ First1(k) \in 1..Len(Text) /\ Behind(k) \in (First1(k) + 1)..pos
          /\ Covered(Places[k]) = First1(k)..(Behind(k) - 1)
      BY <1>2, <1>3
    <3>2. First1(k)..(Behind(k) - 1) \subseteq 1..(pos - 1)
      BY <1>1, <3>1
    <3>3. First1(k) \in First1(k)..(Behind(k) - 1)
      BY <3>1
    <3>4. QED
      BY <3>1, <3>2, <3>3
  <2>2. ASSUME NEW k \in DOMAIN Places, NEW n \in DOMAIN Places, k < n
        PROVE  Max(Covered(Places[k])) < Begin(Places[n])
    <3>1. /\ First1(k) \in 1..Len(Text) /\ Behind(k) \in (First1(k) + 1)..pos
          /\ Covered(Places[k]) = First1(k)..(Behind(k) - 1)
          /\ Begin(Places[n]) = First1(n) /\ First1(n) \in 1..Len(Text)
      BY <1>2, <1>3
    <3>2. Max(First1(k)..(Behind(k) - 1)) = Behind(k) - 1
      <4>1. First1(k) \in Nat /\ Behind(k) - 1 \in Nat /\ First1(k) <= Behind(k) - 1
        BY <3>1
      <4>2. QED
        BY <4>1, MaxOfInterval
    <3>3. Behind(k) <= First1(n)
      BY <1>2, <2>2 DEF TextInv
    <3>4. QED
      BY <3>1, <3>2, <3>3
  <2>3. ASSUME fault = NoFault, NEW i \in 1..(pos - 1), Text[i] # "sp"
        PROVE  \E k \in DOMAIN Places : i \in Covered(Places[k])
    <3>1. PICK k \in 1..Len(lexed) : First1(k) <= i /\ i < Behind(k)
      BY <2>3 DEF TextInv
    <3>2. /\ First1(k) \in 1..Len(Text) /\ Behind(k) \in (First1(k) + 1)..pos
          /\ Covered(Places[k]) = First1(k)..(Behind(k) - 1)
      BY <1>3
    <3>3. i \in First1(k)..(Behind(k) - 1)
      BY <3>1, <3>2
    <3>4. QED
      BY <1>2, <3>2, <3>3
  <2>4. QED
    BY <2>1, <2>2, <2>3 DEF SourceIsCovered
<1>5. ReadAlone
  <2> SUFFICES ASSUME NEW k \in DOMAIN lexed
               PROVE  LET place == lexed[k].place
                          alone == SubSeq(Text, Begin(place), Begin(place) + place.size - 1)
                      IN  /\ Flaw(alone, 1) = "NONE"
                          /\ End(alone, 1) = Len(alone) + 1
                          /\ Kind(alone, 1) = lexed[k].kind
                          /\ Value(alone, 1) = lexed[k].value
    BY DEF ReadAlone
  <2> DEFINE b == Begin(lexed[k].place)
             e == b + lexed[k].place.size
             alone == Alone(Text, b, e)
  <2>1. IsToken(lexed[k])
    BY <1>2 DEF TextInv
  <2>2. /\ b \in 1..Len(Text) /\ Text[b] \notin Ignored /\ Flaw(Text, b) = "NONE"
        /\ End(Text, b) = e /\ lexed[k].kind = Kind(Text, b)
        /\ lexed[k].value = Value(Text, b) /\ e # 0
    BY <2>1 DEF IsToken
  <2> HIDE DEF b, e
  <2>3. Len(alone) = e - b /\ End(alone, 1) = e - b + 1
    BY <1>1, <2>2, EndAlone
  <2>4. Flaw(alone, 1) = "NONE"
    BY <1>1, <2>2, FlawAlone
  <2>5. Kind(alone, 1) = Kind(Text, b) /\ Value(alone, 1) = Value(Text, b)
    BY <1>1, <2>2, KindAlone, ValueAlone
  <2>6. alone = SubSeq(Text, b, b + lexed[k].place.size - 1)
    <3>1. e = b + lexed[k].place.size
      BY DEF e, b
    <3>2. b \in Nat /\ lexed[k].place.size \in Nat
      BY <2>1, <2>2 DEF IsToken
    <3>3. e - 1 = b + lexed[k].place.size - 1
      BY <3>1, <3>2
    <3>4. alone = SubSeq(Text, b, e - 1)
      BY DEF Alone
    <3>5. QED
      BY <3>3, <3>4
  <2> HIDE DEF alone
  <2>7. QED
    BY <2>2, <2>3, <2>4, <2>5, <2>6 DEF b
<1>6. PlacesAreTrue
  <2> SUFFICES ASSUME NEW place, IsPlaced(place)
               PROVE  /\ place.size > 0 /\ Begin(place) + place.size - 1 <= Len(Text)
                      /\ place.line = LineOf(Begin(place))
                      /\ place.col = ColumnOf(Begin(place))
    BY <1>2 DEF PlacesAreTrue, TextInv
  <2>1. /\ Begin(place) \in 1..Len(Text) /\ place.size \in Nat \ {0}
        /\ Begin(place) + place.size <= Len(Text) + 1
    BY DEF IsPlaced
  <2>2. place.size > 0 /\ Begin(place) + place.size - 1 <= Len(Text)
    BY <1>1, <2>1
  <2>3. QED
    BY <2>2 DEF IsPlaced
<1>7. QED
  BY <1>4, <1>5, <1>6 DEF TokensAreTheText

-----------------------------------------------------------------------------
(* What happens behind the lexer leaves its state alone.                   *)
LEMMA ReaderKeepsTheText == TextInv /\ [Next]_vars => TextInv'
<1>1. Next => [LexerNext]_lexerVars
  BY DEF Next, Lex, HandOver, Parse, lexerVars
<1>2. UNCHANGED vars => UNCHANGED lexerVars
  BY DEF vars
<1>3. TextInv /\ [LexerNext]_lexerVars => TextInv'
  BY TextGoesOn
<1> QED
  BY <1>1, <1>2, <1>3

LEMMA TextInvAlways == Spec => []TextInv
<1>1. Init => TextInv
  BY TextBegins DEF Init
<1> QED
  BY <1>1, ReaderKeepsTheText, PTL DEF Spec

(* The tokens of an accepted text, spaces and comments between them, are   *)
(* the text: none is lost, cut short or read twice, and each has the kind  *)
(* and the value its characters have alone.                                *)
(* Code: lexer_tokenize of Lexer.c.                                        *)
THEOREM TokensAreTheTextAlways == Spec => []TokensAreTheText
<1>1. TextInv => TokensAreTheText
  BY TextFollows
<1> QED
  BY TextInvAlways, <1>1, PTL

(* The line and the column of a token, and of a diagnostic, are those that *)
(* counting the newlines in front of it gives.                             *)
(* Code: the line and column counters of advance in Lexer.c.               *)
THEOREM PlacesAreTrueAlways == Spec => []PlacesAreTrue
<1>1. TextInv => PlacesAreTrue
  BY TextFollows
<1> QED
  BY TextInvAlways, <1>1, PTL

-----------------------------------------------------------------------------
(* The tokens of a list but for some kinds: Without is the recursive       *)
(* function that its definition describes.                                 *)
WithoutStep(list, kinds, a, f, i) ==
  IF i < a THEN << >>
  ELSE IF list[i].kind \in kinds THEN f[i - 1]
  ELSE Append(f[i - 1], i)

IsWithout(list, kinds, a, b, f) ==
  f = [i \in (a - 1)..b |-> WithoutStep(list, kinds, a, f, i)]

LEMMA WithoutExists ==
  ASSUME NEW list, NEW kinds, NEW a \in Nat \ {0}, NEW b \in Nat, a <= b + 1
  PROVE  \E f : IsWithout(list, kinds, a, b, f)
<1> DEFINE P(d) == \E f : f = [i \in (a - 1)..(a - 1 + d) |-> WithoutStep(list, kinds, a, f, i)]
           S == {d \in 0..(b + 1 - a) : P(d)}
<1>1. 0 \in S
  <2> DEFINE f == [i \in (a - 1)..(a - 1 + 0) |-> << >>]
  <2>1. \A i \in (a - 1)..(a - 1 + 0) : WithoutStep(list, kinds, a, f, i) = << >>
    BY DEF WithoutStep
  <2>2. f = [i \in (a - 1)..(a - 1 + 0) |-> WithoutStep(list, kinds, a, f, i)]
    BY <2>1
  <2> HIDE DEF f
  <2>3. P(0)
    BY <2>2
  <2> HIDE DEF P
  <2>4. QED
    BY <2>3
<1>2. ASSUME NEW d \in 1..(b + 1 - a), d - 1 \in S
      PROVE  d \in S
  <2> DEFINE m == a - 1 + d
  <2>1. m \in Int /\ m >= a /\ a - 1 + (d - 1) = m - 1
    OBVIOUS
  <2>2. PICK f : f = [i \in (a - 1)..(a - 1 + (d - 1)) |-> WithoutStep(list, kinds, a, f, i)]
    BY <1>2
  <2> HIDE DEF m
  <2>3. f = [i \in (a - 1)..(m - 1) |-> WithoutStep(list, kinds, a, f, i)]
    BY <2>1, <2>2
  <2> DEFINE g == [i \in (a - 1)..m |-> IF i < m THEN f[i] ELSE WithoutStep(list, kinds, a, f, i)]
  <2>10. \A i \in (a - 1)..m : g[i] = IF i < m THEN f[i] ELSE WithoutStep(list, kinds, a, f, i)
    OBVIOUS
  <2>11. DOMAIN g = (a - 1)..m /\ g = [i \in (a - 1)..m |-> g[i]]
    OBVIOUS
  <2> HIDE DEF g
  <2>4. \A i \in (a - 1)..m : g[i] = WithoutStep(list, kinds, a, g, i)
    <3> SUFFICES ASSUME NEW i \in (a - 1)..m
                 PROVE  g[i] = WithoutStep(list, kinds, a, g, i)
      OBVIOUS
    <3>1. ~(i < a) => i - 1 \in (a - 1)..m /\ i - 1 < m
      BY <2>1
    <3>2. ~(i < a) => g[i - 1] = f[i - 1]
      BY <2>10, <3>1
    <3>3. WithoutStep(list, kinds, a, g, i) = WithoutStep(list, kinds, a, f, i)
      BY <3>2, Zenon DEF WithoutStep
    <3>4. i < m => f[i] = WithoutStep(list, kinds, a, f, i)
      <4>1. i < m => i \in (a - 1)..(m - 1)
        BY <2>1
      <4>2. \A k \in (a - 1)..(m - 1) : f[k] = WithoutStep(list, kinds, a, f, k)
        BY <2>3
      <4>3. QED
        BY <4>1, <4>2
    <3>5. QED
      BY <2>10, <3>3, <3>4
  <2>5. g = [i \in (a - 1)..m |-> WithoutStep(list, kinds, a, g, i)]
    BY <2>4, <2>11
  <2>6. P(d)
    BY <2>5 DEF m
  <2> HIDE DEF P
  <2>7. QED
    BY <2>6
<1> HIDE DEF S
<1>3. b + 1 - a \in S
  BY <1>1, <1>2, CountingUp
<1>4. P(b + 1 - a) /\ a - 1 + (b + 1 - a) = b
  BY <1>3 DEF S
<1>5. QED
  BY <1>4 DEF IsWithout

LEMMA WithoutIs ==
  ASSUME NEW list, NEW kinds, NEW a \in Nat \ {0}, NEW b \in Nat, a <= b + 1
  PROVE  \E f : /\ IsWithout(list, kinds, a, b, f)
                /\ \A m \in (a - 1)..b : Without(list, kinds, a, m) = f[m]
<1>1. PICK f : IsWithout(list, kinds, a, b, f)
  BY WithoutExists
<1>2. \A i \in (a - 1)..b : f[i] = WithoutStep(list, kinds, a, f, i)
  BY <1>1 DEF IsWithout
<1>3. ASSUME NEW m \in (a - 1)..b
      PROVE  Without(list, kinds, a, m) = f[m]
  <2> DEFINE g == CHOOSE g : IsWithout(list, kinds, a, m, g)
  <2>1. m \in Nat /\ a <= m + 1 /\ m \in (a - 1)..m
    OBVIOUS
  <2>2. \E h : IsWithout(list, kinds, a, m, h)
    BY <2>1, WithoutExists
  <2>3. IsWithout(list, kinds, a, m, g)
    BY <2>2, Zenon
  <2>4. Without(list, kinds, a, m) = g[m]
    BY DEF Without, IsWithout, WithoutStep
  <2> HIDE DEF g
  <2>5. \A i \in (a - 1)..m : g[i] = WithoutStep(list, kinds, a, g, i)
    BY <2>3 DEF IsWithout
  <2> DEFINE T == {i \in (a - 1)..m : g[i] # f[i]}
  <2>6. T = {}
    <3> SUFFICES ASSUME T # {} PROVE FALSE
      OBVIOUS
    <3>1. T \subseteq Nat
      OBVIOUS
    <3>2. PICK x \in T : \A y \in T : x <= y
      BY <3>1, LeastMember
    <3>3. x \in (a - 1)..m /\ x \in (a - 1)..b /\ g[x] # f[x]
      OBVIOUS
    <3>4. ~(x < a) => g[x - 1] = f[x - 1]
      <4>1. SUFFICES ASSUME ~(x < a) PROVE x - 1 \in (a - 1)..m /\ ~(x <= x - 1)
        BY <3>2
      <4>2. QED
        BY <3>3, <4>1
    <3> HIDE DEF T
    <3>5. WithoutStep(list, kinds, a, g, x) = WithoutStep(list, kinds, a, f, x)
      BY <3>4, Zenon DEF WithoutStep
    <3>6. QED
      BY <1>2, <2>5, <3>3, <3>5
  <2>7. QED
    BY <2>1, <2>4, <2>6
<1>4. QED
  BY <1>1, <1>3

LEMMA WithoutStart ==
  ASSUME NEW list, NEW kinds, NEW a \in Nat \ {0}
  PROVE  Without(list, kinds, a, a - 1) = << >>
<1>1. a - 1 \in Nat /\ a <= (a - 1) + 1 /\ a - 1 \in (a - 1)..(a - 1) /\ a - 1 < a
  OBVIOUS
<1>2. PICK f : /\ IsWithout(list, kinds, a, a - 1, f)
               /\ \A m \in (a - 1)..(a - 1) : Without(list, kinds, a, m) = f[m]
  BY <1>1, WithoutIs
<1>3. f[a - 1] = WithoutStep(list, kinds, a, f, a - 1)
  BY <1>1, <1>2 DEF IsWithout
<1>4. QED
  BY <1>1, <1>2, <1>3, Zenon DEF WithoutStep

LEMMA WithoutNext ==
  ASSUME NEW list, NEW kinds, NEW a \in Nat \ {0}, NEW m \in Nat, a <= m
  PROVE  /\ list[m].kind \in kinds =>
              Without(list, kinds, a, m) = Without(list, kinds, a, m - 1)
         /\ list[m].kind \notin kinds =>
              Without(list, kinds, a, m) = Append(Without(list, kinds, a, m - 1), m)
<1>1. a <= m + 1 /\ m \in (a - 1)..m /\ m - 1 \in (a - 1)..m /\ ~(m < a)
  OBVIOUS
<1>2. PICK f : /\ IsWithout(list, kinds, a, m, f)
               /\ \A k \in (a - 1)..m : Without(list, kinds, a, k) = f[k]
  BY <1>1, WithoutIs
<1>3. f[m] = WithoutStep(list, kinds, a, f, m)
  BY <1>1, <1>2 DEF IsWithout
<1>4. /\ Without(list, kinds, a, m) = f[m]
      /\ Without(list, kinds, a, m - 1) = f[m - 1]
  BY <1>1, <1>2
<1>5. QED
  BY <1>1, <1>3, <1>4, Zenon DEF WithoutStep

(* Its indices are those of the other kinds, in order.                     *)
IsInOrder(w, a, b) ==
  /\ w \in Seq(a..b)
  /\ \A k, l \in 1..Len(w) : k < l => w[k] < w[l]

IsRest(list, kinds, w, a, b) ==
  /\ IsInOrder(w, a, b)
  /\ \A k \in 1..Len(w) : list[w[k]].kind \notin kinds
  /\ \A i \in a..b : list[i].kind \notin kinds => \E k \in 1..Len(w) : w[k] = i

(* One index more.                                                         *)
LEMMA RestNext ==
  ASSUME NEW list, NEW kinds, NEW a \in Nat \ {0}, NEW m \in Nat, a <= m, NEW v,
         IsRest(list, kinds, v, a, m - 1)
  PROVE  /\ list[m].kind \in kinds => IsRest(list, kinds, v, a, m)
         /\ list[m].kind \notin kinds => IsRest(list, kinds, Append(v, m), a, m)
<1> DEFINE w == Append(v, m)
<1>1. /\ v \in Seq(a..(m - 1)) /\ a..(m - 1) \subseteq a..m /\ m \in a..m
      /\ \A k, l \in 1..Len(v) : k < l => v[k] < v[l]
      /\ \A k \in 1..Len(v) : list[v[k]].kind \notin kinds
      /\ \A i \in a..(m - 1) : list[i].kind \notin kinds => \E k \in 1..Len(v) : v[k] = i
  BY DEF IsRest, IsInOrder
<1>2. v \in Seq(a..m)
  BY <1>1, SeqMonotonic
<1>3. \A i \in a..m : i = m \/ i \in a..(m - 1)
  OBVIOUS
<1>4. CASE list[m].kind \in kinds
  BY <1>1, <1>2, <1>3, <1>4 DEF IsRest, IsInOrder
<1>5. CASE list[m].kind \notin kinds
  <2> DEFINE n == Len(v)
  <2>1. /\ w \in Seq(a..m) /\ Len(w) = n + 1 /\ n \in Nat /\ w[n + 1] = m
        /\ \A k \in 1..n : w[k] = v[k] /\ v[k] < m
    <3>1. /\ w \in Seq(a..m) /\ Len(w) = n + 1 /\ n \in Nat /\ w[n + 1] = m
          /\ \A k \in 1..n : w[k] = v[k]
      BY <1>1, <1>2, AppendProperties
    <3>2. \A k \in 1..n : v[k] \in a..(m - 1)
      BY <1>1
    <3>3. QED
      BY <3>1, <3>2
  <2> HIDE DEF w, n
  <2>2. \A k \in 1..(n + 1) : k = n + 1 \/ k \in 1..n
    BY <2>1
  <2>3. n + 1 \in 1..(n + 1) /\ \A k \in 1..n : k \in 1..(n + 1)
    BY <2>1
  <2>4. \A k, l \in 1..Len(w) : k < l => w[k] < w[l]
    <3> SUFFICES ASSUME NEW k \in 1..(n + 1), NEW l \in 1..(n + 1), k < l
                 PROVE  w[k] < w[l]
      BY <2>1
    <3>1. k \in 1..n
      BY <2>1
    <3>2. CASE l = n + 1
      BY <2>1, <3>1, <3>2
    <3>3. CASE l \in 1..n
      <4>1. v[k] < v[l]
        BY <1>1, <3>1, <3>3 DEF n
      <4>2. QED
        BY <2>1, <3>1, <3>3, <4>1
    <3>4. QED
      BY <2>2, <3>2, <3>3
  <2>5. \A k \in 1..Len(w) : list[w[k]].kind \notin kinds
    BY <1>1, <1>5, <2>1, <2>2 DEF n
  <2>6. \A i \in a..m : list[i].kind \notin kinds => \E k \in 1..Len(w) : w[k] = i
    <3> SUFFICES ASSUME NEW i \in a..m, list[i].kind \notin kinds
                 PROVE  \E k \in 1..Len(w) : w[k] = i
      OBVIOUS
    <3>1. CASE i = m
      BY <2>1, <2>3, <3>1
    <3>2. CASE i \in a..(m - 1)
      <4>1. PICK k \in 1..n : v[k] = i
        BY <1>1, <3>2 DEF n
      <4>2. QED
        BY <2>1, <2>3, <4>1
    <3>3. QED
      BY <1>3, <3>1, <3>2
  <2>7. QED
    BY <1>5, <2>1, <2>4, <2>5, <2>6 DEF IsRest, IsInOrder, w
<1>6. QED
  BY <1>4, <1>5

LEMMA WithoutIsRest ==
  ASSUME NEW list, NEW kinds, NEW a \in Nat \ {0}, NEW b \in Nat, a <= b + 1
  PROVE  IsRest(list, kinds, Without(list, kinds, a, b), a, b)
<1> DEFINE P(d) == IsRest(list, kinds, Without(list, kinds, a, a - 1 + d), a, a - 1 + d)
           S == {d \in 0..(b + 1 - a) : P(d)}
<1>1. 0 \in S
  <2>1. a - 1 + 0 = a - 1 /\ b + 1 - a \in Nat /\ 0 \in 0..(b + 1 - a)
    OBVIOUS
  <2>2. IsRest(list, kinds, << >>, a, a - 1)
    BY DEF IsRest, IsInOrder
  <2>3. P(0)
    BY <2>1, <2>2, WithoutStart
  <2> HIDE DEF P
  <2>4. QED
    BY <2>1, <2>3
<1>2. ASSUME NEW d \in 1..(b + 1 - a), d - 1 \in S
      PROVE  d \in S
  <2> DEFINE m == a - 1 + d
  <2>1. m \in Nat /\ a <= m /\ a - 1 + (d - 1) = m - 1
    OBVIOUS
  <2>2. P(d - 1)
    BY <1>2
  <2> HIDE DEF m
  <2>3. IsRest(list, kinds, Without(list, kinds, a, m - 1), a, m - 1)
    BY <2>1, <2>2
  <2>4. IsRest(list, kinds, Without(list, kinds, a, m), a, m)
    <3> DEFINE u == Without(list, kinds, a, m - 1)
    <3>1. IsRest(list, kinds, u, a, m - 1)
      BY <2>3
    <3>2. /\ list[m].kind \in kinds => Without(list, kinds, a, m) = u
          /\ list[m].kind \notin kinds => Without(list, kinds, a, m) = Append(u, m)
      BY <2>1, WithoutNext
    <3> HIDE DEF u
    <3>3. /\ list[m].kind \in kinds => IsRest(list, kinds, u, a, m)
          /\ list[m].kind \notin kinds => IsRest(list, kinds, Append(u, m), a, m)
      BY <2>1, <3>1, RestNext
    <3>4. QED
      BY <3>2, <3>3
  <2>5. P(d)
    BY <2>4 DEF m
  <2> HIDE DEF P
  <2>6. QED
    BY <2>5
<1> HIDE DEF S
<1>3. b + 1 - a \in S
  <2>1. b + 1 - a \in Nat /\ b + 1 - a \in 0..(b + 1 - a)
    OBVIOUS
  <2>2. QED
    BY <1>1, <1>2, <2>1, CountingUp
<1>4. P(b + 1 - a) /\ a - 1 + (b + 1 - a) = b
  BY <1>3 DEF S
<1>5. QED
  BY <1>4

LEMMA AppendToJoined ==
  ASSUME NEW u \in Seq(Nat), NEW v \in Seq(Nat), NEW e \in Nat
  PROVE  Append(u \o v, e) = u \o Append(v, e)
<1>1. Append(v, e) = v \o <<e>> /\ <<e>> \in Seq(Nat)
  BY AppendIsConcat
<1>2. u \o v \in Seq(Nat)
  BY ConcatProperties
<1>3. Append(u \o v, e) = (u \o v) \o <<e>>
  BY <1>2, AppendIsConcat
<1>4. QED
  BY <1>1, <1>3, ConcatAssociative

Joined(u, v) == u \o v

LEMMA JoinedIs ==
  ASSUME NEW u \in Seq(Nat), NEW v \in Seq(Nat)
  PROVE  /\ Joined(u, v) \in Seq(Nat)
         /\ Joined(<< >>, v) = v
         /\ Joined(u, << >>) = u
<1>1. << >> \o v = v /\ u \o << >> = u
  BY ConcatEmptySeq
<1>2. u \o v \in Seq(Nat)
  BY ConcatProperties
<1>3. QED
  BY <1>1, <1>2 DEF Joined

(* A list is read up to any place and on from there.                       *)
LEMMA WithoutJoin ==
  ASSUME NEW list, NEW kinds, NEW a \in Nat \ {0}, NEW m \in Nat, NEW b \in Nat,
         a <= m + 1, m <= b
  PROVE  Without(list, kinds, a, b) =
           Joined(Without(list, kinds, a, m), Without(list, kinds, m + 1, b))
<1> DEFINE u == Without(list, kinds, a, m)
           P(d) == Without(list, kinds, a, m + d) = Joined(u, Without(list, kinds, m + 1, m + d))
           S == {d \in 0..(b - m) : P(d)}
<1>1. u \in Seq(Nat)
  <2>1. u \in Seq(a..m)
    <3>1. IsRest(list, kinds, u, a, m)
      BY WithoutIsRest
    <3>2. QED
      BY <3>1 DEF IsRest, IsInOrder
  <2>2. a..m \subseteq Nat
    OBVIOUS
  <2>3. QED
    BY <2>1, <2>2, SeqMonotonic
<1> HIDE DEF u
<1>2. 0 \in S
  <2>1. m + 0 = m /\ m + 1 - 1 = m /\ m + 1 \in Nat \ {0} /\ 0 \in 0..(b - m)
    OBVIOUS
  <2>2. Without(list, kinds, m + 1, m) = << >>
    <3> DEFINE c == m + 1
    <3>1. c \in Nat \ {0} /\ c - 1 = m
      OBVIOUS
    <3> HIDE DEF c
    <3>2. Without(list, kinds, c, c - 1) = << >>
      BY <3>1, WithoutStart
    <3>3. QED
      BY <3>1, <3>2 DEF c
  <2>3. P(0)
    <3>1. Joined(u, << >>) = u
      BY <1>1, JoinedIs
    <3>2. QED
      BY <2>1, <2>2, <3>1 DEF u
  <2> HIDE DEF P
  <2>4. QED
    BY <2>1, <2>3
<1>3. ASSUME NEW d \in 1..(b - m), d - 1 \in S
      PROVE  d \in S
  <2> DEFINE e == m + d
             c == m + 1
             v == Without(list, kinds, c, e - 1)
  <2>1. /\ e \in Nat /\ a <= e /\ c <= e /\ m + (d - 1) = e - 1 /\ c \in Nat \ {0}
        /\ e - 1 \in Nat /\ c <= e - 1 + 1
    OBVIOUS
  <2>2. P(d - 1)
    BY <1>3
  <2> HIDE DEF e, P, S
  <2>3. Without(list, kinds, a, e - 1) = Joined(u, v)
    BY <2>1, <2>2 DEF P
  <2>4. v \in Seq(Nat)
    <3>1. IsRest(list, kinds, v, c, e - 1)
      BY <2>1, WithoutIsRest
    <3>2. v \in Seq(c..(e - 1))
      BY <3>1 DEF IsRest, IsInOrder
    <3>3. c..(e - 1) \subseteq Nat
      BY <2>1
    <3>4. QED
      BY <3>2, <3>3, SeqMonotonic
  <2>5. /\ list[e].kind \in kinds => Without(list, kinds, c, e) = v
        /\ list[e].kind \notin kinds => Without(list, kinds, c, e) = Append(v, e)
    BY <2>1, WithoutNext
  <2> HIDE DEF c, v
  <2>6. /\ list[e].kind \in kinds => Without(list, kinds, a, e) = Joined(u, v)
        /\ list[e].kind \notin kinds => Without(list, kinds, a, e) = Append(Joined(u, v), e)
    <3> DEFINE w == Joined(u, v)
    <3>1. Without(list, kinds, a, e - 1) = w
      BY <2>3
    <3> HIDE DEF w
    <3>2. /\ list[e].kind \in kinds => Without(list, kinds, a, e) = w
          /\ list[e].kind \notin kinds => Without(list, kinds, a, e) = Append(w, e)
      BY <2>1, <3>1, WithoutNext
    <3>3. QED
      BY <3>2 DEF w
  <2>7. Append(Joined(u, v), e) = Joined(u, Append(v, e))
    <3>1. u \in Seq(Nat) /\ v \in Seq(Nat) /\ e \in Nat
      BY <1>1, <2>1, <2>4
    <3>2. Append(u \o v, e) = u \o Append(v, e)
      BY <3>1, AppendToJoined, Zenon
    <3>3. QED
      BY <3>2 DEF Joined
  <2>8. Without(list, kinds, a, e) = Joined(u, Without(list, kinds, c, e))
    BY <2>5, <2>6, <2>7
  <2>9. P(d)
    BY <2>8 DEF P, e, c
  <2>10. QED
    BY <2>9 DEF S
<1> HIDE DEF S
<1>4. b - m \in S
  <2>1. b - m \in Nat /\ b - m \in 0..(b - m)
    OBVIOUS
  <2>2. QED
    BY <1>2, <1>3, <2>1, CountingUp
<1>5. P(b - m) /\ m + (b - m) = b
  BY <1>4 DEF S
<1>6. QED
  BY <1>5 DEF u

LEMMA WithoutNone ==
  ASSUME NEW list, NEW kinds, NEW a \in Nat \ {0}, NEW b \in Nat, a <= b + 1,
         \A i \in a..b : list[i].kind \in kinds
  PROVE  Without(list, kinds, a, b) = << >>
<1> DEFINE w == Without(list, kinds, a, b)
<1>1. w \in Seq(a..b) /\ \A k \in 1..Len(w) : list[w[k]].kind \notin kinds
  BY WithoutIsRest DEF IsRest, IsInOrder
<1> HIDE DEF w
<1>2. Len(w) \in Nat /\ \A k \in 1..Len(w) : w[k] \in a..b
  BY <1>1
<1>3. ~(Len(w) > 0)
  <2>1. SUFFICES ASSUME Len(w) > 0 PROVE 1 \in 1..Len(w)
    BY <1>1, <1>2
  <2>2. QED
    BY <1>2, <2>1
<1>4. QED
  BY <1>1, <1>2, <1>3 DEF w

(* Two sets of kinds that are the same for this part of the list.          *)
LEMMA WithoutSame ==
  ASSUME NEW list, NEW K, NEW L, NEW a \in Nat \ {0}, NEW b \in Nat, a <= b + 1,
         \A i \in a..b : list[i].kind \in K <=> list[i].kind \in L
  PROVE  Without(list, K, a, b) = Without(list, L, a, b)
<1> DEFINE P(d) == Without(list, K, a, a - 1 + d) = Without(list, L, a, a - 1 + d)
           S == {d \in 0..(b + 1 - a) : P(d)}
<1>1. 0 \in S
  <2>1. a - 1 + 0 = a - 1 /\ 0 \in 0..(b + 1 - a)
    OBVIOUS
  <2>2. Without(list, K, a, a - 1) = << >> /\ Without(list, L, a, a - 1) = << >>
    BY WithoutStart
  <2>3. P(0)
    BY <2>1, <2>2
  <2> HIDE DEF P
  <2>4. QED
    BY <2>1, <2>3
<1>2. ASSUME NEW d \in 1..(b + 1 - a), d - 1 \in S
      PROVE  d \in S
  <2> DEFINE m == a - 1 + d
  <2>1. m \in Nat /\ a <= m /\ a - 1 + (d - 1) = m - 1 /\ m \in a..b
    OBVIOUS
  <2>2. P(d - 1)
    BY <1>2
  <2> HIDE DEF m, P, S
  <2>3. Without(list, K, a, m - 1) = Without(list, L, a, m - 1)
    BY <2>1, <2>2 DEF P
  <2>4. /\ list[m].kind \in K =>
             Without(list, K, a, m) = Without(list, K, a, m - 1)
        /\ list[m].kind \notin K =>
             Without(list, K, a, m) = Append(Without(list, K, a, m - 1), m)
    BY <2>1, WithoutNext
  <2>5. /\ list[m].kind \in L =>
             Without(list, L, a, m) = Without(list, L, a, m - 1)
        /\ list[m].kind \notin L =>
             Without(list, L, a, m) = Append(Without(list, L, a, m - 1), m)
    BY <2>1, WithoutNext
  <2>6. list[m].kind \in K <=> list[m].kind \in L
    BY <2>1
  <2>7. Without(list, K, a, m) = Without(list, L, a, m)
    BY <2>3, <2>4, <2>5, <2>6, Zenon
  <2>8. P(d)
    BY <2>7 DEF P, m
  <2>9. QED
    BY <2>8 DEF S
<1> HIDE DEF S
<1>3. b + 1 - a \in S
  <2>1. b + 1 - a \in Nat /\ b + 1 - a \in 0..(b + 1 - a)
    OBVIOUS
  <2>2. QED
    BY <1>1, <1>2, <2>1, CountingUp
<1>4. P(b + 1 - a) /\ a - 1 + (b + 1 - a) = b
  BY <1>3 DEF S
<1>5. QED
  BY <1>4

LEMMA BeginningIs ==
  ASSUME NEW w \in Seq(Nat), NEW m \in Nat, m <= Len(w)
  PROVE  /\ SubSeq(w, 1, m) \in Seq(Nat) /\ Len(SubSeq(w, 1, m)) = m
         /\ \A k \in 1..m : SubSeq(w, 1, m)[k] = w[k]
  OBVIOUS

(* Up to one of its own indices it is its beginning.                       *)
LEMMA WithoutUpTo ==
  ASSUME NEW list, NEW kinds, NEW a \in Nat \ {0}, NEW b \in Nat, a <= b + 1,
         NEW w, w = Without(list, kinds, a, b), NEW p \in 1..Len(w)
  PROVE  /\ w[p] \in a..b
         /\ Without(list, kinds, a, w[p] - 1) = SubSeq(w, 1, p - 1)
         /\ Without(list, kinds, a, w[p]) = SubSeq(w, 1, p)
<1> DEFINE at == w[p]
           u == Without(list, kinds, a, at - 1)
           v == Without(list, kinds, at + 1, b)
<1>1. /\ w \in Seq(a..b)
      /\ \A k, l \in 1..Len(w) : k < l => w[k] < w[l]
      /\ \A k \in 1..Len(w) : list[w[k]].kind \notin kinds
  BY WithoutIsRest DEF IsRest, IsInOrder
<1>2. at \in a..b /\ list[at].kind \notin kinds
  BY <1>1
<1> HIDE DEF at
<1>3. /\ at - 1 \in Nat /\ at \in Nat /\ at \in Nat \ {0} /\ a <= at - 1 + 1 /\ at - 1 <= at
      /\ at + 1 - 1 = at /\ at - 1 + 1 = at /\ a <= at + 1 /\ at <= b
      /\ at + 1 \in Nat \ {0} /\ at + 1 <= b + 1 /\ a <= at
  BY <1>2
<1>4. Without(list, kinds, a, at) = Append(u, at)
  BY <1>2, <1>3, WithoutNext
<1>5. w = Without(list, kinds, a, at) \o v
  <2> HIDE DEF u, v
  <2>0. at \in Nat /\ a <= at + 1 /\ at <= b
    BY <1>3
  <2>1. Without(list, kinds, a, b) = Without(list, kinds, a, at) \o Without(list, kinds, at + 1, b)
    <3>1. Without(list, kinds, a, b) =
            Joined(Without(list, kinds, a, at), Without(list, kinds, at + 1, b))
      BY <2>0, WithoutJoin
      <3>2. QED
      BY <3>1 DEF Joined
  <2>2. QED
    BY <2>1 DEF v
<1>6. u \in Seq(a..(at - 1)) /\ v \in Seq((at + 1)..b)
  <2>1. IsRest(list, kinds, u, a, at - 1)
    BY <1>3, WithoutIsRest
  <2>2. IsRest(list, kinds, v, at + 1, b)
    <3> DEFINE c == at + 1
    <3>1. c \in Nat \ {0} /\ c <= b + 1
      BY <1>3
    <3> HIDE DEF c
    <3>2. IsRest(list, kinds, Without(list, kinds, c, b), c, b)
      BY <3>1, WithoutIsRest
    <3>3. QED
      BY <3>2 DEF c
  <2>3. QED
    BY <2>1, <2>2 DEF IsRest, IsInOrder
<1> HIDE DEF u, v
<1>7. u \in Seq(Nat) /\ v \in Seq(Nat)
  <2>1. a..(at - 1) \subseteq Nat /\ (at + 1)..b \subseteq Nat
    BY <1>3
  <2>2. QED
    BY <1>6, <2>1, SeqMonotonic
<1> DEFINE n == Len(u)
           x == Append(u, at)
<1>8. /\ x \in Seq(Nat) /\ Len(x) = n + 1 /\ n \in Nat /\ x[n + 1] = at
      /\ \A k \in 1..n : x[k] = u[k]
  BY <1>3, <1>7, AppendProperties
<1>9. w = x \o v
  BY <1>4, <1>5
<1> HIDE DEF x
<1>10. /\ Len(w) = n + 1 + Len(v) /\ Len(v) \in Nat /\ w \in Seq(Nat)
       /\ \A k \in 1..(n + 1 + Len(v)) : k <= n + 1 => w[k] = x[k]
  <2>0. /\ x \o v \in Seq(Nat) /\ Len(x \o v) = Len(x) + Len(v)
        /\ \A k \in 1..(Len(x) + Len(v)) :
             (x \o v)[k] = IF k <= Len(x) THEN x[k] ELSE v[k - Len(x)]
    BY <1>7, <1>8, ConcatProperties
  <2>1. /\ Len(w) = Len(x) + Len(v) /\ w \in Seq(Nat)
        /\ \A k \in 1..(Len(x) + Len(v)) :
             w[k] = IF k <= Len(x) THEN x[k] ELSE v[k - Len(x)]
    BY <1>9, <2>0
  <2>2. Len(v) \in Nat
    BY <1>7
  <2> HIDE DEF n
  <2>3. QED
    BY <1>8, <2>1, <2>2
<1> HIDE DEF n
<1>11. n + 1 \in 1..Len(w) /\ w[n + 1] = at /\ p \in Nat
  BY <1>8, <1>10
<1>12. p = n + 1
  <2> DEFINE q == n + 1
  <2>1. /\ q \in 1..Len(w) /\ p \in 1..Len(w) /\ w[q] = at /\ w[p] = at
        /\ p \in Nat /\ q \in Nat /\ ~(at < at)
    BY <1>3, <1>8, <1>11 DEF at
  <2> HIDE DEF q
  <2>2. \A k, l \in 1..Len(w) : k < l => w[k] < w[l]
    BY <1>1
  <2>3. ~(p < q) /\ ~(q < p)
    BY <2>1, <2>2, Zenon
  <2>4. p = q
    BY <2>1, <2>3
  <2>5. QED
    BY <2>4 DEF q
<1>13. SubSeq(w, 1, p) = x
  <2>1. /\ SubSeq(w, 1, p) \in Seq(Nat) /\ Len(SubSeq(w, 1, p)) = p
        /\ \A k \in 1..p : SubSeq(w, 1, p)[k] = w[k]
    <3>1. w \in Seq(Nat) /\ p \in Nat /\ p <= Len(w)
      BY <1>8, <1>10, <1>11, <1>12
    <3>2. QED
      BY <3>1, BeginningIs
  <2>2. \A k \in 1..p : w[k] = x[k]
    BY <1>8, <1>10, <1>12
  <2> DEFINE y == SubSeq(w, 1, p)
  <2> HIDE DEF y
  <2>3. QED
    BY <1>8, <1>12, <2>1, <2>2 DEF y
<1>14. SubSeq(w, 1, p - 1) = u
  <2>1. p - 1 = n
    BY <1>8, <1>12
  <2>2. /\ SubSeq(w, 1, n) \in Seq(Nat) /\ Len(SubSeq(w, 1, n)) = n
        /\ \A k \in 1..n : SubSeq(w, 1, n)[k] = w[k]
    <3>1. w \in Seq(Nat) /\ n \in Nat /\ n <= Len(w)
      BY <1>8, <1>10
    <3>2. QED
      BY <3>1, BeginningIs
  <2>3. \A k \in 1..n : w[k] = u[k]
    <3>1. \A k \in 1..n : k \in 1..(n + 1 + Len(v)) /\ k <= n + 1
      BY <1>8, <1>10
    <3>2. QED
      BY <1>8, <1>10, <3>1
  <2> DEFINE y == SubSeq(w, 1, n)
  <2> HIDE DEF y
  <2>4. y = u
    BY <1>7, <2>2, <2>3 DEF y, n
  <2>5. QED
    BY <2>1, <2>4 DEF y
<1>15. QED
  BY <1>2, <1>4, <1>13, <1>14 DEF at, u, x

-----------------------------------------------------------------------------
(* Sequences one after the other, and one more of them.                    *)
IsFlat(seqs, n, f) ==
  f = [i \in 1..n |-> IF i = 1 THEN seqs[i] ELSE f[i - 1] \o seqs[i]]

LEMMA FlatExists ==
  ASSUME NEW seqs, NEW n \in Nat
  PROVE  \E f : IsFlat(seqs, n, f)
<1> DEFINE P(d) == \E f : IsFlat(seqs, d, f)
           S == {d \in 0..n : P(d)}
<1>1. 0 \in S
  <2> DEFINE f == [i \in 1..0 |-> 0]
  <2>1. 1..0 = {} /\ 0 \in 0..n
    OBVIOUS
  <2>2. f = [i \in 1..0 |-> IF i = 1 THEN seqs[i] ELSE f[i - 1] \o seqs[i]]
    BY <2>1
  <2> HIDE DEF f
  <2>3. IsFlat(seqs, 0, f)
    BY <2>2 DEF IsFlat
  <2>4. QED
    BY <2>1, <2>3
<1>2. ASSUME NEW m \in 1..n, m - 1 \in S
      PROVE  m \in S
  <2>1. PICK f : IsFlat(seqs, m - 1, f)
    BY <1>2
  <2>2. \A i \in 1..(m - 1) : f[i] = IF i = 1 THEN seqs[i] ELSE f[i - 1] \o seqs[i]
    BY <2>1 DEF IsFlat
  <2> DEFINE last == IF m = 1 THEN seqs[m] ELSE f[m - 1] \o seqs[m]
             g == [i \in 1..m |-> IF i = m THEN last ELSE f[i]]
  <2>3. \A i \in 1..m : g[i] = IF i = 1 THEN seqs[i] ELSE g[i - 1] \o seqs[i]
    <3> SUFFICES ASSUME NEW i \in 1..m
                 PROVE  g[i] = IF i = 1 THEN seqs[i] ELSE g[i - 1] \o seqs[i]
      OBVIOUS
    <3>1. g[i] = IF i = m THEN last ELSE f[i]
      OBVIOUS
    <3>2. i # 1 => i - 1 \in 1..m /\ i - 1 # m
      OBVIOUS
    <3>3. i # 1 => g[i - 1] = f[i - 1]
      BY <3>2
    <3>4. i # m => i \in 1..(m - 1)
      OBVIOUS
    <3> HIDE DEF g
    <3>5. i = m => g[i] = IF i = 1 THEN seqs[i] ELSE g[i - 1] \o seqs[i]
      BY <3>1, <3>3, Zenon
    <3>6. i # m => g[i] = IF i = 1 THEN seqs[i] ELSE g[i - 1] \o seqs[i]
      BY <2>2, <3>1, <3>3, <3>4, Zenon
    <3>7. QED
      BY <3>5, <3>6, Zenon
  <2>4. g = [i \in 1..m |-> g[i]]
    OBVIOUS
  <2> HIDE DEF g
  <2>5. IsFlat(seqs, m, g)
    BY <2>3, <2>4 DEF IsFlat
  <2>6. m \in 0..n
    OBVIOUS
  <2>7. QED
    BY <2>5, <2>6
<1> HIDE DEF S
<1>3. n \in S
  BY <1>1, <1>2, CountingUp
<1>4. QED
  BY <1>3 DEF S

(* It is the same for two lists with the same beginning.                   *)
LEMMA FlatUnique ==
  ASSUME NEW s, NEW t, NEW n \in Nat, NEW m \in Nat, n <= m,
         \A i \in 1..n : s[i] = t[i],
         NEW f, IsFlat(s, n, f), NEW g, IsFlat(t, m, g)
  PROVE  \A i \in 1..n : f[i] = g[i]
<1> DEFINE T == {i \in 1..n : f[i] # g[i]}
<1>1. /\ \A i \in 1..n : f[i] = IF i = 1 THEN s[i] ELSE f[i - 1] \o s[i]
      /\ \A i \in 1..m : g[i] = IF i = 1 THEN t[i] ELSE g[i - 1] \o t[i]
  BY DEF IsFlat
<1>2. SUFFICES ASSUME T # {} PROVE FALSE
  OBVIOUS
<1>3. T \subseteq Nat
  OBVIOUS
<1>4. PICK x \in T : \A y \in T : x <= y
  BY <1>2, <1>3, LeastMember
<1>5. x \in 1..n /\ x \in 1..m /\ f[x] # g[x] /\ x \in Nat
  OBVIOUS
<1>6. x # 1 => f[x - 1] = g[x - 1]
  <2>1. SUFFICES ASSUME x # 1 PROVE x - 1 \in 1..n /\ ~(x <= x - 1)
    BY <1>4
  <2>2. QED
    BY <1>5, <2>1
<1> HIDE DEF T
<1>7. f[x] = g[x]
  <2>1. /\ f[x] = IF x = 1 THEN s[x] ELSE f[x - 1] \o s[x]
        /\ g[x] = IF x = 1 THEN t[x] ELSE g[x - 1] \o t[x]
        /\ s[x] = t[x]
    BY <1>1, <1>5, Zenon
  <2>2. QED
    BY <1>6, <2>1, Zenon
<1>8. QED
  BY <1>5, <1>7

LEMMA FlattenIs ==
  ASSUME NEW s, Len(s) \in Nat \ {0}
  PROVE  \E f : IsFlat(s, Len(s), f) /\ FlattenSeq(s) = f[Len(s)]
<1> DEFINE f == CHOOSE f : IsFlat(s, Len(s), f)
<1>1. \E h : IsFlat(s, Len(s), h)
  BY FlatExists
<1>2. IsFlat(s, Len(s), f)
  BY <1>1, Zenon
<1>3. FlattenSeq(s) = f[Len(s)]
  BY DEF FlattenSeq, IsFlat
<1> HIDE DEF f
<1>4. QED
  BY <1>2, <1>3

LEMMA FlattenAppend ==
  ASSUME NEW X, NEW s \in Seq(X), NEW t \in X, NEW S, t \in Seq(S)
  PROVE  /\ FlattenSeq(<< >>) = << >>
         /\ s = << >> => FlattenSeq(Append(s, t)) = t
         /\ s # << >> => FlattenSeq(Append(s, t)) = FlattenSeq(s) \o t
<1> DEFINE n == Len(s)
           x == Append(s, t)
<1>1. /\ x \in Seq(X) /\ Len(x) = n + 1 /\ n \in Nat /\ x[n + 1] = t
      /\ \A k \in 1..n : x[k] = s[k]
  BY AppendProperties
<1>2. s = << >> <=> n = 0
  OBVIOUS
<1> HIDE DEF x
<1>3. PICK g : IsFlat(x, n + 1, g) /\ FlattenSeq(x) = g[n + 1]
  <2>1. Len(x) \in Nat \ {0}
    BY <1>1
  <2>2. QED
    BY <1>1, <2>1, FlattenIs
<1>4. g[n + 1] = IF n + 1 = 1 THEN x[n + 1] ELSE g[n + 1 - 1] \o x[n + 1]
  <2> DEFINE k == n + 1
  <2>1. k \in 1..k
    BY <1>1
  <2> HIDE DEF k
  <2>2. IsFlat(x, k, g)
    BY <1>3 DEF k
  <2>3. \A i \in 1..k : g[i] = IF i = 1 THEN x[i] ELSE g[i - 1] \o x[i]
    BY <2>2 DEF IsFlat
  <2>4. g[k] = IF k = 1 THEN x[k] ELSE g[k - 1] \o x[k]
    BY <2>1, <2>3, Zenon
  <2>5. QED
    BY <2>4 DEF k
<1>5. FlattenSeq(<< >>) = << >>
  BY DEF FlattenSeq
<1>6. CASE s = << >>
  <2>1. n + 1 = 1
    BY <1>2, <1>6
  <2>2. QED
    BY <1>1, <1>3, <1>4, <1>5, <1>6, <2>1 DEF x
<1>7. CASE s # << >>
  <2>1. n + 1 # 1 /\ n + 1 - 1 = n /\ n \in Nat \ {0} /\ n <= n + 1 /\ n \in 1..n /\ n + 1 \in Nat
    BY <1>1, <1>2, <1>7
  <2>2. PICK f : IsFlat(s, n, f) /\ FlattenSeq(s) = f[n]
    BY <2>1, FlattenIs
  <2> HIDE DEF n
  <2>3. \A i \in 1..n : f[i] = g[i]
    <3> DEFINE k == n + 1
    <3>1. n \in Nat /\ k \in Nat /\ n <= k /\ \A i \in 1..n : s[i] = x[i]
      BY <1>1, <2>1
    <3>2. IsFlat(x, k, g) /\ IsFlat(s, n, f)
      BY <1>3, <2>2
    <3> HIDE DEF k
    <3>3. QED
      BY <3>1, <3>2, FlatUnique
  <2>4. g[n + 1] = f[n] \o t
    BY <1>1, <1>4, <2>1, <2>3
  <2>5. QED
    BY <1>3, <1>5, <1>7, <2>2, <2>4 DEF x
<1>8. QED
  BY <1>6, <1>7

-----------------------------------------------------------------------------
(* The tokens of the parser, and the line it reads next.                   *)
Blank   == {"comment", "newline"}
Skipped == {"comma", "comment", "newline"}

IsStream == \E V : tokens \in Seq([kind : Kinds, value : V])

LEMMA StreamIs ==
  ASSUME IsStream
  PROVE  /\ Len(tokens) \in Nat /\ DOMAIN tokens = 1..Len(tokens)
         /\ \A i \in 1..Len(tokens) :
              /\ tokens[i].kind \in Kinds
              /\ tokens[i] = [kind |-> tokens[i].kind, value |-> tokens[i].value]
<1>1. PICK V : tokens \in Seq([kind : Kinds, value : V])
  BY DEF IsStream
<1> DEFINE R == [kind : Kinds, value : V]
<1>2. \A t \in R : t.kind \in Kinds /\ t = [kind |-> t.kind, value |-> t.value]
  OBVIOUS
<1>3. tokens \in Seq(R)
  BY <1>1
<1> HIDE DEF R
<1>4. Len(tokens) \in Nat /\ DOMAIN tokens = 1..Len(tokens) /\ \A i \in 1..Len(tokens) : tokens[i] \in R
  BY <1>3
<1>5. QED
  BY <1>2, <1>4

LEMMA FindIs ==
  ASSUME IsStream, NEW K, NEW i \in 1..(Len(tokens) + 1)
  PROVE  /\ Find(i, K) \in i..(Len(tokens) + 1)
         /\ Find(i, K) <= Len(tokens) => tokens[Find(i, K)].kind \in K
         /\ \A k \in i..(Find(i, K) - 1) : tokens[k].kind \notin K
<1> DEFINE n == Len(tokens)
           at == {k \in i..n : tokens[k].kind \in K}
           f == Find(i, K)
<1>1. n \in Nat
  BY StreamIs
<1>2. CASE at = {}
  BY <1>1, <1>2 DEF Find, Least
<1>3. CASE at # {}
  <2>1. f = Min(at)
    BY <1>3 DEF Find, Least
  <2>2. at \subseteq Nat
    BY <1>1
  <2>3. Min(at) \in at /\ \A y \in at : Min(at) <= y
    BY <1>3, <2>2, MinIs
  <2>4. f \in i..n /\ tokens[f].kind \in K /\ \A k \in i..n : tokens[k].kind \in K => f <= k
    BY <2>1, <2>3
  <2> HIDE DEF f, at
  <2>5. f \in i..(n + 1)
    BY <1>1, <2>4
  <2>6. \A k \in i..(f - 1) : k \in i..n /\ ~(f <= k)
    BY <1>1, <2>4
  <2>7. QED
    BY <2>4, <2>5, <2>6 DEF f
<1>4. QED
  BY <1>2, <1>3

(* Blank tokens up to the first one of a line.                             *)
IsReading == IsStream /\ next \in 1..(Len(tokens) + 1)

LEMMA LineStartIs ==
  ASSUME IsReading
  PROVE  /\ LineStart \in next..(Len(tokens) + 1)
         /\ LineStart <= Len(tokens) => tokens[LineStart].kind \notin Blank
         /\ \A k \in next..(LineStart - 1) : tokens[k].kind \in Blank
<1>1. /\ LineStart \in next..(Len(tokens) + 1)
      /\ LineStart <= Len(tokens) => tokens[LineStart].kind \in Kinds \ Blank
      /\ \A k \in next..(LineStart - 1) : tokens[k].kind \notin Kinds \ Blank
  <2> DEFINE K == Kinds \ Blank
  <2>1. LineStart = Find(next, K)
    BY DEF LineStart, Blank
  <2> HIDE DEF K
  <2>2. /\ Find(next, K) \in next..(Len(tokens) + 1)
        /\ Find(next, K) <= Len(tokens) => tokens[Find(next, K)].kind \in K
        /\ \A k \in next..(Find(next, K) - 1) : tokens[k].kind \notin K
    BY FindIs DEF IsReading
  <2>3. QED
    BY <2>1, <2>2 DEF K
<1>2. \A k \in next..(LineStart - 1) : k \in 1..Len(tokens)
  BY <1>1, StreamIs DEF IsReading
<1>3. \A k \in 1..Len(tokens) : tokens[k].kind \in Kinds
  BY StreamIs DEF IsReading
<1>4. QED
  BY <1>1, <1>2, <1>3

(* The line itself, which has no blank token behind its label.             *)
LEMMA TheLineIs ==
  ASSUME IsReading, LineStart <= Len(tokens)
  PROVE  /\ LineStart \in 1..Len(tokens)
         /\ RestStart \in (LineStart + 1)..(Len(tokens) + 1)
         /\ \/ /\ RestStart = LineStart + 1
               /\ ~ /\ IsLabelled
                    /\ LineStart < Len(tokens)
                    /\ tokens[LineStart + 1].kind = "newline"
            \/ /\ RestStart = LineStart + 2
               /\ IsLabelled
               /\ LineStart + 1 \in 1..Len(tokens)
               /\ tokens[LineStart + 1].kind = "newline"
         /\ LineEnd \in RestStart..(Len(tokens) + 1)
         /\ LineEnd <= Len(tokens) => tokens[LineEnd].kind \in Blank
         /\ \A k \in RestStart..(LineEnd - 1) : tokens[k].kind \notin Blank
<1> DEFINE n == Len(tokens)
<1>1. n \in Nat /\ LineStart \in 1..n
  BY LineStartIs, StreamIs DEF IsReading
<1>2. /\ RestStart \in (LineStart + 1)..(n + 1)
      /\ \/ /\ RestStart = LineStart + 1
            /\ ~(IsLabelled /\ LineStart < n /\ tokens[LineStart + 1].kind = "newline")
         \/ /\ RestStart = LineStart + 2
            /\ IsLabelled /\ LineStart + 1 \in 1..n
            /\ tokens[LineStart + 1].kind = "newline"
  BY <1>1 DEF RestStart, IsLabelled
<1>3. /\ LineEnd \in RestStart..(n + 1)
      /\ LineEnd <= n => tokens[LineEnd].kind \in Blank
      /\ \A k \in RestStart..(LineEnd - 1) : tokens[k].kind \notin Blank
  <2>1. RestStart \in 1..(n + 1)
    BY <1>1, <1>2
  <2>2. LineEnd = Find(RestStart, Blank)
    BY DEF LineEnd, Blank
  <2> HIDE DEF n
  <2>3. /\ Find(RestStart, Blank) \in RestStart..(Len(tokens) + 1)
        /\ Find(RestStart, Blank) <= Len(tokens) => tokens[Find(RestStart, Blank)].kind \in Blank
        /\ \A k \in RestStart..(Find(RestStart, Blank) - 1) : tokens[k].kind \notin Blank
    BY <2>1, FindIs DEF IsReading, n
  <2>4. QED
    BY <2>2, <2>3 DEF n
<1>4. QED
  BY <1>1, <1>2, <1>3

(* The indices of the line, and with them those that are read with it.     *)
LineRest == Without(tokens, {"comma"}, RestStart, LineEnd - 1)

AfterLine == IF LineEnd > Len(tokens) THEN LineEnd ELSE LineEnd + 1

LEMMA LineRestIs ==
  ASSUME IsReading, LineStart <= Len(tokens)
  PROVE  Without(tokens, Skipped, LineStart + 1, LineEnd - 1) = LineRest
<1> DEFINE a == LineStart + 1
           r == RestStart
           e == LineEnd - 1
<1>1. /\ a \in Nat \ {0} /\ r \in Nat \ {0} /\ e \in Nat /\ a <= r /\ r <= e + 1
      /\ r - 1 \in Nat /\ a <= r - 1 + 1 /\ r - 1 <= e /\ r - 1 + 1 = r
      /\ r = a \/ (r = a + 1 /\ tokens[a].kind = "newline")
      /\ \A k \in r..e : tokens[k].kind \notin Blank
  BY TheLineIs, StreamIs DEF IsReading
<1>2. LineRest = Without(tokens, {"comma"}, r, e)
  BY DEF LineRest
<1> HIDE DEF a, r, e
<1>3. Without(tokens, Skipped, a, e) = Without(tokens, Skipped, r, e)
  <2>1. CASE r = a
    BY <2>1
  <2>2. CASE r = a + 1 /\ tokens[a].kind = "newline"
    <3>1. r - 1 = a /\ \A i \in a..a : tokens[i].kind \in Skipped
      BY <1>1, <2>2 DEF Skipped
    <3>2. Without(tokens, Skipped, a, r - 1) = << >>
      BY <1>1, <3>1, WithoutNone
    <3>3. Without(tokens, Skipped, a, e) =
            Joined(Without(tokens, Skipped, a, r - 1), Without(tokens, Skipped, r, e))
      <4> DEFINE m == r - 1
      <4>1. a \in Nat \ {0} /\ e \in Nat /\ m \in Nat /\ a <= m + 1 /\ m <= e /\ m + 1 = r
        BY <1>1
      <4> HIDE DEF m
      <4>2. Without(tokens, Skipped, a, e) =
              Joined(Without(tokens, Skipped, a, m), Without(tokens, Skipped, m + 1, e))
        BY <4>1, WithoutJoin
      <4>3. QED
        BY <4>1, <4>2 DEF m
    <3>4. IsRest(tokens, Skipped, Without(tokens, Skipped, r, e), r, e)
      BY <1>1, WithoutIsRest
    <3> DEFINE w == Without(tokens, Skipped, r, e)
    <3>5. w \in Seq(r..e)
      BY <3>4 DEF IsRest, IsInOrder
    <3>6. Without(tokens, Skipped, a, e) = Joined(<< >>, w)
      BY <3>2, <3>3
    <3>7. r..e \subseteq Nat
      BY <1>1
    <3> HIDE DEF w
    <3>8. w \in Seq(Nat)
      BY <3>5, <3>7, SeqMonotonic
    <3>9. Without(tokens, Skipped, a, e) = w
      BY <3>6, <3>8, JoinedIs
    <3>10. QED
      BY <3>9 DEF w
  <2>3. QED
    BY <1>1, <2>1, <2>2
<1>4. \A i \in r..e : tokens[i].kind \in Skipped <=> tokens[i].kind \in {"comma"}
  BY <1>1 DEF Skipped, Blank
<1>5. Without(tokens, Skipped, r, e) = Without(tokens, {"comma"}, r, e)
  <2> DEFINE K == {"comma"}
  <2>1. \A i \in r..e : tokens[i].kind \in Skipped <=> tokens[i].kind \in K
    BY <1>4
  <2> HIDE DEF K
  <2>2. Without(tokens, Skipped, r, e) = Without(tokens, K, r, e)
    BY <1>1, <2>1, WithoutSame
  <2>3. QED
    BY <2>2 DEF K
<1>6. QED
  BY <1>2, <1>3, <1>5 DEF a, e

LEMMA LineTokensAre ==
  ASSUME IsReading, LineStart <= Len(tokens)
  PROVE  /\ LineTokens = <<LineStart>> \o LineRest
         /\ LineRest \in Seq(RestStart..(LineEnd - 1))
         /\ LineRest \in Seq(Nat)
         /\ LineTokens \in Seq(Nat)
         /\ Len(LineTokens) = Len(LineRest) + 1
         /\ LineTokens[1] = LineStart
         /\ \A k \in 1..Len(LineRest) : LineTokens[k + 1] = LineRest[k]
         /\ \A k \in 1..Len(LineTokens) :
              /\ LineTokens[k] \in LineStart..(LineEnd - 1)
              /\ LineTokens[k] \in 1..Len(tokens)
         /\ \A k \in 2..Len(LineTokens) :
              tokens[LineTokens[k]].kind \notin Blank \cup {"comma"}
<1> DEFINE s == LineStart
           r == RestStart
           e == LineEnd - 1
           w == LineRest
           t == LineTokens
<1>1. /\ s \in Nat /\ r \in Nat \ {0} /\ e \in Nat /\ s + 1 <= r /\ r <= e + 1
      /\ e <= Len(tokens) /\ s \in 1..Len(tokens) /\ Len(tokens) \in Nat
      /\ \A k \in r..e : tokens[k].kind \notin Blank
  BY TheLineIs, StreamIs DEF IsReading
<1>2. t = <<s>> \o w /\ w = Without(tokens, {"comma"}, r, e)
  BY DEF LineRest, LineTokens
<1> HIDE DEF s, r, e, w, t
<1>3. IsRest(tokens, {"comma"}, w, r, e)
  <2> DEFINE K == {"comma"}
  <2> HIDE DEF K
  <2>1. IsRest(tokens, K, Without(tokens, K, r, e), r, e)
    BY <1>1, WithoutIsRest
  <2>2. QED
    BY <1>2, <2>1 DEF K
<1>4. w \in Seq(r..e) /\ \A k \in 1..Len(w) : tokens[w[k]].kind # "comma"
  BY <1>3 DEF IsRest, IsInOrder
<1>5. w \in Seq(Nat)
  <2>1. r..e \subseteq Nat
    BY <1>1
  <2>2. QED
    BY <1>4, <2>1, SeqMonotonic
<1> DEFINE m == Len(w)
<1>6. /\ t \in Seq(Nat) /\ Len(t) = m + 1 /\ m \in Nat /\ t[1] = s
      /\ \A k \in 1..m : t[k + 1] = w[k]
  BY <1>1, <1>2, <1>5
<1>7. \A k \in 1..m : w[k] \in r..e
  <2> DEFINE R == r..e
  <2>1. w \in Seq(R)
    BY <1>4
  <2> HIDE DEF R
  <2>2. \A k \in 1..m : w[k] \in R
    BY <2>1
  <2>3. QED
    BY <2>2 DEF R
<1> HIDE DEF m
<1>8. ASSUME NEW k \in 1..Len(t)
      PROVE  k = 1 \/ (k - 1 \in 1..m /\ t[k] = w[k - 1])
  <2>1. k # 1 => k - 1 \in 1..m /\ k - 1 + 1 = k
    BY <1>6
  <2>2. QED
    BY <1>6, <2>1
<1>9. ASSUME NEW k \in 1..Len(t)
      PROVE  t[k] \in s..e /\ t[k] \in 1..Len(tokens)
  <2>1. CASE k = 1
    BY <1>1, <1>6, <2>1
  <2>2. CASE k - 1 \in 1..m /\ t[k] = w[k - 1]
    <3>1. t[k] \in r..e
      BY <1>7, <2>2
    <3>2. QED
      BY <1>1, <3>1
  <2>3. QED
    BY <1>8, <2>1, <2>2
<1>10. ASSUME NEW k \in 2..Len(t)
       PROVE  tokens[t[k]].kind \notin Blank \cup {"comma"}
  <2>1. k \in 1..Len(t) /\ k # 1
    BY <1>6
  <2>2. k - 1 \in 1..m /\ t[k] = w[k - 1]
    BY <1>8, <2>1
  <2>3. QED
    BY <1>1, <1>4, <1>7, <2>2 DEF m
<1>11. QED
  BY <1>2, <1>4, <1>5, <1>6, <1>9, <1>10 DEF s, r, e, w, t, m

LEMMA WithoutType ==
  ASSUME NEW list, NEW kinds, NEW a \in Nat \ {0}, NEW b \in Nat, a <= b + 1
  PROVE  Without(list, kinds, a, b) \in Seq(Nat)
<1>1. IsRest(list, kinds, Without(list, kinds, a, b), a, b)
  BY WithoutIsRest
<1>2. Without(list, kinds, a, b) \in Seq(a..b)
  BY <1>1 DEF IsRest, IsInOrder
<1>3. a..b \subseteq Nat
  OBVIOUS
<1>4. QED
  BY <1>2, <1>3, SeqMonotonic

LEMMA WithoutSplit ==
  ASSUME NEW list, NEW kinds, NEW a \in Nat \ {0}, NEW b \in Nat,
         NEW c \in Nat \ {0}, a <= c, c <= b + 1
  PROVE  /\ Without(list, kinds, a, b) =
              Joined(Without(list, kinds, a, c - 1), Without(list, kinds, c, b))
         /\ Without(list, kinds, a, c - 1) \in Seq(Nat)
         /\ Without(list, kinds, c, b) \in Seq(Nat)
<1> DEFINE m == c - 1
<1>1. m \in Nat /\ a <= m + 1 /\ m <= b /\ m + 1 = c
  OBVIOUS
<1> HIDE DEF m
<1>2. Without(list, kinds, a, b) =
        Joined(Without(list, kinds, a, m), Without(list, kinds, m + 1, b))
  BY <1>1, WithoutJoin
<1>3. Without(list, kinds, a, m) \in Seq(Nat)
  BY <1>1, WithoutType
<1>4. Without(list, kinds, c, b) \in Seq(Nat)
  BY WithoutType
<1>5. QED
  BY <1>1, <1>2, <1>3, <1>4 DEF m

(* What is read with a line is its own tokens, but for those that stand    *)
(* for nothing.                                                            *)
LEMMA ReadOn ==
  ASSUME IsReading, LineStart <= Len(tokens), tokens[LineStart].kind # "comma"
  PROVE  /\ AfterLine \in (LineStart + 1)..(Len(tokens) + 1)
         /\ Without(tokens, Skipped, 1, AfterLine - 1) =
              Joined(Without(tokens, Skipped, 1, next - 1), LineTokens)
         /\ Without(tokens, Skipped, 1, next - 1) \in Seq(Nat)
<1> DEFINE s == LineStart
           e == LineEnd
           x == AfterLine
           b == x - 1
           n == next
           W(i, j) == Without(tokens, Skipped, i, j)
           w == LineRest
<1>1. /\ n \in Nat \ {0} /\ s \in Nat \ {0} /\ e \in Nat \ {0} /\ s + 1 \in Nat \ {0}
      /\ n <= s /\ s + 1 <= e /\ e <= Len(tokens) + 1 /\ Len(tokens) \in Nat
      /\ \A k \in n..(s - 1) : tokens[k].kind \in Blank
      /\ tokens[s].kind \notin Blank /\ tokens[s].kind # "comma"
      /\ e <= Len(tokens) => tokens[e].kind \in Blank
  BY TheLineIs, LineStartIs, StreamIs DEF IsReading
<1>2. x \in (s + 1)..(Len(tokens) + 1) /\ ((x = e + 1 /\ e <= Len(tokens)) \/ x = e)
  BY <1>1 DEF AfterLine
<1>3. w \in Seq(Nat) /\ LineTokens = Joined(<<s>>, w)
  BY LineTokensAre DEF Joined
<1>4. W(s + 1, e - 1) = w
  BY LineRestIs DEF Skipped
<1> HIDE DEF s, e, x, n, w
<1>5. b \in Nat /\ n <= b + 1 /\ s <= b + 1 /\ s + 1 <= b + 1 /\ e <= b + 1 /\ 1 <= n
      /\ s <= s + 1 /\ x <= e + 1
  BY <1>1, <1>2
<1> HIDE DEF b
<1>6. W(1, b) = Joined(W(1, n - 1), W(n, b)) /\ W(1, n - 1) \in Seq(Nat)
  BY <1>1, <1>5, WithoutSplit
<1>7. W(n, b) = Joined(W(n, s - 1), W(s, b)) /\ W(s, b) \in Seq(Nat)
  BY <1>1, <1>5, WithoutSplit
<1>8. W(n, s - 1) = << >>
  <2> DEFINE c == s - 1
  <2>1. c \in Nat /\ n <= c + 1 /\ \A i \in n..c : tokens[i].kind \in Skipped
    BY <1>1 DEF Skipped, Blank
  <2> HIDE DEF c
  <2>2. W(n, c) = << >>
    BY <1>1, <2>1, WithoutNone
  <2>3. QED
    BY <2>2 DEF c
<1>9. W(s, b) = Joined(<<s>>, W(s + 1, b))
  <2> DEFINE c == s + 1
  <2>0. c - 1 = s /\ s <= s
    BY <1>1
  <2>1. c \in Nat \ {0} /\ s <= c /\ c <= b + 1
    BY <1>1, <1>5
  <2> HIDE DEF c
  <2>2. W(s, b) = Joined(W(s, c - 1), W(c, b))
    BY <1>1, <1>5, <2>1, WithoutSplit
  <2>3. W(s, s - 1) = << >>
    BY <1>1, WithoutStart
  <2>4. tokens[s].kind \notin Skipped
    BY <1>1 DEF Skipped, Blank
  <2>5. W(s, s) = Append(W(s, s - 1), s)
    <3>1. s \in Nat \ {0} /\ s \in Nat /\ s <= s
      BY <1>1, <2>0
    <3>2. QED
      BY <2>4, <3>1, WithoutNext
  <2> HIDE DEF W
  <2>6. W(s, s) = <<s>>
    <3>1. W(s, s) = Append(<< >>, s)
      BY <2>3, <2>5
    <3>2. QED
      BY <3>1
  <2>7. QED
    BY <2>0, <2>2, <2>6 DEF c
<1>10. W(s + 1, b) = Joined(w, W(e, b)) /\ W(e, b) \in Seq(Nat)
  <2> DEFINE c == s + 1
  <2>1. c \in Nat \ {0} /\ c <= e
    BY <1>1
  <2> HIDE DEF c
  <2>2. W(c, b) = Joined(W(c, e - 1), W(e, b)) /\ W(e, b) \in Seq(Nat)
    BY <1>1, <1>5, <2>1, WithoutSplit
  <2>3. QED
    BY <1>4, <2>2 DEF c
<1>11. W(e, b) = << >>
  <2>1. \A i \in e..b : i = e /\ e <= Len(tokens)
    BY <1>1, <1>2 DEF b
  <2>2. \A i \in e..b : tokens[i].kind \in Skipped
    BY <1>1, <2>1 DEF Skipped, Blank
  <2>3. QED
    BY <1>1, <1>5, <2>2, WithoutNone
<1> DEFINE u == W(1, n - 1)
<1> HIDE DEF W
<1>12. W(s + 1, b) = w
  <2>1. W(s + 1, b) = Joined(w, << >>)
    BY <1>10, <1>11
  <2>2. QED
    BY <1>3, <2>1, JoinedIs
<1>13. W(n, b) = LineTokens
  <2>1. W(n, b) = Joined(<< >>, W(s, b))
    BY <1>7, <1>8
  <2>2. W(n, b) = W(s, b)
    BY <1>7, <2>1, JoinedIs
  <2>3. QED
    BY <1>3, <1>9, <1>12, <2>2
<1>14. QED
  BY <1>2, <1>6, <1>13 DEF W, b, n, x, s

-----------------------------------------------------------------------------
(* The parts of a line, written one after the other.                       *)
LEMMA FunctionsJoin ==
  ASSUME NEW f, NEW m \in Nat, NEW n \in Nat
  PROVE  [k \in 1..m |-> f[k]] \o [k \in 1..n |-> f[m + k]] = [k \in 1..(m + n) |-> f[k]]
<1> DEFINE X == {f[k] : k \in 1..(m + n)}
           s == [k \in 1..m |-> f[k]]
           t == [k \in 1..n |-> f[m + k]]
           u == [k \in 1..(m + n) |-> f[k]]
<1>1. \A k \in 1..m : k \in 1..(m + n)
  OBVIOUS
<1>2. \A k \in 1..n : m + k \in 1..(m + n)
  OBVIOUS
<1>3. s \in Seq(X) /\ Len(s) = m /\ \A k \in 1..m : s[k] = f[k]
  BY <1>1
<1>4. t \in Seq(X) /\ Len(t) = n /\ \A k \in 1..n : t[k] = f[m + k]
  BY <1>2
<1>5. u \in Seq(X) /\ Len(u) = m + n /\ \A k \in 1..(m + n) : u[k] = f[k]
  <2>1. m + n \in Nat
    OBVIOUS
  <2>2. QED
    BY <2>1
<1> HIDE DEF X, s, t, u
<1> DEFINE w == s \o t
<1>6. /\ w \in Seq(X) /\ Len(w) = m + n
      /\ \A k \in 1..(m + n) : w[k] = IF k <= m THEN s[k] ELSE t[k - m]
  <2>1. /\ s \o t \in Seq(X) /\ Len(s \o t) = Len(s) + Len(t)
        /\ \A i \in 1..(Len(s) + Len(t)) :
             (s \o t)[i] = IF i <= Len(s) THEN s[i] ELSE t[i - Len(s)]
    BY <1>3, <1>4, ConcatProperties
  <2>2. Len(s) = m /\ Len(t) = n
    BY <1>3, <1>4
  <2>3. QED
    BY <2>1, <2>2
<1> HIDE DEF w
<1>7. \A k \in 1..(m + n) : w[k] = u[k]
  <2> SUFFICES ASSUME NEW k \in 1..(m + n) PROVE w[k] = u[k]
    OBVIOUS
  <2>1. CASE k <= m
    <3>1. k \in 1..m
      BY <2>1
    <3>2. QED
      BY <1>3, <1>5, <1>6, <2>1, <3>1
  <2>2. CASE ~(k <= m)
    <3>1. k - m \in 1..n /\ m + (k - m) = k
      BY <2>2
    <3>2. QED
      BY <1>4, <1>5, <1>6, <2>2, <3>1
  <2>3. QED
    BY <2>1, <2>2
<1>8. w = u
  BY <1>5, <1>6, <1>7, SeqEqual
<1>9. QED
  BY <1>8 DEF w, s, t, u

TokensAt(list, w) == [k \in 1..Len(w) |-> list[w[k]]]

LEMMA TokensJoin ==
  ASSUME NEW list, NEW u \in Seq(Nat), NEW v \in Seq(Nat)
  PROVE  TokensAt(list, Joined(u, v)) = TokensAt(list, u) \o TokensAt(list, v)
<1> DEFINE w == u \o v
           m == Len(u)
           n == Len(v)
           f == [k \in 1..(m + n) |-> list[w[k]]]
<1>1. /\ Len(w) = m + n /\ m \in Nat /\ n \in Nat
      /\ \A k \in 1..(m + n) : w[k] = IF k <= m THEN u[k] ELSE v[k - m]
  BY ConcatProperties
<1> HIDE DEF w, m, n
<1>2. [k \in 1..m |-> f[k]] \o [k \in 1..n |-> f[m + k]] = [k \in 1..(m + n) |-> f[k]]
  <2>1. m \in Nat /\ n \in Nat
    BY <1>1
  <2> HIDE DEF f
  <2>2. QED
    BY <2>1, FunctionsJoin
<1>3. [k \in 1..(m + n) |-> f[k]] = TokensAt(list, w)
  BY <1>1 DEF TokensAt
<1>4. [k \in 1..m |-> f[k]] = TokensAt(list, u)
  <2>1. \A k \in 1..m : k \in 1..(m + n) /\ k <= m
    BY <1>1
  <2>2. \A k \in 1..m : f[k] = list[u[k]]
    BY <1>1, <2>1
  <2> HIDE DEF f
  <2>3. QED
    BY <2>2 DEF TokensAt, m
<1>5. [k \in 1..n |-> f[m + k]] = TokensAt(list, v)
  <2>1. \A k \in 1..n : m + k \in 1..(m + n) /\ ~(m + k <= m) /\ m + k - m = k
    BY <1>1
  <2>2. \A k \in 1..n : f[m + k] = list[v[k]]
    BY <1>1, <2>1
  <2> HIDE DEF f
  <2>3. QED
    BY <2>2 DEF TokensAt, n
<1> HIDE DEF f
<1>6. QED
  BY <1>2, <1>3, <1>4, <1>5 DEF Joined, w

(* The label of a line, and what is behind it.                             *)
LEMMA BodyIs ==
  ASSUME IsReading, LineStart <= Len(tokens)
  PROVE  /\ IsLabelled => Body = LineRest
         /\ ~IsLabelled => Body = LineTokens
         /\ Body \in Seq(Nat)
         /\ \A k \in 1..Len(Body) : Body[k] \in 1..Len(tokens)
<1>1. /\ LineTokens = <<LineStart>> \o LineRest
      /\ LineRest \in Seq(Nat) /\ LineTokens \in Seq(Nat)
      /\ Len(LineTokens) = Len(LineRest) + 1
      /\ \A k \in 1..Len(LineRest) : LineTokens[k + 1] = LineRest[k]
      /\ \A k \in 1..Len(LineTokens) : LineTokens[k] \in 1..Len(tokens)
  BY LineTokensAre
<1>2. CASE ~IsLabelled
  BY <1>1, <1>2 DEF Body
<1>3. CASE IsLabelled
  <2> DEFINE t == LineTokens
             w == LineRest
             n == Len(w)
             u == Tail(t)
  <2>1. /\ t \in Seq(Nat) /\ w \in Seq(Nat) /\ n \in Nat /\ Len(t) = n + 1
        /\ \A k \in 1..n : t[k + 1] = w[k]
        /\ \A k \in 1..(n + 1) : t[k] \in 1..Len(tokens)
    BY <1>1
  <2>2. Body = u
    BY <1>3 DEF Body
  <2> HIDE DEF t, w, n
  <2>3. /\ u \in Seq(Nat) /\ Len(u) = n
        /\ \A k \in 1..n : u[k] = t[k + 1]
    BY <2>1
  <2> HIDE DEF u
  <2>4. \A k \in 1..n : u[k] = w[k]
    BY <2>1, <2>3
  <2>5. u = w
    BY <2>1, <2>3, <2>4, SeqEqual DEF n
  <2>6. \A k \in 1..n : k + 1 \in 1..(n + 1)
    BY <2>1
  <2>7. \A k \in 1..n : u[k] \in 1..Len(tokens)
    BY <2>1, <2>3, <2>6
  <2>8. QED
    BY <1>3, <2>2, <2>3, <2>5, <2>7 DEF w
<1>4. QED
  BY <1>2, <1>3

LabelTokens ==
  [k \in DOMAIN Label |-> [kind |-> "label", value |-> Label[k]]]

LEMMA LabelIs ==
  ASSUME IsReading, LineStart <= Len(tokens)
  PROVE  TokensAt(tokens, LineTokens) = LabelTokens \o TokensAt(tokens, Body)
<1>1. /\ IsLabelled => Body = LineRest
      /\ ~IsLabelled => Body = LineTokens
  BY BodyIs
<1>2. /\ LineRest \in Seq(Nat) /\ LineTokens \in Seq(Nat)
      /\ LineTokens = Joined(<<LineStart>>, LineRest)
  BY LineTokensAre DEF Joined
<1>3. LineStart \in 1..Len(tokens) /\ LineStart \in Nat
  BY TheLineIs, StreamIs DEF IsReading
<1> DEFINE X == {tokens[k] : k \in 1..Len(tokens)}
<1>4. CASE IsLabelled
  <2>1. tokens[LineStart] =
          [kind |-> "label", value |-> tokens[LineStart].value]
    BY <1>3, <1>4, StreamIs DEF IsReading, IsLabelled
  <2>2. Label = <<tokens[LineStart].value>>
    BY <1>4 DEF Label
  <2>3. LabelTokens = [k \in 1..1 |-> [kind |-> "label", value |-> tokens[LineStart].value]]
    BY <2>2 DEF LabelTokens
  <2> DEFINE one == <<LineStart>>
  <2>4. one \in Seq(Nat) /\ Len(one) = 1 /\ one[1] = LineStart
    BY <1>3
  <2> HIDE DEF one
  <2>5. TokensAt(tokens, one) = LabelTokens
    BY <2>1, <2>3, <2>4 DEF TokensAt
  <2>6. TokensAt(tokens, Joined(one, LineRest)) =
          TokensAt(tokens, one) \o TokensAt(tokens, LineRest)
    BY <1>2, <2>4, TokensJoin
  <2>7. QED
    BY <1>1, <1>2, <1>4, <2>5, <2>6 DEF one
<1>5. CASE ~IsLabelled
  <2>1. LabelTokens = << >>
    BY <1>5 DEF Label, LabelTokens
  <2> DEFINE t == TokensAt(tokens, LineTokens)
  <2>2. \A k \in 1..Len(LineTokens) : LineTokens[k] \in 1..Len(tokens)
    BY LineTokensAre
  <2>3. Len(LineTokens) \in Nat
    BY <1>2
  <2>4. t \in Seq(X)
    BY <2>2, <2>3 DEF TokensAt
  <2> HIDE DEF t
  <2>5. << >> \o t = t
    BY <2>4
  <2>6. QED
    BY <1>1, <1>5, <2>1, <2>5 DEF t
<1>6. QED
  BY <1>4, <1>5

(* The parts of a line, which follow one another.                          *)
UpTo(last) == [k \in 1..last |-> Token(k)]

LEMMA PartsJoin ==
  ASSUME NEW a \in Nat, NEW b \in Nat, a <= b
  PROVE  UpTo(a) \o Part(a, b) = UpTo(b)
<1> DEFINE f == UpTo(b)
           n == b - a
<1>1. n \in Nat /\ a + n = b
  OBVIOUS
<1>2. \A k \in 1..a : k \in 1..b
  OBVIOUS
<1>3. \A k \in 1..n : a + k \in 1..b
  OBVIOUS
<1>4. \A k \in 1..b : f[k] = Token(k)
  BY DEF UpTo
<1>5. [k \in 1..a |-> f[k]] = UpTo(a)
  BY <1>2, <1>4 DEF UpTo
<1>6. [k \in 1..n |-> f[a + k]] = Part(a, b)
  <2>1. \A k \in 1..n : f[a + k] = Token(a + k)
    BY <1>3, <1>4
  <2>2. QED
    BY <2>1 DEF Part
<1>7. [k \in 1..b |-> f[k]] = UpTo(b)
  BY <1>4 DEF UpTo
<1> HIDE DEF f, n
<1>8. [k \in 1..a |-> f[k]] \o [k \in 1..n |-> f[a + k]] = [k \in 1..(a + n) |-> f[k]]
  BY <1>1, FunctionsJoin
<1>9. QED
  BY <1>1, <1>5, <1>6, <1>7, <1>8

LEMMA EndsAre ==
  ASSUME IsReading, LineStart <= Len(tokens), Body # << >>
  PROVE  /\ Len(Body) \in Nat \ {0}
         /\ CondEnd \in 1..2 /\ CondEnd <= Len(Body)
         /\ RegsEnd \in CondEnd..(CondEnd + 2) /\ RegsEnd <= Len(Body)
         /\ ImmEnd \in RegsEnd..(RegsEnd + 1) /\ ImmEnd <= Len(Body)
<1>1. Len(Body) \in Nat \ {0}
  BY BodyIs
<1>2. CondEnd \in 1..2 /\ CondEnd <= Len(Body)
  BY <1>1 DEF CondEnd, IsAt
<1>3. RegsEnd \in CondEnd..(CondEnd + 2) /\ RegsEnd <= Len(Body)
  BY <1>1, <1>2 DEF RegsEnd, IsAt
<1>4. ImmEnd \in RegsEnd..(RegsEnd + 1) /\ ImmEnd <= Len(Body)
  BY <1>1, <1>2, <1>3 DEF ImmEnd, IsAt
<1>5. QED
  BY <1>1, <1>2, <1>3, <1>4

LEMMA AcceptedIs ==
  ASSUME IsReading, LineStart <= Len(tokens), LineError = NONE
  PROVE  /\ Body # << >>
         /\ tokens[LineStart].kind # "comma"
         /\ \/ IsAt(1, {"directive"}) /\ ~IsAt(1, {"id"}) /\ Token(1).value \in DirectiveNames
            \/ IsAt(1, {"id"}) /\ ~IsAt(1, {"directive"}) /\ ImmEnd = Len(Body)
<1>1. Body # << >>
  BY DEF LineError, NONE
<1>2. /\ Len(Body) \in Nat \ {0} /\ ImmEnd \in Nat /\ ImmEnd <= Len(Body)
  BY <1>1, EndsAre
<1>3. \/ IsAt(1, {"directive"}) /\ ~IsAt(1, {"id"}) /\ Token(1).value \in DirectiveNames
      \/ IsAt(1, {"id"}) /\ ~IsAt(1, {"directive"}) /\ Trailing = 0
  <2>1. IsAt(1, {"directive"}) => ~IsAt(1, {"id"}) /\ Token(1).value \in DirectiveNames
    BY <1>1 DEF LineError, NONE, IsAt
  <2>2. ~IsAt(1, {"directive"}) => IsAt(1, {"id"}) /\ Trailing = 0
    BY <1>1 DEF LineError, NONE
  <2>3. QED
    BY <2>1, <2>2
<1>4. Trailing = 0 => ImmEnd = Len(Body)
  BY <1>2 DEF Trailing
<1>5. tokens[LineStart].kind # "comma"
  <2>1. CASE IsLabelled
    BY <2>1 DEF IsLabelled
  <2>2. CASE ~IsLabelled
    <3>1. Body[1] = LineStart
      BY <2>2, BodyIs, LineTokensAre
    <3>2. QED
      BY <1>3, <3>1 DEF IsAt, Token
  <2>3. QED
    BY <2>1, <2>2
<1>6. QED
  BY <1>1, <1>3, <1>4, <1>5

(* A line that is read and written again is its tokens.                    *)
LEMMA WrittenIs ==
  ASSUME IsReading, LineStart <= Len(tokens), LineError = NONE
  PROVE  /\ IsAt(1, {"id"}) => Written(Statement) = TokensAt(tokens, LineTokens)
         /\ IsAt(1, {"directive"}) => Written(Directive) = TokensAt(tokens, LineTokens)
<1> DEFINE n == Len(Body)
<1>1. /\ n \in Nat \ {0}
      /\ CondEnd \in Nat /\ RegsEnd \in Nat /\ ImmEnd \in Nat
      /\ 1 <= CondEnd /\ CondEnd <= RegsEnd /\ RegsEnd <= ImmEnd /\ ImmEnd <= n
      /\ IsAt(1, {"id"}) => ImmEnd = n
  BY AcceptedIs, EndsAre
<1>2. UpTo(1) = <<Token(1)>>
  BY DEF UpTo
<1>3. TokensAt(tokens, LineTokens) = LabelTokens \o UpTo(n)
  BY LabelIs DEF TokensAt, UpTo, Token
<1> HIDE DEF n
<1>4. UpTo(1) \o Part(1, CondEnd) = UpTo(CondEnd)
  BY <1>1, PartsJoin
<1>5. UpTo(CondEnd) \o Part(CondEnd, RegsEnd) = UpTo(RegsEnd)
  BY <1>1, PartsJoin
<1>6. UpTo(RegsEnd) \o Part(RegsEnd, ImmEnd) = UpTo(ImmEnd)
  BY <1>1, PartsJoin
<1>7. ASSUME IsAt(1, {"id"})
      PROVE  Written(Statement) = TokensAt(tokens, LineTokens)
  <2>1. Written(Statement) =
          LabelTokens \o (UpTo(1) \o Part(1, CondEnd) \o Part(CondEnd, RegsEnd) \o Part(RegsEnd, ImmEnd))
    BY <1>2 DEF Written, Statement, LabelTokens
  <2>2. QED
    BY <1>1, <1>3, <1>4, <1>5, <1>6, <1>7, <2>1
<1>8. ASSUME IsAt(1, {"directive"})
      PROVE  Written(Directive) = TokensAt(tokens, LineTokens)
  <2>1. Written(Directive) = LabelTokens \o (UpTo(1) \o Part(1, n))
    BY <1>2 DEF Written, Directive, LabelTokens, n
  <2>2. UpTo(1) \o Part(1, n) = UpTo(n)
    <3>1. n \in Nat /\ 1 \in Nat /\ 1 <= n
      BY <1>1
    <3>2. QED
      BY <3>1, PartsJoin
  <2>3. QED
    BY <1>3, <2>1, <2>2
<1>9. QED
  BY <1>7, <1>8

-----------------------------------------------------------------------------
(* What was read is the tokens in front of the next one.                   *)
Lines(made) == [i \in 1..Len(made) |-> Written(made[i])]

Reads(list, n, made) ==
  FlattenSeq(Lines(made)) = TokensAt(list, Without(list, Skipped, 1, n - 1))

ParseInv ==
  /\ IsReading
  /\ IsList(lines)
  /\ tokens = << >> => next = 1 /\ lines = << >>
  /\ Reads(tokens, next, lines)

LEMMA NoneLostFollows == ParseInv => NoTokenLost
<1> SUFFICES ASSUME ParseInv
             PROVE  NoTokenLost
  OBVIOUS
<1> DEFINE K == {"comma", "comment", "newline"}
           m == next - 1
           w == Without(tokens, K, 1, m)
<1>1. m \in Nat /\ 1 \in Nat \ {0} /\ 1 <= m + 1
  BY StreamIs DEF ParseInv, IsReading
<1>2. FlattenSeq(Lines(lines)) = TokensAt(tokens, w)
  BY DEF ParseInv, Reads, Skipped
<1> HIDE DEF m
<1>3. w \in Seq(Nat)
  <2> HIDE DEF K
  <2>1. QED
    BY <1>1, WithoutType
<1> HIDE DEF w
<1>4. DOMAIN w = 1..Len(w)
  BY <1>3
<1>5. FlattenSeq(Lines(lines)) = [k \in DOMAIN w |-> tokens[w[k]]]
  BY <1>2, <1>4 DEF TokensAt
<1>6. QED
  BY <1>5 DEF NoTokenLost, Lines, w, m, K

(* A line more, which is its tokens.                                       *)
LEMMA LineIsAdded ==
  ASSUME IsReading, IsList(lines), Reads(tokens, next, lines),
         LineStart <= Len(tokens), tokens[LineStart].kind # "comma",
         NEW entry, Written(entry) = TokensAt(tokens, LineTokens)
  PROVE  Reads(tokens, AfterLine, Append(lines, entry))
<1> DEFINE n == Len(lines)
           s == Lines(lines)
           t == Written(entry)
           X == {s[i] : i \in 1..n} \cup {t}
           u == Without(tokens, Skipped, 1, next - 1)
           v == LineTokens
<1>1. /\ n \in Nat /\ Len(Append(lines, entry)) = n + 1
      /\ \A i \in 1..n : Append(lines, entry)[i] = lines[i]
      /\ Append(lines, entry)[n + 1] = entry
  BY AppendToList
<1>2. u \in Seq(Nat) /\ v \in Seq(Nat)
  BY ReadOn, LineTokensAre
<1>3. Without(tokens, Skipped, 1, AfterLine - 1) = Joined(u, v)
  BY ReadOn
<1>4. FlattenSeq(s) = TokensAt(tokens, u) /\ t = TokensAt(tokens, v)
  BY DEF Reads
<1>5. s \in Seq(X) /\ t \in X /\ Len(s) = n
  <2>1. \A i \in 1..n : s[i] \in X
    BY <1>1
  <2>2. s = [i \in 1..n |-> s[i]]
    BY DEF Lines
  <2>3. QED
    BY <1>1, <2>1, <2>2
<1>6. Lines(Append(lines, entry)) = Append(s, t)
  <2> DEFINE x == Lines(Append(lines, entry))
             y == Append(s, t)
  <2>1. y \in Seq(X) /\ Len(y) = n + 1 /\ y[n + 1] = t /\ \A i \in 1..n : y[i] = s[i]
    BY <1>5, AppendProperties
  <2>2. \A i \in 1..n : s[i] = Written(lines[i])
    BY DEF Lines
  <2>3. x = [i \in 1..(n + 1) |-> IF i = n + 1 THEN t ELSE s[i]]
    <3>1. \A i \in 1..(n + 1) : i # n + 1 => i \in 1..n
      BY <1>1
    <3>2. QED
      BY <1>1, <2>2, <3>1 DEF Lines
  <2>4. x \in Seq(X) /\ Len(x) = n + 1
    <3>1. \A i \in 1..(n + 1) : i # n + 1 => i \in 1..n
      BY <1>1
    <3>2. \A i \in 1..(n + 1) : (IF i = n + 1 THEN t ELSE s[i]) \in X
      BY <3>1
    <3> HIDE DEF x, X, s, t
    <3>3. QED
      BY <1>1, <2>3, <3>2
  <2> HIDE DEF y, X
  <2>5. \A i \in 1..(n + 1) : x[i] = y[i]
    <3>1. \A i \in 1..(n + 1) : i # n + 1 => i \in 1..n
      BY <1>1
    <3>2. \A i \in 1..(n + 1) : x[i] = IF i = n + 1 THEN t ELSE s[i]
      BY <2>3
    <3> HIDE DEF x, s, t
    <3>3. QED
      BY <2>1, <3>1, <3>2
  <2> HIDE DEF x
  <2>6. x = y
    BY <2>1, <2>4, <2>5, SeqEqual
  <2>7. QED
    BY <2>6 DEF x, y
<1>7. Len(v) \in Nat /\ Len(u) \in Nat
  BY <1>2
<1>8. PICK S : t \in Seq(S)
  <2>1. t \in Seq({tokens[v[k]] : k \in 1..Len(v)})
    BY <1>4, <1>7 DEF TokensAt
  <2>2. QED
    BY <2>1
<1> HIDE DEF n, s, t, X, u, v
<1>9. /\ FlattenSeq(<< >>) = << >>
      /\ s = << >> => FlattenSeq(Append(s, t)) = t
      /\ s # << >> => FlattenSeq(Append(s, t)) = FlattenSeq(s) \o t
  BY <1>5, <1>8, FlattenAppend
<1>10. TokensAt(tokens, Joined(u, v)) = TokensAt(tokens, u) \o TokensAt(tokens, v)
  BY <1>2, TokensJoin
<1>11. s = << >> => << >> \o t = t
  BY <1>8
<1>12. FlattenSeq(Append(s, t)) = TokensAt(tokens, Joined(u, v))
  BY <1>4, <1>9, <1>10, <1>11
<1>13. QED
  BY <1>3, <1>6, <1>12 DEF Reads

LEMMA LineGoesOn ==
  ASSUME ParseInv, LineStart <= Len(tokens), LineError = NONE, NEW entry,
         Written(entry) = TokensAt(tokens, LineTokens), AddLine(entry)
  PROVE  ParseInv'
<1>1. IsReading /\ IsList(lines) /\ Reads(tokens, next, lines)
  BY DEF ParseInv
<1>2. tokens[LineStart].kind # "comma"
  BY <1>1, AcceptedIs
<1>3. tokens' = tokens /\ next' = AfterLine /\ lines' = Append(lines, entry)
  BY DEF AddLine, AfterLine
<1>4. Reads(tokens, AfterLine, Append(lines, entry))
  BY <1>1, <1>2, LineIsAdded
<1>5. AfterLine \in (LineStart + 1)..(Len(tokens) + 1)
  BY <1>1, <1>2, ReadOn
<1>6. LineStart \in 1..Len(tokens) /\ Len(tokens) \in Nat
  BY <1>1, TheLineIs, StreamIs DEF IsReading
<1>7. tokens # << >>
  BY <1>6
<1>8. IsReading'
  <2>1. IsStream'
    BY <1>1, <1>3 DEF IsReading, IsStream
  <2>2. AfterLine \in 1..(Len(tokens) + 1)
    BY <1>5, <1>6
  <2>3. next' \in 1..(Len(tokens') + 1)
    BY <1>3, <2>2
  <2>4. QED
    BY <2>1, <2>3 DEF IsReading
<1>9. IsList(lines')
  BY <1>1, <1>3, AppendToList
<1>10. Reads(tokens', next', lines')
  BY <1>3, <1>4
<1>11. QED
  BY <1>3, <1>7, <1>8, <1>9, <1>10 DEF ParseInv, IsReading, IsStream, IsList

LEMMA ParserKeeps == ParseInv /\ [ParserNext]_parserVars => ParseInv'
<1> SUFFICES ASSUME ParseInv, [ParserNext]_parserVars
             PROVE  ParseInv'
  OBVIOUS
<1>1. IsReading
  BY DEF ParseInv
<1>2. CASE ParseStatement
  BY <1>1, <1>2, WrittenIs, LineGoesOn DEF ParseStatement, Parsing
<1>3. CASE ParseDirective
  BY <1>1, <1>3, WrittenIs, LineGoesOn DEF ParseDirective, Parsing
<1>4. CASE RejectLine \/ UNCHANGED parserVars
  <2>1. tokens' = tokens /\ next' = next /\ lines' = lines
    BY <1>4 DEF RejectLine, parserVars
  <2>2. QED
    BY <2>1 DEF ParseInv, IsReading, IsStream, IsList, Reads
<1>5. QED
  BY <1>2, <1>3, <1>4 DEF ParserNext

LEMMA NothingRead ==
  ASSUME NEW list
  PROVE  Reads(list, 1, << >>)
<1> DEFINE m == 0
<1>1. Without(list, Skipped, 1, m) = << >>
  <2>1. m + 1 = 1
    OBVIOUS
  <2>2. Without(list, Skipped, 1, 1 - 1) = << >>
    BY WithoutStart
  <2>3. QED
    BY <2>2
<1>2. TokensAt(list, << >>) = << >>
  BY DEF TokensAt
<1>3. Lines(<< >>) = << >>
  BY DEF Lines
<1>4. FlattenSeq(<< >>) = << >>
  <2>1. << >> \in Seq({<< >>}) /\ << >> \in {<< >>} /\ << >> \in Seq({1})
    OBVIOUS
  <2>2. QED
    BY <2>1, FlattenAppend
<1>5. 1 - 1 = m
  OBVIOUS
<1> HIDE DEF m
<1>6. QED
  BY <1>1, <1>2, <1>3, <1>4, <1>5 DEF Reads

LEMMA ParserBegins == ParserInit => ParseInv
<1> SUFFICES ASSUME ParserInit
             PROVE  ParseInv
  OBVIOUS
<1>1. tokens = << >> /\ next = 1 /\ lines = << >>
  BY DEF ParserInit
<1>2. tokens \in Seq([kind : Kinds, value : Nat])
  BY <1>1
<1>3. IsReading
  BY <1>1, <1>2 DEF IsReading, IsStream
<1>4. IsList(lines)
  <2>1. lines \in Seq(Nat)
    BY <1>1
  <2>2. QED
    BY <2>1 DEF IsList
<1>5. Reads(tokens, next, lines)
  BY <1>1, NothingRead
<1>6. QED
  BY <1>1, <1>3, <1>4, <1>5 DEF ParseInv

-----------------------------------------------------------------------------
(* The shapes of a statement, place by place: c condition codes, r         *)
(* registers and i immediates behind the name.                             *)
IsShape(f, c, r, i) ==
  /\ c \in 0..1 /\ r \in 0..2 /\ i \in 0..1
  /\ f[1] = "id"
  /\ c = 1 => f[2] = "id"
  /\ r >= 1 => f[c + 2] = "register"
  /\ r = 2 => f[c + 3] = "register"
  /\ i = 1 => f[c + r + 2] \in Immediates

Conds == {<< >>, <<"id">>}
Regs  == {<< >>, <<"register">>, <<"register", "register">>}
Imms  == {<< >>} \cup {<<kind>> : kind \in Immediates}

LEMMA ShapesAre ==
  /\ \A s \in StatementShapes :
       \E cond \in Conds, regs \in Regs, imm \in Imms :
         s = <<"id">> \o cond \o regs \o imm
  /\ \A cond \in Conds, regs \in Regs, imm \in Imms :
       <<"id">> \o cond \o regs \o imm \in StatementShapes
<1> DEFINE J(cond, regs, imm) == <<"id">> \o cond \o regs \o imm
<1>1. StatementShapes =
        {J(cond, regs, imm) : cond \in Conds, regs \in Regs, imm \in Imms}
  BY DEF StatementShapes, Conds, Regs, Imms
<1> HIDE DEF J
<1>2. /\ \A s \in StatementShapes :
           \E cond \in Conds, regs \in Regs, imm \in Imms : s = J(cond, regs, imm)
      /\ \A cond \in Conds, regs \in Regs, imm \in Imms :
           J(cond, regs, imm) \in StatementShapes
  BY <1>1, SMT
<1>3. QED
  BY <1>2 DEF J

LEMMA OneKind ==
  ASSUME NEW x \in Kinds
  PROVE  <<x>> \in Seq(Kinds) /\ Len(<<x>>) = 1 /\ <<x>>[1] = x
  OBVIOUS

LEMMA TwoKinds ==
  ASSUME NEW x \in Kinds, NEW y \in Kinds
  PROVE  /\ <<x, y>> \in Seq(Kinds) /\ Len(<<x, y>>) = 2
         /\ <<x, y>>[1] = x /\ <<x, y>>[2] = y
  OBVIOUS

LEMMA NoKinds == << >> \in Seq(Kinds) /\ Len(<< >>) = 0
  OBVIOUS

LEMMA ShapeIs ==
  ASSUME NEW s \in StatementShapes
  PROVE  /\ s \in Seq(Kinds)
         /\ \E c, r, i : IsShape(s, c, r, i) /\ Len(s) = 1 + c + r + i
<1>0. {"id", "register"} \cup Immediates \subseteq Kinds
  BY DEF Kinds, Immediates
<1>1. PICK cond \in Conds, regs \in Regs, imm \in Imms :
             s = <<"id">> \o cond \o regs \o imm
  BY ShapesAre
<1> DEFINE c == Len(cond)
           r == Len(regs)
           i == Len(imm)
           one == <<"id">>
           u == one \o cond
           v == u \o regs
           w == v \o imm
<1>5. one \in Seq(Kinds) /\ Len(one) = 1 /\ one[1] = "id"
  BY <1>0, OneKind
<1>2. cond \in Seq(Kinds) /\ c \in 0..1 /\ (c = 1 => cond[1] = "id")
  <2>1. cond = << >> \/ cond = <<"id">>
    BY DEF Conds
  <2>2. CASE cond = << >>
    BY <2>2, NoKinds
  <2>3. CASE cond = <<"id">>
    BY <1>0, <2>3, OneKind
  <2>4. QED
    BY <2>1, <2>2, <2>3
<1>3. /\ regs \in Seq(Kinds) /\ r \in 0..2
      /\ (r >= 1 => regs[1] = "register") /\ (r = 2 => regs[2] = "register")
  <2>1. regs = << >> \/ regs = <<"register">> \/ regs = <<"register", "register">>
    BY DEF Regs
  <2>2. CASE regs = << >>
    BY <2>2, NoKinds
  <2>3. CASE regs = <<"register">>
    BY <1>0, <2>3, OneKind
  <2>4. CASE regs = <<"register", "register">>
    BY <1>0, <2>4, TwoKinds
  <2>5. QED
    BY <2>1, <2>2, <2>3, <2>4
<1>4. imm \in Seq(Kinds) /\ i \in 0..1 /\ (i = 1 => imm[1] \in Immediates)
  <2>1. CASE imm = << >>
    BY <2>1, NoKinds
  <2>2. CASE imm # << >>
    <3>1. PICK kind \in Immediates : imm = <<kind>>
      BY <2>2 DEF Imms
    <3>2. QED
      BY <1>0, <3>1, OneKind
  <2>3. QED
    BY <2>1, <2>2
<1>6. s = w
  BY <1>1
<1> HIDE DEF one, c, r, i
<1>7. /\ u \in Seq(Kinds) /\ Len(u) = 1 + c
      /\ \A k \in 1..(1 + c) : u[k] = IF k <= 1 THEN one[k] ELSE cond[k - 1]
  <2>1. /\ one \o cond \in Seq(Kinds) /\ Len(one \o cond) = Len(one) + Len(cond)
        /\ \A k \in 1..(Len(one) + Len(cond)) :
             (one \o cond)[k] = IF k <= Len(one) THEN one[k] ELSE cond[k - Len(one)]
    BY <1>2, <1>5, ConcatProperties
  <2>2. QED
    BY <1>5, <2>1 DEF c
<1> HIDE DEF u
<1>8. /\ v \in Seq(Kinds) /\ Len(v) = 1 + c + r
      /\ \A k \in 1..(1 + c + r) : v[k] = IF k <= 1 + c THEN u[k] ELSE regs[k - (1 + c)]
  <2>1. /\ u \o regs \in Seq(Kinds) /\ Len(u \o regs) = Len(u) + Len(regs)
        /\ \A k \in 1..(Len(u) + Len(regs)) :
             (u \o regs)[k] = IF k <= Len(u) THEN u[k] ELSE regs[k - Len(u)]
    BY <1>3, <1>7, ConcatProperties
  <2>2. QED
    BY <1>7, <2>1 DEF r
<1> HIDE DEF v
<1>9. /\ w \in Seq(Kinds) /\ Len(w) = 1 + c + r + i
      /\ \A k \in 1..(1 + c + r + i) :
           w[k] = IF k <= 1 + c + r THEN v[k] ELSE imm[k - (1 + c + r)]
  <2>1. /\ v \o imm \in Seq(Kinds) /\ Len(v \o imm) = Len(v) + Len(imm)
        /\ \A k \in 1..(Len(v) + Len(imm)) :
             (v \o imm)[k] = IF k <= Len(v) THEN v[k] ELSE imm[k - Len(v)]
    BY <1>4, <1>8, ConcatProperties
  <2>2. QED
    BY <1>8, <2>1 DEF i
<1> HIDE DEF w
<1>10. w[1] = "id"
  BY <1>2, <1>3, <1>4, <1>5, <1>7, <1>8, <1>9
<1>11. c = 1 => w[2] = "id"
  BY <1>2, <1>3, <1>4, <1>7, <1>8, <1>9
<1>12. /\ r >= 1 => w[c + 2] = "register"
       /\ r = 2 => w[c + 3] = "register"
  <2>1. ASSUME NEW k \in 1..r
        PROVE  w[1 + c + k] = regs[k]
    <3> DEFINE m == 1 + c + k
    <3>1. m \in 1..(1 + c + r) /\ ~(m <= 1 + c) /\ m - (1 + c) = k
      BY <1>2, <1>3
    <3>2. m \in 1..(1 + c + r + i) /\ m <= 1 + c + r
      BY <1>2, <1>3, <1>4
    <3> HIDE DEF m
    <3>3. w[m] = v[m] /\ v[m] = regs[k]
      BY <1>8, <1>9, <3>1, <3>2
    <3>4. QED
      BY <3>3 DEF m
  <2>2. ASSUME r >= 1
        PROVE  w[c + 2] = "register"
    <3>1. 1 \in 1..r /\ 1 + c + 1 = c + 2
      BY <1>2, <1>3, <2>2
    <3>2. QED
      BY <1>3, <2>1, <2>2, <3>1
  <2>3. ASSUME r = 2
        PROVE  w[c + 3] = "register"
    <3>1. 2 \in 1..r /\ 1 + c + 2 = c + 3
      BY <1>2, <1>3, <2>3
    <3>2. QED
      BY <1>3, <2>1, <2>3, <3>1
  <2>4. QED
    BY <2>2, <2>3
<1>13. i = 1 => w[c + r + 2] \in Immediates
  BY <1>2, <1>3, <1>4, <1>9
<1>14. IsShape(w, c, r, i)
  BY <1>2, <1>3, <1>4, <1>10, <1>11, <1>12, <1>13 DEF IsShape
<1>15. QED
  BY <1>6, <1>9, <1>14

LEMMA ShapeMade ==
  ASSUME NEW f, NEW c, NEW r, NEW i, IsShape(f, c, r, i)
  PROVE  [k \in 1..(1 + c + r + i) |-> f[k]] \in StatementShapes
<1>1. c \in 0..1 /\ r \in 0..2 /\ i \in 0..1
  BY DEF IsShape
<1> DEFINE one  == [k \in 1..1 |-> f[k]]
           cond == [k \in 1..c |-> f[1 + k]]
           u    == [k \in 1..(1 + c) |-> f[k]]
           regs == [k \in 1..r |-> f[1 + c + k]]
           v    == [k \in 1..(1 + c + r) |-> f[k]]
           imm  == [k \in 1..i |-> f[1 + c + r + k]]
           w    == [k \in 1..(1 + c + r + i) |-> f[k]]
<1>2. one \o cond = u
  BY <1>1, FunctionsJoin
<1>3. u \o regs = v
  BY <1>1, FunctionsJoin
<1>4. v \o imm = w
  BY <1>1, FunctionsJoin
<1>5. one = <<"id">>
  BY DEF IsShape
<1>6. cond \in Conds
  <2>1. CASE c = 0
    BY <2>1 DEF Conds
  <2>2. CASE c = 1
    <3>1. f[1 + 1] = "id"
      BY <2>2 DEF IsShape
    <3>2. QED
      BY <2>2, <3>1 DEF Conds
  <2>3. QED
    BY <1>1, <2>1, <2>2
<1>7. regs \in Regs
  <2>1. CASE r = 0
    BY <2>1 DEF Regs
  <2>2. CASE r = 1
    <3>1. f[1 + c + 1] = "register"
      BY <1>1, <2>2 DEF IsShape
    <3>2. \A k \in 1..1 : f[1 + c + k] = "register"
      BY <3>1
    <3>3. regs = [k \in 1..1 |-> "register"]
      BY <2>2, <3>2
    <3>4. QED
      BY <3>3 DEF Regs
  <2>3. CASE r = 2
    <3>1. f[1 + c + 1] = "register" /\ f[1 + c + 2] = "register"
      BY <1>1, <2>3 DEF IsShape
    <3>2. \A k \in 1..2 : f[1 + c + k] = "register"
      BY <3>1
    <3>3. regs = [k \in 1..2 |-> "register"]
      BY <2>3, <3>2
    <3>4. QED
      BY <3>3 DEF Regs
  <2>4. QED
    BY <1>1, <2>1, <2>2, <2>3
<1>8. imm \in Imms
  <2>1. CASE i = 0
    BY <2>1 DEF Imms
  <2>2. CASE i = 1
    <3>1. PICK kind \in Immediates : f[1 + c + r + 1] = kind
      BY <1>1, <2>2 DEF IsShape
    <3>2. \A k \in 1..1 : f[1 + c + r + k] = kind
      BY <3>1
    <3>3. imm = [k \in 1..1 |-> kind]
      BY <2>2, <3>2
    <3>4. imm = <<kind>>
      BY <3>3
    <3>5. QED
      BY <3>4 DEF Imms
  <2>3. QED
    BY <1>1, <2>1, <2>2
<1> HIDE DEF one, cond, u, regs, v, imm, w
<1>9. w = <<"id">> \o cond \o regs \o imm
  BY <1>2, <1>3, <1>4, <1>5
<1>10. w \in StatementShapes
  BY <1>6, <1>7, <1>8, <1>9, ShapesAre
<1>11. QED
  BY <1>10 DEF w

(* What the parser takes of a line has a shape of the grammar, and with    *)
(* the token behind that no line of it begins.                             *)
KindsUpTo(last) == [k \in 1..last |-> Token(k).kind]

EndsHave ==
  /\ CondEnd = 2 => Token(2).kind = "id"
  /\ CondEnd = 1 => 2 > Len(Body) \/ Token(2).kind # "id"
  /\ \/ RegsEnd = CondEnd
        /\ (CondEnd + 1 > Len(Body) \/ Token(CondEnd + 1).kind # "register")
     \/ RegsEnd = CondEnd + 1 /\ Token(CondEnd + 1).kind = "register"
        /\ (CondEnd + 2 > Len(Body) \/ Token(CondEnd + 2).kind # "register")
     \/ RegsEnd = CondEnd + 2 /\ Token(CondEnd + 1).kind = "register"
        /\ Token(CondEnd + 2).kind = "register"
  /\ ImmEnd = RegsEnd + 1 => Token(RegsEnd + 1).kind \in Immediates
  /\ ImmEnd = RegsEnd =>
       RegsEnd + 1 > Len(Body) \/ Token(RegsEnd + 1).kind \notin Immediates

LEMMA EndsHaveIs ==
  ASSUME IsReading, LineStart <= Len(tokens), Body # << >>
  PROVE  EndsHave
<1>1. /\ Len(Body) \in Nat \ {0}
      /\ CondEnd \in 1..2 /\ CondEnd <= Len(Body)
      /\ RegsEnd \in CondEnd..(CondEnd + 2) /\ RegsEnd <= Len(Body)
      /\ ImmEnd \in RegsEnd..(RegsEnd + 1) /\ ImmEnd <= Len(Body)
  BY EndsAre
<1>2. /\ CondEnd = 2 => Token(2).kind = "id"
      /\ CondEnd = 1 => 2 > Len(Body) \/ Token(2).kind # "id"
  BY <1>1 DEF CondEnd, IsAt
<1>3. \/ RegsEnd = CondEnd
         /\ (CondEnd + 1 > Len(Body) \/ Token(CondEnd + 1).kind # "register")
      \/ RegsEnd = CondEnd + 1 /\ Token(CondEnd + 1).kind = "register"
         /\ (CondEnd + 2 > Len(Body) \/ Token(CondEnd + 2).kind # "register")
      \/ RegsEnd = CondEnd + 2 /\ Token(CondEnd + 1).kind = "register"
         /\ Token(CondEnd + 2).kind = "register"
  BY <1>1 DEF RegsEnd, IsAt
<1>4. /\ ImmEnd = RegsEnd + 1 => Token(RegsEnd + 1).kind \in Immediates
      /\ ImmEnd = RegsEnd =>
           RegsEnd + 1 > Len(Body) \/ Token(RegsEnd + 1).kind \notin Immediates
  BY <1>1 DEF ImmEnd, IsAt
<1>5. QED
  BY <1>2, <1>3, <1>4 DEF EndsHave

LEMMA TakenFits ==
  ASSUME IsReading, LineStart <= Len(tokens), IsAt(1, {"id"})
  PROVE  KindsUpTo(ImmEnd) \in StatementShapes
<1> DEFINE n == Len(Body)
           f == KindsUpTo(n)
           c == CondEnd - 1
           r == RegsEnd - CondEnd
           i == ImmEnd - RegsEnd
<1>1. Body # << >>
  BY DEF IsAt
<1>2. /\ n \in Nat \ {0}
      /\ CondEnd \in 1..2 /\ CondEnd <= n
      /\ RegsEnd \in CondEnd..(CondEnd + 2) /\ RegsEnd <= n
      /\ ImmEnd \in RegsEnd..(RegsEnd + 1) /\ ImmEnd <= n
  BY <1>1, EndsAre
<1>3. EndsHave
  BY <1>1, EndsHaveIs
<1>4. \A k \in 1..n : f[k] = Token(k).kind
  BY DEF KindsUpTo
<1>5. Token(1).kind = "id"
  BY DEF IsAt
<1> HIDE DEF n, f
<1>6. c \in 0..1 /\ r \in 0..2 /\ i \in 0..1
  BY <1>2
<1>7. f[1] = "id"
  BY <1>2, <1>4, <1>5
<1>8. c = 1 => f[2] = "id"
  BY <1>2, <1>3, <1>4 DEF EndsHave
<1>9. r >= 1 => f[c + 2] = "register"
  <2>1. r >= 1 => CondEnd + 1 \in 1..n /\ c + 2 = CondEnd + 1 /\ RegsEnd # CondEnd
    BY <1>2
  <2>2. QED
    BY <1>3, <1>4, <2>1 DEF EndsHave
<1>10. r = 2 => f[c + 3] = "register"
  <2>1. r = 2 => CondEnd + 2 \in 1..n /\ c + 3 = CondEnd + 2 /\ RegsEnd = CondEnd + 2
    BY <1>2
  <2>2. QED
    BY <1>2, <1>3, <1>4, <2>1 DEF EndsHave
<1>11. i = 1 => f[c + r + 2] \in Immediates
  <2>1. i = 1 => RegsEnd + 1 \in 1..n /\ c + r + 2 = RegsEnd + 1 /\ ImmEnd = RegsEnd + 1
    BY <1>2
  <2>2. QED
    BY <1>3, <1>4, <2>1 DEF EndsHave
<1>12. 1 + c + r + i = ImmEnd
  BY <1>2
<1> HIDE DEF c, r, i
<1>13. [k \in 1..(1 + c + r + i) |-> f[k]] \in StatementShapes
  BY <1>6, <1>7, <1>8, <1>9, <1>10, <1>11, ShapeMade DEF IsShape
<1>14. [k \in 1..ImmEnd |-> f[k]] = KindsUpTo(ImmEnd)
  <2>1. \A k \in 1..ImmEnd : f[k] = Token(k).kind
    BY <1>2, <1>4
  <2>2. QED
    BY <2>1 DEF KindsUpTo
<1>15. QED
  BY <1>12, <1>13, <1>14

LEMMA NoMoreFits ==
  ASSUME IsReading, LineStart <= Len(tokens), IsAt(1, {"id"}), ImmEnd < Len(Body),
         NEW s \in StatementShapes, Len(s) > ImmEnd,
         \A k \in 1..(ImmEnd + 1) : s[k] = Token(k).kind
  PROVE  FALSE
<1> DEFINE n == Len(Body)
           C == CondEnd
           R == RegsEnd
           I == ImmEnd
<1>1. Body # << >>
  BY DEF IsAt
<1>2. /\ n \in Nat \ {0} /\ C \in 1..2 /\ R \in C..(C + 2) /\ I \in R..(R + 1) /\ I + 1 <= n
  BY <1>1, EndsAre
<1>3. EndsHave
  BY <1>1, EndsHaveIs
<1>4. PICK c, r, i : IsShape(s, c, r, i) /\ Len(s) = 1 + c + r + i
  BY ShapeIs
<1>5. \A k \in 1..(I + 1) : s[k] = Token(k).kind
  OBVIOUS
<1>6. 1 + c + r + i >= I + 1 /\ c \in 0..1 /\ r \in 0..2 /\ i \in 0..1
  BY <1>2, <1>4 DEF IsShape
<1>7. /\ C = 2 => Token(2).kind = "id"
      /\ C = 1 => Token(2).kind # "id"
      /\ \/ R = C /\ Token(C + 1).kind # "register"
         \/ R = C + 1 /\ Token(C + 1).kind = "register" /\ Token(C + 2).kind # "register"
         \/ R = C + 2 /\ Token(C + 1).kind = "register" /\ Token(C + 2).kind = "register"
      /\ I = R => Token(R + 1).kind \notin Immediates
  BY <1>2, <1>3 DEF EndsHave
<1> HIDE DEF n, C, R, I
<1>8. {"id", "register"} \cap Immediates = {}
  BY DEF Immediates
<1>9. 2 \in 1..(I + 1) /\ C + 1 \in 1..(I + 1)
  BY <1>2
<1>10. /\ c = 1 => s[2] = "id"
       /\ c = 0 /\ r = 0 => i = 1 /\ s[2] \in Immediates
       /\ c = 0 /\ r >= 1 => s[2] = "register"
  BY <1>2, <1>4, <1>6 DEF IsShape
<1>11. c = C - 1
  BY <1>2, <1>5, <1>6, <1>7, <1>8, <1>9, <1>10
<1>12. /\ r >= 1 => s[C + 1] = "register"
       /\ r = 2 => s[C + 2] = "register"
       /\ r = 0 /\ i = 1 => s[C + 1] \in Immediates
       /\ r = 1 /\ i = 1 => s[C + 2] \in Immediates
       /\ i = 1 => s[C + r + 1] \in Immediates
  <2>1. c + 2 = C + 1 /\ c + 3 = C + 2 /\ c + r + 2 = C + r + 1
    BY <1>2, <1>6, <1>11
  <2>2. /\ r >= 1 => s[c + 2] = "register"
        /\ r = 2 => s[c + 3] = "register"
        /\ i = 1 => s[c + r + 2] \in Immediates
    BY <1>4 DEF IsShape
  <2>3. C + 0 + 1 = C + 1 /\ C + 1 + 1 = C + 2
    BY <1>2
  <2>4. QED
    BY <2>1, <2>2, <2>3
<1>13. r = R - C
  <2>1. CASE R = C /\ Token(C + 1).kind # "register"
    <3>1. s[C + 1] # "register"
      BY <1>5, <1>9, <2>1
    <3>2. QED
      BY <1>2, <1>6, <1>12, <2>1, <3>1
  <2>2. CASE R = C + 1 /\ Token(C + 1).kind = "register" /\ Token(C + 2).kind # "register"
    <3>1. C + 2 \in 1..(I + 1)
      BY <1>2, <2>2
    <3>2. s[C + 1] = "register" /\ s[C + 2] # "register"
      BY <1>5, <1>9, <2>2, <3>1
    <3>3. r # 0
      <4>1. r = 0 => i = 1
        BY <1>2, <1>6, <1>11, <2>2
      <4>2. QED
        BY <1>8, <1>12, <3>2, <4>1
    <3>4. QED
      BY <1>2, <1>6, <1>12, <2>2, <3>2, <3>3
  <2>3. CASE R = C + 2 /\ Token(C + 1).kind = "register" /\ Token(C + 2).kind = "register"
    <3>1. C + 2 \in 1..(I + 1)
      BY <1>2, <2>3
    <3>2. s[C + 2] = "register"
      BY <1>5, <2>3, <3>1
    <3>3. r # 0
      BY <1>2, <1>6, <1>11, <2>3
    <3>4. r # 1
      <4>1. r = 1 => i = 1
        BY <1>2, <1>6, <1>11, <2>3
      <4>2. QED
        BY <1>8, <1>12, <3>2, <4>1
    <3>5. QED
      BY <1>2, <1>6, <2>3, <3>3, <3>4
  <2>4. QED
    BY <1>7, <2>1, <2>2, <2>3
<1>14. I = R /\ i = 1
  BY <1>2, <1>6, <1>11, <1>13
<1>15. C + r + 1 = R + 1 /\ R + 1 \in 1..(I + 1)
  BY <1>2, <1>13, <1>14
<1>16. QED
  BY <1>5, <1>7, <1>12, <1>14, <1>15

-----------------------------------------------------------------------------
(* Where lines begin and end.                                              *)
OpenLabel(i) ==
  /\ i > 2
  /\ tokens[i - 1].kind = "newline"
  /\ tokens[i - 2].kind = "label"
  /\ IsBlank(i - 3)

AtLineEnd == next <= Len(tokens) => IsBlank(next - 1) /\ ~OpenLabel(next)

LEMMA StartsAre ==
  /\ Starts \subseteq 1..Len(tokens)
  /\ \A i \in 1..Len(tokens) :
       i \in Starts <=> ~IsBlank(i) /\ IsBlank(i - 1) /\ ~OpenLabel(i)
  BY DEF Starts, Begins, OpenLabel

LEMMA LineBegins ==
  ASSUME IsReading, AtLineEnd, LineStart <= Len(tokens)
  PROVE  /\ LineStart \in Starts /\ IsBlank(LineStart - 1)
         /\ \A k \in next..(LineStart - 1) : k \notin Starts
<1> DEFINE s == LineStart
           n == next
<1>1. /\ s \in 1..Len(tokens) /\ Len(tokens) \in Nat /\ n \in 1..s /\ n \in Nat \ {0}
      /\ tokens[s].kind \notin Blank
      /\ \A k \in n..(s - 1) : tokens[k].kind \in Blank
  BY TheLineIs, LineStartIs, StreamIs DEF IsReading
<1> HIDE DEF s
<1>2. IsBlank(n - 1) /\ ~OpenLabel(n)
  BY <1>1 DEF AtLineEnd
<1> HIDE DEF n
<1>3. ~IsBlank(s)
  BY <1>1 DEF IsBlank, Blank
<1>4. \A k \in n..(s - 1) : IsBlank(k)
  BY <1>1 DEF IsBlank, Blank
<1>5. IsBlank(s - 1)
  <2>1. CASE s = n
    BY <1>2, <2>1
  <2>2. CASE s # n
    <3>1. s - 1 \in n..(s - 1)
      BY <1>1, <2>2
    <3>2. QED
      BY <1>4, <3>1
  <2>3. QED
    BY <2>1, <2>2
<1>6. ~OpenLabel(s)
  <2>1. CASE s = n
    BY <1>2, <2>1
  <2>2. CASE s # n
    <3>1. SUFFICES ASSUME OpenLabel(s)
                   PROVE  FALSE
      OBVIOUS
    <3>2. s > 2 /\ tokens[s - 2].kind = "label"
      BY <3>1 DEF OpenLabel
    <3>3. ~IsBlank(s - 2)
      BY <1>1, <3>2 DEF IsBlank
    <3>4. s - 2 \notin n..(s - 1)
      BY <1>4, <3>3
    <3>5. n - 1 = s - 2
      BY <1>1, <2>2, <3>2, <3>4
    <3>6. QED
      BY <1>2, <3>3, <3>5
  <2>3. QED
    BY <2>1, <2>2
<1>7. s \in Starts
  BY <1>1, <1>3, <1>5, <1>6, StartsAre
<1>8. \A k \in n..(s - 1) : k \notin Starts
  BY <1>4, StartsAre
<1>9. QED
  BY <1>5, <1>7, <1>8 DEF s, n

LEMMA NoneAtEnd ==
  ASSUME IsReading, LineStart > Len(tokens)
  PROVE  \A k \in Starts : k < next
<1>1. next \in 1..(Len(tokens) + 1) /\ Len(tokens) \in Nat /\ LineStart \in next..(Len(tokens) + 1)
  BY LineStartIs, StreamIs DEF IsReading
<1>2. \A k \in next..(LineStart - 1) : tokens[k].kind \in Blank
  BY LineStartIs
<1>3. ASSUME NEW k \in Starts
      PROVE  k < next
  <2>1. k \in 1..Len(tokens) /\ ~IsBlank(k)
    BY <1>3, StartsAre
  <2>2. tokens[k].kind \notin Blank
    BY <2>1 DEF IsBlank, Blank
  <2>3. QED
    BY <1>1, <1>2, <2>1, <2>2
<1>4. QED
  BY <1>3

LEMMA NoneInside ==
  ASSUME IsReading, AtLineEnd, LineStart <= Len(tokens)
  PROVE  \A k \in (LineStart + 1)..LineEnd : k \notin Starts
<1> DEFINE s == LineStart
           r == RestStart
           e == LineEnd
<1>1. /\ s \in 1..Len(tokens) /\ Len(tokens) \in Nat
      /\ r \in (s + 1)..(Len(tokens) + 1)
      /\ e \in r..(Len(tokens) + 1)
      /\ e <= Len(tokens) => tokens[e].kind \in Blank
      /\ \A k \in r..(e - 1) : tokens[k].kind \notin Blank
  BY TheLineIs, StreamIs DEF IsReading
<1>2. \/ r = s + 1
      \/ /\ r = s + 2 /\ tokens[s].kind = "label"
         /\ s + 1 \in 1..Len(tokens) /\ tokens[s + 1].kind = "newline"
  BY TheLineIs DEF IsLabelled
<1>3. tokens[s].kind \notin Blank /\ IsBlank(s - 1)
  BY LineBegins, LineStartIs
<1> HIDE DEF s, r, e
<1>4. SUFFICES ASSUME NEW k \in (s + 1)..e, k \in Starts
               PROVE  FALSE
  BY DEF s, e
<1>5. /\ k \in 1..Len(tokens) /\ tokens[k].kind \notin Blank /\ ~OpenLabel(k)
      /\ k - 1 \in 1..Len(tokens) => tokens[k - 1].kind \in Blank
  <2>1. k \in 1..Len(tokens) /\ ~IsBlank(k) /\ IsBlank(k - 1) /\ ~OpenLabel(k)
    BY <1>4, StartsAre
  <2>2. QED
    BY <2>1 DEF IsBlank, Blank
<1>6. k - 1 \in 1..Len(tokens) /\ k - 1 \in s..(e - 1)
  BY <1>1, <1>5
<1>7. k # e
  BY <1>1, <1>5
<1>8. k - 1 # s
  BY <1>3, <1>5, <1>6
<1>9. k - 1 \notin r..(e - 1)
  BY <1>1, <1>5, <1>6
<1>10. r = s + 2 /\ (k = s + 1 \/ k = s + 2)
  BY <1>1, <1>2, <1>6, <1>8, <1>9
<1>11. k # s + 1
  <2>1. tokens[s + 1].kind = "newline"
    BY <1>1, <1>2, <1>10
  <2>2. tokens[k].kind # "newline"
    BY <1>5 DEF Blank
  <2>3. QED
    BY <2>1, <2>2
<1>12. k = s + 2
  BY <1>10, <1>11
<1>13. k > 2 /\ k - 1 = s + 1 /\ k - 2 = s /\ k - 3 = s - 1
  BY <1>1, <1>12
<1>14. OpenLabel(k)
  BY <1>1, <1>2, <1>3, <1>10, <1>13 DEF OpenLabel
<1>15. QED
  BY <1>5, <1>14

(* A label whose line is a newline, and a label and a newline again: such  *)
(* a line is refused.                                                      *)
TwoLabels ==
  /\ IsLabelled
  /\ LineRest = <<LineStart + 2>>
  /\ LineStart + 2 \in 1..Len(tokens)
  /\ tokens[LineStart + 2].kind = "label"

LEMMA OpenEnd ==
  ASSUME IsReading, AtLineEnd, LineStart <= Len(tokens), LineEnd <= Len(tokens),
         NEW j, j = LineEnd + 1, OpenLabel(j)
  PROVE  TwoLabels
<1> DEFINE s == LineStart
           r == RestStart
           e == LineEnd
<1>1. /\ s \in 1..Len(tokens) /\ Len(tokens) \in Nat
      /\ r \in (s + 1)..(Len(tokens) + 1)
      /\ e \in r..(Len(tokens) + 1)
      /\ \A k \in r..(e - 1) : tokens[k].kind \notin Blank
  BY TheLineIs, StreamIs DEF IsReading
<1>2. \/ /\ r = s + 1
         /\ ~ /\ tokens[s].kind = "label"
              /\ s < Len(tokens)
              /\ tokens[s + 1].kind = "newline"
      \/ /\ r = s + 2 /\ IsLabelled
         /\ s + 1 \in 1..Len(tokens) /\ tokens[s + 1].kind = "newline"
  BY TheLineIs DEF IsLabelled
<1>3. tokens[s].kind \notin Blank
  BY LineBegins, LineStartIs
<1>4. LineRest = Without(tokens, {"comma"}, r, e - 1)
  BY DEF LineRest
<1> HIDE DEF s, r, e
<1>5. /\ e <= Len(tokens) /\ j = e + 1 /\ e > 1
  BY <1>1 DEF e
<1>6. tokens[e].kind = "newline" /\ tokens[e - 1].kind = "label" /\ IsBlank(e - 2)
  <2>1. j - 1 = e /\ j - 2 = e - 1 /\ j - 3 = e - 2
    BY <1>1, <1>5
  <2>2. QED
    BY <2>1 DEF OpenLabel
<1>7. e - 2 \in 1..Len(tokens) => tokens[e - 2].kind \in Blank
  BY <1>6 DEF IsBlank, Blank
<1>8. CASE r = s + 1
  <2>1. CASE e = s + 1
    <3>1. e - 1 = s
      BY <1>1, <2>1
    <3>2. QED
      BY <1>1, <1>2, <1>5, <1>6, <1>8, <2>1, <3>1
  <2>2. CASE e # s + 1
    <3>1. e - 2 \in 1..Len(tokens) /\ (e - 2 = s \/ e - 2 \in r..(e - 1))
      BY <1>1, <1>5, <1>8, <2>2
    <3>2. QED
      BY <1>1, <1>3, <1>7, <3>1
  <2>3. QED
    BY <2>1, <2>2
<1>9. CASE r # s + 1
  <2>1. r = s + 2 /\ IsLabelled /\ tokens[s + 1].kind = "newline"
    BY <1>2, <1>9
  <2>2. e # s + 2
    <3>1. e = s + 2 => e - 1 = s + 1
      BY <1>1
    <3>2. QED
      BY <1>6, <2>1, <3>1
  <2>3. e = s + 3
    <3>1. e - 2 \notin r..(e - 1)
      <4>1. e - 2 \in r..(e - 1) => e - 2 \in 1..Len(tokens)
        BY <1>1, <1>5
      <4>2. QED
        BY <1>1, <1>7, <4>1
    <3>2. QED
      BY <1>1, <2>1, <2>2, <3>1
  <2> DEFINE m == s + 2
  <2>4. m \in Nat \ {0} /\ m \in Nat /\ m <= m /\ e - 1 = m /\ r = m /\ m \in 1..Len(tokens)
    BY <1>1, <1>5, <2>1, <2>3
  <2>5. tokens[m].kind = "label"
    BY <1>6, <2>4
  <2> HIDE DEF m
  <2> DEFINE K == {"comma"}
  <2>6. tokens[m].kind \notin K
    BY <2>5
  <2> HIDE DEF K
  <2>7. Without(tokens, K, m, m) = Append(Without(tokens, K, m, m - 1), m)
    BY <2>4, <2>6, WithoutNext
  <2>8. Without(tokens, K, m, m - 1) = << >>
    BY <2>4, WithoutStart
  <2>9. Append(<< >>, m) = <<m>>
    OBVIOUS
  <2>10. LineRest = <<m>>
    BY <1>4, <2>4, <2>7, <2>8, <2>9 DEF K
  <2>11. QED
    BY <2>1, <2>4, <2>5, <2>10 DEF TwoLabels, m, s
<1>10. QED
  BY <1>8, <1>9

LEMMA TwoLabelsRefused ==
  ASSUME IsReading, LineStart <= Len(tokens), TwoLabels
  PROVE  LineError # NONE /\ Body # << >> /\ ~IsAt(1, {"id", "directive"})
<1>1. Body = <<LineStart + 2>>
  BY BodyIs DEF TwoLabels
<1>2. Body # << >> /\ Token(1).kind = "label"
  <2>1. Body[1] = LineStart + 2 /\ Len(Body) = 1
    BY <1>1
  <2>2. QED
    BY <1>1, <2>1 DEF TwoLabels, Token
<1>3. ~IsAt(1, {"id", "directive"})
  BY <1>2 DEF IsAt
<1>4. LineError # NONE
  BY <1>2, AcceptedIs DEF IsAt
<1>5. QED
  BY <1>2, <1>3, <1>4

-----------------------------------------------------------------------------
(* The kinds of a line.                                                    *)
KindsAt(w) == [k \in 1..Len(w) |-> tokens[w[k]].kind]

LEMMA JoinedToOne ==
  ASSUME NEW s \in Nat, NEW w \in Seq(Nat)
  PROVE  /\ Joined(<<s>>, w) \in Seq(Nat)
         /\ Len(Joined(<<s>>, w)) = Len(w) + 1
         /\ Joined(<<s>>, w)[1] = s
         /\ \A k \in 1..Len(w) : Joined(<<s>>, w)[k + 1] = w[k]
<1> DEFINE one == <<s>>
           u == one \o w
           n == Len(w)
<1>1. one \in Seq(Nat) /\ Len(one) = 1 /\ one[1] = s /\ n \in Nat
  OBVIOUS
<1> HIDE DEF one
<1>2. /\ u \in Seq(Nat) /\ Len(u) = Len(one) + n
      /\ \A k \in 1..(Len(one) + n) : u[k] = IF k <= Len(one) THEN one[k] ELSE w[k - Len(one)]
  BY <1>1, ConcatProperties
<1>3. Joined(one, w) = u
  BY DEF Joined
<1> HIDE DEF u, n
<1>4. Len(u) = n + 1 /\ u[1] = s
  BY <1>1, <1>2
<1>5. ASSUME NEW k \in 1..n
      PROVE  u[k + 1] = w[k]
  <2>1. k + 1 \in 1..(1 + n) /\ ~(k + 1 <= 1) /\ k + 1 - 1 = k
    BY <1>1
  <2>2. QED
    BY <1>1, <1>2, <2>1
<1>6. QED
  BY <1>2, <1>3, <1>4, <1>5 DEF one, n

LEMMA UnlabelledIs ==
  ASSUME NEW s \in Nat, NEW w \in Seq(Nat)
  PROVE  /\ tokens[s].kind = "label" =>
              Unlabelled(KindsAt(Joined(<<s>>, w))) = KindsAt(w)
         /\ tokens[s].kind # "label" =>
              Unlabelled(KindsAt(Joined(<<s>>, w))) = KindsAt(Joined(<<s>>, w))
<1> DEFINE t == Joined(<<s>>, w)
           n == Len(w)
           u == KindsAt(t)
           v == KindsAt(w)
           X == {u[k] : k \in 1..(n + 1)}
<1>1. /\ t \in Seq(Nat) /\ Len(t) = n + 1 /\ t[1] = s /\ n \in Nat
      /\ \A k \in 1..n : t[k + 1] = w[k]
  <2>1. /\ Joined(<<s>>, w) \in Seq(Nat)
        /\ Len(Joined(<<s>>, w)) = Len(w) + 1
        /\ Joined(<<s>>, w)[1] = s
        /\ \A k \in 1..Len(w) : Joined(<<s>>, w)[k + 1] = w[k]
    BY JoinedToOne
  <2>2. Len(w) \in Nat
    OBVIOUS
  <2> HIDE DEF u, v, X
  <2>3. QED
    BY <2>1, <2>2
<1> HIDE DEF t
<1>2. u = [k \in 1..(n + 1) |-> tokens[t[k]].kind]
  BY <1>1 DEF KindsAt
<1>3. v = [k \in 1..n |-> tokens[w[k]].kind]
  BY DEF KindsAt
<1> HIDE DEF u, v, n
<1>4. u \in Seq(X) /\ Len(u) = n + 1 /\ u[1] = tokens[s].kind /\ u # << >>
  <2>1. u = [k \in 1..(n + 1) |-> u[k]]
    BY <1>2
  <2>2. n + 1 \in Nat /\ 1 \in 1..(n + 1)
    BY <1>1
  <2>3. u \in Seq(X) /\ Len(u) = n + 1
    BY <2>1, <2>2
  <2>4. u[1] = tokens[s].kind
    BY <1>1, <1>2, <2>2
  <2>5. QED
    BY <1>1, <2>3, <2>4
<1>5. \A k \in 1..n : u[k + 1] = v[k] /\ v[k] \in X
  <2>1. \A k \in 1..n : k + 1 \in 1..(n + 1)
    BY <1>1
  <2>2. \A k \in 1..n : u[k + 1] = v[k]
    BY <1>1, <1>2, <1>3, <2>1
  <2>3. QED
    BY <2>1, <2>2
<1>6. v \in Seq(X) /\ Len(v) = n
  <2>1. v = [k \in 1..n |-> v[k]]
    BY <1>3
  <2> HIDE DEF X
  <2>2. \A k \in 1..n : v[k] \in X
    BY <1>5
  <2>3. v \in [1..n -> X]
    BY <2>1, <2>2
  <2>4. QED
    BY <1>1, <2>3
<1> HIDE DEF X
<1>7. Tail(u) = v
  <2> DEFINE y == Tail(u)
  <2>1. y \in Seq(X) /\ Len(y) = n /\ \A k \in 1..n : y[k] = u[k + 1]
    BY <1>1, <1>4
  <2> HIDE DEF y
  <2>2. \A k \in 1..n : y[k] = v[k]
    BY <1>5, <2>1
  <2>3. y = v
    BY <1>6, <2>1, <2>2, SeqEqual
  <2>4. QED
    BY <2>3 DEF y
<1>8. QED
  BY <1>4, <1>7 DEF Unlabelled, u, v, t

LEMMA KindsBetweenAre ==
  ASSUME NEW first \in Nat \ {0}, NEW last \in Nat
  PROVE  /\ last < first => KindsBetween(first, last) = << >>
         /\ first <= last =>
              /\ KindsBetween(first, last) =
                   KindsAt(Joined(<<first>>, Without(tokens, Skipped, first + 1, last)))
              /\ Without(tokens, Skipped, first + 1, last) \in Seq(Nat)
<1> DEFINE w == Without(tokens, Skipped, first + 1, last)
           t == Joined(<<first>>, w)
<1>1. w = Without(tokens, {"comma", "comment", "newline"}, first + 1, last)
  BY DEF Skipped
<1>2. CASE last < first
  BY <1>2 DEF KindsBetween
<1>3. CASE ~(last < first)
  <2> DEFINE a == first + 1
  <2>1. a \in Nat \ {0} /\ a <= last + 1
    BY <1>3
  <2> HIDE DEF a
  <2>2. Without(tokens, Skipped, a, last) \in Seq(Nat)
    BY <2>1, WithoutType
  <2>3. w \in Seq(Nat)
    BY <2>2 DEF a
  <2> HIDE DEF w
  <2>4. t \in Seq(Nat)
    BY <2>3, JoinedToOne
  <2>5. KindsBetween(first, last) = [k \in DOMAIN t |-> tokens[t[k]].kind]
    BY <1>1, <1>3 DEF KindsBetween, Joined
  <2> HIDE DEF t
  <2>6. DOMAIN t = 1..Len(t)
    BY <2>4
  <2>7. KindsBetween(first, last) = KindsAt(t)
    BY <2>5, <2>6 DEF KindsAt
  <2>8. QED
    BY <1>3, <2>3, <2>7 DEF t, w
<1>4. QED
  BY <1>2, <1>3

(* A beginning of the line, without its label.                             *)
LEMMA PartKinds ==
  ASSUME IsReading, LineStart <= Len(tokens), NEW q \in 0..Len(LineRest)
  PROVE  /\ IsLabelled =>
              Unlabelled(KindsAt(Joined(<<LineStart>>, SubSeq(LineRest, 1, q)))) = KindsUpTo(q)
         /\ ~IsLabelled =>
              Unlabelled(KindsAt(Joined(<<LineStart>>, SubSeq(LineRest, 1, q)))) = KindsUpTo(q + 1)
<1> DEFINE s == LineStart
           w == LineRest
           x == SubSeq(w, 1, q)
           t == Joined(<<s>>, x)
<1>1. /\ w \in Seq(Nat) /\ LineTokens[1] = s /\ s \in Nat
      /\ \A k \in 1..Len(w) : LineTokens[k + 1] = w[k]
  BY LineTokensAre, TheLineIs, StreamIs DEF IsReading
<1>2. /\ IsLabelled => Body = w
      /\ ~IsLabelled => Body = LineTokens
  BY BodyIs
<1>3. IsLabelled <=> tokens[s].kind = "label"
  BY DEF IsLabelled
<1> HIDE DEF s, w
<1>4. q \in Nat /\ q <= Len(w)
  BY <1>1 DEF w
<1>5. x \in Seq(Nat) /\ Len(x) = q /\ \A k \in 1..q : x[k] = w[k]
  BY <1>1, <1>4, BeginningIs
<1> HIDE DEF x
<1>6. /\ IsLabelled => Unlabelled(KindsAt(t)) = KindsAt(x)
      /\ ~IsLabelled => Unlabelled(KindsAt(t)) = KindsAt(t)
  BY <1>1, <1>3, <1>5, UnlabelledIs
<1>7. /\ Len(t) = q + 1 /\ t[1] = s
      /\ \A k \in 1..q : t[k + 1] = x[k]
  BY <1>1, <1>5, JoinedToOne
<1> HIDE DEF t
<1>8. IsLabelled => KindsAt(x) = KindsUpTo(q)
  BY <1>2, <1>5 DEF KindsAt, KindsUpTo, Token
<1>9. ASSUME ~IsLabelled
      PROVE  KindsAt(t) = KindsUpTo(q + 1)
  <2>1. Body = LineTokens
    BY <1>2, <1>9
  <2>2. ASSUME NEW k \in 1..(q + 1)
        PROVE  t[k] = Body[k]
    <3>1. CASE k = 1
      BY <1>1, <1>7, <2>1, <3>1
    <3>2. CASE k # 1
      <4> DEFINE j == k - 1
      <4>1. j \in 1..q /\ j \in 1..Len(w) /\ j + 1 = k
        BY <1>1, <1>4, <3>2
      <4> HIDE DEF j
      <4>2. t[j + 1] = x[j] /\ x[j] = w[j] /\ LineTokens[j + 1] = w[j]
        BY <1>1, <1>5, <1>7, <4>1
      <4>3. QED
        BY <2>1, <4>1, <4>2
    <3>3. QED
      BY <3>1, <3>2
  <2>3. KindsUpTo(q + 1) = [k \in 1..(q + 1) |-> tokens[Body[k]].kind]
    BY DEF KindsUpTo, Token
  <2>4. KindsAt(t) = [k \in 1..(q + 1) |-> tokens[t[k]].kind]
    BY <1>7 DEF KindsAt
  <2>5. QED
    BY <2>2, <2>3, <2>4
<1>10. QED
  BY <1>6, <1>8, <1>9 DEF t, s, x, w

LEMMA UpToPlace ==
  ASSUME IsReading, LineStart <= Len(tokens), NEW p \in 1..Len(Body),
         NEW at, at = Body[p]
  PROVE  /\ Unlabelled(KindsBetween(LineStart, at)) = KindsUpTo(p)
         /\ Unlabelled(KindsBetween(LineStart, at - 1)) = KindsUpTo(p - 1)
<1> DEFINE s == LineStart
           w == LineRest
           a == s + 1
           b == LineEnd - 1
           n == Len(w)
<1>1. /\ s \in Nat \ {0} /\ s \in Nat /\ a \in Nat \ {0} /\ b \in Nat /\ a <= b + 1 /\ s <= b
  BY TheLineIs, StreamIs DEF IsReading
<1>2. w \in Seq(Nat) /\ n \in Nat /\ Len(LineTokens) = n + 1 /\ LineTokens[1] = s
      /\ \A k \in 1..n : LineTokens[k + 1] = w[k]
  BY LineTokensAre
<1>3. w = Without(tokens, Skipped, a, b)
  BY LineRestIs
<1>4. /\ IsLabelled => Body = w
      /\ ~IsLabelled => Body = LineTokens
  BY BodyIs
<1>5. \A q \in 0..n :
        /\ IsLabelled =>
             Unlabelled(KindsAt(Joined(<<s>>, SubSeq(w, 1, q)))) = KindsUpTo(q)
        /\ ~IsLabelled =>
             Unlabelled(KindsAt(Joined(<<s>>, SubSeq(w, 1, q)))) = KindsUpTo(q + 1)
  BY PartKinds
<1>6. \A last \in Nat :
        /\ last < s => KindsBetween(s, last) = << >>
        /\ s <= last =>
             KindsBetween(s, last) = KindsAt(Joined(<<s>>, Without(tokens, Skipped, a, last)))
  <2>1. s \in Nat \ {0}
    BY <1>1
  <2> HIDE DEF s
  <2>2. QED
    BY <2>1, KindsBetweenAre
<1> HIDE DEF s, w, a, b, n
<1>7. ASSUME NEW q \in 1..n, NEW z, z = w[q]
      PROVE  /\ KindsBetween(s, z) = KindsAt(Joined(<<s>>, SubSeq(w, 1, q)))
             /\ KindsBetween(s, z - 1) = KindsAt(Joined(<<s>>, SubSeq(w, 1, q - 1)))
  <2>1. q \in 1..Len(w)
    BY DEF n
  <2>2. /\ w[q] \in a..b
        /\ Without(tokens, Skipped, a, w[q] - 1) = SubSeq(w, 1, q - 1)
        /\ Without(tokens, Skipped, a, w[q]) = SubSeq(w, 1, q)
    BY <1>1, <1>3, <2>1, WithoutUpTo
  <2>3. z \in Nat /\ z - 1 \in Nat /\ s <= z /\ s <= z - 1
    BY <1>1, <1>7, <2>2 DEF a
  <2>4. /\ Without(tokens, Skipped, a, z - 1) = SubSeq(w, 1, q - 1)
        /\ Without(tokens, Skipped, a, z) = SubSeq(w, 1, q)
    BY <1>7, <2>2
  <2>5. QED
    BY <1>6, <2>3, <2>4
<1>8. CASE IsLabelled
  <2>1. p \in 1..n /\ at = w[p] /\ p \in 0..n /\ p - 1 \in 0..n
    BY <1>2, <1>4, <1>8 DEF n
  <2>2. QED
    BY <1>5, <1>7, <1>8, <2>1 DEF s
<1>9. CASE ~IsLabelled /\ p = 1
  <2>1. at = s /\ s - 1 \in Nat /\ s - 1 < s /\ s <= s
    BY <1>1, <1>2, <1>4, <1>9
  <2>2. KindsBetween(s, s - 1) = << >>
    BY <1>6, <2>1
  <2>3. Without(tokens, Skipped, a, s) = << >>
    <3>1. s = a - 1
      BY <1>1 DEF a
    <3>2. Without(tokens, Skipped, a, a - 1) = << >>
      BY <1>1, WithoutStart
    <3>3. QED
      BY <3>1, <3>2
  <2>4. SubSeq(w, 1, 0) = << >>
    BY SubSeqEmpty
  <2>5. KindsBetween(s, s) = KindsAt(Joined(<<s>>, SubSeq(w, 1, 0)))
    BY <1>1, <1>6, <2>1, <2>3, <2>4
  <2>6. 0 \in 0..n /\ 0 + 1 = p /\ p - 1 = 0
    BY <1>2, <1>9
  <2>7. Unlabelled(KindsAt(Joined(<<s>>, SubSeq(w, 1, 0)))) = KindsUpTo(p)
    BY <1>5, <1>9, <2>6
  <2>8. KindsUpTo(p - 1) = << >>
    BY <2>6 DEF KindsUpTo
  <2>9. Unlabelled(<< >>) = << >>
    BY DEF Unlabelled
  <2>10. QED
    BY <2>1, <2>2, <2>5, <2>7, <2>8, <2>9 DEF s
<1>10. CASE ~IsLabelled /\ p # 1
  <2> DEFINE q == p - 1
  <2>1. q \in 1..n /\ q \in 0..n /\ q - 1 \in 0..n /\ q + 1 = p /\ q - 1 + 1 = p - 1
    BY <1>2, <1>4, <1>10
  <2> HIDE DEF q
  <2>2. at = w[q]
    BY <1>2, <1>4, <1>10, <2>1
  <2>3. /\ Unlabelled(KindsAt(Joined(<<s>>, SubSeq(w, 1, q)))) = KindsUpTo(p)
        /\ Unlabelled(KindsAt(Joined(<<s>>, SubSeq(w, 1, q - 1)))) = KindsUpTo(p - 1)
    BY <1>5, <1>10, <2>1
  <2>4. QED
    BY <1>7, <2>1, <2>2, <2>3 DEF s
<1>11. QED
  BY <1>8, <1>9, <1>10

(* Up to the next line there are blank tokens only, but behind two labels. *)
NextLine == Least({i \in Starts : i > LineStart}, Len(tokens) + 1)

LEMMA BehindLine ==
  ASSUME IsReading, AtLineEnd, LineStart <= Len(tokens)
  PROVE  /\ NextLine \in LineEnd..(Len(tokens) + 1)
         /\ ~TwoLabels => \A k \in LineEnd..(NextLine - 1) : tokens[k].kind \in Blank
<1> DEFINE s == LineStart
           e == LineEnd
           n == Len(tokens)
           S == {i \in Starts : i > s}
           x == NextLine
<1>1. /\ n \in Nat /\ s \in 1..n /\ e \in (s + 1)..(n + 1)
      /\ e <= n => tokens[e].kind \in Blank
  BY TheLineIs, StreamIs DEF IsReading
<1>2. \A k \in (s + 1)..e : k \notin Starts
  BY NoneInside
<1>3. Starts \subseteq 1..n
  BY StartsAre
<1>4. ASSUME TRUE
      PROVE  x \in e..(n + 1) /\ \A k \in Starts : k > s => x <= k
  <2>1. CASE S = {}
    <3>1. x = n + 1
      BY <2>1 DEF NextLine, Least
    <3>2. QED
      BY <1>1, <1>3, <2>1, <3>1
  <2>2. CASE S # {}
    <3>0. 1..n \subseteq Nat
      BY <1>1
    <3>1. S \subseteq Nat
      BY <1>3, <3>0
    <3>2. Min(S) \in S /\ \A k \in S : Min(S) <= k
      <4> HIDE DEF S
      <4>1. QED
        BY <2>2, <3>1, MinIs
    <3>3. x = Min(S)
      BY <2>2 DEF NextLine, Least
    <3>4. x \in 1..n /\ x > s /\ x \in Starts
      BY <1>3, <3>2, <3>3
    <3>5. x \notin (s + 1)..e
      BY <1>2, <3>4
    <3>6. QED
      BY <1>1, <3>2, <3>3, <3>4, <3>5
  <2>3. QED
    BY <2>1, <2>2
<1>5. ASSUME ~TwoLabels
      PROVE  \A k \in e..(x - 1) : tokens[k].kind \in Blank
  <2> DEFINE T == {k \in e..(x - 1) : tokens[k].kind \notin Blank}
  <2>1. SUFFICES ASSUME T # {}
                 PROVE  FALSE
    OBVIOUS
  <2>2. T \subseteq Nat
    BY <1>1, <1>4
  <2>3. PICK j \in T : \A y \in T : j <= y
    <3> HIDE DEF T
    <3>1. QED
      BY <2>1, <2>2, LeastMember
  <2> HIDE DEF e, s, x, n
  <2>4. /\ j \in e..(x - 1) /\ tokens[j].kind \notin Blank
        /\ \A k \in e..(j - 1) : tokens[k].kind \in Blank
    <3>1. j \in e..(x - 1) /\ tokens[j].kind \notin Blank /\ j \in Nat
      BY <2>2
    <3>2. \A k \in e..(j - 1) : k \in e..(x - 1) /\ ~(j <= k)
      BY <1>1, <1>4, <3>1
    <3>3. QED
      BY <2>3, <3>1, <3>2
  <2>5. j # e
    BY <1>1, <1>4, <2>4
  <2>6. j \in 1..n /\ j > s /\ e <= n /\ j - 1 \in e..(j - 1) /\ j - 1 \in 1..n
    BY <1>1, <1>4, <2>4, <2>5
  <2>7. j \notin Starts
    BY <1>1, <1>4, <2>4, <2>6
  <2>8. ~IsBlank(j) /\ IsBlank(j - 1)
    BY <2>4, <2>6 DEF IsBlank, Blank
  <2>9. OpenLabel(j)
    BY <2>6, <2>7, <2>8, StartsAre DEF n
  <2>10. tokens[j - 2].kind = "label" /\ j > 2
    BY <2>9 DEF OpenLabel
  <2>11. j - 2 \notin e..(j - 1)
    BY <2>4, <2>10 DEF Blank
  <2>12. j = e + 1
    BY <1>1, <2>4, <2>5, <2>10, <2>11
  <2>13. TwoLabels
    BY <2>6, <2>9, <2>12, OpenEnd DEF e, n
  <2>14. QED
    BY <1>5, <2>13
<1>6. QED
  BY <1>4, <1>5

LEMMA LineKindsAre ==
  ASSUME IsReading, AtLineEnd, LineStart <= Len(tokens)
  PROVE  /\ ~TwoLabels =>
              /\ Unlabelled(LineKinds(LineStart)) = KindsUpTo(Len(Body))
              /\ LineKinds(LineStart) = KindsAt(LineTokens)
         /\ TwoLabels => ~InGrammar(LineKinds(LineStart))
<1> DEFINE s == LineStart
           w == LineRest
           a == s + 1
           e == LineEnd
           x == NextLine
           b == x - 1
           y == Without(tokens, Skipped, e, b)
           z == Without(tokens, Skipped, a, b)
           n == Len(w)
<1>1. /\ s \in Nat \ {0} /\ s \in Nat /\ a \in Nat \ {0} /\ e \in Nat \ {0} /\ a <= e
      /\ x \in e..(Len(tokens) + 1) /\ Len(tokens) \in Nat
      /\ ~TwoLabels => \A k \in e..b : tokens[k].kind \in Blank
  BY BehindLine, TheLineIs, StreamIs DEF IsReading
<1>2. w = Without(tokens, Skipped, a, e - 1) /\ w \in Seq(Nat) /\ n \in Nat
  BY LineRestIs, LineTokensAre
<1>3. LineTokens = Joined(<<s>>, w) /\ Len(LineTokens) = n + 1
  BY LineTokensAre DEF Joined
<1>4. LineKinds(s) = KindsBetween(s, b)
  BY DEF LineKinds, NextLine
<1>5. b \in Nat /\ e <= b + 1 /\ a <= b + 1 /\ s <= b
  BY <1>1
<1> HIDE DEF s, w, e, x, b, n
<1>6. LineKinds(s) = KindsAt(Joined(<<s>>, z)) /\ z \in Seq(Nat)
  BY <1>1, <1>4, <1>5, KindsBetweenAre
<1> HIDE DEF a
<1>7. z = Joined(w, y) /\ y \in Seq(Nat)
  BY <1>1, <1>2, <1>5, WithoutSplit
<1>8. ASSUME ~TwoLabels
      PROVE  /\ Unlabelled(LineKinds(s)) = KindsUpTo(Len(Body))
             /\ LineKinds(s) = KindsAt(LineTokens)
  <2>1. \A k \in e..b : tokens[k].kind \in Skipped
    BY <1>1, <1>8 DEF Skipped, Blank
  <2>2. y = << >>
    BY <1>1, <1>5, <2>1, WithoutNone
  <2>3. z = w
    BY <1>2, <1>7, <2>2, JoinedIs
  <2>4. LineKinds(s) = KindsAt(LineTokens)
    BY <1>3, <1>6, <2>3
  <2>5. SubSeq(w, 1, n) = w
    <3> DEFINE v == SubSeq(w, 1, n)
    <3>1. n <= Len(w)
      BY <1>2 DEF n
    <3>2. v \in Seq(Nat) /\ Len(v) = n /\ \A k \in 1..n : v[k] = w[k]
      BY <1>2, <3>1, BeginningIs
    <3> HIDE DEF v
    <3>3. v = w
      BY <1>2, <3>2, SeqEqual DEF n
    <3>4. QED
      BY <3>3 DEF v
  <2>6. n \in 0..Len(w)
    BY <1>2 DEF n
  <2>7. /\ IsLabelled =>
             Unlabelled(KindsAt(Joined(<<s>>, SubSeq(w, 1, n)))) = KindsUpTo(n)
        /\ ~IsLabelled =>
             Unlabelled(KindsAt(Joined(<<s>>, SubSeq(w, 1, n)))) = KindsUpTo(n + 1)
    BY <2>6, PartKinds DEF s, w
  <2>8. /\ IsLabelled => Len(Body) = n
        /\ ~IsLabelled => Len(Body) = n + 1
    BY <1>3, BodyIs DEF n, w
  <2>9. QED
    BY <1>6, <2>3, <2>4, <2>5, <2>7, <2>8
<1>9. ASSUME TwoLabels
      PROVE  ~InGrammar(LineKinds(s))
  <2> DEFINE m == s + 2
  <2>1. w = <<m>> /\ tokens[m].kind = "label" /\ tokens[s].kind = "label" /\ m \in Nat
    BY <1>1, <1>9 DEF TwoLabels, IsLabelled, s, w
  <2> HIDE DEF m, y
  <2>2. z = Joined(<<m>>, y)
    BY <1>7, <2>1
  <2>3. Len(z) = Len(y) + 1 /\ z[1] = m /\ Len(y) \in Nat
    <3>1. y \in Seq(Nat) /\ m \in Nat
      BY <1>7, <2>1
    <3>2. Len(Joined(<<m>>, y)) = Len(y) + 1 /\ Joined(<<m>>, y)[1] = m
      BY <3>1, JoinedToOne
    <3>3. QED
      BY <2>2, <3>1, <3>2
  <2> HIDE DEF z
  <2> DEFINE body == KindsAt(z)
  <2>4. Unlabelled(LineKinds(s)) = body
    BY <1>1, <1>6, <2>1, UnlabelledIs
  <2>5. body[1] = "label"
    <3>1. 1 \in 1..Len(z)
      BY <2>3
    <3>2. QED
      BY <2>1, <2>3, <3>1 DEF KindsAt
  <2> HIDE DEF body
  <2>6. body \notin StatementShapes
    BY <2>5, ShapeIs DEF IsShape
  <2>7. QED
    BY <2>4, <2>5, <2>6 DEF InGrammar
<1>10. QED
  BY <1>8, <1>9 DEF s

(* What is wrong with a line.                                              *)
LEMMA LineErrorIs ==
  ASSUME IsReading, LineStart <= Len(tokens), LineError # NONE
  PROVE  \/ /\ Body = << >> /\ IsLabelled /\ LineRest = << >>
            /\ LineError = [code |-> "UNEXPECTED_TOKEN", at |-> LineStart]
         \/ /\ Body # << >> /\ 1 \in 1..Len(Body)
            /\ LineError = [code |-> "UNKNOWN_DIRECTIVE", at |-> Body[1]]
            /\ Token(1).value \notin DirectiveNames
         \/ /\ Body # << >> /\ 1 \in 1..Len(Body)
            /\ LineError = [code |-> "UNEXPECTED_TOKEN", at |-> Body[1]]
            /\ Token(1).kind \notin {"id", "directive"}
         \/ /\ Body # << >> /\ IsAt(1, {"id"}) /\ ImmEnd < Len(Body)
            /\ ImmEnd + 1 \in 1..Len(Body) /\ ImmEnd \in Nat \ {0}
            /\ LineError = [code |-> "UNEXPECTED_TOKEN", at |-> Body[ImmEnd + 1]]
<1>1. CASE Body = << >>
  <2>1. IsLabelled
    <3>1. SUFFICES ASSUME ~IsLabelled
                   PROVE  FALSE
      OBVIOUS
    <3>2. Len(LineTokens) = Len(LineRest) + 1 /\ Len(LineRest) \in Nat
      BY LineTokensAre
    <3>3. Body = LineTokens
      BY <3>1, BodyIs
    <3>4. Len(Body) = 0
      BY <1>1
    <3>5. QED
      BY <3>2, <3>3, <3>4
  <2>2. QED
    BY <1>1, <2>1, BodyIs DEF LineError
<1>2. CASE Body # << >>
  <2>1. /\ Len(Body) \in Nat \ {0}
        /\ ImmEnd \in Nat \ {0} /\ ImmEnd <= Len(Body)
    BY <1>2, EndsAre
  <2>2. 1 \in 1..Len(Body)
    BY <2>1
  <2>3. CASE IsAt(1, {"directive"})
    BY <1>2, <2>2, <2>3 DEF LineError
  <2>4. CASE ~IsAt(1, {"directive"}) /\ ~IsAt(1, {"id"})
    <3>1. Token(1).kind \notin {"id", "directive"}
      BY <2>2, <2>4 DEF IsAt
    <3>2. QED
      BY <1>2, <2>2, <2>4, <3>1 DEF LineError
  <2>5. CASE ~IsAt(1, {"directive"}) /\ IsAt(1, {"id"})
    <3>1. Trailing # 0 /\ LineError = [code |-> "UNEXPECTED_TOKEN", at |-> Body[Trailing]]
      BY <1>2, <2>5 DEF LineError
    <3>2. Trailing = ImmEnd + 1 /\ ImmEnd < Len(Body)
      BY <2>1, <3>1 DEF Trailing
    <3>3. QED
      BY <1>2, <2>1, <2>5, <3>1, <3>2
  <2>6. QED
    BY <2>3, <2>4, <2>5
<1>3. QED
  BY <1>1, <1>2

LEMMA KindsUpToAre ==
  ASSUME NEW m \in Nat
  PROVE  /\ DOMAIN KindsUpTo(m) = 1..m
         /\ \A k \in 1..m : KindsUpTo(m)[k] = Token(k).kind
         /\ \E X : KindsUpTo(m) \in Seq(X)
         /\ Len(KindsUpTo(m)) = m
         /\ m = 0 <=> KindsUpTo(m) = << >>
<1> DEFINE f == KindsUpTo(m)
           X == {Token(k).kind : k \in 1..m}
<1>1. f = [k \in 1..m |-> Token(k).kind]
  BY DEF KindsUpTo
<1>2. \A k \in 1..m : Token(k).kind \in X
  OBVIOUS
<1> HIDE DEF X, f
<1>3. f \in [1..m -> X]
  BY <1>1, <1>2
<1>4. f \in Seq(X) /\ Len(f) = m
  BY <1>3
<1>5. m = 0 <=> f = << >>
  BY <1>4
<1>6. QED
  BY <1>1, <1>4, <1>5 DEF f

(* A line is taken exactly if it is one of the grammar.                    *)
LEMMA TakenIsInGrammar ==
  ASSUME IsReading, AtLineEnd, LineStart <= Len(tokens), LineError = NONE
  PROVE  InGrammar(LineKinds(LineStart))
<1> DEFINE n == Len(Body)
           body == Unlabelled(LineKinds(LineStart))
<1>1. ~TwoLabels
  BY TwoLabelsRefused
<1>2. body = KindsUpTo(n)
  BY <1>1, LineKindsAre
<1>3. n \in Nat \ {0}
  BY AcceptedIs, EndsAre
<1>4. body # << >> /\ body[1] = Token(1).kind
  <2>1. n \in Nat /\ n # 0 /\ 1 \in 1..n
    BY <1>3
  <2> HIDE DEF n
  <2>2. KindsUpTo(n) # << >> /\ KindsUpTo(n)[1] = Token(1).kind
    BY <2>1, KindsUpToAre
  <2>3. QED
    BY <1>2, <2>2
<1> HIDE DEF body
<1>5. CASE IsAt(1, {"directive"})
  BY <1>4, <1>5 DEF InGrammar, IsAt, body
<1>6. CASE IsAt(1, {"id"}) /\ ImmEnd = Len(Body)
  <2>1. body \in StatementShapes
    BY <1>2, <1>6, TakenFits
  <2>2. QED
    BY <1>4, <2>1 DEF InGrammar, body
<1>7. QED
  BY <1>5, <1>6, AcceptedIs

(* No line of the grammar begins with what is refused.                     *)
LEMMA NoneBeginsSo ==
  ASSUME IsReading, LineStart <= Len(tokens), NEW p \in 1..Len(Body),
         \/ p = 1 /\ Token(1).kind \notin {"id", "directive"}
         \/ IsAt(1, {"id"}) /\ ImmEnd < Len(Body) /\ p = ImmEnd + 1,
         NEW shape \in StatementShapes, Len(shape) >= p
  PROVE  \E k \in 1..p : shape[k] # Token(k).kind
<1>1. SUFFICES ASSUME \A k \in 1..p : shape[k] = Token(k).kind
               PROVE  FALSE
  OBVIOUS
<1>2. CASE p = 1 /\ Token(1).kind \notin {"id", "directive"}
  <2>1. shape[1] = "id"
    BY ShapeIs DEF IsShape
  <2>2. 1 \in 1..p
    BY <1>2
  <2>3. QED
    BY <1>1, <1>2, <2>1, <2>2
<1>3. CASE IsAt(1, {"id"}) /\ ImmEnd < Len(Body) /\ p = ImmEnd + 1
  <2>1. Body # << >>
    BY <1>3 DEF IsAt
  <2>2. ImmEnd \in Nat
    BY <2>1, EndsAre
  <2>3. Len(shape) > ImmEnd
    <3>1. Len(shape) \in Nat
      BY ShapeIs
    <3>2. QED
      BY <1>3, <2>2, <3>1
  <2>4. \A k \in 1..(ImmEnd + 1) : shape[k] = Token(k).kind
    BY <1>1, <1>3
  <2>5. QED
    BY <1>3, <2>3, <2>4, NoMoreFits
<1>4. QED
  BY <1>2, <1>3

LEMMA RefusedIsNotInGrammar ==
  ASSUME IsReading, AtLineEnd, LineStart <= Len(tokens), LineError # NONE
  PROVE  \/ ~InGrammar(LineKinds(LineStart))
         \/ /\ LineError.code = "UNKNOWN_DIRECTIVE"
            /\ tokens[LineError.at].value \notin DirectiveNames
<1> DEFINE n == Len(Body)
           body == Unlabelled(LineKinds(LineStart))
<1>1. CASE TwoLabels
  BY <1>1, LineKindsAre
<1>2. CASE ~TwoLabels
  <2>1. body = KindsUpTo(n)
    BY <1>2, LineKindsAre
  <2>2. CASE Body = << >>
    <3>1. n = 0
      BY <2>2
    <3>2. body = << >>
      BY <2>1, <3>1, KindsUpToAre
    <3>3. QED
      BY <3>2 DEF InGrammar
  <2>3. CASE LineError = [code |-> "UNKNOWN_DIRECTIVE", at |-> Body[1]]
             /\ Token(1).value \notin DirectiveNames
    BY <2>3 DEF Token
  <2>4. ASSUME NEW p \in 1..n,
               \/ p = 1 /\ Token(1).kind \notin {"id", "directive"}
               \/ IsAt(1, {"id"}) /\ ImmEnd < n /\ p = ImmEnd + 1
        PROVE  ~InGrammar(LineKinds(LineStart))
    <3>1. n \in Nat /\ 1 \in 1..n
      BY <2>4, BodyIs
    <3>2. Len(body) = n /\ \A k \in 1..n : body[k] = Token(k).kind
      <4> HIDE DEF n, body
      <4>1. QED
        BY <2>1, <3>1, KindsUpToAre
    <3>3. body[1] # "directive"
      BY <2>4, <3>1, <3>2 DEF IsAt
    <3>4. body \notin StatementShapes
      <4>1. SUFFICES ASSUME body \in StatementShapes
                     PROVE  FALSE
        OBVIOUS
      <4>2. Len(body) >= p
        BY <3>1, <3>2
      <4>3. \E k \in 1..p : body[k] # Token(k).kind
        <5> HIDE DEF body
        <5>1. QED
          BY <2>4, <4>1, <4>2, NoneBeginsSo
      <4>4. \A k \in 1..p : k \in 1..n
        BY <3>1
      <4>5. QED
        BY <3>2, <4>3, <4>4
    <3>5. QED
      BY <3>3, <3>4 DEF InGrammar
  <2>5. CASE Token(1).kind \notin {"id", "directive"} /\ 1 \in 1..n
    BY <2>4, <2>5
  <2>6. CASE IsAt(1, {"id"}) /\ ImmEnd < n /\ ImmEnd + 1 \in 1..n
    BY <2>4, <2>6
  <2>7. QED
    BY <2>2, <2>3, <2>5, <2>6, LineErrorIs
<1>3. QED
  BY <1>1, <1>2

(* The place of a fault is in its line.                                    *)
LEMMA PlaceInLine ==
  ASSUME IsReading, AtLineEnd, LineStart <= Len(tokens),
         NEW at \in LineStart..(LineEnd - 1)
  PROVE  StartOf(at) = LineStart
<1> DEFINE s == LineStart
           n == Len(tokens)
           S == {i \in Starts : i <= at}
<1>1. /\ s \in 1..n /\ n \in Nat /\ LineEnd \in (s + 1)..(n + 1)
      /\ at \in s..(LineEnd - 1) /\ at \in 1..n
  BY TheLineIs, StreamIs DEF IsReading
<1>2. s \in Starts /\ Starts \subseteq 1..n
  BY LineBegins, StartsAre
<1>3. \A k \in (s + 1)..LineEnd : k \notin Starts
  BY NoneInside
<1> HIDE DEF s, n
<1>4. S \subseteq 0..n /\ s \in S /\ S # {}
  <2>1. 1..n \subseteq 0..n
    BY <1>1
  <2>2. S \subseteq 0..n
    BY <1>2, <2>1
  <2>3. s <= at
    BY <1>1
  <2>4. s \in S
    BY <1>2, <2>3
  <2>5. QED
    BY <2>2, <2>4
<1>5. \A k \in S : k <= s
  BY <1>1, <1>2, <1>3
<1>6. s \in Nat
  BY <1>1
<1> HIDE DEF S
<1>7. Max(S) \in S /\ \A y \in S : Max(S) >= y
  BY <1>1, <1>4, MaxIs
<1>8. Max(S) = s
  <2> DEFINE m == Max(S)
  <2>1. m \in S /\ m >= s /\ m <= s
    BY <1>4, <1>5, <1>7
  <2>2. m \in Nat
    <3>1. 0..n \subseteq Nat
      BY <1>1
    <3>2. QED
      BY <1>4, <2>1, <3>1
  <2> HIDE DEF m
  <2>3. m = s
    BY <1>6, <2>1, <2>2
  <2>4. QED
    BY <2>3 DEF m
<1>9. QED
  BY <1>8 DEF StartOf, S, s

LEMMA BodyInLine ==
  ASSUME IsReading, LineStart <= Len(tokens), NEW p \in 1..Len(Body)
  PROVE  Body[p] \in LineStart..(LineEnd - 1)
<1>1. /\ Len(LineTokens) = Len(LineRest) + 1 /\ Len(LineRest) \in Nat
      /\ \A k \in 1..Len(LineRest) : LineTokens[k + 1] = LineRest[k]
      /\ \A k \in 1..Len(LineTokens) : LineTokens[k] \in LineStart..(LineEnd - 1)
  BY LineTokensAre
<1>2. CASE ~IsLabelled
  BY <1>1, <1>2, BodyIs
<1>3. CASE IsLabelled
  <2>1. Body = LineRest
    BY <1>3, BodyIs
  <2>2. p + 1 \in 1..Len(LineTokens) /\ p \in 1..Len(LineRest)
    BY <1>1, <2>1
  <2>3. LineTokens[p + 1] \in LineStart..(LineEnd - 1)
    BY <1>1, <2>2
  <2>4. QED
    BY <1>1, <2>1, <2>2, <2>3
<1>4. QED
  BY <1>2, <1>3

-----------------------------------------------------------------------------
(* The lines that were read are those of the grammar, and the next one     *)
(* begins where the parser is.                                             *)
LinesInv ==
  /\ AtLineEnd
  /\ tokens = << >> => error = NONE
  /\ Len(lines) = Cardinality({i \in Starts : i < next})
  /\ \A i \in Starts : i < next => InGrammar(LineKinds(i))
  /\ error # NONE => LineStart <= Len(tokens) /\ error = LineError

LEMMA AcceptsFollows == ParseInv /\ LinesInv => AcceptsGrammar
<1> SUFFICES ASSUME ParseInv, LinesInv
             PROVE  AcceptsGrammar
  OBVIOUS
<1>1. IsReading /\ AtLineEnd
  BY DEF ParseInv, LinesInv
<1>2. ASSUME Parsed
      PROVE  /\ \A i \in Starts : InGrammar(LineKinds(i))
             /\ Len(lines) = Cardinality(Starts)
  <2>1. \A i \in Starts : i < next
    <3>1. LineStart \in Nat /\ Len(tokens) \in Nat /\ LineStart > Len(tokens)
      BY <1>1, <1>2, LineStartIs, StreamIs DEF IsReading, Parsed
    <3>2. QED
      BY <1>1, <3>1, NoneAtEnd
  <2>2. {i \in Starts : i < next} = Starts
    BY <2>1
  <2>3. QED
    BY <2>1, <2>2 DEF LinesInv
<1>3. ASSUME error # NONE
      PROVE  LET bad == StartOf(error.at)
             IN  /\ \A i \in Starts : i < bad => InGrammar(LineKinds(i))
                 /\ \/ ~InGrammar(LineKinds(bad))
                    \/ /\ error.code = "UNKNOWN_DIRECTIVE"
                       /\ tokens[error.at].value \notin DirectiveNames
  <2>1. LineStart <= Len(tokens) /\ error = LineError
    BY <1>3 DEF LinesInv
  <2>2. error.at \in LineStart..(LineEnd - 1)
    <3>1. LineStart \in LineStart..(LineEnd - 1)
      BY <1>1, <2>1, TheLineIs, StreamIs DEF IsReading
    <3>2. \A p \in 1..Len(Body) : Body[p] \in LineStart..(LineEnd - 1)
      BY <1>1, <2>1, BodyInLine
    <3>3. error.at = LineStart \/ \E p \in 1..Len(Body) : error.at = Body[p]
      BY <1>1, <1>3, <2>1, LineErrorIs
    <3>4. QED
      BY <3>1, <3>2, <3>3
  <2>3. StartOf(error.at) = LineStart
    BY <1>1, <2>1, <2>2, PlaceInLine
  <2>4. \A i \in Starts : i < LineStart => InGrammar(LineKinds(i))
    <3>1. /\ Starts \subseteq 1..Len(tokens)
          /\ \A k \in next..(LineStart - 1) : k \notin Starts
      BY <1>1, <2>1, StartsAre, LineBegins
    <3>2. LineStart \in Nat /\ next \in Nat /\ Len(tokens) \in Nat
      BY <1>1, <2>1, TheLineIs, StreamIs DEF IsReading
    <3>3. \A i \in Starts : i < LineStart => i < next
      BY <3>1, <3>2
    <3>4. QED
      BY <3>3 DEF LinesInv
  <2>5. \/ ~InGrammar(LineKinds(LineStart))
        \/ /\ error.code = "UNKNOWN_DIRECTIVE"
           /\ tokens[error.at].value \notin DirectiveNames
    BY <1>1, <1>3, <2>1, RefusedIsNotInGrammar
  <2>6. QED
    BY <2>3, <2>4, <2>5
<1>4. QED
  BY <1>2, <1>3 DEF AcceptsGrammar

LEMMA LineIsTaken ==
  ASSUME ParseInv, LinesInv, Parsing, LineError = NONE, NEW entry, AddLine(entry)
  PROVE  LinesInv'
<1>1. IsReading /\ AtLineEnd /\ LineStart <= Len(tokens) /\ error = NONE
  BY DEF ParseInv, LinesInv, Parsing
<1>2. /\ tokens' = tokens /\ next' = AfterLine /\ error' = error
      /\ lines' = Append(lines, entry)
  BY DEF AddLine, AfterLine
<1> DEFINE s == LineStart
           e == LineEnd
           n == Len(tokens)
           x == AfterLine
           S == {i \in Starts : i < next}
           T == {i \in Starts : i < x}
<1>3. /\ s \in 1..n /\ n \in Nat /\ e \in (s + 1)..(n + 1) /\ next \in 1..s
      /\ e <= n => tokens[e].kind \in Blank
  BY <1>1, TheLineIs, LineStartIs, StreamIs DEF IsReading
<1>4. x = (IF e > n THEN e ELSE e + 1)
  BY DEF AfterLine
<1>5. x \in (s + 1)..(n + 1) /\ ((x = e + 1 /\ e <= n) \/ (x = e /\ e = n + 1))
  BY <1>3, <1>4
<1>6. Starts' = Starts /\ \A i : LineKinds(i)' = LineKinds(i)
  BY <1>2 DEF Starts, Begins, IsBlank, LineKinds, KindsBetween
<1>7. AtLineEnd'
  <2>1. ASSUME x <= n
        PROVE  IsBlank(x - 1) /\ ~OpenLabel(x)
    <3>1. x = e + 1 /\ e <= n
      BY <1>3, <1>5, <2>1
    <3>2. x - 1 = e
      BY <1>3, <3>1
    <3>3. IsBlank(x - 1)
      BY <1>3, <3>1, <3>2 DEF IsBlank, Blank
    <3>4. ~OpenLabel(x)
      BY <1>1, <3>1, OpenEnd, TwoLabelsRefused
    <3>5. QED
      BY <3>3, <3>4
  <2> HIDE DEF x, e, s
  <2>2. next' = x /\ tokens' = tokens
    BY <1>2 DEF x
  <2>3. QED
    BY <2>1, <2>2 DEF AtLineEnd, IsBlank, OpenLabel
<1>8. T = S \cup {s} /\ s \notin S
  <2>1. s \in Starts /\ Starts \subseteq 1..n
    BY <1>1, LineBegins, StartsAre
  <2>2. /\ \A k \in next..(s - 1) : k \notin Starts
        /\ \A k \in (s + 1)..e : k \notin Starts
    BY <1>1, LineBegins, NoneInside
  <2> HIDE DEF s, e, n, x
  <2>3. ASSUME NEW i \in Starts
        PROVE  i < x <=> i < next \/ i = s
    <3>1. i \in 1..n /\ i \notin next..(s - 1) /\ i \notin (s + 1)..e
      BY <2>1, <2>2
    <3>2. QED
      BY <1>3, <1>5, <3>1
  <2>4. ~(s < next)
    BY <1>3
  <2>5. QED
    BY <2>1, <2>3, <2>4
<1>9. IsFiniteSet(S)
  <2>1. IsFiniteSet(1..n)
    BY <1>3, FS_Interval
  <2>2. S \subseteq 1..n
    BY StartsAre
  <2>3. QED
    BY <2>1, <2>2, FS_Subset
<1>10. Cardinality(T) = Cardinality(S) + 1
  BY <1>8, <1>9, FS_AddElement
<1>11. Len(lines') = Len(lines) + 1
  BY <1>2, AppendToList DEF ParseInv
<1>12. Len(lines') = Cardinality({i \in Starts' : i < next'})
  BY <1>2, <1>6, <1>10, <1>11 DEF LinesInv
<1>13. \A i \in T : InGrammar(LineKinds(i))
  <2>1. InGrammar(LineKinds(s))
    BY <1>1, TakenIsInGrammar
  <2>2. \A i \in S : InGrammar(LineKinds(i))
    BY DEF LinesInv
  <2>3. QED
    BY <1>8, <2>1, <2>2
<1>14. \A i \in Starts' : i < next' => InGrammar(LineKinds(i)')
  BY <1>2, <1>6, <1>13
<1>15. QED
  BY <1>1, <1>2, <1>7, <1>12, <1>14 DEF LinesInv

LEMMA PrefixIs ==
  ASSUME NEW X, NEW f \in Seq(X), NEW Y, NEW s \in Seq(Y), IsPrefix(f, s)
  PROVE  Len(f) <= Len(s) /\ \A k \in 1..Len(f) : f[k] = s[k]
<1> DEFINE n == Len(f)
<1>1. n \in Nat /\ n <= Len(s) /\ SubSeq(f, 1, n) = SubSeq(s, 1, n) /\ n <= Len(f)
  BY DEF IsPrefix
<1> HIDE DEF n
<1>2. \A k \in 1..n : SubSeq(f, 1, n)[k] = f[k]
  BY <1>1
<1>3. \A k \in 1..n : SubSeq(s, 1, n)[k] = s[k]
  BY <1>1
<1>4. \A k \in 1..n : f[k] = s[k]
  BY <1>1, <1>2, <1>3
<1>5. QED
  BY <1>1, <1>4 DEF n

Viable(kinds) ==
  \/ Unlabelled(kinds) = << >>
  \/ \E shape \in StatementShapes : IsPrefix(Unlabelled(kinds), shape)

LEMMA CulpritIs ==
  ASSUME IsReading, LineStart <= Len(tokens), NEW p \in 1..Len(Body),
         \/ p = 1 /\ Token(1).kind \notin {"id", "directive"}
         \/ IsAt(1, {"id"}) /\ ImmEnd < Len(Body) /\ p = ImmEnd + 1,
         NEW at, at = Body[p]
  PROVE  /\ Viable(KindsBetween(LineStart, at - 1))
         /\ ~Viable(KindsBetween(LineStart, at))
<1>1. p \in Nat /\ p # 0 /\ p - 1 \in Nat
  BY BodyIs
<1>2. /\ Unlabelled(KindsBetween(LineStart, at)) = KindsUpTo(p)
      /\ Unlabelled(KindsBetween(LineStart, at - 1)) = KindsUpTo(p - 1)
  BY UpToPlace
<1>3. KindsUpTo(p) # << >>
  BY <1>1, KindsUpToAre
<1>4. ASSUME NEW shape \in StatementShapes, IsPrefix(KindsUpTo(p), shape)
      PROVE  FALSE
  <2> DEFINE f == KindsUpTo(p)
  <2>1. PICK X : f \in Seq(X)
    BY <1>1, KindsUpToAre
  <2>2. Len(f) = p /\ \A k \in 1..p : f[k] = Token(k).kind
    BY <1>1, KindsUpToAre
  <2>3. shape \in Seq(Kinds)
    BY ShapeIs
  <2> HIDE DEF f
  <2>4. IsPrefix(f, shape)
    BY <1>4 DEF f
  <2>5. Len(f) <= Len(shape) /\ \A k \in 1..Len(f) : f[k] = shape[k]
    BY <2>1, <2>3, <2>4, PrefixIs
  <2>6. Len(shape) >= p
    BY <1>1, <2>2, <2>3, <2>5
  <2>7. \E k \in 1..p : shape[k] # Token(k).kind
    BY <2>6, NoneBeginsSo
  <2>8. QED
    BY <2>2, <2>5, <2>7
<1>5. Viable(KindsBetween(LineStart, at - 1))
  <2>1. CASE p = 1
    <3>1. p - 1 = 0
      BY <2>1
    <3>2. KindsUpTo(p - 1) = << >>
      BY <1>1, <3>1, KindsUpToAre
    <3>3. QED
      BY <1>2, <3>2 DEF Viable
  <2>2. CASE IsAt(1, {"id"}) /\ p = ImmEnd + 1
    <3> DEFINE f == KindsUpTo(p - 1)
    <3>1. Body # << >>
      BY <2>2 DEF IsAt
    <3>2. p - 1 = ImmEnd
      BY <2>2, <3>1, EndsAre
    <3>3. f \in StatementShapes
      BY <2>2, <3>2, TakenFits
    <3> HIDE DEF f
    <3>4. IsPrefix(f, f)
      <4>1. Len(f) \in Nat
        BY <3>3, ShapeIs
      <4>2. QED
        BY <4>1 DEF IsPrefix
    <3>5. QED
      BY <1>2, <3>3, <3>4 DEF Viable, f
  <2>3. QED
    BY <2>1, <2>2
<1>6. QED
  BY <1>2, <1>3, <1>4, <1>5 DEF Viable

LEMMA CulpritFollows == ParseInv /\ LinesInv => DiagnosticAtCulprit
<1> SUFFICES ASSUME ParseInv, LinesInv, error.code = "UNEXPECTED_TOKEN"
             PROVE  LET start == StartOf(error.at)
                    IN  \/ LineKinds(start) = <<"label">>
                        \/ /\ Viable(KindsBetween(start, error.at - 1))
                           /\ ~Viable(KindsBetween(start, error.at))
  BY DEF DiagnosticAtCulprit, Viable
<1>1. IsReading /\ AtLineEnd
  BY DEF ParseInv, LinesInv
<1>2. LineStart <= Len(tokens) /\ error = LineError /\ LineError # NONE
  BY DEF LinesInv, NONE
<1>3. CASE Body = << >> /\ IsLabelled /\ LineRest = << >> /\ error.at = LineStart
  <2> DEFINE s == LineStart
             t == LineTokens
  <2>1. s \in s..(LineEnd - 1) /\ s \in Nat
    BY <1>1, <1>2, TheLineIs, StreamIs DEF IsReading
  <2>2. StartOf(error.at) = s
    BY <1>1, <1>2, <1>3, <2>1, PlaceInLine
  <2>3. ~TwoLabels
    <3>1. << >> # <<s + 2>>
      <4>1. Len(<<s + 2>>) = 1 /\ Len(<< >>) = 0
        BY <2>1
      <4>2. QED
        BY <4>1
    <3>2. QED
      BY <1>3, <3>1 DEF TwoLabels
  <2>4. LineKinds(s) = KindsAt(t)
    BY <1>1, <1>2, <2>3, LineKindsAre
  <2>5. Len(t) = 1 /\ t[1] = s
    <3>1. Len(t) = Len(LineRest) + 1 /\ t[1] = s
      BY <1>1, <1>2, LineTokensAre
    <3>2. QED
      BY <1>3, <3>1
  <2>6. tokens[s].kind = "label"
    BY <1>3 DEF IsLabelled
  <2> HIDE DEF s, t
  <2>7. KindsAt(t) = [k \in 1..1 |-> "label"]
    BY <2>5, <2>6 DEF KindsAt
  <2>8. KindsAt(t) = <<"label">>
    BY <2>7
  <2>9. QED
    BY <2>2, <2>4, <2>8
<1>4. ASSUME NEW p \in 1..Len(Body), error.at = Body[p],
             \/ p = 1 /\ Token(1).kind \notin {"id", "directive"}
             \/ IsAt(1, {"id"}) /\ ImmEnd < Len(Body) /\ p = ImmEnd + 1
      PROVE  LET start == StartOf(error.at)
             IN  /\ Viable(KindsBetween(start, error.at - 1))
                 /\ ~Viable(KindsBetween(start, error.at))
  <2>1. Body[p] \in LineStart..(LineEnd - 1)
    BY <1>1, <1>2, BodyInLine
  <2>2. StartOf(error.at) = LineStart
    BY <1>1, <1>2, <1>4, <2>1, PlaceInLine
  <2>3. /\ Viable(KindsBetween(LineStart, error.at - 1))
        /\ ~Viable(KindsBetween(LineStart, error.at))
    BY <1>1, <1>2, <1>4, CulpritIs
  <2>4. QED
    BY <2>2, <2>3
<1>5. QED
  BY <1>1, <1>2, <1>3, <1>4, LineErrorIs

LEMMA LinesGoOn ==
  ASSUME ParseInv, LinesInv, [ParserNext]_parserVars
  PROVE  LinesInv'
<1>1. CASE ParseStatement \/ ParseDirective
  BY <1>1, LineIsTaken DEF ParseStatement, ParseDirective
<1>2. CASE RejectLine \/ UNCHANGED parserVars
  <2>1. tokens' = tokens /\ next' = next /\ lines' = lines
    BY <1>2 DEF RejectLine, parserVars
  <2>2. /\ Starts' = Starts /\ \A i : LineKinds(i)' = LineKinds(i)
        /\ LineStart' = LineStart /\ LineError' = LineError
        /\ AtLineEnd' <=> AtLineEnd
    <3>1. Starts' = Starts
      BY <2>1 DEF Starts, Begins, IsBlank
    <3>2. \A i : LineKinds(i)' = LineKinds(i)
      BY <2>1, <3>1 DEF LineKinds, KindsBetween
    <3>3. LineStart' = LineStart
      BY <2>1 DEF LineStart, Find
    <3>4. Body' = Body
      <4>1. RestStart' = RestStart
        BY <2>1, <3>3 DEF RestStart
      <4>2. LineEnd' = LineEnd
        BY <2>1, <4>1 DEF LineEnd, Find
      <4>3. LineTokens' = LineTokens
        BY <2>1, <3>3, <4>1, <4>2 DEF LineTokens
      <4>4. QED
        BY <2>1, <3>3, <4>3 DEF Body, IsLabelled
    <3>5. \A k, K : Token(k)' = Token(k) /\ (IsAt(k, K)' <=> IsAt(k, K))
      BY <2>1, <3>4 DEF Token, IsAt
    <3>6. Trailing' = Trailing
      BY <2>1, <3>4 DEF Trailing, ImmEnd, RegsEnd, CondEnd, IsAt, Token
    <3>7. LineError' = LineError
      BY <2>1, <3>3, <3>4, <3>5, <3>6 DEF LineError
    <3>8. AtLineEnd' <=> AtLineEnd
      BY <2>1 DEF AtLineEnd, IsBlank, OpenLabel
    <3>9. QED
      BY <3>1, <3>2, <3>3, <3>7, <3>8
  <2>3. error' = error \/ (LineStart <= Len(tokens) /\ error' = LineError /\ error = NONE)
    BY <1>2 DEF RejectLine, Parsing, parserVars
  <2>4. tokens = << >> => error' = NONE
    <3>1. LineStart <= Len(tokens) => tokens # << >>
      <4>1. ASSUME LineStart <= Len(tokens)
            PROVE  tokens # << >>
        BY <4>1, TheLineIs DEF ParseInv
      <4>2. QED
        BY <4>1
    <3>2. QED
      BY <2>3, <3>1 DEF LinesInv
  <2>5. error' # NONE => LineStart <= Len(tokens) /\ error' = LineError
    BY <2>3 DEF LinesInv
  <2>6. QED
    BY <2>1, <2>2, <2>4, <2>5 DEF LinesInv
<1>3. QED
  BY <1>1, <1>2 DEF ParserNext

-----------------------------------------------------------------------------
(* The parser behind the lexer.                                            *)
LEMMA KindIs ==
  ASSUME NEW text, NEW i
  PROVE  Kind(text, i) \in Kinds
<1>1. \A c \in DOMAIN Marks : Marks[c] \in Kinds
  BY DEF Marks, Kinds
<1>2. {"int", "label", "id"} \subseteq Kinds
  BY DEF Kinds
<1>3. QED
  BY <1>1, <1>2 DEF Kind

LEMMA HandOverKeeps ==
  ASSUME TextInv, ParseInv, HandOver
  PROVE  ParseInv'
<1> DEFINE n == Len(lexed)
           V == {lexed[k].value : k \in 1..n}
           R == [kind : Kinds, value : V]
<1>1. n \in Nat
  BY AppendToList DEF TextInv
<1>2. ASSUME NEW k \in 1..n
      PROVE  [kind |-> lexed[k].kind, value |-> lexed[k].value] \in R
  <2>1. lexed[k].kind \in Kinds
    BY KindIs DEF TextInv, IsToken
  <2>2. QED
    BY <2>1
<1>3. /\ tokens' = [k \in 1..n |-> [kind |-> lexed[k].kind, value |-> lexed[k].value]]
      /\ tokens = << >> /\ next' = next /\ lines' = lines
  BY DEF HandOver
<1> HIDE DEF R, n
<1>4. tokens' \in Seq(R) /\ Len(tokens') = n
  BY <1>1, <1>2, <1>3
<1>5. next = 1 /\ lines = << >> /\ IsList(lines)
  BY <1>3 DEF ParseInv
<1>6. IsReading'
  <2>1. IsStream'
    BY <1>4 DEF IsStream, R
  <2>2. next' \in 1..(Len(tokens') + 1)
    BY <1>1, <1>3, <1>4, <1>5
  <2>3. QED
    BY <2>1, <2>2 DEF IsReading
<1>7. Reads(tokens', next', lines')
  BY <1>3, <1>5, NothingRead
<1>8. IsList(lines')
  BY <1>3, <1>5
<1>9. QED
  BY <1>3, <1>5, <1>6, <1>7, <1>8 DEF ParseInv, IsReading, IsStream, IsList

LEMMA ReaderKeeps == TextInv /\ ParseInv /\ [Next]_vars => ParseInv'
<1>1. UNCHANGED parserVars => [ParserNext]_parserVars
  OBVIOUS
<1>2. Lex \/ UNCHANGED vars => UNCHANGED parserVars
  BY DEF Lex, vars
<1>3. Parse => [ParserNext]_parserVars
  BY DEF Parse
<1>4. QED
  BY <1>1, <1>2, <1>3, ParserKeeps, HandOverKeeps DEF Next

LEMMA ParseInvAlways == Spec => []ParseInv
<1>1. Init => ParseInv
  BY ParserBegins DEF Init
<1>2. QED
  BY <1>1, ReaderKeeps, TextInvAlways, PTL DEF Spec

(* The lines the parser made of a source, written out one after the other, *)
(* are the tokens it read but for commas, comments and newlines: no token  *)
(* is lost, read twice or moved, whatever the source is.                   *)
(* Code: parser_get_line against parser_read_statement and                 *)
(* parser_read_directive.                                                  *)
THEOREM NoTokenLostAlways == Spec => []NoTokenLost
<1> QED
  BY ParseInvAlways, NoneLostFollows, PTL

LEMMA NoLinesYet ==
  ASSUME next = 1, lines = << >>, error = NONE, NEW n, n = Len(tokens), n \in Nat
  PROVE  LinesInv
<1>1. AtLineEnd
  <2>1. IsBlank(next - 1)
    BY DEF IsBlank
  <2>2. ~OpenLabel(next)
    BY DEF OpenLabel
  <2>3. QED
    BY <2>1, <2>2 DEF AtLineEnd
<1>2. \A i \in Starts : ~(i < next)
  BY StartsAre
<1>3. {i \in Starts : i < next} = {}
  BY <1>2
<1>4. Cardinality({}) = 0
  BY FS_EmptySet
<1>5. Len(lines) = 0
  OBVIOUS
<1>6. QED
  BY <1>1, <1>2, <1>3, <1>4, <1>5 DEF LinesInv

LEMMA NoneYet ==
  ParseInv /\ next = 1 /\ lines = << >> /\ error = NONE => LinesInv
<1>1. ParseInv => Len(tokens) \in Nat
  BY StreamIs DEF ParseInv, IsReading
<1>2. QED
  BY <1>1, NoLinesYet

LEMMA NoneYetBehind ==
  (ParseInv /\ next = 1 /\ lines = << >> /\ error = NONE => LinesInv)'
  BY NoneYet, PTL

LEMMA LinesBegin == ParserInit => LinesInv
<1> SUFFICES ASSUME ParserInit
             PROVE  LinesInv
  OBVIOUS
<1>1. next = 1 /\ lines = << >> /\ error = NONE
  BY DEF ParserInit
<1>2. QED
  BY <1>1, ParserBegins, NoneYet

LEMMA HandOverLines ==
  ASSUME TextInv, ParseInv, LinesInv, HandOver
  PROVE  LinesInv'
<1>1. ParseInv'
  BY HandOverKeeps
<1>2. next' = 1 /\ lines' = << >> /\ error' = NONE
  BY DEF HandOver, ParseInv, LinesInv
<1>3. QED
  BY <1>1, <1>2, NoneYetBehind

LEMMA ReaderGoesOn ==
  TextInv /\ ParseInv /\ LinesInv /\ [Next]_vars => LinesInv'
<1>1. UNCHANGED parserVars => [ParserNext]_parserVars
  OBVIOUS
<1>2. Lex \/ UNCHANGED vars => UNCHANGED parserVars
  BY DEF Lex, vars
<1>3. Parse => [ParserNext]_parserVars
  BY DEF Parse
<1>4. QED
  BY <1>1, <1>2, <1>3, LinesGoOn, HandOverLines DEF Next

LEMMA LinesInvAlways == Spec => []LinesInv
<1>1. Init => LinesInv
  BY LinesBegin DEF Init
<1>2. QED
  BY <1>1, ReaderGoesOn, TextInvAlways, ParseInvAlways, PTL DEF Spec

(* A source is accepted exactly if every line of it is one of the grammar, *)
(* with a line for each; another one is refused at its first line that is  *)
(* not one, or that has an unknown directive, whatever the source is.      *)
(* Code: parser_get_line and parser_read_line of Parser.c.                 *)
THEOREM AcceptsGrammarAlways == Spec => []AcceptsGrammar
<1> QED
  BY ParseInvAlways, LinesInvAlways, AcceptsFollows, PTL

(* A diagnostic points at the first token of its line that does not fit:   *)
(* a line of the grammar begins with what is before it and none with it,   *)
(* whatever the source is.                                                 *)
(* Code: the token that parser_read_statement and parser_read_line give to *)
(* ZLASM_TOKEN_FAIL.                                                       *)
THEOREM DiagnosticAtCulpritAlways == Spec => []DiagnosticAtCulprit
<1> QED
  BY ParseInvAlways, LinesInvAlways, CulpritFollows, PTL

-----------------------------------------------------------------------------
(* The frames are records, whatever is in their fields; nothing else needs *)
(* to be known of tokens and definitions.                                  *)
FrameOver(X) == [list : X, next : X, macro : X, lineStart : X, at : X]
IsStack == \E X : frames \in Seq(FrameOver(X))

(* Two stacks of the same calls.                                           *)
SameCalls(s, t) ==
  /\ Len(s) = Len(t)
  /\ \A k \in 1..Len(t) : s[k].macro = t[k].macro

MacroIInv == IsStack /\ CallsInBounds

-----------------------------------------------------------------------------
(* A stack stays one over a larger set of values.                          *)
LEMMA WiderStack ==
  ASSUME NEW X, NEW Y, NEW s \in Seq(FrameOver(X))
  PROVE  s \in Seq(FrameOver(X \cup Y))
<1>1. FrameOver(X) \subseteq FrameOver(X \cup Y)
  BY DEF FrameOver
<1> QED
  BY <1>1, SeqMonotonic

(* Moving the top frame on changes neither the depth nor the calls.        *)
LEMMA MovedKeepsCalls ==
  ASSUME NEW X, frames \in Seq(FrameOver(X)), Len(frames) \in Nat \ {0},
         NEW i, NEW b
  PROVE  /\ MovedTo(i, b) \in Seq(FrameOver(X \cup {i, b}))
         /\ SameCalls(MovedTo(i, b), frames)
<1> DEFINE Y == X \cup {i, b}
           n == Len(frames)
           top == [frames[n] EXCEPT !.next = i, !.lineStart = b]
<1>1. frames \in Seq(FrameOver(Y))
  BY WiderStack
<1>2. n \in 1..Len(frames) /\ frames[n] \in FrameOver(Y)
  BY <1>1, ElementOfSeq
<1>3. top \in FrameOver(Y) /\ top.macro = frames[n].macro
  BY <1>2 DEF FrameOver
<1>4. MovedTo(i, b) = [frames EXCEPT ![n] = top]
  BY DEF MovedTo
<1> HIDE DEF top, Y, n
<1>5. /\ [frames EXCEPT ![n] = top] \in Seq(FrameOver(Y))
      /\ Len([frames EXCEPT ![n] = top]) = Len(frames)
      /\ \A k \in 1..Len(frames) :
           [frames EXCEPT ![n] = top][k] = IF k = n THEN top ELSE frames[k]
  BY <1>1, <1>2, <1>3, ExceptSeq
<1> QED
  BY <1>3, <1>4, <1>5 DEF Y, SameCalls

(* A call puts a frame on top and leaves the calls below as they are.      *)
LEMMA CallPushes ==
  ASSUME NEW X, frames \in Seq(FrameOver(X)), Len(frames) \in Nat \ {0},
         NEW i, NEW b, NEW list, NEW macro, NEW at,
         frames' = Append(MovedTo(i, b), Frame(list, macro, at))
  PROVE  /\ IsStack'
         /\ Len(frames') = Len(frames) + 1
         /\ \A k \in 1..Len(frames) : frames'[k].macro = frames[k].macro
         /\ frames'[Len(frames) + 1].macro = macro
<1> DEFINE Y == X \cup {i, b}
           Z == Y \cup {list, 1, macro, TRUE, at}
<1>1. MovedTo(i, b) \in Seq(FrameOver(Z))
  BY MovedKeepsCalls, WiderStack
<1>2. Frame(list, macro, at) \in FrameOver(Z)
  BY DEF Frame, FrameOver
<1>3. /\ frames' \in Seq(FrameOver(Z))
      /\ Len(frames') = Len(MovedTo(i, b)) + 1
      /\ \A k \in 1..Len(MovedTo(i, b)) : frames'[k] = MovedTo(i, b)[k]
      /\ frames'[Len(MovedTo(i, b)) + 1] = Frame(list, macro, at)
  BY <1>1, <1>2, AppendProperties
<1>4. SameCalls(MovedTo(i, b), frames)
  BY MovedKeepsCalls
<1>5. IsStack'
  BY <1>3 DEF IsStack
<1> QED
  BY <1>3, <1>4, <1>5 DEF Frame, SameCalls

-----------------------------------------------------------------------------
LEMMA MacroInitIInv == MacroInit => MacroIInv
<1> SUFFICES ASSUME MacroInit PROVE MacroIInv
  OBVIOUS
<1>1. frames \in Seq(FrameOver({}))
  BY DEF MacroInit
<1> QED
  BY <1>1 DEF MacroInit, MacroIInv, IsStack, CallsInBounds

(* The steps that move the top frame on.                                   *)
LEMMA MoveKeepsIInv ==
  ASSUME MacroIInv, stage = "expand", stage' = stage,
         NEW i, NEW b, frames' = MovedTo(i, b)
  PROVE  MacroIInv'
<1>1. PICK X : frames \in Seq(FrameOver(X))
  BY DEF MacroIInv, IsStack
<1>2. Len(frames) \in Nat \ {0}
  BY MaxDepthAssumption DEF MacroIInv, CallsInBounds
<1>3. /\ MovedTo(i, b) \in Seq(FrameOver(X \cup {i, b}))
      /\ SameCalls(MovedTo(i, b), frames)
  BY <1>1, <1>2, MovedKeepsCalls
<1>4. IsStack'
  BY <1>3 DEF IsStack
<1>5. CallsInBounds'
  BY <1>2, <1>3 DEF MacroIInv, CallsInBounds, SameCalls
<1> QED
  BY <1>4, <1>5 DEF MacroIInv

(* A call is made only below MaxDepth and of a macro not being expanded.   *)
LEMMA ExpandKeepsIInv == MacroIInv /\ ExpandMacro => MacroIInv'
<1> SUFFICES ASSUME MacroIInv, ExpandMacro PROVE MacroIInv'
  OBVIOUS
<1> DEFINE n == Len(frames)
<1>1. PICK X : frames \in Seq(FrameOver(X))
  BY DEF MacroIInv, IsStack
<1>2. n \in 1..(MaxDepth + 1) /\ n \in Nat \ {0}
  BY MaxDepthAssumption DEF MacroIInv, CallsInBounds, ExpandMacro, Expanding
<1>3. ~InCalls(Callee.name) /\ ~DepthReached
  BY DEF ExpandMacro, CallError
<1>4. n + 1 \in 1..(MaxDepth + 1)
  BY <1>2, <1>3, MaxDepthAssumption DEF DepthReached, Depth
<1>5. PICK i, list, at :
        frames' = Append(MovedTo(i, TRUE), Frame(list, Callee.name, at))
  BY DEF ExpandMacro
<1>6. /\ IsStack'
      /\ Len(frames') = n + 1
      /\ \A k \in 1..n : frames'[k].macro = frames[k].macro
      /\ frames'[n + 1].macro = Callee.name
  <2> DEFINE callee == Callee.name
  <2>1. frames' = Append(MovedTo(i, TRUE), Frame(list, callee, at))
    BY <1>5
  <2> HIDE DEF callee
  <2>2. /\ IsStack'
        /\ Len(frames') = n + 1
        /\ \A k \in 1..n : frames'[k].macro = frames[k].macro
        /\ frames'[n + 1].macro = callee
    <3>1. frames \in Seq(FrameOver(X)) /\ Len(frames) \in Nat \ {0}
      BY <1>1, <1>2
    <3>2. /\ IsStack'
          /\ Len(frames') = Len(frames) + 1
          /\ \A k \in 1..Len(frames) : frames'[k].macro = frames[k].macro
          /\ frames'[Len(frames) + 1].macro = callee
      BY <2>1, <3>1, CallPushes
    <3> QED
      BY <3>2
  <2> QED
    BY <2>2 DEF callee
<1>7. \A k \in 2..n : frames[k].macro # Callee.name
  BY <1>3 DEF InCalls
<1>8. ASSUME NEW k \in 2..Len(frames'), NEW l \in 2..Len(frames'),
             frames'[k].macro = frames'[l].macro
      PROVE  k = l
  <2>1. CASE k \in 2..n /\ l \in 2..n
    BY <1>2, <1>6, <1>8, <2>1 DEF MacroIInv, CallsInBounds
  <2>2. CASE k = n + 1 \/ l = n + 1
    BY <1>2, <1>6, <1>7, <1>8, <2>2
  <2> QED
    BY <1>2, <1>6, <2>1, <2>2
<1>9. CallsInBounds'
  BY <1>4, <1>6, <1>8 DEF CallsInBounds
<1> QED
  BY <1>6, <1>9 DEF MacroIInv

(* The end of a body drops the top frame.                                  *)
LEMMA ReturnKeepsIInv == MacroIInv /\ EndOfRange => MacroIInv'
<1> SUFFICES ASSUME MacroIInv, EndOfRange PROVE MacroIInv'
  OBVIOUS
<1> DEFINE n == Len(frames)
<1>1. PICK X : frames \in Seq(FrameOver(X))
  BY DEF MacroIInv, IsStack
<1>2. n \in 1..(MaxDepth + 1) /\ n \in Nat \ {0}
  BY MaxDepthAssumption DEF MacroIInv, CallsInBounds, EndOfRange
<1>3. CASE Depth = 0
  BY <1>3 DEF EndOfRange, MacroIInv, IsStack, CallsInBounds
<1>4. CASE Depth # 0
  <2>1. n - 1 \in 1..(MaxDepth + 1)
    <3>1. n # 1
      BY <1>4 DEF Depth
    <3> HIDE DEF n
    <3> QED
      BY <1>2, <3>1, MaxDepthAssumption
  <2>2. frames' = SubSeq(frames, 1, n - 1)
    BY <1>4 DEF EndOfRange, Front
  <2>3. /\ frames' \in Seq(FrameOver(X))
        /\ Len(frames') = n - 1
        /\ \A k \in 1..(n - 1) : frames'[k] = frames[k]
    BY <1>1, <1>2, <2>1, <2>2
  <2>4. IsStack'
    BY <2>3 DEF IsStack
  <2>5. CallsInBounds'
    BY <1>2, <2>1, <2>3 DEF MacroIInv, CallsInBounds
  <2> QED
    BY <2>4, <2>5 DEF MacroIInv
<1> QED
  BY <1>3, <1>4

LEMMA MacroNextIInv == MacroIInv /\ [MacroNext]_macroVars => MacroIInv'
<1> SUFFICES ASSUME MacroIInv, [MacroNext]_macroVars PROVE MacroIInv'
  OBVIOUS
<1> USE DEF MacroIInv, IsStack, CallsInBounds
<1>1. CASE UNCHANGED frames /\ (stage' = stage \/ stage' # "expand")
  BY <1>1
<1>2. CASE CaptureMacro \/ PassToken
  BY <1>1, <1>2 DEF CaptureMacro, PassToken
<1>3. CASE CaptureRefused \/ StrayEndMacro \/ CallRefused
  BY <1>1, <1>3 DEF CaptureRefused, StrayEndMacro, CallRefused, Fail
<1>4. CASE BeginExpansion
  <2> DEFINE frame == Frame(program, << >>, 0)
             X == {program, 1, << >>, TRUE, 0}
  <2>1. frame \in FrameOver(X)
    BY DEF Frame, FrameOver
  <2> HIDE DEF frame
  <2>2. frames' = <<frame>>
    BY <1>4 DEF BeginExpansion, frame
  <2>3. frames' \in Seq(FrameOver(X)) /\ Len(frames') = 1
    BY <2>1, <2>2
  <2> QED
    BY <2>3, MaxDepthAssumption
<1>5. CASE SkipDefinition
  BY <1>5, MoveKeepsIInv DEF SkipDefinition, Expanding
<1>6. CASE ExpandMacro
  BY <1>6, ExpandKeepsIInv
<1>7. CASE CopyToken
  BY <1>7, MoveKeepsIInv DEF CopyToken, Expanding
<1>8. CASE EndOfRange
  BY <1>8, ReturnKeepsIInv
<1>9. CASE UNCHANGED macroVars
  BY <1>1, <1>9 DEF macroVars
<1> QED
  BY <1>2, <1>3, <1>4, <1>5, <1>6, <1>7, <1>8, <1>9 DEF MacroNext

(* The calls that are being expanded fit into the array that holds them,   *)
(* for every program, and no macro is in it twice.                         *)
(* Code: Macro *stack[64] of macros_expand, is_expanding and the limit of  *)
(* expand_macro.                                                           *)
THEOREM CallsInBoundsAlways == MacroSpec => []CallsInBounds
<1>1. MacroIInv => CallsInBounds
  BY DEF MacroIInv
<1> QED
  BY MacroInitIInv, MacroNextIInv, <1>1, PTL DEF MacroSpec
====
