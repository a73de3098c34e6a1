----------------------------- MODULE ImageProofs ----------------------------
(***************************************************************************)
(* Whatever a file holds, the decoder stays inside of it and gives back    *)
(* what it has allocated; what the encoder writes it reads back; and what  *)
(* it accepts is what the linker assumes of an object.                     *)
(***************************************************************************)
EXTENDS ImageProperties, WordProofs, SequenceTheorems

-----------------------------------------------------------------------------
(* Sequences put together.                                                 *)
LEMMA FlattenExists ==
  ASSUME NEW n \in Nat, NEW p
  PROVE  \E f : f = [i \in 1..n |-> IF i = 1 THEN p[i] ELSE f[i - 1] \o p[i]]
<1> DEFINE P(m) == \E f : f = [i \in 1..m |-> IF i = 1 THEN p[i]
                                              ELSE f[i - 1] \o p[i]]
           S == {m \in 0..n : P(m)}
<1>1. 0 \in S
  <2> DEFINE f == [i \in 1..0 |-> 0]
  <2>1. f = [i \in 1..0 |-> IF i = 1 THEN p[i] ELSE f[i - 1] \o p[i]]
    OBVIOUS
  <2> HIDE DEF f
  <2>2. P(0)
    BY <2>1
  <2> HIDE DEF P
  <2>3. QED
    BY <2>2
<1>2. ASSUME NEW m \in 1..n, m - 1 \in S
      PROVE  m \in S
  <2>1. PICK f : f = [i \in 1..(m - 1) |-> IF i = 1 THEN p[i]
                                           ELSE f[i - 1] \o p[i]]
    BY <1>2
  <2> DEFINE last == IF m = 1 THEN p[m] ELSE f[m - 1] \o p[m]
             g == [i \in 1..m |-> IF i = m THEN last ELSE f[i]]
  <2>2. ASSUME NEW i \in 1..m
        PROVE  g[i] = IF i = 1 THEN p[i] ELSE g[i - 1] \o p[i]
    <3>1. CASE i = m
      <4>1. g[m] = last
        OBVIOUS
      <4>2. m # 1 => g[m - 1] = f[m - 1]
        OBVIOUS
      <4>3. QED
        BY <3>1, <4>1, <4>2
    <3>2. CASE i # m
      <4>1. i \in 1..(m - 1) /\ g[i] = f[i]
        BY <3>2
      <4>2. i # 1 => i - 1 \in 1..m /\ i - 1 # m
        BY <3>2
      <4>3. i # 1 => g[i - 1] = f[i - 1]
        BY <4>2
      <4>4. f[i] = IF i = 1 THEN p[i] ELSE f[i - 1] \o p[i]
        BY <2>1, <4>1
      <4>5. QED
        BY <4>1, <4>3, <4>4
    <3>3. QED
      BY <3>1, <3>2
  <2> HIDE DEF g
  <2>3. g = [i \in 1..m |-> g[i]]
    BY DEF g
  <2>4. g = [i \in 1..m |-> IF i = 1 THEN p[i] ELSE g[i - 1] \o p[i]]
    BY <2>2, <2>3
  <2>5. P(m)
    BY <2>4
  <2> HIDE DEF P
  <2>6. QED
    BY <2>5
<1> HIDE DEF S
<1>3. 0..n \subseteq S
  BY <1>1, <1>2, CountingUp
<1>4. n \in S
  BY <1>3
<1>5. P(n)
  BY <1>4, Zenon DEF S
<1>6. QED
  BY <1>5, Zenon

LEMMA FlattenType ==
  ASSUME NEW T, NEW p \in Seq(Seq(T))
  PROVE  FlattenSeq(p) \in Seq(T)
<1> DEFINE n == Len(p)
           flatten[i \in 1..n] == IF i = 1 THEN p[i] ELSE flatten[i - 1] \o p[i]
<1>1. n \in Nat /\ \A i \in 1..n : p[i] \in Seq(T)
  OBVIOUS
<1>2. flatten = [i \in 1..n |-> IF i = 1 THEN p[i] ELSE flatten[i - 1] \o p[i]]
  BY <1>1, FlattenExists, Zenon
<1>3. FlattenSeq(p) = IF n = 0 THEN p ELSE flatten[n]
  BY Zenon DEF FlattenSeq
<1> HIDE DEF flatten
<1> DEFINE S == {k \in 0..n : k = 0 \/ flatten[k] \in Seq(T)}
<1>4. 0 \in S
  OBVIOUS
<1>5. ASSUME NEW k \in 1..n, k - 1 \in S
      PROVE  k \in S
  <2>1. flatten[k] = IF k = 1 THEN p[k] ELSE flatten[k - 1] \o p[k]
    BY <1>2
  <2>2. k # 1 => flatten[k - 1] \in Seq(T)
    BY <1>5
  <2>3. flatten[k] \in Seq(T)
    BY <1>1, <2>1, <2>2
  <2>4. QED
    BY <2>3
<1> HIDE DEF S
<1>6. 0..n \subseteq S
  BY <1>1, <1>4, <1>5, CountingUp
<1>7. n # 0 => flatten[n] \in Seq(T)
  BY <1>1, <1>6 DEF S
<1>8. n = 0 => p \in Seq(T)
  OBVIOUS
<1>9. QED
  BY <1>3, <1>7, <1>8

LEMMA WiderType ==
  ASSUME NEW S, NEW T, S \subseteq T, NEW s \in Seq(S)
  PROVE  s \in Seq(T)
<1>1. Len(s) \in Nat /\ s = [i \in 1..Len(s) |-> s[i]]
  OBVIOUS
<1>2. \A i \in 1..Len(s) : s[i] \in T
  OBVIOUS
<1>3. [i \in 1..Len(s) |-> s[i]] \in Seq(T)
  BY <1>1, <1>2
<1>4. QED
  BY <1>1, <1>3

LEMMA PartType ==
  ASSUME NEW T, NEW s \in Seq(T), NEW m \in Int, NEW n \in Int,
         1 <= m, n <= Len(s)
  PROVE  SubSeq(s, m, n) \in Seq(T)
<1>1. CASE m > n
  <2>1. SubSeq(s, m, n) = << >>
    BY <1>1
  <2>2. QED
    BY <2>1
<1>2. CASE ~(m > n)
  BY <1>2
<1>3. QED
  BY <1>1, <1>2

(* What has been put together after i of the sequences.                    *)
Joined(p, i) == FlattenSeq(SubSeq(p, 1, i))

LEMMA JoinedSteps ==
  ASSUME NEW T, NEW p \in Seq(Seq(T))
  PROVE  /\ Joined(p, 0) = << >>
         /\ FlattenSeq(p) = Joined(p, Len(p))
         /\ \A i \in 0..Len(p) : Joined(p, i) \in Seq(T)
         /\ \A i \in 1..Len(p) : Joined(p, i) = Joined(p, i - 1) \o p[i]
<1> DEFINE n == Len(p)
           flat[i \in 1..n] == IF i = 1 THEN p[i] ELSE flat[i - 1] \o p[i]
<1>1. n \in Nat /\ \A i \in 1..n : p[i] \in Seq(T)
  OBVIOUS
<1>2. flat = [i \in 1..n |-> IF i = 1 THEN p[i] ELSE flat[i - 1] \o p[i]]
  BY <1>1, FlattenExists, Zenon
<1> HIDE DEF flat
<1>3. ASSUME NEW m \in 1..n
      PROVE  Joined(p, m) = flat[m]
  <2> DEFINE q == SubSeq(p, 1, m)
             part[i \in 1..m] == IF i = 1 THEN q[i] ELSE part[i - 1] \o q[i]
  <2>1. Len(q) = m /\ \A i \in 1..m : q[i] = p[i]
    BY <1>1
  <2>2. m \in Nat
    BY <1>1
  <2>3. part = [i \in 1..m |-> IF i = 1 THEN q[i] ELSE part[i - 1] \o q[i]]
    BY <2>2, FlattenExists, Zenon
  <2>4. FlattenSeq(q) = part[m]
    <3>1. FlattenSeq(q) = IF Len(q) = 0 THEN q
                          ELSE LET f[i \in 1..Len(q)] ==
                                     IF i = 1 THEN q[i] ELSE f[i - 1] \o q[i]
                               IN  f[Len(q)]
      BY Zenon DEF FlattenSeq
    <3>2. m # 0
      BY <1>1
    <3> HIDE DEF q
    <3>3. QED
      BY <2>1, <3>1, <3>2, Zenon
  <2> HIDE DEF part, q
  <2> DEFINE S == {k \in 0..m : k = 0 \/ part[k] = flat[k]}
  <2>5. 0 \in S
    BY <2>2
  <2>6. ASSUME NEW k \in 1..m, k - 1 \in S
        PROVE  k \in S
    <3>1. part[k] = IF k = 1 THEN p[k] ELSE part[k - 1] \o p[k]
      BY <2>1, <2>3
    <3>2. flat[k] = IF k = 1 THEN p[k] ELSE flat[k - 1] \o p[k]
      <4>1. k \in 1..n
        BY <1>1
      <4>2. QED
        BY <1>2, <4>1
    <3>3. k # 1 => part[k - 1] = flat[k - 1]
      BY <2>6
    <3>4. QED
      BY <3>1, <3>2, <3>3
  <2> HIDE DEF S
  <2>7. 0..m \subseteq S
    BY <2>2, <2>5, <2>6, CountingUp
  <2>8. part[m] = flat[m]
    BY <1>1, <2>7 DEF S
  <2>9. QED
    BY <2>4, <2>8 DEF Joined, q
<1>4. Joined(p, 0) = << >>
  <2>1. SubSeq(p, 1, 0) = << >>
    OBVIOUS
  <2>2. FlattenSeq(<< >>) = << >>
    BY Zenon DEF FlattenSeq
  <2>3. QED
    BY <2>1, <2>2 DEF Joined
<1>5. FlattenSeq(p) = Joined(p, n)
  <2>1. SubSeq(p, 1, n) = p
    BY SubSeqFull
  <2>2. QED
    BY <2>1 DEF Joined
<1>6. \A i \in 0..n : Joined(p, i) \in Seq(T)
  <2> SUFFICES ASSUME NEW i \in 0..n
               PROVE  Joined(p, i) \in Seq(T)
    OBVIOUS
  <2>1. SubSeq(p, 1, i) \in Seq(Seq(T))
    BY <1>1, PartType
  <2>2. QED
    BY <2>1, FlattenType DEF Joined
<1>7. ASSUME NEW i \in 1..n
      PROVE  Joined(p, i) = Joined(p, i - 1) \o p[i]
  <2>1. flat[i] = IF i = 1 THEN p[i] ELSE flat[i - 1] \o p[i]
    BY <1>2
  <2>2. CASE i = 1
    <3>1. << >> \o p[1] = p[1]
      BY <1>1, <2>2, ConcatEmptySeq
    <3>2. QED
      BY <1>3, <1>4, <2>1, <2>2, <3>1
  <2>3. CASE i # 1
    <3>1. i - 1 \in 1..n
      BY <1>1, <2>3
    <3>2. QED
      BY <1>3, <2>1, <2>3, <3>1
  <2>4. QED
    BY <2>2, <2>3
<1>8. QED
  BY <1>4, <1>5, <1>6, <1>7

(* Where each of the sequences is found in the result.                     *)
LEMMA JoinedParts ==
  ASSUME NEW T, NEW p \in Seq(Seq(T))
  PROVE  /\ Len(Joined(p, 0)) = 0
         /\ Len(FlattenSeq(p)) = Len(Joined(p, Len(p)))
         /\ \A i \in 0..Len(p) : Len(Joined(p, i)) \in Nat
         /\ \A i \in 1..Len(p) :
              /\ Len(Joined(p, i)) = Len(Joined(p, i - 1)) + Len(p[i])
              /\ Len(Joined(p, i)) <= Len(FlattenSeq(p))
              /\ \A k \in 1..Len(p[i]) :
                   FlattenSeq(p)[Len(Joined(p, i - 1)) + k] = p[i][k]
<1> DEFINE n == Len(p)
           L(i) == Len(Joined(p, i))
<1>1. n \in Nat /\ \A i \in 1..n : p[i] \in Seq(T) /\ Len(p[i]) \in Nat
  OBVIOUS
<1>2. \A i \in 0..n : Joined(p, i) \in Seq(T) /\ L(i) \in Nat
  <2>1. \A i \in 0..n : Joined(p, i) \in Seq(T)
    BY JoinedSteps
  <2>2. QED
    BY <2>1
<1>3. L(0) = 0 /\ FlattenSeq(p) = Joined(p, n)
  <2>1. Joined(p, 0) = << >> /\ FlattenSeq(p) = Joined(p, n)
    BY JoinedSteps
  <2>2. QED
    BY <2>1
<1>4. ASSUME NEW i \in 1..n
      PROVE  /\ L(i) = L(i - 1) + Len(p[i])
             /\ \A x \in 1..(L(i - 1) + Len(p[i])) :
                  Joined(p, i)[x] = IF x <= L(i - 1) THEN Joined(p, i - 1)[x]
                                    ELSE p[i][x - L(i - 1)]
  <2>1. i - 1 \in 0..n
    BY <1>1
  <2>2. Joined(p, i - 1) \in Seq(T) /\ p[i] \in Seq(T)
    BY <1>1, <1>2, <2>1
  <2>3. Joined(p, i) = Joined(p, i - 1) \o p[i]
    BY JoinedSteps
  <2> DEFINE u == Joined(p, i - 1)
             v == p[i]
  <2> HIDE DEF u, v
  <2>4. /\ Len(u \o v) = Len(u) + Len(v)
        /\ \A x \in 1..(Len(u) + Len(v)) :
             (u \o v)[x] = IF x <= Len(u) THEN u[x] ELSE v[x - Len(u)]
    <3>1. u \in Seq(T) /\ v \in Seq(T)
      BY <2>2 DEF u, v
    <3>2. QED
      BY <3>1, ConcatProperties
  <2>5. QED
    BY <2>3, <2>4 DEF u, v
<1> DEFINE In(i, j) == /\ L(i) <= L(j)
                       /\ \A k \in 1..Len(p[i]) :
                            Joined(p, j)[L(i - 1) + k] = p[i][k]
           S == {j \in 0..n : \A i \in 1..j : In(i, j)}
<1>5. 0 \in S
  BY <1>1
<1>6. ASSUME NEW j \in 1..n, j - 1 \in S
      PROVE  j \in S
  <2> SUFFICES ASSUME NEW i \in 1..j
               PROVE  In(i, j)
    BY <1>1
  <2>1. i \in 1..n /\ i - 1 \in 0..n /\ i \in 0..n /\ j - 1 \in 0..n /\ j \in 0..n
    BY <1>1
  <2>2. L(i) = L(i - 1) + Len(p[i]) /\ L(j) = L(j - 1) + Len(p[j])
    BY <1>4, <2>1
  <2>3. /\ L(i) \in Nat /\ L(i - 1) \in Nat /\ L(j) \in Nat /\ L(j - 1) \in Nat
        /\ Len(p[i]) \in Nat /\ Len(p[j]) \in Nat
    BY <1>1, <1>2, <2>1
  <2>4. \A x \in 1..(L(j - 1) + Len(p[j])) :
          Joined(p, j)[x] = IF x <= L(j - 1) THEN Joined(p, j - 1)[x]
                            ELSE p[j][x - L(j - 1)]
    BY <1>4
  <2>5. CASE i = j
    <3> HIDE DEF L
    <3>1. SUFFICES ASSUME NEW k \in 1..Len(p[i])
                   PROVE  Joined(p, j)[L(i - 1) + k] = p[i][k]
      BY <2>3, <2>5
    <3>2. /\ L(j - 1) + k \in 1..(L(j - 1) + Len(p[j]))
          /\ ~(L(j - 1) + k <= L(j - 1))
          /\ (L(j - 1) + k) - L(j - 1) = k
      BY <2>3, <2>5
    <3>3. QED
      BY <2>4, <2>5, <3>2
  <2>6. CASE i # j
    <3>1. i \in 1..(j - 1)
      BY <2>6
    <3>2. /\ L(i) <= L(j - 1)
          /\ \A k \in 1..Len(p[i]) :
               Joined(p, j - 1)[L(i - 1) + k] = p[i][k]
      BY <1>6, <3>1
    <3> HIDE DEF L
    <3>3. L(i) <= L(j)
      BY <2>2, <2>3, <3>2
    <3>4. ASSUME NEW k \in 1..Len(p[i])
          PROVE  Joined(p, j)[L(i - 1) + k] = p[i][k]
      <4>1. /\ L(i - 1) + k \in 1..(L(j - 1) + Len(p[j]))
            /\ L(i - 1) + k <= L(j - 1)
        <5>1. k \in Nat /\ 1 <= k /\ k <= Len(p[i])
          BY <2>3
        <5>2. L(i) <= L(j - 1)
          BY <3>2
        <5> DEFINE a == L(i - 1)
                   b == L(i)
                   c == L(j - 1)
                   d == Len(p[i])
                   e == Len(p[j])
        <5>3. /\ a \in Nat /\ c \in Nat /\ d \in Nat /\ e \in Nat
              /\ b = a + d /\ b <= c /\ k <= d
          BY <2>2, <2>3, <5>1, <5>2
        <5> HIDE DEF a, b, c, d, e
        <5>4. a + k \in 1..(c + e) /\ a + k <= c
          BY <5>1, <5>3
        <5>5. QED
          BY <5>4 DEF a, c, e
      <4>2. QED
        BY <2>4, <3>2, <4>1
    <3>5. QED
      BY <3>3, <3>4
  <2>7. QED
    BY <2>5, <2>6
<1> HIDE DEF S
<1>7. 0..n \subseteq S
  BY <1>1, <1>5, <1>6, CountingUp
<1>8. \A i \in 1..n : In(i, n)
  <2>1. n \in S
    BY <1>1, <1>7
  <2> HIDE DEF In
  <2>2. QED
    BY <2>1 DEF S
<1> HIDE DEF n, L
<1>9. QED
  BY <1>2, <1>3, <1>4, <1>8 DEF n, L

(* The result of sequences that are all of one length.                     *)
LEMMA JoinedRecords ==
  ASSUME NEW T, NEW p \in Seq(Seq(T)), NEW w \in Nat,
         \A i \in 1..Len(p) : Len(p[i]) = w
  PROVE  /\ FlattenSeq(p) \in Seq(T)
         /\ Len(FlattenSeq(p)) = Len(p) * w
         /\ \A i \in 1..Len(p), k \in 1..w :
              FlattenSeq(p)[(i - 1) * w + k] = p[i][k]
<1> DEFINE n == Len(p)
           L(i) == Len(Joined(p, i))
           S == {i \in 0..n : L(i) = i * w}
<1>1. n \in Nat
  OBVIOUS
<1>2. L(0) = 0 /\ \A i \in 1..n : L(i) = L(i - 1) + Len(p[i])
  BY JoinedParts
<1>3. 0 \in S
  <2> HIDE DEF L, n
  <2>1. QED
    BY <1>1, <1>2
<1>4. ASSUME NEW i \in 1..n, i - 1 \in S
      PROVE  i \in S
  <2>1. L(i) = L(i - 1) + w
    BY <1>2
  <2> HIDE DEF L
  <2>2. L(i - 1) = (i - 1) * w
    BY <1>4
  <2>3. (i - 1) * w + w = i * w
    BY <1>1
  <2>4. i \in 0..n
    BY <1>1
  <2>5. QED
    BY <2>1, <2>2, <2>3, <2>4
<1> HIDE DEF S
<1>5. 0..n \subseteq S
  BY <1>1, <1>3, <1>4, CountingUp
<1>6. \A i \in 0..n : L(i) = i * w
  BY <1>5 DEF S
<1>7. FlattenSeq(p) \in Seq(T)
  BY FlattenType
<1>8. Len(FlattenSeq(p)) = n * w
  <2>1. Len(FlattenSeq(p)) = L(n)
    BY JoinedParts
  <2>2. n \in 0..n
    BY <1>1
  <2> HIDE DEF L, n
  <2>3. QED
    BY <1>6, <2>1, <2>2
<1>9. ASSUME NEW i \in 1..n, NEW k \in 1..w
      PROVE  FlattenSeq(p)[(i - 1) * w + k] = p[i][k]
  <2>1. FlattenSeq(p)[L(i - 1) + k] = p[i][k]
    <3>1. k \in 1..Len(p[i])
      OBVIOUS
    <3>2. QED
      BY <3>1, JoinedParts
  <2>2. i - 1 \in 0..n
    BY <1>1
  <2> HIDE DEF L, n
  <2>3. QED
    BY <1>6, <2>1, <2>2
<1>10. QED
  BY <1>7, <1>8, <1>9

-----------------------------------------------------------------------------
(* What the encoder is given, and what it has checked of it.               *)
LEMMA ImageShape ==
  ASSUME NEW img \in Images
  PROVE  /\ img.kind \in Word /\ img.entry \in Word
         /\ img.entrySymbol \in CString \cup {NoName}
         /\ img.sections \in Seq(ImageSection)
         /\ img.symbols \in Seq(ImageSymbol)
         /\ img.relocations \in Seq(ImageRelocation)
         /\ img = [kind |-> img.kind, entry |-> img.entry,
                   entrySymbol |-> img.entrySymbol, sections |-> img.sections,
                   symbols |-> img.symbols, relocations |-> img.relocations]
BY CodecAssumption DEF IsImage

(* A string of characters, as a sequence of numbers none of which is 0.    *)
LEMMA CStringType ==
  ASSUME NEW s \in CString
  PROVE  /\ s \in Seq(Word) /\ s \in Seq(Nat) /\ Len(s) \in Nat
         /\ \A k \in 1..Len(s) : s[k] # 0
<1>1. Word \ {0} \subseteq Word /\ Word \subseteq Nat /\ s \in Seq(Word \ {0})
  BY Bases DEF Word, CString
<1>2. s \in Seq(Word)
  BY <1>1, WiderType
<1>3. s \in Seq(Nat)
  BY <1>1, <1>2, WiderType
<1>4. \A k \in 1..Len(s) : s[k] \in Word \ {0}
  BY <1>1
<1>5. QED
  BY <1>2, <1>3, <1>4

(* The fields of the structures.                                           *)
LEMMA SectionFields ==
  ASSUME NEW s \in ImageSection
  PROVE  /\ s.name \in CString /\ s.type \in Word /\ s.flags \in Word
         /\ s.alignment \in Word /\ s.address \in Word /\ s.size \in Nat
         /\ s.data \in Seq(Byte) /\ s.data \in Seq(Nat)
         /\ Payload(s) \in Seq(Nat)
         /\ s.type # BSS => Len(s.data) = s.size
         /\ s = [name |-> s.name, type |-> s.type, flags |-> s.flags,
                 alignment |-> s.alignment, address |-> s.address,
                 size |-> s.size, data |-> s.data]
<1>1. s \in [name : CString, type : Word, flags : Word, alignment : Word,
             address : Word, size : Nat, data : Seq(Byte)]
      /\ (s.type # BSS => Len(s.data) = s.size)
  BY DEF ImageSection
<1>2. s.data \in Seq(Byte) /\ Byte \subseteq Nat
  BY <1>1, ByteBaseAssumption DEF Byte
<1>3. s.data \in Seq(Nat)
  BY <1>2, WiderType
<1>4. QED
  BY <1>1, <1>3 DEF Payload

LEMMA SymbolFields ==
  ASSUME NEW s \in ImageSymbol
  PROVE  /\ s.name \in CString /\ s.section \in Word /\ s.value \in Word
         /\ s.size \in Word /\ s.binding \in Word /\ s.type \in Word
         /\ s = [name |-> s.name, section |-> s.section, value |-> s.value,
                 size |-> s.size, binding |-> s.binding, type |-> s.type]
BY DEF ImageSymbol

LEMMA RelocationFields ==
  ASSUME NEW r \in ImageRelocation
  PROVE  /\ r.section \in Word /\ r.offset \in Word /\ r.type \in Word
         /\ r.symbol \in Word /\ r.addend \in Int
         /\ r.addend \in SWORD_MIN..SWORD_MAX
         /\ ToWord(r.addend) \in Nat
         /\ r = [section |-> r.section, offset |-> r.offset, type |-> r.type,
                 symbol |-> r.symbol, addend |-> r.addend]
<1>1. /\ r.section \in Word /\ r.offset \in Word /\ r.type \in Word
      /\ r.symbol \in Word /\ r.addend \in SWORD_MIN..SWORD_MAX
      /\ r = [section |-> r.section, offset |-> r.offset, type |-> r.type,
              symbol |-> r.symbol, addend |-> r.addend]
  BY DEF ImageRelocation
<1>2. r.addend \in Int
  <2>1. SignBit \in Int
    BY Bases
  <2>2. QED
    BY <1>1, <2>1 DEF SWORD_MIN, SWORD_MAX
<1>3. ToWord(r.addend) \in Nat
  BY <1>2, ToWordType, Bases DEF Word
<1>4. QED
  BY <1>1, <1>2, <1>3

-----------------------------------------------------------------------------
(* Two sequences, and six.                                                 *)
LEMMA TwoParts ==
  ASSUME NEW T, NEW a \in Seq(T), NEW b \in Seq(T)
  PROVE  /\ a \o b \in Seq(T)
         /\ Len(a) \in Nat /\ Len(b) \in Nat
         /\ Len(a \o b) = Len(a) + Len(b)
         /\ \A k \in 1..Len(a) : (a \o b)[k] = a[k]
         /\ \A k \in 1..Len(b) : (a \o b)[Len(a) + k] = b[k]
<1>1. /\ a \o b \in Seq(T)
      /\ Len(a \o b) = Len(a) + Len(b)
      /\ \A x \in 1..(Len(a) + Len(b)) :
           (a \o b)[x] = IF x <= Len(a) THEN a[x] ELSE b[x - Len(a)]
  BY ConcatProperties
<1>2. Len(a) \in Nat /\ Len(b) \in Nat
  OBVIOUS
<1>3. \A k \in 1..Len(a) : (a \o b)[k] = a[k]
  BY <1>1, <1>2
<1>4. ASSUME NEW k \in 1..Len(b)
      PROVE  (a \o b)[Len(a) + k] = b[k]
  <2> DEFINE n == Len(a)
             m == Len(b)
             x == n + k
  <2>1. n \in Nat /\ m \in Nat /\ k \in 1..m
    BY <1>2
  <2> HIDE DEF n, m
  <2>2. x \in 1..(n + m) /\ ~(x <= n) /\ x - n = k
    BY <2>1
  <2> HIDE DEF x
  <2>3. (a \o b)[x] = b[x - n]
    BY <1>1, <2>2 DEF n, m
  <2>4. QED
    BY <2>2, <2>3 DEF x, n
<1>5. QED
  BY <1>1, <1>2, <1>3, <1>4

SixOf(a, b, c, d, e, f) == a \o b \o c \o d \o e \o f

HasParts(T, whole, a, b, c, d, e, f) ==
  /\ whole \in Seq(T)
  /\ Len(a) \in Nat /\ Len(b) \in Nat /\ Len(c) \in Nat
  /\ Len(d) \in Nat /\ Len(e) \in Nat /\ Len(f) \in Nat
  /\ Len(whole) = Len(a) + Len(b) + Len(c) + Len(d) + Len(e) + Len(f)
  /\ \A k \in 1..Len(a) : whole[k] = a[k]
  /\ \A k \in 1..Len(b) : whole[Len(a) + k] = b[k]
  /\ \A k \in 1..Len(c) : whole[Len(a) + Len(b) + k] = c[k]
  /\ \A k \in 1..Len(d) : whole[Len(a) + Len(b) + Len(c) + k] = d[k]
  /\ \A k \in 1..Len(e) :
       whole[Len(a) + Len(b) + Len(c) + Len(d) + k] = e[k]
  /\ \A k \in 1..Len(f) :
       whole[Len(a) + Len(b) + Len(c) + Len(d) + Len(e) + k] = f[k]

LEMMA SixParts ==
  ASSUME NEW T, NEW a \in Seq(T), NEW b \in Seq(T), NEW c \in Seq(T),
         NEW d \in Seq(T), NEW e \in Seq(T), NEW f \in Seq(T)
  PROVE  HasParts(T, SixOf(a, b, c, d, e, f), a, b, c, d, e, f)
<1> DEFINE A == Len(a)
           B == Len(b)
           C == Len(c)
           D == Len(d)
           E == Len(e)
           F == Len(f)
           whole == SixOf(a, b, c, d, e, f)
<1> DEFINE ab == a \o b
<1>1. /\ ab \in Seq(T) /\ Len(a) \in Nat /\ Len(b) \in Nat
      /\ Len(ab) = Len(a) + Len(b)
      /\ \A k \in 1..Len(a) : ab[k] = a[k]
      /\ \A k \in 1..Len(b) : ab[Len(a) + k] = b[k]
  BY TwoParts
<1> HIDE DEF ab
<1> DEFINE abc == ab \o c
<1>2. /\ abc \in Seq(T) /\ Len(ab) \in Nat /\ Len(c) \in Nat
      /\ Len(abc) = Len(ab) + Len(c)
      /\ \A k \in 1..Len(ab) : abc[k] = ab[k]
      /\ \A k \in 1..Len(c) : abc[Len(ab) + k] = c[k]
  <2>1. ab \in Seq(T)
    BY <1>1
  <2>2. QED
    BY <2>1, TwoParts
<1> HIDE DEF abc
<1> DEFINE abcd == abc \o d
<1>3. /\ abcd \in Seq(T) /\ Len(abc) \in Nat /\ Len(d) \in Nat
      /\ Len(abcd) = Len(abc) + Len(d)
      /\ \A k \in 1..Len(abc) : abcd[k] = abc[k]
      /\ \A k \in 1..Len(d) : abcd[Len(abc) + k] = d[k]
  <2>1. abc \in Seq(T)
    BY <1>2
  <2>2. QED
    BY <2>1, TwoParts
<1> HIDE DEF abcd
<1> DEFINE abcde == abcd \o e
<1>4. /\ abcde \in Seq(T) /\ Len(abcd) \in Nat /\ Len(e) \in Nat
      /\ Len(abcde) = Len(abcd) + Len(e)
      /\ \A k \in 1..Len(abcd) : abcde[k] = abcd[k]
      /\ \A k \in 1..Len(e) : abcde[Len(abcd) + k] = e[k]
  <2>1. abcd \in Seq(T)
    BY <1>3
  <2>2. QED
    BY <2>1, TwoParts
<1> HIDE DEF abcde
<1> DEFINE abcdef == abcde \o f
<1>5. /\ abcdef \in Seq(T) /\ Len(abcde) \in Nat /\ Len(f) \in Nat
      /\ Len(abcdef) = Len(abcde) + Len(f)
      /\ \A k \in 1..Len(abcde) : abcdef[k] = abcde[k]
      /\ \A k \in 1..Len(f) : abcdef[Len(abcde) + k] = f[k]
  <2>1. abcde \in Seq(T)
    BY <1>4
  <2>2. QED
    BY <2>1, TwoParts
<1> HIDE DEF abcdef
<1>6. whole = abcdef
  BY DEF SixOf, abcdef, abcde, abcd, abc, ab
<1> HIDE DEF A, B, C, D, E, F, whole
<1>7. /\ A \in Nat /\ B \in Nat /\ C \in Nat /\ D \in Nat /\ E \in Nat
      /\ F \in Nat /\ Len(ab) = A + B /\ Len(abc) = A + B + C
      /\ Len(abcd) = A + B + C + D /\ Len(abcde) = A + B + C + D + E
      /\ Len(abcdef) = A + B + C + D + E + F
  <2>1. /\ A \in Nat /\ B \in Nat /\ C \in Nat /\ D \in Nat /\ E \in Nat
        /\ F \in Nat
    BY <1>1, <1>2, <1>3, <1>4, <1>5 DEF A, B, C, D, E, F
  <2>2. /\ Len(ab) = A + B /\ Len(abc) = Len(ab) + C
        /\ Len(abcd) = Len(abc) + D /\ Len(abcde) = Len(abcd) + E
        /\ Len(abcdef) = Len(abcde) + F
    BY <1>1, <1>2, <1>3, <1>4, <1>5 DEF A, B, C, D, E, F
  <2>3. QED
    BY <2>1, <2>2
<1>8. ASSUME NEW k \in 1..A
      PROVE  whole[k] = a[k]
  <2>1. /\ k \in 1..Len(ab)
        /\ k \in 1..Len(abc)
        /\ k \in 1..Len(abcd)
        /\ k \in 1..Len(abcde)
    BY <1>7
  <2>2. ab[k] = a[k]
    BY <1>1, <1>7 DEF A
  <2>3. abc[k] = ab[k]
    BY <1>2, <2>1
  <2>4. abcd[k] = abc[k]
    BY <1>3, <2>1
  <2>5. abcde[k] = abcd[k]
    BY <1>4, <2>1
  <2>6. abcdef[k] = abcde[k]
    BY <1>5, <2>1
  <2>7. QED
    BY <1>6, <2>2, <2>3, <2>4, <2>5, <2>6
<1>9. ASSUME NEW k \in 1..B
      PROVE  whole[A + k] = b[k]
  <2>1. /\ A + k \in 1..Len(ab)
        /\ A + k \in 1..Len(abc)
        /\ A + k \in 1..Len(abcd)
        /\ A + k \in 1..Len(abcde)
    BY <1>7
  <2>2. ab[A + k] = b[k]
    BY <1>1 DEF A, B
  <2>3. abc[A + k] = ab[A + k]
    BY <1>2, <2>1
  <2>4. abcd[A + k] = abc[A + k]
    BY <1>3, <2>1
  <2>5. abcde[A + k] = abcd[A + k]
    BY <1>4, <2>1
  <2>6. abcdef[A + k] = abcde[A + k]
    BY <1>5, <2>1
  <2>7. QED
    BY <1>6, <2>2, <2>3, <2>4, <2>5, <2>6
<1>10. ASSUME NEW k \in 1..C
      PROVE  whole[A + B + k] = c[k]
  <2>1. /\ A + B + k \in 1..Len(abc)
        /\ A + B + k \in 1..Len(abcd)
        /\ A + B + k \in 1..Len(abcde)
    BY <1>7
  <2>2. abc[A + B + k] = c[k]
    BY <1>2, <1>7 DEF A, C
  <2>3. abcd[A + B + k] = abc[A + B + k]
    BY <1>3, <2>1
  <2>4. abcde[A + B + k] = abcd[A + B + k]
    BY <1>4, <2>1
  <2>5. abcdef[A + B + k] = abcde[A + B + k]
    BY <1>5, <2>1
  <2>6. QED
    BY <1>6, <2>2, <2>3, <2>4, <2>5
<1>11. ASSUME NEW k \in 1..D
      PROVE  whole[A + B + C + k] = d[k]
  <2>1. /\ A + B + C + k \in 1..Len(abcd)
        /\ A + B + C + k \in 1..Len(abcde)
    BY <1>7
  <2>2. abcd[A + B + C + k] = d[k]
    BY <1>3, <1>7 DEF A, D
  <2>3. abcde[A + B + C + k] = abcd[A + B + C + k]
    BY <1>4, <2>1
  <2>4. abcdef[A + B + C + k] = abcde[A + B + C + k]
    BY <1>5, <2>1
  <2>5. QED
    BY <1>6, <2>2, <2>3, <2>4
<1>12. ASSUME NEW k \in 1..E
      PROVE  whole[A + B + C + D + k] = e[k]
  <2>1. /\ A + B + C + D + k \in 1..Len(abcde)
    BY <1>7
  <2>2. abcde[A + B + C + D + k] = e[k]
    BY <1>4, <1>7 DEF A, E
  <2>3. abcdef[A + B + C + D + k] = abcde[A + B + C + D + k]
    BY <1>5, <2>1
  <2>4. QED
    BY <1>6, <2>2, <2>3
<1>13. ASSUME NEW k \in 1..F
      PROVE  whole[A + B + C + D + E + k] = f[k]
  <2>1. abcdef[A + B + C + D + E + k] = f[k]
    BY <1>5, <1>7 DEF A, F
  <2>2. QED
    BY <1>6, <2>1
<1>14. QED
  BY <1>1, <1>5, <1>6, <1>7, <1>8, <1>9, <1>10, <1>11, <1>12, <1>13
     DEF A, B, C, D, E, F, whole, HasParts

-----------------------------------------------------------------------------
(* The names that are written, in their order.                             *)
LEMMA EncoderNames ==
  ASSUME NEW img \in Images
  PROVE  /\ AllNames(img) \in Seq(Seq(Nat))
         /\ Len(AllNames(img)) = Len(img.sections) + Len(img.symbols)
              + (IF img.kind = OBJECT /\ img.entrySymbol # NoName THEN 1 ELSE 0)
         /\ \A i \in 1..Len(img.sections) :
              AllNames(img)[i] = Name(img.sections[i].name)
         /\ \A i \in 1..Len(img.symbols) :
              AllNames(img)[Len(img.sections) + i] = Name(img.symbols[i].name)
         /\ img.kind = OBJECT /\ img.entrySymbol # NoName =>
              AllNames(img)[Len(img.sections) + Len(img.symbols) + 1]
                = Name(img.entrySymbol)
<1> DEFINE N == Len(img.sections)
           M == Len(img.symbols)
           a == [i \in 1..N |-> Name(img.sections[i].name)]
           b == [i \in 1..M |-> Name(img.symbols[i].name)]
           stored == img.kind = OBJECT /\ img.entrySymbol # NoName
           c == IF stored THEN <<Name(img.entrySymbol)>> ELSE << >>
           n == IF stored THEN 1 ELSE 0
<1>1. AllNames(img) = a \o b \o c
  BY DEF AllNames
<1>2. N \in Nat /\ M \in Nat
  BY ImageShape
<1>3. \A s \in CString : Name(s) \in Seq(Nat)
  BY CStringType DEF Name
<1>4. /\ \A i \in 1..N : img.sections[i].name \in CString
      /\ \A i \in 1..M : img.symbols[i].name \in CString
      /\ stored => img.entrySymbol \in CString
  <2>1. /\ \A i \in 1..N : img.sections[i] \in ImageSection
        /\ \A i \in 1..M : img.symbols[i] \in ImageSymbol
        /\ stored => img.entrySymbol \in CString
    BY ImageShape
  <2>2. QED
    BY <2>1, SectionFields, SymbolFields
<1>5. a \in Seq(Seq(Nat)) /\ Len(a) = N
  BY <1>2, <1>3, <1>4
<1>6. b \in Seq(Seq(Nat)) /\ Len(b) = M
  BY <1>2, <1>3, <1>4
<1>7. c \in Seq(Seq(Nat)) /\ Len(c) = n /\ (stored => c[1] = Name(img.entrySymbol))
  BY <1>3, <1>4
<1>8. /\ \A i \in 1..N : a[i] = Name(img.sections[i].name)
      /\ \A i \in 1..M : b[i] = Name(img.symbols[i].name)
  OBVIOUS
<1>9. n \in Nat /\ (stored => 1 \in 1..n)
  OBVIOUS
<1> HIDE DEF a, b, c, N, M, n, stored
<1> DEFINE ab == a \o b
<1>10. /\ ab \in Seq(Seq(Nat)) /\ Len(ab) = N + M
       /\ \A i \in 1..N : ab[i] = a[i]
       /\ \A i \in 1..M : ab[N + i] = b[i]
  <2>1. a \in Seq(Seq(Nat)) /\ b \in Seq(Seq(Nat))
    BY <1>5, <1>6
  <2>2. /\ ab \in Seq(Seq(Nat)) /\ Len(ab) = Len(a) + Len(b)
        /\ \A i \in 1..Len(a) : ab[i] = a[i]
        /\ \A i \in 1..Len(b) : ab[Len(a) + i] = b[i]
    BY <2>1, TwoParts
  <2> HIDE DEF ab
  <2>3. QED
    BY <1>5, <1>6, <2>2
<1> HIDE DEF ab
<1> DEFINE whole == ab \o c
<1>11. /\ whole \in Seq(Seq(Nat)) /\ Len(whole) = Len(ab) + n
       /\ \A i \in 1..Len(ab) : whole[i] = ab[i]
       /\ \A i \in 1..n : whole[Len(ab) + i] = c[i]
  <2>1. ab \in Seq(Seq(Nat)) /\ c \in Seq(Seq(Nat))
    BY <1>7, <1>10
  <2>2. /\ whole \in Seq(Seq(Nat)) /\ Len(whole) = Len(ab) + Len(c)
        /\ \A i \in 1..Len(ab) : whole[i] = ab[i]
        /\ \A i \in 1..Len(c) : whole[Len(ab) + i] = c[i]
    BY <2>1, TwoParts
  <2> HIDE DEF whole
  <2>3. QED
    BY <1>7, <2>2
<1>12. AllNames(img) = whole
  BY <1>1 DEF ab
<1> HIDE DEF whole
<1>13. Len(whole) = N + M + n
  BY <1>10, <1>11
<1>14. \A i \in 1..N : whole[i] = Name(img.sections[i].name)
  <2>1. \A i \in 1..N : i \in 1..Len(ab)
    BY <1>2, <1>10
  <2>2. QED
    BY <1>8, <1>10, <1>11, <2>1
<1>15. \A i \in 1..M : whole[N + i] = Name(img.symbols[i].name)
  <2>1. \A i \in 1..M : N + i \in 1..Len(ab)
    BY <1>2, <1>10
  <2>2. QED
    BY <1>8, <1>10, <1>11, <2>1
<1>16. stored => whole[N + M + 1] = Name(img.entrySymbol)
  BY <1>7, <1>9, <1>10, <1>11
<1>17. QED
  BY <1>11, <1>12, <1>13, <1>14, <1>15, <1>16 DEF N, M, n, stored

(* Where a name is in the string table.                                    *)
LEMMA NamePlaces ==
  ASSUME NEW img \in Images
  PROVE  /\ Strings(img) \in Seq(Nat) /\ Len(Strings(img)) \in Nat
         /\ Len(Strings(img)) >= 1 /\ Strings(img)[1] = 0
         /\ \A i \in 1..Len(AllNames(img)) :
              LET name == AllNames(img)[i]
                  at   == NameOffset(img, i)
              IN  /\ name \in Seq(Nat) /\ at \in Nat /\ at >= 1
                  /\ at + Len(name) <= Len(Strings(img))
                  /\ \A k \in 1..Len(name) : Strings(img)[at + k] = name[k]
<1> DEFINE names == AllNames(img)
           n == Len(names)
           flat == FlattenSeq(names)
           strings == Strings(img)
           L(i) == Len(Joined(names, i))
<1>1. names \in Seq(Seq(Nat)) /\ n \in Nat
  <2>1. names \in Seq(Seq(Nat))
    BY EncoderNames
  <2>2. QED
    BY <2>1
<1>2. \A i \in 1..n : names[i] \in Seq(Nat) /\ Len(names[i]) \in Nat
  BY <1>1
<1>3. flat \in Seq(Nat) /\ Len(flat) \in Nat
  <2>1. flat \in Seq(Nat)
    BY <1>1, FlattenType
  <2>2. QED
    BY <2>1
<1>4. /\ \A i \in 0..n : L(i) \in Nat
      /\ \A i \in 1..n :
           /\ L(i) = L(i - 1) + Len(names[i])
           /\ L(i) <= Len(flat)
           /\ \A k \in 1..Len(names[i]) : flat[L(i - 1) + k] = names[i][k]
  <2> HIDE DEF names
  <2>1. QED
    BY <1>1, JoinedParts
<1>5. strings = <<0>> \o flat
  BY DEF Strings
<1>6. \A i \in 1..n : NameOffset(img, i) = 1 + L(i - 1)
  BY DEF NameOffset, Joined
<1> HIDE DEF names, flat, strings, L, n
<1>7. /\ strings \in Seq(Nat) /\ Len(strings) = 1 + Len(flat)
      /\ strings[1] = 0
      /\ \A k \in 1..Len(flat) : strings[1 + k] = flat[k]
  <2> DEFINE z == <<0>>
  <2>1. z \in Seq(Nat) /\ Len(z) = 1 /\ z[1] = 0
    OBVIOUS
  <2> HIDE DEF z
  <2>2. /\ z \o flat \in Seq(Nat)
        /\ Len(z \o flat) = Len(z) + Len(flat)
        /\ \A k \in 1..Len(z) : (z \o flat)[k] = z[k]
        /\ \A k \in 1..Len(flat) : (z \o flat)[Len(z) + k] = flat[k]
    <3>1. z \in Seq(Nat) /\ flat \in Seq(Nat)
      BY <1>3, <2>1
    <3>2. QED
      BY <3>1, TwoParts
  <2>3. strings = z \o flat
    BY <1>5 DEF z
  <2>4. 1 \in 1..Len(z)
    BY <2>1
  <2>5. QED
    BY <2>1, <2>2, <2>3, <2>4
<1>8. ASSUME NEW i \in 1..n
      PROVE  /\ names[i] \in Seq(Nat) /\ NameOffset(img, i) \in Nat
             /\ NameOffset(img, i) >= 1
             /\ NameOffset(img, i) + Len(names[i]) <= Len(strings)
             /\ \A k \in 1..Len(names[i]) :
                  strings[NameOffset(img, i) + k] = names[i][k]
  <2> DEFINE x == L(i - 1)
             l == Len(names[i])
             m == Len(flat)
  <2>1. x \in Nat /\ l \in Nat /\ m \in Nat /\ x + l <= m
    <3>1. i - 1 \in 0..n
      BY <1>1
    <3>2. QED
      BY <1>2, <1>3, <1>4, <3>1
  <2>2. \A k \in 1..l : flat[x + k] = names[i][k]
    BY <1>4
  <2>3. NameOffset(img, i) = 1 + x /\ Len(strings) = 1 + m
    BY <1>6, <1>7
  <2>4. \A k \in 1..m : strings[1 + k] = flat[k]
    BY <1>7
  <2> HIDE DEF x, l, m
  <2>5. /\ NameOffset(img, i) \in Nat /\ NameOffset(img, i) >= 1
        /\ NameOffset(img, i) + l <= Len(strings)
    BY <2>1, <2>3
  <2>6. ASSUME NEW k \in 1..l
        PROVE  strings[NameOffset(img, i) + k] = names[i][k]
    <3>1. x + k \in 1..m /\ NameOffset(img, i) + k = 1 + (x + k)
      BY <2>1, <2>3
    <3>2. QED
      BY <2>2, <2>4, <3>1
  <2>7. QED
    BY <1>2, <2>5, <2>6 DEF l
<1>9. Len(strings) \in Nat /\ Len(strings) >= 1
  BY <1>3, <1>7
<1>10. QED
  BY <1>7, <1>8, <1>9 DEF strings, names, n

(* Where the bytes of a section are in the payloads.                       *)
LEMMA PayloadPlaces ==
  ASSUME NEW s \in Seq(ImageSection)
  PROVE  /\ Payloads(s) \in Seq(Nat) /\ Len(Payloads(s)) \in Nat
         /\ \A i \in 1..Len(s) :
              LET before == Len(Payloads(SubSeq(s, 1, i - 1)))
              IN  /\ before \in Nat
                  /\ Payload(s[i]) \in Seq(Nat)
                  /\ before + Len(Payload(s[i])) <= Len(Payloads(s))
                  /\ \A k \in 1..Len(Payload(s[i])) :
                       Payloads(s)[before + k] = Payload(s[i])[k]
<1> DEFINE n == Len(s)
           p == [j \in 1..n |-> Payload(s[j])]
           L(i) == Len(Joined(p, i))
           all == Payloads(s)
           before(i) == Len(Payloads(SubSeq(s, 1, i - 1)))
<1>1. n \in Nat /\ \A j \in 1..n : s[j] \in ImageSection
  OBVIOUS
<1>2. \A j \in 1..n : Payload(s[j]) \in Seq(Nat)
  BY <1>1, SectionFields
<1>3. p \in Seq(Seq(Nat)) /\ Len(p) = n /\ \A j \in 1..n : p[j] = Payload(s[j])
  BY <1>1, <1>2
<1>4. all = FlattenSeq(p)
  BY DEF Payloads
<1>5. ASSUME NEW i \in 1..n
      PROVE  before(i) = L(i - 1)
  <2> DEFINE t == SubSeq(s, 1, i - 1)
             q == [j \in 1..Len(t) |-> Payload(t[j])]
  <2>1. Len(t) = i - 1 /\ \A j \in 1..(i - 1) : t[j] = s[j]
    BY <1>1
  <2>2. SubSeq(p, 1, i - 1) = [j \in 1..(i - 1) |-> p[j]]
    <3> HIDE DEF p
    <3>1. QED
      BY <1>1, <1>3
  <2>3. \A j \in 1..(i - 1) : p[j] = Payload(t[j])
    BY <1>1, <1>3, <2>1
  <2>4. q = SubSeq(p, 1, i - 1)
    <3> HIDE DEF p, t
    <3>1. QED
      BY <2>1, <2>2, <2>3
  <2>5. Payloads(t) = FlattenSeq(q)
    BY DEF Payloads
  <2>6. QED
    BY <2>4, <2>5 DEF Joined
<1> HIDE DEF p
<1>6. /\ \A i \in 0..n : L(i) \in Nat
      /\ \A i \in 1..n :
           /\ L(i) = L(i - 1) + Len(p[i])
           /\ L(i) <= Len(FlattenSeq(p))
           /\ \A k \in 1..Len(p[i]) : FlattenSeq(p)[L(i - 1) + k] = p[i][k]
  <2>1. p \in Seq(Seq(Nat)) /\ n = Len(p)
    BY <1>3
  <2>2. /\ \A i \in 0..Len(p) : L(i) \in Nat
        /\ \A i \in 1..Len(p) :
             /\ L(i) = L(i - 1) + Len(p[i])
             /\ L(i) <= Len(FlattenSeq(p))
             /\ \A k \in 1..Len(p[i]) : FlattenSeq(p)[L(i - 1) + k] = p[i][k]
    <3>1. p \in Seq(Seq(Nat))
      BY <2>1
    <3>2. QED
      BY <3>1, JoinedParts
  <2> HIDE DEF L, n
  <2>3. QED
    BY <2>1, <2>2
<1>7. all \in Seq(Nat)
  BY <1>3, <1>4, FlattenType
<1>8. Len(all) \in Nat
  BY <1>7
<1> HIDE DEF L, all, before, n
<1>9. ASSUME NEW i \in 1..n
      PROVE  /\ before(i) \in Nat
             /\ Payload(s[i]) \in Seq(Nat)
             /\ before(i) + Len(Payload(s[i])) <= Len(all)
             /\ \A k \in 1..Len(Payload(s[i])) :
                  all[before(i) + k] = Payload(s[i])[k]
  <2>1. i - 1 \in 0..n
    BY <1>1
  <2>2. p[i] = Payload(s[i]) /\ before(i) = L(i - 1)
    BY <1>3, <1>5
  <2>3. QED
    BY <1>2, <1>4, <1>6, <2>1, <2>2
<1>10. QED
  BY <1>7, <1>8, <1>9 DEF n, all, before

-----------------------------------------------------------------------------
(* What the encoder has checked.                                           *)
LEMMA EncoderAccepts ==
  ASSUME NEW img \in Images, EncodeError(img) = "NONE"
  PROVE  /\ img.kind = OBJECT \/ img.kind = EXECUTABLE
         /\ img.kind = EXECUTABLE => img.relocations = << >>
         /\ \A i \in 1..Len(img.sections) :
              ~BadSection(img.sections[i].type, img.sections[i].alignment,
                          img.sections[i].address, img.sections[i].size)
         /\ \A i \in 1..Len(img.symbols) :
              ~BadSymbol(img.symbols[i].section, img.symbols[i].binding,
                         img.symbols[i].type, Len(img.sections))
         /\ \A i \in 1..Len(img.relocations) :
              ~BadRelocation(img.relocations[i], img.sections,
                             Len(img.symbols))
         /\ img.kind = OBJECT => img.entry = 0
         /\ img.kind = EXECUTABLE =>
              img.entry # 0 /\ EntryInText(img.entry, img.sections)
<1> DEFINE known == img.kind \in {OBJECT, EXECUTABLE}
           bad == \/ img.kind = EXECUTABLE /\ img.relocations # << >>
                  \/ \E i \in 1..Len(img.sections) :
                       BadSection(img.sections[i].type, img.sections[i].alignment,
                                  img.sections[i].address, img.sections[i].size)
                  \/ \E i \in 1..Len(img.symbols) :
                       BadSymbol(img.symbols[i].section, img.symbols[i].binding,
                                 img.symbols[i].type, Len(img.sections))
                  \/ \E i \in 1..Len(img.relocations) :
                       BadRelocation(img.relocations[i], img.sections,
                                     Len(img.symbols))
           large == Len(Encoded(img)) > WORD_MAX
           wrong == \/ img.kind = OBJECT /\ img.entry # 0
                    \/ img.kind = EXECUTABLE
                         /\ (img.entry = 0 \/ ~EntryInText(img.entry, img.sections))
<1>1. EncodeError(img) = IF ~known THEN "INVALID_KIND"
                         ELSE IF bad THEN "MALFORMED"
                         ELSE IF large THEN "OVERFLOW"
                         ELSE IF wrong THEN "MALFORMED"
                         ELSE "NONE"
  BY Zenon DEF EncodeError
<1>2. known /\ ~bad /\ ~wrong
  <2> HIDE DEF known, bad, large, wrong
  <2>1. QED
    BY <1>1
<1>3. QED
  BY <1>2, Zenon

(* The parts of a file, and where they begin.                              *)
SymbolStart(img)     == 15 + Len(img.sections) * 7
RelocationStart(img) == SymbolStart(img) + Len(img.symbols) * 7
StringStart(img)     == RelocationStart(img) + Len(img.relocations) * 5

LEMMA PartStarts ==
  ASSUME NEW img \in Images
  PROVE  /\ Len(img.sections) \in Nat /\ Len(img.symbols) \in Nat
         /\ Len(img.relocations) \in Nat
         /\ Len(img.sections) * 7 \in Nat /\ Len(img.symbols) * 7 \in Nat
         /\ Len(img.relocations) * 5 \in Nat
         /\ SymbolStart(img) \in Nat /\ RelocationStart(img) \in Nat
         /\ StringStart(img) \in Nat /\ Len(Strings(img)) \in Nat
         /\ PayloadStart(img) \in Nat
         /\ PayloadStart(img) = StringStart(img) + Len(Strings(img))
<1>1. /\ Len(img.sections) \in Nat /\ Len(img.symbols) \in Nat
      /\ Len(img.relocations) \in Nat
  BY ImageShape
<1>2. Len(Strings(img)) \in Nat
  BY NamePlaces
<1> DEFINE N == Len(img.sections)
           M == Len(img.symbols)
           R == Len(img.relocations)
           Z == Len(Strings(img))
<1>3. PayloadStart(img) = 15 + (N * 7 + M * 7 + R * 5) + Z
  BY DEF PayloadStart, Records, HEADER_SIZE, Fields, SECTION_RECORD,
         SYMBOL_RECORD, RELOCATION_RECORD
<1>4. /\ SymbolStart(img) = 15 + N * 7
      /\ RelocationStart(img) = 15 + N * 7 + M * 7
      /\ StringStart(img) = 15 + N * 7 + M * 7 + R * 5
  BY DEF SymbolStart, RelocationStart, StringStart
<1>5. N \in Nat /\ M \in Nat /\ R \in Nat /\ Z \in Nat
  BY <1>1, <1>2
<1> HIDE DEF N, M, R, Z
<1>6. /\ N * 7 \in Nat /\ M * 7 \in Nat /\ R * 5 \in Nat
  BY <1>5
<1>7. /\ SymbolStart(img) \in Nat /\ RelocationStart(img) \in Nat
      /\ StringStart(img) \in Nat /\ PayloadStart(img) \in Nat
      /\ PayloadStart(img) = StringStart(img) + Z
  BY <1>3, <1>4, <1>5, <1>6
<1>8. QED
  BY <1>5, <1>6, <1>7 DEF N, M, R, Z

(* The cells of the header and of the records are numbers.                 *)
LEMMA HeaderCellsAre ==
  ASSUME NEW img \in Images, EncodeError(img) = "NONE",
         NEW entry, entry = IF img.kind = EXECUTABLE \/ img.entrySymbol = NoName
                              THEN img.entry
                              ELSE NameOffset(img, Len(AllNames(img)))
  PROVE  /\ entry \in Nat
         /\ HeaderCells(img) \in Seq(Nat)
         /\ HeaderCells(img) =
              <<2, 1, img.kind, 0, 15, Len(img.sections), Len(img.symbols),
                Len(img.relocations), entry, 15, SymbolStart(img),
                RelocationStart(img), StringStart(img), Len(Strings(img)),
                PayloadStart(img)>>
<1>1. img.kind \in Nat /\ img.entry \in Nat
  BY ImageShape, Bases DEF Word
<1>2. entry \in Nat
  <2>1. CASE img.kind = EXECUTABLE \/ img.entrySymbol = NoName
    BY <1>1, <2>1
  <2>2. CASE ~(img.kind = EXECUTABLE \/ img.entrySymbol = NoName)
    <3>1. img.kind = OBJECT
      BY <2>2, EncoderAccepts
    <3> DEFINE N == Len(img.sections)
               M == Len(img.symbols)
               n == Len(AllNames(img))
    <3>2. N \in Nat /\ M \in Nat /\ n = N + M + 1
      BY <2>2, <3>1, PartStarts, EncoderNames
    <3>3. n \in 1..n
      <4> HIDE DEF N, M, n
      <4>1. QED
        BY <3>2
    <3>4. NameOffset(img, n) \in Nat
      BY <3>3, NamePlaces
    <3>5. QED
      BY <2>2, <3>4
  <2>3. QED
    BY <2>1, <2>2
<1>3. HeaderCells(img) =
        <<2, 1, img.kind, 0, 15, Len(img.sections), Len(img.symbols),
          Len(img.relocations), entry, 15, SymbolStart(img),
          RelocationStart(img), StringStart(img), Len(Strings(img)),
          PayloadStart(img)>>
  BY DEF HeaderCells, HEADER_SIZE, Fields, MAGIC, VERSION, SymbolStart,
         RelocationStart, StringStart, SECTION_RECORD, SYMBOL_RECORD,
         RELOCATION_RECORD
<1>4. HeaderCells(img) \in Seq(Nat)
  <2> DEFINE a == Len(img.sections)
             b == Len(img.symbols)
             c == Len(img.relocations)
             d == SymbolStart(img)
             e == RelocationStart(img)
             f == StringStart(img)
             g == Len(Strings(img))
             h == PayloadStart(img)
             k == img.kind
  <2>1. /\ a \in Nat /\ b \in Nat /\ c \in Nat /\ d \in Nat /\ e \in Nat
        /\ f \in Nat /\ g \in Nat /\ h \in Nat /\ k \in Nat
    BY <1>1, PartStarts
  <2>2. HeaderCells(img) = <<2, 1, k, 0, 15, a, b, c, entry, 15, d, e, f, g, h>>
    BY <1>3
  <2> HIDE DEF a, b, c, d, e, f, g, h, k
  <2>3. QED
    BY <1>2, <2>1, <2>2
<1>5. QED
  BY <1>2, <1>3, <1>4

LEMMA SectionCellsAre ==
  ASSUME NEW img \in Images, NEW i \in 1..Len(img.sections)
  PROVE  SectionCells(img, i) \in Seq(Nat) /\ Len(SectionCells(img, i)) = 7
<1> DEFINE s == img.sections[i]
           a == NameOffset(img, i)
           b == PayloadStart(img) + Len(Payloads(SubSeq(img.sections, 1, i - 1)))
           c == SectionCells(img, i)
<1>1. /\ s.type \in Nat /\ s.flags \in Nat /\ s.alignment \in Nat
      /\ s.address \in Nat /\ s.size \in Nat
  <2>1. s \in ImageSection
    BY ImageShape
  <2>2. QED
    BY <2>1, SectionFields, Bases DEF Word
<1>2. a \in Nat
  <2> DEFINE n == Len(AllNames(img))
             N == Len(img.sections)
             M == Len(img.symbols)
  <2>1. N \in Nat /\ M \in Nat /\ (n = N + M + 0 \/ n = N + M + 1)
    BY PartStarts, EncoderNames
  <2>2. i \in 1..n
    <3>1. i \in 1..N
      OBVIOUS
    <3> HIDE DEF n, N, M
    <3>2. QED
      BY <2>1, <3>1
  <2>3. QED
    BY <2>2, NamePlaces
<1>3. b \in Nat
  <2>1. img.sections \in Seq(ImageSection)
    BY ImageShape
  <2>2. Len(Payloads(SubSeq(img.sections, 1, i - 1))) \in Nat
    BY <2>1, PayloadPlaces
  <2>3. PayloadStart(img) \in Nat
    BY PartStarts
  <2>4. QED
    BY <2>2, <2>3
<1>4. c = <<a, s.type, s.flags, s.alignment, s.address, b, s.size>>
  BY DEF SectionCells
<1> HIDE DEF s, a, b, c
<1>5. c \in Seq(Nat) /\ Len(c) = 7
  BY <1>1, <1>2, <1>3, <1>4
<1>6. QED
  BY <1>5 DEF c

LEMMA SymbolCellsAre ==
  ASSUME NEW img \in Images, NEW i \in 1..Len(img.symbols)
  PROVE  SymbolCells(img, i) \in Seq(Nat) /\ Len(SymbolCells(img, i)) = 7
<1> DEFINE s == img.symbols[i]
           N == Len(img.sections)
           M == Len(img.symbols)
           a == NameOffset(img, N + i)
           c == SymbolCells(img, i)
<1>1. /\ s.section \in Nat /\ s.value \in Nat /\ s.size \in Nat
      /\ s.binding \in Nat /\ s.type \in Nat
  <2>1. s \in ImageSymbol
    BY ImageShape
  <2>2. QED
    BY <2>1, SymbolFields, Bases DEF Word
<1>2. a \in Nat
  <2> DEFINE n == Len(AllNames(img))
             k == N + i
  <2>1. N \in Nat /\ M \in Nat /\ (n = N + M + 0 \/ n = N + M + 1)
    BY PartStarts, EncoderNames
  <2>2. k \in 1..n
    <3>1. i \in 1..M
      OBVIOUS
    <3> HIDE DEF n, N, M
    <3>2. QED
      BY <2>1, <3>1
  <2>3. NameOffset(img, k) \in Nat
    <3> HIDE DEF k
    <3>1. QED
      BY <2>2, NamePlaces
  <2>4. QED
    BY <2>3
<1>3. c = <<a, s.section, s.value, s.size, s.binding, s.type, 0>>
  BY DEF SymbolCells
<1> HIDE DEF s, a, c
<1>4. c \in Seq(Nat) /\ Len(c) = 7
  BY <1>1, <1>2, <1>3
<1>5. QED
  BY <1>4 DEF c

LEMMA RelocationCellsAre ==
  ASSUME NEW r \in ImageRelocation
  PROVE  RelocationCells(r) \in Seq(Nat) /\ Len(RelocationCells(r)) = 5
<1> DEFINE c == RelocationCells(r)
           a == ToWord(r.addend)
<1>1. /\ r.section \in Nat /\ r.offset \in Nat /\ r.type \in Nat
      /\ r.symbol \in Nat /\ a \in Nat
  BY RelocationFields, Bases DEF Word
<1>2. c = <<r.section, r.offset, r.type, r.symbol, a>>
  BY DEF RelocationCells
<1> HIDE DEF a, c
<1>3. c \in Seq(Nat) /\ Len(c) = 5
  BY <1>1, <1>2
<1>4. QED
  BY <1>3 DEF c

(* The file, part by part.                                                 *)
LEMMA EncodedParts ==
  ASSUME NEW img \in Images, EncodeError(img) = "NONE"
  PROVE  /\ Encoded(img) \in Seq(Nat)
         /\ Len(Encoded(img)) = PayloadStart(img) + Len(Payloads(img.sections))
         /\ \A k \in 1..15 : Encoded(img)[k] = HeaderCells(img)[k]
         /\ \A i \in 1..Len(img.sections), k \in 1..7 :
              Encoded(img)[15 + ((i - 1) * 7 + k)] = SectionCells(img, i)[k]
         /\ \A i \in 1..Len(img.symbols), k \in 1..7 :
              Encoded(img)[SymbolStart(img) + ((i - 1) * 7 + k)]
                = SymbolCells(img, i)[k]
         /\ \A i \in 1..Len(img.relocations), k \in 1..5 :
              Encoded(img)[RelocationStart(img) + ((i - 1) * 5 + k)]
                = RelocationCells(img.relocations[i])[k]
         /\ \A k \in 1..Len(Strings(img)) :
              Encoded(img)[StringStart(img) + k] = Strings(img)[k]
         /\ \A k \in 1..Len(Payloads(img.sections)) :
              Encoded(img)[PayloadStart(img) + k] = Payloads(img.sections)[k]
<1> DEFINE N == Len(img.sections)
           M == Len(img.symbols)
           R == Len(img.relocations)
           p == [i \in 1..N |-> SectionCells(img, i)]
           q == [i \in 1..M |-> SymbolCells(img, i)]
           r == [i \in 1..R |-> RelocationCells(img.relocations[i])]
           h == HeaderCells(img)
           a == FlattenSeq(p)
           b == FlattenSeq(q)
           c == FlattenSeq(r)
           d == Strings(img)
           e == Payloads(img.sections)
           whole == SixOf(h, a, b, c, d, e)
<1>1. N \in Nat /\ M \in Nat /\ R \in Nat
  BY PartStarts
<1>2. h \in Seq(Nat) /\ Len(h) = 15
  <2>1. PICK entry : entry = IF img.kind = EXECUTABLE \/ img.entrySymbol = NoName
                               THEN img.entry
                               ELSE NameOffset(img, Len(AllNames(img)))
    OBVIOUS
  <2>2. h \in Seq(Nat) /\ h = <<2, 1, img.kind, 0, 15, N, M, R, entry, 15,
            SymbolStart(img), RelocationStart(img), StringStart(img), Len(d),
            PayloadStart(img)>>
    BY <2>1, HeaderCellsAre
  <2> HIDE DEF h, d, N, M, R
  <2>3. QED
    BY <2>2
<1>3. /\ p \in Seq(Seq(Nat)) /\ Len(p) = N
      /\ \A i \in 1..N : p[i] = SectionCells(img, i) /\ Len(p[i]) = 7
  <2>1. \A i \in 1..N : SectionCells(img, i) \in Seq(Nat)
                        /\ Len(SectionCells(img, i)) = 7
    BY SectionCellsAre
  <2> HIDE DEF N
  <2>2. QED
    BY <1>1, <2>1
<1>4. /\ q \in Seq(Seq(Nat)) /\ Len(q) = M
      /\ \A i \in 1..M : q[i] = SymbolCells(img, i) /\ Len(q[i]) = 7
  <2>1. \A i \in 1..M : SymbolCells(img, i) \in Seq(Nat)
                        /\ Len(SymbolCells(img, i)) = 7
    BY SymbolCellsAre
  <2> HIDE DEF M
  <2>2. QED
    BY <1>1, <2>1
<1>5. /\ r \in Seq(Seq(Nat)) /\ Len(r) = R
      /\ \A i \in 1..R : r[i] = RelocationCells(img.relocations[i]) /\ Len(r[i]) = 5
  <2>1. \A i \in 1..R : img.relocations[i] \in ImageRelocation
    BY ImageShape
  <2>2. \A i \in 1..R : RelocationCells(img.relocations[i]) \in Seq(Nat)
                        /\ Len(RelocationCells(img.relocations[i])) = 5
    BY <2>1, RelocationCellsAre
  <2> DEFINE cells(i) == RelocationCells(img.relocations[i])
  <2>3. /\ r = [i \in 1..R |-> cells(i)]
        /\ \A i \in 1..R : cells(i) \in Seq(Nat) /\ Len(cells(i)) = 5
    BY <2>2
  <2> HIDE DEF R, r, cells
  <2>4. /\ r \in Seq(Seq(Nat)) /\ Len(r) = R
        /\ \A i \in 1..R : r[i] = cells(i) /\ Len(r[i]) = 5
    BY <1>1, <2>3
  <2>5. QED
    BY <2>4 DEF cells
<1> HIDE DEF p, q, r
<1>6. /\ a \in Seq(Nat) /\ Len(a) = N * 7
      /\ \A i \in 1..N, k \in 1..7 : a[(i - 1) * 7 + k] = p[i][k]
  <2> DEFINE w == 7
  <2>1. w \in Nat /\ p \in Seq(Seq(Nat)) /\ \A i \in 1..Len(p) : Len(p[i]) = w
    BY <1>3
  <2> HIDE DEF w
  <2>2. /\ FlattenSeq(p) \in Seq(Nat) /\ Len(FlattenSeq(p)) = Len(p) * w
        /\ \A i \in 1..Len(p), k \in 1..w :
             FlattenSeq(p)[(i - 1) * w + k] = p[i][k]
    BY <2>1, JoinedRecords
  <2>3. QED
    BY <1>3, <2>2 DEF w
<1>7. /\ b \in Seq(Nat) /\ Len(b) = M * 7
      /\ \A i \in 1..M, k \in 1..7 : b[(i - 1) * 7 + k] = q[i][k]
  <2> DEFINE w == 7
  <2>1. w \in Nat /\ q \in Seq(Seq(Nat)) /\ \A i \in 1..Len(q) : Len(q[i]) = w
    BY <1>4
  <2> HIDE DEF w
  <2>2. /\ FlattenSeq(q) \in Seq(Nat) /\ Len(FlattenSeq(q)) = Len(q) * w
        /\ \A i \in 1..Len(q), k \in 1..w :
             FlattenSeq(q)[(i - 1) * w + k] = q[i][k]
    BY <2>1, JoinedRecords
  <2>3. QED
    BY <1>4, <2>2 DEF w
<1>8. /\ c \in Seq(Nat) /\ Len(c) = R * 5
      /\ \A i \in 1..R, k \in 1..5 : c[(i - 1) * 5 + k] = r[i][k]
  <2> DEFINE w == 5
  <2>1. w \in Nat /\ r \in Seq(Seq(Nat)) /\ \A i \in 1..Len(r) : Len(r[i]) = w
    BY <1>5
  <2> HIDE DEF w
  <2>2. /\ FlattenSeq(r) \in Seq(Nat) /\ Len(FlattenSeq(r)) = Len(r) * w
        /\ \A i \in 1..Len(r), k \in 1..w :
             FlattenSeq(r)[(i - 1) * w + k] = r[i][k]
    BY <2>1, JoinedRecords
  <2>3. QED
    BY <1>5, <2>2 DEF w
<1>9. d \in Seq(Nat)
  BY NamePlaces
<1>10. e \in Seq(Nat)
  <2>1. img.sections \in Seq(ImageSection)
    BY ImageShape
  <2>2. QED
    BY <2>1, PayloadPlaces
<1>11. Encoded(img) = whole
  BY DEF Encoded, SixOf, p, q, r
<1> HIDE DEF N, M, R, h, a, b, c, d, e
<1> DEFINE A == Len(h)
           B == Len(a)
           C == Len(b)
           D == Len(c)
           E == Len(d)
           F == Len(e)
<1>12. /\ whole \in Seq(Nat)
       /\ A \in Nat /\ B \in Nat /\ C \in Nat /\ D \in Nat /\ E \in Nat /\ F \in Nat
       /\ Len(whole) = A + B + C + D + E + F
       /\ \A k \in 1..A : whole[k] = h[k]
       /\ \A k \in 1..B : whole[A + k] = a[k]
       /\ \A k \in 1..C : whole[A + B + k] = b[k]
       /\ \A k \in 1..D : whole[A + B + C + k] = c[k]
       /\ \A k \in 1..E : whole[A + B + C + D + k] = d[k]
       /\ \A k \in 1..F : whole[A + B + C + D + E + k] = e[k]
  <2>1. /\ h \in Seq(Nat) /\ a \in Seq(Nat) /\ b \in Seq(Nat)
        /\ c \in Seq(Nat) /\ d \in Seq(Nat) /\ e \in Seq(Nat)
    BY <1>2, <1>6, <1>7, <1>8, <1>9, <1>10
  <2>2. HasParts(Nat, whole, h, a, b, c, d, e)
    BY <2>1, SixParts, Zenon
  <2> HIDE DEF whole
  <2>3. QED
    BY <2>2 DEF HasParts
<1> HIDE DEF whole
<1>13. /\ A = 15 /\ A + B = SymbolStart(img)
       /\ A + B + C = RelocationStart(img)
       /\ A + B + C + D = StringStart(img)
       /\ A + B + C + D + E = PayloadStart(img)
       /\ B = N * 7 /\ C = M * 7 /\ D = R * 5
  <2>1. PayloadStart(img) = StringStart(img) + E
    BY PartStarts DEF d
  <2>2. QED
    BY <1>2, <1>6, <1>7, <1>8, <2>1
       DEF SymbolStart, RelocationStart, StringStart, N, M, R
<1> HIDE DEF A, B, C, D, E, F
<1>14. /\ Len(whole) = PayloadStart(img) + F
       /\ \A k \in 1..15 : whole[k] = h[k]
       /\ \A k \in 1..B : whole[15 + k] = a[k]
       /\ \A k \in 1..C : whole[SymbolStart(img) + k] = b[k]
       /\ \A k \in 1..D : whole[RelocationStart(img) + k] = c[k]
       /\ \A k \in 1..E : whole[StringStart(img) + k] = d[k]
       /\ \A k \in 1..F : whole[PayloadStart(img) + k] = e[k]
  <2>1. Len(whole) = PayloadStart(img) + F
    BY <1>12, <1>13
  <2>2. /\ \A k \in 1..15 : whole[k] = h[k]
        /\ \A k \in 1..B : whole[15 + k] = a[k]
    BY <1>12, <1>13
  <2>3. \A k \in 1..C : whole[SymbolStart(img) + k] = b[k]
    BY <1>12, <1>13
  <2>4. \A k \in 1..D : whole[RelocationStart(img) + k] = c[k]
    BY <1>12, <1>13
  <2>5. \A k \in 1..E : whole[StringStart(img) + k] = d[k]
    BY <1>12, <1>13
  <2>6. \A k \in 1..F : whole[PayloadStart(img) + k] = e[k]
    BY <1>12, <1>13
  <2>7. QED
    BY <2>1, <2>2, <2>3, <2>4, <2>5, <2>6
<1>15. /\ \A i \in 1..N, k \in 1..7 : (i - 1) * 7 + k \in 1..B
       /\ \A i \in 1..M, k \in 1..7 : (i - 1) * 7 + k \in 1..C
       /\ \A i \in 1..R, k \in 1..5 : (i - 1) * 5 + k \in 1..D
  BY <1>1, <1>13
<1>16. ASSUME NEW i \in 1..N, NEW k \in 1..7
       PROVE  whole[15 + ((i - 1) * 7 + k)] = SectionCells(img, i)[k]
  <2>1. (i - 1) * 7 + k \in 1..B
    BY <1>15
  <2>2. a[(i - 1) * 7 + k] = SectionCells(img, i)[k]
    <3>1. p[i] = SectionCells(img, i)
      BY <1>3
    <3>2. QED
      BY <1>6, <3>1, Zenon
  <2>3. QED
    BY <1>14, <2>1, <2>2, Zenon
<1>17. ASSUME NEW i \in 1..M, NEW k \in 1..7
       PROVE  whole[SymbolStart(img) + ((i - 1) * 7 + k)] = SymbolCells(img, i)[k]
  <2>1. (i - 1) * 7 + k \in 1..C
    BY <1>15
  <2>2. b[(i - 1) * 7 + k] = SymbolCells(img, i)[k]
    <3>1. q[i] = SymbolCells(img, i)
      BY <1>4
    <3>2. QED
      BY <1>7, <3>1, Zenon
  <2>3. QED
    BY <1>14, <2>1, <2>2, Zenon
<1>18. ASSUME NEW i \in 1..R, NEW k \in 1..5
       PROVE  whole[RelocationStart(img) + ((i - 1) * 5 + k)]
                = RelocationCells(img.relocations[i])[k]
  <2>1. (i - 1) * 5 + k \in 1..D
    BY <1>15
  <2>2. c[(i - 1) * 5 + k] = RelocationCells(img.relocations[i])[k]
    <3>1. r[i] = RelocationCells(img.relocations[i])
      BY <1>5
    <3>2. QED
      BY <1>8, <3>1, Zenon
  <2>3. QED
    BY <1>14, <2>1, <2>2, Zenon
<1>19. QED
  <2>1. whole \in Seq(Nat) /\ Len(whole) = PayloadStart(img) + F
    BY <1>12, <1>14
  <2>2. /\ \A k \in 1..15 : whole[k] = h[k]
        /\ \A k \in 1..E : whole[StringStart(img) + k] = d[k]
        /\ \A k \in 1..F : whole[PayloadStart(img) + k] = e[k]
    BY <1>14
  <2>3. QED
    BY <1>11, <1>16, <1>17, <1>18, <2>1, <2>2, Zenon DEF N, M, R, h, d, e, E, F

(* The encoder writes numbers only.                                        *)
LEMMA EncodedType ==
  ASSUME NEW img \in Images, EncodeError(img) = "NONE"
  PROVE  Encoded(img) \in Seq(Nat)
BY EncodedParts


-----------------------------------------------------------------------------
(* What the header says, once it has been accepted.                        *)
LEMMA CellType ==
  ASSUME file \in Seq(Nat), NEW k \in Nat
  PROVE  Get(k) \in Nat
BY DEF Get

LEMMA HeaderType ==
  ASSUME file \in Seq(Nat)
  PROVE  \A i \in 1..15 : Header(Fields[i]) \in Nat
<1> SUFFICES ASSUME NEW i \in 1..15
             PROVE  Header(Fields[i]) \in Nat
  OBVIOUS
<1> DEFINE j == CHOOSE k \in 1..HEADER_SIZE : Fields[k] = Fields[i]
<1>1. HEADER_SIZE = 15
  BY DEF HEADER_SIZE, Fields
<1>2. j \in 1..15
  BY <1>1
<1>3. Header(Fields[i]) = Get(j - 1)
  BY DEF Header
<1> HIDE DEF j
<1>4. QED
  BY <1>2, <1>3, CellType

LEMMA HeaderNumbers ==
  ASSUME file \in Seq(Nat)
  PROVE  /\ Header("sectionCount") \in Nat
         /\ Header("symbolCount") \in Nat
         /\ Header("relocationCount") \in Nat
         /\ Header("entry") \in Nat
         /\ Header("sectionOffset") \in Nat
         /\ Header("symbolOffset") \in Nat
         /\ Header("relocationOffset") \in Nat
         /\ Header("stringOffset") \in Nat
         /\ Header("stringSize") \in Nat
         /\ Header("payloadOffset") \in Nat
<1>1. /\ Fields[6] = "sectionCount" /\ Fields[7] = "symbolCount"
      /\ Fields[8] = "relocationCount" /\ Fields[9] = "entry"
      /\ Fields[10] = "sectionOffset" /\ Fields[11] = "symbolOffset"
      /\ Fields[12] = "relocationOffset" /\ Fields[13] = "stringOffset"
      /\ Fields[14] = "stringSize" /\ Fields[15] = "payloadOffset"
  BY DEF Fields
<1>2. \A i \in 1..15 : Header(Fields[i]) \in Nat
  BY HeaderType
<1> HIDE DEF Fields
<1>3. /\ Header(Fields[6]) \in Nat /\ Header(Fields[7]) \in Nat
      /\ Header(Fields[8]) \in Nat /\ Header(Fields[9]) \in Nat
      /\ Header(Fields[10]) \in Nat /\ Header(Fields[11]) \in Nat
      /\ Header(Fields[12]) \in Nat /\ Header(Fields[13]) \in Nat
      /\ Header(Fields[14]) \in Nat /\ Header(Fields[15]) \in Nat
  BY <1>2
<1>4. QED
  BY <1>1, <1>3

(* The header has been accepted.                                           *)
Sound == HeaderError = "NONE"

LEMMA SoundHeader ==
  ASSUME file \in Seq(Nat), Sound
  PROVE  /\ Header("sectionOffset") + Header("sectionCount") * 7 <= Len(file)
         /\ Header("symbolOffset") + Header("symbolCount") * 7 <= Len(file)
         /\ Header("relocationOffset") + Header("relocationCount") * 5 <= Len(file)
         /\ Header("stringOffset") + Header("stringSize") <= Len(file)
<1>1. ~OutOfBounds
  <2>1. OutOfBounds => HeaderError # "NONE"
    BY Zenon DEF HeaderError
  <2>2. QED
    BY <2>1 DEF Sound
<1>2. Len(file) \in Nat
  OBVIOUS
<1>3. /\ InRange(Header("sectionOffset"), SectionBytes)
      /\ InRange(Header("symbolOffset"), SymbolBytes)
      /\ InRange(Header("relocationOffset"), RelocationBytes)
      /\ InRange(Header("stringOffset"), Header("stringSize"))
  BY <1>1, Zenon DEF OutOfBounds
<1>4. /\ SectionBytes = Header("sectionCount") * 7
      /\ SymbolBytes = Header("symbolCount") * 7
      /\ RelocationBytes = Header("relocationCount") * 5
  BY DEF SectionBytes, SymbolBytes, RelocationBytes, SECTION_RECORD,
         SYMBOL_RECORD, RELOCATION_RECORD
<1>5. \A offset, size \in Nat :
        InRange(offset, size) => offset + size <= Len(file)
  BY <1>2 DEF InRange
<1>6. SectionBytes \in Nat /\ SymbolBytes \in Nat /\ RelocationBytes \in Nat
  <2>1. \A count \in Nat : count * 7 \in Nat /\ count * 5 \in Nat
    OBVIOUS
  <2>2. /\ Header("sectionCount") \in Nat
        /\ Header("symbolCount") \in Nat
        /\ Header("relocationCount") \in Nat
    BY HeaderNumbers
  <2>3. QED
    BY <1>4, <2>1, <2>2
<1>7. /\ Header("sectionOffset") + SectionBytes <= Len(file)
      /\ Header("symbolOffset") + SymbolBytes <= Len(file)
      /\ Header("relocationOffset") + RelocationBytes <= Len(file)
      /\ Header("stringOffset") + Header("stringSize") <= Len(file)
  BY <1>3, <1>5, <1>6, HeaderNumbers
<1>8. QED
  BY <1>4, <1>7

Cells == 0..(Len(file) - 1)

(* get_string stays in the string table.                                   *)
LEMMA StringInside ==
  ASSUME file \in Seq(Nat), Sound, NEW offset \in Nat
  PROVE  StringTouched(offset) \subseteq Cells
<1> DEFINE o == Header("stringOffset")
           z == Header("stringSize")
           e == IF HasString(offset) THEN Min(Ends(offset)) ELSE z - 1
<1>1. /\ o \in Nat /\ z \in Nat /\ Len(file) \in Nat /\ o + z <= Len(file)
  BY HeaderNumbers, SoundHeader
<1>2. e \in Int /\ e <= z - 1
  <2>1. CASE ~HasString(offset)
    BY <1>1, <2>1
  <2>2. CASE HasString(offset)
    <3>1. Ends(offset) \subseteq offset..(z - 1) /\ Ends(offset) # {}
      BY <2>2 DEF HasString, Ends
    <3>2. Ends(offset) \subseteq Nat
      BY <1>1, <3>1
    <3>3. \E x \in Ends(offset) : \A y \in Ends(offset) : x <= y
      BY <3>1, <3>2, LeastMember
    <3>4. Min(Ends(offset)) \in Ends(offset)
      BY <3>3 DEF Min
    <3>5. QED
      BY <1>1, <2>2, <3>1, <3>4
  <2>3. QED
    BY <2>1, <2>2
<1>3. StringTouched(offset) = {o + k : k \in offset..e}
  BY Zenon DEF StringTouched
<1> HIDE DEF o, z, e
<1>4. QED
  BY <1>1, <1>2, <1>3 DEF Cells

(* A record that the loop reads lies in its table, the table in the file.  *)
LEMMA RecordInside ==
  ASSUME file \in Seq(Nat), Sound, index \in Nat
  PROVE  /\ index < Header("sectionCount") =>
              RecordTouched("sectionOffset", SECTION_RECORD) \subseteq Cells
         /\ index < Header("symbolCount") =>
              RecordTouched("symbolOffset", SYMBOL_RECORD) \subseteq Cells
         /\ index < Header("relocationCount") =>
              RecordTouched("relocationOffset", RELOCATION_RECORD) \subseteq Cells
<1>1. Len(file) \in Nat
  OBVIOUS
<1>2. ASSUME NEW start \in Nat, NEW count \in Nat, NEW size \in {5, 7},
             start + count * size <= Len(file), index < count
      PROVE  (start + index * size)..(start + index * size + size - 1)
               \subseteq Cells
  <2>1. CASE size = 5
    BY <1>1, <1>2, <2>1 DEF Cells
  <2>2. CASE size = 7
    BY <1>1, <1>2, <2>2 DEF Cells
  <2>3. QED
    BY <2>1, <2>2
<1>3. index < Header("sectionCount") =>
        RecordTouched("sectionOffset", SECTION_RECORD) \subseteq Cells
  BY <1>2, HeaderNumbers, SoundHeader DEF RecordTouched, SECTION_RECORD
<1>4. index < Header("symbolCount") =>
        RecordTouched("symbolOffset", SYMBOL_RECORD) \subseteq Cells
  BY <1>2, HeaderNumbers, SoundHeader DEF RecordTouched, SYMBOL_RECORD
<1>5. index < Header("relocationCount") =>
        RecordTouched("relocationOffset", RELOCATION_RECORD) \subseteq Cells
  BY <1>2, HeaderNumbers, SoundHeader DEF RecordTouched, RELOCATION_RECORD
<1>6. QED
  BY <1>3, <1>4, <1>5

(* The payload of a section that is accepted lies in the file.             *)
LEMMA PayloadInside ==
  ASSUME file \in Seq(Nat), index \in Nat, ~SectionMalformed
  PROVE  PayloadTouched \subseteq Cells
<1>1. SectionCell(5) \in Nat /\ SectionCell(6) \in Nat /\ Len(file) \in Nat
  <2>1. /\ Header("sectionOffset") + index * SECTION_RECORD + 5 \in Nat
        /\ Header("sectionOffset") + index * SECTION_RECORD + 6 \in Nat
    <3>1. \A offset \in Nat : /\ offset + index * 7 + 5 \in Nat
                              /\ offset + index * 7 + 6 \in Nat
      OBVIOUS
    <3>2. Header("sectionOffset") \in Nat
      BY HeaderNumbers
    <3>3. QED
      BY <3>1, <3>2 DEF SECTION_RECORD
  <2>2. QED
    BY <2>1, CellType DEF SectionCell
<1>2. CASE SectionCell(1) = BSS
  BY <1>2 DEF PayloadTouched
<1>3. CASE SectionCell(1) # BSS
  <2>1. InRange(SectionCell(5), SectionCell(6))
    BY <1>3 DEF SectionMalformed
  <2>2. PayloadTouched = SectionCell(5)..(SectionCell(5) + SectionCell(6) - 1)
    BY <1>3 DEF PayloadTouched
  <2>3. QED
    BY <1>1, <2>1, <2>2 DEF InRange, Cells
<1>4. QED
  BY <1>2, <1>3

(* What the checks of the header read.                                     *)
LEMMA HeaderInside ==
  ASSUME file \in Seq(Nat)
  PROVE  HeaderTouched \subseteq Cells
<1>1. Len(file) \in Nat /\ HEADER_SIZE = 15
  BY DEF HEADER_SIZE, Fields
<1>2. CASE TooShort
  BY <1>2 DEF HeaderTouched
<1>3. CASE ~TooShort
  <2>1. Len(file) >= 15
    BY <1>1, <1>3 DEF TooShort
  <2>2. 0..(HEADER_SIZE - 1) \subseteq Cells
    BY <1>1, <2>1 DEF Cells
  <2>3. ~OutOfBounds /\ Header("stringSize") # 0 => Header("stringOffset") \in Cells
    <3>1. ~OutOfBounds => InRange(Header("stringOffset"), Header("stringSize"))
      BY Zenon DEF OutOfBounds
    <3>2. QED
      BY <1>1, <3>1, HeaderNumbers DEF InRange, Cells
  <2>4. QED
    BY <1>3, <2>2, <2>3 DEF HeaderTouched
<1>4. QED
  BY <1>2, <1>3

-----------------------------------------------------------------------------
(* The stages in which the decoder relies on the header.                   *)
Reading == {"tables", "entrySymbol", "sections", "symbols", "relocations",
            "entry"}

IInv ==
  /\ stage \in Reading \cup {"encode", "header", "refused", "done", "freed"}
  /\ stage = "encode" => origin \in Images /\ touched = {}
  /\ file \in Seq(Nat)
  /\ index \in Nat
  /\ stage \in Reading => Sound /\ error = "NONE"
  /\ touched \subseteq Cells
  /\ blocks \subseteq Reachable
  /\ stage \in {"encode", "header", "refused", "tables", "freed"} => blocks = {}
  /\ stage \in {"encode", "header"} => error = "NONE"
  /\ stage = "done" /\ error # "NONE" => blocks = {}

(* The decoder begins with nothing.                                        *)
LEMMA InitIInv == Init => IInv
<1> SUFFICES ASSUME Init
             PROVE  IInv
  OBVIOUS
<1>1. Word \subseteq Nat
  BY Bases DEF Word
<1>2. file \in Seq(Nat)
  <2>1. \A f \in Seq(Word) : f \in Seq(Nat)
    BY <1>1, WiderType
  <2>2. << >> \in Seq(Nat)
    OBVIOUS
  <2>3. file = << >> \/ file \in Files
    BY DEF Init
  <2>4. QED
    BY <2>1, <2>2, <2>3, CodecAssumption
<1>3. /\ index = 0 /\ blocks = {} /\ touched = {} /\ error = "NONE"
      /\ (stage = "encode" /\ origin \in Images) \/ stage = "header"
  BY DEF Init
<1>4. QED
  BY <1>2, <1>3 DEF IInv, Reading

(* While the file stays, so does what is read in it.                       *)
LEMMA FileKept ==
  ASSUME file' = file
  PROVE  /\ Sound' <=> Sound
         /\ Cells' = Cells
         /\ Reachable' = Reachable
<1>1. Cells' = Cells
  BY DEF Cells
<1>2. \A k : Get(k)' = Get(k)
  BY DEF Get
<1>3. \A name : Header(name)' = Header(name)
  BY <1>2 DEF Header
<1>4. TooShort' <=> TooShort
  BY DEF TooShort
<1>5. \A x, y : InRange(x, y)' <=> InRange(x, y)
  BY DEF InRange
<1>6. OutOfBounds' <=> OutOfBounds
  BY <1>3 DEF OutOfBounds, InRange, SectionBytes, SymbolBytes, RelocationBytes
<1>7. Get(Header("stringOffset"))' = Get(Header("stringOffset"))
  BY <1>3 DEF Get
<1>8. Sound' <=> Sound
  BY <1>3, <1>4, <1>6, <1>7 DEF Sound, HeaderError
<1>9. \A t : Count(t)' = Count(t)
  BY <1>3 DEF Count
<1>10. Reachable' = Reachable
  BY <1>9 DEF Reachable
<1>11. QED
  BY <1>1, <1>8, <1>10

(* A refusal frees what has been allocated.                                *)
LEMMA RefusalStep ==
  ASSUME IInv, NEW e, e # "NONE", NEW made, made \subseteq Reachable,
         Refuse(e, made), touched' \subseteq Cells
  PROVE  IInv'
<1>1. /\ stage' = "done" /\ blocks' = {} /\ file' = file /\ index' = index
      /\ blocks' \subseteq Reachable
  BY DEF IInv, Refuse
<1>2. /\ touched' \subseteq Cells' /\ blocks' \subseteq Reachable'
  BY <1>1, FileKept
<1>3. QED
  BY <1>1, <1>2 DEF IInv, Reading

(* A step that goes on adds blocks that zl_image_free will find.           *)
LEMMA ReadingStep ==
  ASSUME IInv, stage \in Reading, stage' \in (Reading \ {"tables"}) \cup {"done"},
         file' = file, error' = error, index' \in Nat,
         touched' \subseteq Cells, blocks' \subseteq Reachable
  PROVE  IInv'
<1>1. Sound /\ error = "NONE" /\ file \in Seq(Nat)
  BY DEF IInv
<1>2. Sound' /\ touched' \subseteq Cells' /\ blocks' \subseteq Reachable'
  BY <1>1, FileKept
<1>3. QED
  BY <1>1, <1>2 DEF IInv, Reading

(* The steps of zl_image_encode.                                           *)
LEMMA EncoderSteps == IInv /\ (Encode \/ EncodeRefused) => IInv'
<1> SUFFICES ASSUME IInv, Encode \/ EncodeRefused
             PROVE  IInv'
  OBVIOUS
<1>1. CASE Encode
  <2>1. file' \in Seq(Nat)
    BY <1>1, EncodedType DEF Encode, IInv
  <2>2. touched' \subseteq Cells' /\ blocks' = {} /\ error' = "NONE"
        /\ stage' = "header" /\ index' \in Nat
    <3>1. touched = {}
      BY <1>1 DEF IInv, Encode
    <3>2. QED
      BY <1>1, <3>1 DEF Encode, IInv
  <2>3. QED
    BY <2>1, <2>2 DEF IInv, Reading
<1>2. CASE EncodeRefused
  <2>1. /\ stage' = "refused" /\ file' = file /\ index' = index
        /\ touched' = touched /\ blocks' = {}
    BY <1>2 DEF EncodeRefused, IInv
  <2>2. touched' \subseteq Cells'
    BY <2>1, FileKept DEF IInv
  <2>3. QED
    BY <2>1, <2>2 DEF IInv, Reading
<1>3. QED
  BY <1>1, <1>2

(* The three ways out of the checks of the header.                         *)
LEMMA HeaderSteps ==
  IInv /\ (HeaderRefused \/ ExecutableRefused \/ HeaderAccepted) => IInv'
<1> SUFFICES ASSUME IInv, HeaderRefused \/ ExecutableRefused \/ HeaderAccepted
             PROVE  IInv'
  OBVIOUS
<1>1. /\ stage = "header" /\ file' = file /\ index' = index /\ blocks' = blocks
      /\ touched' = HeaderTouched
  BY DEF HeaderRefused, ExecutableRefused, HeaderAccepted
<1>2. blocks' = {} /\ file' \in Seq(Nat) /\ index' \in Nat
  BY <1>1 DEF IInv
<1>3. touched' \subseteq Cells'
  BY <1>1, HeaderInside, FileKept DEF IInv
<1>4. CASE HeaderRefused \/ ExecutableRefused
  <2>1. stage' = "done"
    BY <1>4 DEF HeaderRefused, ExecutableRefused
  <2>2. QED
    BY <1>2, <1>3, <2>1 DEF IInv, Reading
<1>5. CASE HeaderAccepted
  <2>1. stage' = "tables" /\ error' = "NONE" /\ Sound
    BY <1>5 DEF HeaderAccepted, IInv, Sound
  <2>2. Sound'
    BY <1>1, <2>1, FileKept
  <2>3. QED
    BY <1>2, <1>3, <2>1, <2>2 DEF IInv, Reading
<1>6. QED
  BY <1>4, <1>5

LEMMA TableSteps == IInv /\ (AllocateTables \/ TablesOutOfMemory) => IInv'
<1> SUFFICES ASSUME IInv, AllocateTables \/ TablesOutOfMemory
             PROVE  IInv'
  OBVIOUS
<1>1. {Table(t) : t \in Tables} \subseteq Reachable
  BY DEF Reachable
<1>2. CASE AllocateTables
  BY <1>1, <1>2, ReadingStep DEF AllocateTables, IInv, Reading
<1>3. CASE TablesOutOfMemory
  <2>1. PICK made \in SUBSET Tables :
          Refuse("OUT_OF_MEMORY", {Table(m) : m \in made})
    BY <1>3 DEF TablesOutOfMemory
  <2>2. {Table(m) : m \in made} \subseteq Reachable
    BY <1>1
  <2>3. touched' = {}
    BY <1>3 DEF TablesOutOfMemory
  <2>4. QED
    BY <2>1, <2>2, <2>3, RefusalStep
<1>4. QED
  BY <1>2, <1>3

LEMMA EntrySymbolSteps == IInv /\ (NoEntrySymbol \/ ReadEntrySymbol) => IInv'
<1> SUFFICES ASSUME IInv, NoEntrySymbol \/ ReadEntrySymbol
             PROVE  IInv'
  OBVIOUS
<1>1. stage = "entrySymbol" /\ stage \in Reading
  BY DEF NoEntrySymbol, ReadEntrySymbol, Reading
<1>2. file \in Seq(Nat) /\ Sound
  BY <1>1 DEF IInv
<1>3. CASE NoEntrySymbol
  BY <1>1, <1>3, ReadingStep DEF NoEntrySymbol, IInv, Reading
<1>4. CASE ReadEntrySymbol
  <2>1. touched' \subseteq Cells
    BY <1>2, <1>4, HeaderNumbers, StringInside DEF ReadEntrySymbol
  <2>2. {} \subseteq Reachable /\ {EntryName} \subseteq Reachable
    BY DEF Reachable
  <2>3. CASE Refuse("OUT_OF_MEMORY", {}) \/ Refuse("MALFORMED", {})
    BY <2>1, <2>2, <2>3, RefusalStep
  <2>4. CASE /\ blocks' = blocks \cup {EntryName}
             /\ stage' = "sections"
             /\ UNCHANGED <<origin, file, index, error>>
    <3>1. blocks' \subseteq Reachable
      BY <2>2, <2>4 DEF IInv
    <3>2. index' \in Nat /\ stage' \in (Reading \ {"tables"}) \cup {"done"}
      BY <2>4 DEF IInv, Reading
    <3>3. QED
      BY <1>1, <2>1, <2>4, <3>1, <3>2, ReadingStep
  <2>5. QED
    BY <1>4, <2>3, <2>4 DEF ReadEntrySymbol
<1>5. QED
  BY <1>3, <1>4

LEMMA EndTableStep == IInv /\ EndTable => IInv'
<1> SUFFICES ASSUME IInv, EndTable
             PROVE  IInv'
  OBVIOUS
<1>1. stage \in Reading /\ stage' \in (Reading \ {"tables"}) \cup {"done"}
  BY DEF EndTable, Reading, Tables
<1>2. QED
  BY <1>1, ReadingStep DEF EndTable, IInv

(* A record of the loop that is running, and its name.                     *)
LEMMA SectionReads ==
  ASSUME IInv, InTable("sections")
  PROVE  /\ stage \in Reading \ {"tables"}
         /\ RecordTouched("sectionOffset", SECTION_RECORD)
              \cup StringTouched(SectionCell(0)) \subseteq Cells
         /\ NameOf("sections", index) \in Reachable
         /\ DataOf(index) \in Reachable
<1>1. /\ stage = "sections" /\ index < Header("sectionCount")
  BY DEF InTable, Count
<1>2. /\ file \in Seq(Nat) /\ Sound /\ index \in Nat
      /\ stage \in Reading \ {"tables"}
  BY <1>1 DEF IInv, Reading
<1>3. SectionCell(0) \in Nat
  <2>1. Header("sectionOffset") + index * SECTION_RECORD + 0 \in Nat
    BY <1>2, HeaderNumbers DEF SECTION_RECORD
  <2>2. QED
    BY <1>2, <2>1, CellType DEF SectionCell
<1>4. Count("sections") = Header("sectionCount")
  BY DEF Count
<1>5. index \in 0..(Count("sections") - 1)
  BY <1>1, <1>2, <1>4, HeaderNumbers
<1>6. QED
  BY <1>1, <1>2, <1>3, <1>5, RecordInside, StringInside DEF Reachable

LEMMA SymbolReads ==
  ASSUME IInv, InTable("symbols")
  PROVE  /\ stage \in Reading \ {"tables"}
         /\ SymbolTouched \subseteq Cells
         /\ NameOf("symbols", index) \in Reachable
<1>1. /\ stage = "symbols" /\ index < Header("symbolCount")
  BY DEF InTable, Count
<1>2. /\ file \in Seq(Nat) /\ Sound /\ index \in Nat
      /\ stage \in Reading \ {"tables"}
  BY <1>1 DEF IInv, Reading
<1>3. SymbolCell(0) \in Nat
  <2>1. Header("symbolOffset") + index * SYMBOL_RECORD + 0 \in Nat
    BY <1>2, HeaderNumbers DEF SYMBOL_RECORD
  <2>2. QED
    BY <1>2, <2>1, CellType DEF SymbolCell
<1>4. Count("symbols") = Header("symbolCount")
  BY DEF Count
<1>5. index \in 0..(Count("symbols") - 1)
  BY <1>1, <1>2, <1>4, HeaderNumbers
<1>6. QED
  BY <1>1, <1>2, <1>3, <1>5, RecordInside, StringInside
  DEF Reachable, SymbolTouched

LEMMA RelocationReads ==
  ASSUME IInv, InTable("relocations")
  PROVE  /\ stage \in Reading \ {"tables"}
         /\ RecordTouched("relocationOffset", RELOCATION_RECORD) \subseteq Cells
<1>1. /\ stage = "relocations" /\ index < Header("relocationCount")
  BY DEF InTable, Count
<1>2. /\ file \in Seq(Nat) /\ Sound /\ index \in Nat
      /\ stage \in Reading \ {"tables"}
  BY <1>1 DEF IInv, Reading
<1>3. QED
  BY <1>1, <1>2, RecordInside

LEMMA SectionSteps == IInv /\ (ReadSection \/ SectionRefused) => IInv'
<1> SUFFICES ASSUME IInv, ReadSection \/ SectionRefused
             PROVE  IInv'
  OBVIOUS
<1>1. InTable("sections")
  BY DEF ReadSection, SectionRefused
<1>2. file \in Seq(Nat) /\ index \in Nat
  BY DEF IInv
<1> DEFINE name == NameOf("sections", index)
           data == DataOf(index)
<1>3. CASE ReadSection
  <2>1. PayloadTouched \subseteq Cells
    BY <1>2, <1>3, PayloadInside DEF ReadSection
  <2>2. touched' \subseteq Cells
    BY <1>1, <1>3, <2>1, SectionReads DEF ReadSection
  <2>3. blocks' = blocks \cup {name, data}
    BY <1>3 DEF ReadSection
  <2>4. blocks' \subseteq Reachable
    BY <1>1, <2>3, SectionReads DEF IInv
  <2>5. /\ stage' = stage /\ file' = file /\ error' = error
        /\ index' = index + 1
    BY <1>3 DEF ReadSection
  <2>6. QED
    BY <1>1, <1>2, <2>2, <2>4, <2>5, SectionReads, ReadingStep
<1>4. CASE SectionRefused
  <2>1. touched' \subseteq Cells
    BY <1>1, <1>4, SectionReads DEF SectionRefused
  <2>2. {} \subseteq Reachable /\ {name} \subseteq Reachable
        /\ {data} \subseteq Reachable
    BY <1>1, SectionReads
  <2>3. \/ Refuse("MALFORMED", {}) \/ Refuse("OUT_OF_MEMORY", {data})
        \/ Refuse("OUT_OF_MEMORY", {name})
    BY <1>4 DEF SectionRefused
  <2> HIDE DEF name, data
  <2>4. QED
    BY <2>1, <2>2, <2>3, RefusalStep
<1>5. QED
  BY <1>3, <1>4

LEMMA SymbolSteps == IInv /\ (ReadSymbol \/ SymbolRefused) => IInv'
<1> SUFFICES ASSUME IInv, ReadSymbol \/ SymbolRefused
             PROVE  IInv'
  OBVIOUS
<1>1. InTable("symbols") /\ touched' \subseteq Cells
  <2>1. InTable("symbols") /\ touched' = SymbolTouched
    BY DEF ReadSymbol, SymbolRefused
  <2>2. QED
    BY <2>1, SymbolReads
<1>2. index \in Nat
  BY DEF IInv
<1> DEFINE name == NameOf("symbols", index)
<1>3. {} \subseteq Reachable /\ {name} \subseteq Reachable
  BY <1>1, SymbolReads
<1>4. CASE ReadSymbol
  <2>1. /\ blocks' = blocks \cup {name} /\ stage' = stage /\ file' = file
        /\ error' = error /\ index' = index + 1
    BY <1>4 DEF ReadSymbol
  <2>2. blocks' \subseteq Reachable
    BY <1>3, <2>1 DEF IInv
  <2>3. QED
    BY <1>1, <1>2, <2>1, <2>2, SymbolReads, ReadingStep
<1>5. CASE SymbolRefused
  <2>1. \/ Refuse("MALFORMED", {}) \/ Refuse("OUT_OF_MEMORY", {})
        \/ Refuse("MALFORMED", {name})
    BY <1>5 DEF SymbolRefused
  <2> HIDE DEF name
  <2>2. QED
    BY <1>1, <1>3, <2>1, RefusalStep
<1>6. QED
  BY <1>4, <1>5

LEMMA RelocationSteps == IInv /\ (ReadRelocation \/ RelocationRefused) => IInv'
<1> SUFFICES ASSUME IInv, ReadRelocation \/ RelocationRefused
             PROVE  IInv'
  OBVIOUS
<1>1. InTable("relocations") /\ touched' \subseteq Cells
  <2>1. /\ InTable("relocations")
        /\ touched' = RecordTouched("relocationOffset", RELOCATION_RECORD)
    BY DEF ReadRelocation, RelocationRefused
  <2>2. QED
    BY <2>1, RelocationReads
<1>2. index \in Nat /\ blocks \subseteq Reachable
  BY DEF IInv
<1>3. CASE ReadRelocation
  <2>1. /\ blocks' = blocks /\ stage' = stage /\ file' = file
        /\ error' = error /\ index' = index + 1
    BY <1>3 DEF ReadRelocation
  <2>2. QED
    BY <1>1, <1>2, <2>1, RelocationReads, ReadingStep
<1>4. CASE RelocationRefused
  <2>1. Refuse("MALFORMED", {}) /\ {} \subseteq Reachable
    BY <1>4 DEF RelocationRefused
  <2>2. QED
    BY <1>1, <2>1, RefusalStep
<1>5. QED
  BY <1>3, <1>4

LEMMA LastSteps == IInv /\ (CheckEntry \/ Free) => IInv'
<1> SUFFICES ASSUME IInv, CheckEntry \/ Free
             PROVE  IInv'
  OBVIOUS
<1>1. CASE CheckEntry
  <2>1. stage \in Reading /\ touched' \subseteq Cells
    BY <1>1 DEF CheckEntry, Reading
  <2>2. CASE Refuse("MALFORMED", {})
    <3>1. {} \subseteq Reachable
      OBVIOUS
    <3>2. QED
      BY <2>1, <2>2, <3>1, RefusalStep
  <2>3. CASE stage' = "done" /\ UNCHANGED <<origin, file, index, image, blocks, error>>
    <3>1. index' \in Nat /\ blocks' \subseteq Reachable
      BY <2>3 DEF IInv
    <3>2. QED
      BY <2>1, <2>3, <3>1, ReadingStep
  <2>4. QED
    BY <1>1, <2>2, <2>3 DEF CheckEntry
<1>2. CASE Free
  <2>1. /\ stage' = "freed" /\ file' = file /\ index' = index
        /\ touched' = touched
        /\ blocks' = {}
    BY <1>2 DEF Free, IInv
  <2>2. touched' \subseteq Cells'
    BY <2>1, FileKept DEF IInv
  <2>3. QED
    BY <2>1, <2>2 DEF IInv, Reading
<1>3. QED
  BY <1>1, <1>2

LEMMA NextIInv == IInv /\ [Next]_vars => IInv'
<1> SUFFICES ASSUME IInv, [Next]_vars
             PROVE  IInv'
  OBVIOUS
<1>1. CASE Next
  BY <1>1, EncoderSteps, HeaderSteps, TableSteps, EntrySymbolSteps,
     EndTableStep, SectionSteps, SymbolSteps, RelocationSteps, LastSteps
  DEF Next
<1>2. CASE UNCHANGED vars
  <2>1. /\ file' = file /\ stage' = stage /\ index' = index
        /\ origin' = origin /\ touched' = touched /\ blocks' = blocks
        /\ error' = error
    BY <1>2 DEF vars
  <2>2. (Sound' <=> Sound) /\ Cells' = Cells /\ Reachable' = Reachable
    BY <2>1, FileKept
  <2>3. QED
    BY <2>1, <2>2 DEF IInv
<1>3. QED
  BY <1>1, <1>2

(* Whatever offsets, counts and sizes a file contains, the decoder reads   *)
(* cells of the file only, and what it has allocated is freed, by itself   *)
(* when it refuses and by zl_image_free otherwise.                         *)
(* Code: zl_image_decode, in_range, get_string and zl_image_free.          *)
THEOREM MemoryIsSafeAlways == Spec => []MemoryIsSafe
<1>1. IInv => MemoryIsSafe
  BY DEF IInv, MemoryIsSafe, ReadsInside, NothingLeaks, Cells
<1>2. QED
  BY <1>1, InitIInv, NextIInv, PTL DEF Spec
-----------------------------------------------------------------------------
(* A file that the encoder has written.                                    *)
Written ==
  /\ origin \in Images
  /\ EncodeError(origin) = "NONE"
  /\ file = Encoded(origin)

LEMMA WrittenFile ==
  ASSUME Written
  PROVE  /\ file \in Seq(Nat) /\ Len(file) \in Nat
         /\ Len(Payloads(origin.sections)) \in Nat
         /\ Len(file) = PayloadStart(origin) + Len(Payloads(origin.sections))
         /\ \A k \in Nat : k < Len(file) => Get(k) = file[k + 1]
<1>1. /\ file \in Seq(Nat)
      /\ Len(file) = PayloadStart(origin) + Len(Payloads(origin.sections))
  BY EncodedParts DEF Written
<1>2. Len(Payloads(origin.sections)) \in Nat
  <2>1. origin.sections \in Seq(ImageSection)
    BY ImageShape DEF Written
  <2>2. QED
    BY <2>1, PayloadPlaces
<1>3. Len(file) \in Nat
  BY <1>1
<1>4. \A k \in Nat : k < Len(file) => Get(k) = file[k + 1]
  BY DEF Get
<1>5. QED
  BY <1>1, <1>2, <1>3, <1>4

LEMMA FieldsDiffer ==
  \A i, j \in 1..15 : Fields[i] = Fields[j] => i = j
BY DEF Fields

LEMMA HeaderCell ==
  ASSUME NEW i \in 1..15
  PROVE  Header(Fields[i]) = Get(i - 1)
<1> DEFINE j == CHOOSE k \in 1..HEADER_SIZE : Fields[k] = Fields[i]
<1>1. HEADER_SIZE = 15
  BY DEF HEADER_SIZE, Fields
<1>2. j \in 1..15 /\ Fields[j] = Fields[i]
  BY <1>1
<1>3. Header(Fields[i]) = Get(j - 1)
  BY DEF Header
<1> HIDE DEF j
<1>4. j = i
  BY <1>2, FieldsDiffer
<1>5. QED
  BY <1>3, <1>4

LEMMA WrittenHeader ==
  ASSUME Written,
         NEW entry,
         entry = IF origin.kind = EXECUTABLE \/ origin.entrySymbol = NoName
                   THEN origin.entry
                   ELSE NameOffset(origin, Len(AllNames(origin)))
  PROVE  /\ Header("magic") = 2 /\ Header("version") = 1
         /\ Header("kind") = origin.kind /\ Header("reserved") = 0
         /\ Header("headerSize") = 15
         /\ Header("sectionCount") = Len(origin.sections)
         /\ Header("symbolCount") = Len(origin.symbols)
         /\ Header("relocationCount") = Len(origin.relocations)
         /\ Header("entry") = entry
         /\ Header("sectionOffset") = 15
         /\ Header("symbolOffset") = SymbolStart(origin)
         /\ Header("relocationOffset") = RelocationStart(origin)
         /\ Header("stringOffset") = StringStart(origin)
         /\ Header("stringSize") = Len(Strings(origin))
         /\ Header("payloadOffset") = PayloadStart(origin)
<1> DEFINE cells == HeaderCells(origin)
<1>1. Len(file) >= 15
  <2>1. /\ SymbolStart(origin) = 15 + Len(origin.sections) * 7
        /\ RelocationStart(origin) = SymbolStart(origin) + Len(origin.symbols) * 7
        /\ StringStart(origin) = RelocationStart(origin) + Len(origin.relocations) * 5
    BY DEF SymbolStart, RelocationStart, StringStart
  <2>2. /\ Len(origin.sections) * 7 \in Nat /\ Len(origin.symbols) * 7 \in Nat
        /\ Len(origin.relocations) * 5 \in Nat
        /\ Len(Strings(origin)) \in Nat
        /\ PayloadStart(origin) = StringStart(origin) + Len(Strings(origin))
    BY PartStarts DEF Written
  <2>3. /\ Len(file) = PayloadStart(origin) + Len(Payloads(origin.sections))
        /\ Len(Payloads(origin.sections)) \in Nat
    BY WrittenFile
  <2> DEFINE x == Len(origin.sections) * 7
             y == Len(origin.symbols) * 7
             q == Len(origin.relocations) * 5
             z == Len(Strings(origin))
             w == Len(Payloads(origin.sections))
             v == PayloadStart(origin)
             n == Len(file)
  <2>4. /\ x \in Nat /\ y \in Nat /\ q \in Nat /\ z \in Nat /\ w \in Nat
        /\ v = 15 + x + y + q + z /\ n = v + w
    BY <2>1, <2>2, <2>3
  <2> HIDE DEF x, y, q, z, w, v, n
  <2>5. n >= 15
    BY <2>4
  <2>6. QED
    BY <2>5 DEF n
<1>2. \A i \in 1..15 : Header(Fields[i]) = cells[i]
  <2> SUFFICES ASSUME NEW i \in 1..15
               PROVE  Header(Fields[i]) = cells[i]
    OBVIOUS
  <2>1. Get(i - 1) = file[i]
    <3>1. i - 1 \in Nat /\ i - 1 < Len(file) /\ (i - 1) + 1 = i
      BY <1>1, WrittenFile
    <3>2. QED
      BY <3>1, WrittenFile
  <2>2. file[i] = cells[i]
    BY EncodedParts DEF Written
  <2>3. QED
    BY <2>1, <2>2, HeaderCell
<1>3. cells = <<2, 1, origin.kind, 0, 15, Len(origin.sections),
                Len(origin.symbols), Len(origin.relocations), entry, 15,
                SymbolStart(origin), RelocationStart(origin),
                StringStart(origin), Len(Strings(origin)), PayloadStart(origin)>>
  BY HeaderCellsAre DEF Written
<1> HIDE DEF cells
<1>4. /\ Fields[1] = "magic" /\ Fields[2] = "version" /\ Fields[3] = "kind"
      /\ Fields[4] = "reserved" /\ Fields[5] = "headerSize"
      /\ Fields[6] = "sectionCount" /\ Fields[7] = "symbolCount"
      /\ Fields[8] = "relocationCount" /\ Fields[9] = "entry"
      /\ Fields[10] = "sectionOffset" /\ Fields[11] = "symbolOffset"
      /\ Fields[12] = "relocationOffset" /\ Fields[13] = "stringOffset"
      /\ Fields[14] = "stringSize" /\ Fields[15] = "payloadOffset"
  BY DEF Fields
<1>5. /\ cells[1] = 2 /\ cells[2] = 1 /\ cells[3] = origin.kind /\ cells[4] = 0
      /\ cells[5] = 15 /\ cells[6] = Len(origin.sections)
      /\ cells[7] = Len(origin.symbols) /\ cells[8] = Len(origin.relocations)
      /\ cells[9] = entry /\ cells[10] = 15 /\ cells[11] = SymbolStart(origin)
      /\ cells[12] = RelocationStart(origin) /\ cells[13] = StringStart(origin)
      /\ cells[14] = Len(Strings(origin)) /\ cells[15] = PayloadStart(origin)
  BY <1>3
<1>6. /\ Header(Fields[1]) = cells[1] /\ Header(Fields[2]) = cells[2]
      /\ Header(Fields[3]) = cells[3] /\ Header(Fields[4]) = cells[4]
      /\ Header(Fields[5]) = cells[5] /\ Header(Fields[6]) = cells[6]
      /\ Header(Fields[7]) = cells[7] /\ Header(Fields[8]) = cells[8]
      /\ Header(Fields[9]) = cells[9] /\ Header(Fields[10]) = cells[10]
      /\ Header(Fields[11]) = cells[11] /\ Header(Fields[12]) = cells[12]
      /\ Header(Fields[13]) = cells[13] /\ Header(Fields[14]) = cells[14]
      /\ Header(Fields[15]) = cells[15]
  BY <1>2
<1>7. QED
  BY <1>4, <1>5, <1>6

(* The decoder accepts the header.                                         *)
LEMMA WrittenSound ==
  ASSUME Written
  PROVE  HeaderError = "NONE" /\ ~NotExecutable
<1>1. PICK entry : entry = IF origin.kind = EXECUTABLE \/ origin.entrySymbol = NoName
                             THEN origin.entry
                             ELSE NameOffset(origin, Len(AllNames(origin)))
  OBVIOUS
<1> DEFINE n == Len(origin.sections)
           m == Len(origin.symbols)
           r == Len(origin.relocations)
           z == Len(Strings(origin))
           s == SymbolStart(origin)
           t == RelocationStart(origin)
           u == StringStart(origin)
           v == PayloadStart(origin)
           w == Len(Payloads(origin.sections))
<1>2. /\ Header("magic") = 2 /\ Header("version") = 1
      /\ Header("kind") = origin.kind /\ Header("reserved") = 0
      /\ Header("headerSize") = 15
      /\ Header("sectionCount") = n /\ Header("symbolCount") = m
      /\ Header("relocationCount") = r
      /\ Header("entry") = entry
      /\ Header("sectionOffset") = 15 /\ Header("symbolOffset") = s
      /\ Header("relocationOffset") = t /\ Header("stringOffset") = u
      /\ Header("stringSize") = z /\ Header("payloadOffset") = v
  BY <1>1, WrittenHeader
<1>3. /\ n * 7 \in Nat /\ m * 7 \in Nat /\ r * 5 \in Nat /\ z \in Nat
      /\ s = 15 + n * 7 /\ t = s + m * 7 /\ u = t + r * 5 /\ v = u + z
  BY PartStarts DEF Written, SymbolStart, RelocationStart, StringStart
<1>4. w \in Nat /\ Len(file) = v + w
  BY WrittenFile
<1>5. z >= 1
  BY NamePlaces DEF Written
<1>6. /\ SectionBytes = n * 7 /\ SymbolBytes = m * 7 /\ RelocationBytes = r * 5
      /\ HEADER_SIZE = 15
  BY <1>2 DEF SectionBytes, SymbolBytes, RelocationBytes, SECTION_RECORD,
              SYMBOL_RECORD, RELOCATION_RECORD, HEADER_SIZE, Fields
<1>8. origin.kind = OBJECT \/ origin.kind = EXECUTABLE
  BY EncoderAccepts DEF Written
<1>9. origin.kind = EXECUTABLE => r = 0 /\ entry # 0
  <2>1. origin.kind = EXECUTABLE => origin.relocations = << >> /\ origin.entry # 0
    BY EncoderAccepts DEF Written
  <2>2. QED
    BY <1>1, <2>1
<1> HIDE DEF n, m, r, z, s, t, u, v, w
<1> DEFINE x == n * 7
           y == m * 7
           q == r * 5
<1>10. /\ x \in Nat /\ y \in Nat /\ q \in Nat /\ z \in Nat /\ w \in Nat
       /\ s = 15 + x /\ t = s + y /\ u = t + q /\ v = u + z /\ Len(file) = v + w
  BY <1>3, <1>4
<1>11. SectionBytes = x /\ SymbolBytes = y /\ RelocationBytes = q
  BY <1>6
<1> HIDE DEF x, y, q
<1>12. Get(u) = 0
  <2>1. /\ 1 \in 1..z /\ Strings(origin)[1] = 0
    <3>1. Strings(origin)[1] = 0
      BY NamePlaces DEF Written
    <3>2. QED
      BY <1>5, <1>10, <3>1
  <2>2. file[u + 1] = Strings(origin)[1]
    BY <2>1, EncodedParts DEF Written, u, z
  <2>3. u \in Nat /\ u < Len(file)
    BY <1>5, <1>10
  <2>4. QED
    BY <2>1, <2>2, <2>3, WrittenFile
<1>13. ~OutOfBounds
  <2>1. /\ InRange(15, x) /\ InRange(s, y) /\ InRange(t, q) /\ InRange(u, z)
    BY <1>10 DEF InRange
  <2>2. /\ ~(v > Len(file)) /\ ~(15 < HEADER_SIZE) /\ ~(s < 15 + x)
        /\ ~(t < s + y) /\ ~(u < t + q) /\ ~(u + z > v)
    BY <1>6, <1>10
  <2>3. QED
    BY <1>2, <1>11, <2>1, <2>2, Zenon DEF OutOfBounds
<1>14. ~TooShort
  BY <1>6, <1>10 DEF TooShort
<1>15. /\ Header("magic") = MAGIC /\ Header("version") = VERSION
       /\ Header("kind") \in {OBJECT, EXECUTABLE} /\ Header("reserved") = 0
       /\ Header("headerSize") = HEADER_SIZE
       /\ Header("stringSize") # 0 /\ Get(Header("stringOffset")) = 0
  BY <1>2, <1>3, <1>5, <1>6, <1>8, <1>12 DEF MAGIC, VERSION
<1>16. HeaderError = "NONE"
  BY <1>13, <1>14, <1>15, Zenon DEF HeaderError
<1>17. ~NotExecutable
  BY <1>2, <1>9 DEF NotExecutable, IsExecutable
<1>18. QED
  BY <1>16, <1>17

(* A string that ends with a 0 is read up to it.                           *)
LEMMA StringFound ==
  ASSUME file \in Seq(Nat), NEW s \in CString, NEW o \in Nat,
         o + Len(s) < Header("stringSize"),
         \A k \in 0..(Len(s) - 1) : Get(Header("stringOffset") + (o + k)) = s[k + 1],
         Get(Header("stringOffset") + (o + Len(s))) = 0
  PROVE  HasString(o) /\ StringAt(o) = s
<1> DEFINE u == Header("stringOffset")
           z == Header("stringSize")
           l == Len(s)
           e == o + l
<1>1. u \in Nat /\ z \in Nat /\ l \in Nat /\ e \in Nat /\ e < z
  BY HeaderNumbers, CStringType
<1>2. \A k \in 1..l : s[k] # 0
  BY CStringType
<1>3. Ends(o) = {k \in o..(z - 1) : Get(u + k) = 0}
  BY DEF Ends
<1>4. e \in Ends(o)
  <2> HIDE DEF u, z, l
  <2>1. e \in o..(z - 1)
    BY <1>1
  <2>2. Get(u + e) = 0
    BY DEF u, l
  <2>3. QED
    BY <1>3, <2>1, <2>2
<1>5. \A k \in Ends(o) : k \in Nat /\ e <= k
  <2> SUFFICES ASSUME NEW k \in Ends(o)
               PROVE  k \in Nat /\ e <= k
    OBVIOUS
  <2>1. k \in o..(z - 1) /\ Get(u + k) = 0
    BY <1>3
  <2>2. k \in Nat /\ k >= o
    BY <1>1, <2>1
  <2>3. CASE k < e
    <3> DEFINE j == k - o
    <3>1. j \in 0..(l - 1) /\ o + j = k /\ j + 1 \in 1..l
      <4> HIDE DEF u, z, l
      <4>1. QED
        BY <1>1, <2>2, <2>3
    <3> HIDE DEF j
    <3>2. Get(u + (o + j)) = s[j + 1]
      BY <3>1
    <3>3. s[j + 1] = 0
      BY <2>1, <3>1, <3>2
    <3>4. QED
      BY <1>2, <3>1, <3>3
  <2>4. QED
    BY <1>1, <2>2, <2>3
<1> HIDE DEF e
<1>6. Min(Ends(o)) = e
  <2>1. e \in Ends(o) /\ \A y \in Ends(o) : e <= y
    BY <1>4, <1>5
  <2>2. \A x \in Ends(o) : (\A y \in Ends(o) : x <= y) => x = e
    <3> HIDE DEF u, z, l
    <3>1. QED
      BY <1>1, <1>4, <1>5
  <2>3. Min(Ends(o)) = CHOOSE x \in Ends(o) : \A y \in Ends(o) : x <= y
    BY Zenon DEF Min
  <2>4. QED
    BY <2>1, <2>2, <2>3
<1>7. HasString(o)
  BY <1>4 DEF HasString
<1>8. StringAt(o) = [k \in 1..l |-> Get(u + (o + (k - 1)))]
  <2>1. Min(Ends(o)) - o = l
    <3> HIDE DEF u, z, l
    <3>1. QED
      BY <1>1, <1>6 DEF e
  <2>2. StringAt(o) = [k \in 1..(Min(Ends(o)) - o) |-> Get(u + o + k - 1)]
    BY DEF StringAt
  <2>3. \A k \in 1..l : u + o + k - 1 = u + (o + (k - 1))
    <3> HIDE DEF u, z, l
    <3>1. QED
      BY <1>1
  <2>4. QED
    BY <2>1, <2>2, <2>3
<1>9. \A k \in 1..l : Get(u + (o + (k - 1))) = s[k]
  <2> SUFFICES ASSUME NEW k \in 1..l
               PROVE  Get(u + (o + (k - 1))) = s[k]
    OBVIOUS
  <2> DEFINE j == k - 1
  <2>1. j \in 0..(l - 1) /\ j + 1 = k
    <3> HIDE DEF l
    <3>1. QED
      BY <1>1
  <2> HIDE DEF j
  <2>2. Get(u + (o + j)) = s[j + 1]
    BY <2>1
  <2>3. QED
    BY <2>1, <2>2 DEF j
<1>10. s = [k \in 1..l |-> s[k]]
  BY CStringType
<1>11. QED
  BY <1>7, <1>8, <1>9, <1>10

(* The decoder finds every name that was written.                          *)
LEMMA WrittenName ==
  ASSUME Written, NEW i \in 1..Len(AllNames(origin)), NEW s \in CString,
         AllNames(origin)[i] = Name(s)
  PROVE  /\ HasString(NameOffset(origin, i))
         /\ StringAt(NameOffset(origin, i)) = s
<1> DEFINE u == StringStart(origin)
           z == Len(Strings(origin))
           v == PayloadStart(origin)
           w == Len(Payloads(origin.sections))
           o == NameOffset(origin, i)
           l == Len(s)
           n == Len(file)
<1>1. PICK entry : entry = IF origin.kind = EXECUTABLE \/ origin.entrySymbol = NoName
                             THEN origin.entry
                             ELSE NameOffset(origin, Len(AllNames(origin)))
  OBVIOUS
<1>2. Header("stringOffset") = u /\ Header("stringSize") = z
  BY <1>1, WrittenHeader
<1>3. u \in Nat /\ z \in Nat /\ v = u + z
  BY PartStarts DEF Written
<1>4. w \in Nat /\ n = v + w /\ file \in Seq(Nat)
      /\ \A k \in Nat : k < n => Get(k) = file[k + 1]
  BY WrittenFile
<1>5. \A k \in 1..z : file[u + k] = Strings(origin)[k]
  BY EncodedParts DEF Written
<1>6. l \in Nat /\ Len(Name(s)) = l + 1 /\ Name(s)[l + 1] = 0
      /\ \A k \in 1..l : Name(s)[k] = s[k]
  BY CStringType DEF Name
<1>7. /\ o \in Nat /\ o + Len(Name(s)) <= z
      /\ \A k \in 1..Len(Name(s)) : Strings(origin)[o + k] = Name(s)[k]
  BY NamePlaces DEF Written
<1> HIDE DEF u, z, v, w, o, l, n
<1>8. ASSUME NEW k \in 0..l
      PROVE  Get(u + (o + k)) = Name(s)[k + 1]
  <2>1. /\ k + 1 \in 1..Len(Name(s)) /\ o + (k + 1) \in 1..z
        /\ u + (o + k) \in Nat /\ u + (o + k) < n
        /\ (u + (o + k)) + 1 = u + (o + (k + 1))
    <3>1. /\ l \in Nat /\ o \in Nat /\ u \in Nat /\ z \in Nat /\ w \in Nat
          /\ o + (l + 1) <= z /\ v = u + z /\ n = v + w
      BY <1>3, <1>4, <1>6, <1>7
    <3>2. /\ k + 1 \in 1..(l + 1) /\ o + (k + 1) \in 1..z
          /\ u + (o + k) \in Nat /\ u + (o + k) < n
          /\ (u + (o + k)) + 1 = u + (o + (k + 1))
      BY <3>1
    <3>3. QED
      BY <1>6, <3>2
  <2>2. file[u + (o + (k + 1))] = Strings(origin)[o + (k + 1)]
    BY <1>5, <2>1
  <2>3. Strings(origin)[o + (k + 1)] = Name(s)[k + 1]
    BY <1>7, <2>1
  <2>4. Get(u + (o + k)) = file[(u + (o + k)) + 1]
    BY <1>4, <2>1
  <2>5. QED
    BY <2>1, <2>2, <2>3, <2>4
<1>9. \A k \in 0..(l - 1) : Get(u + (o + k)) = s[k + 1]
  <2> SUFFICES ASSUME NEW k \in 0..(l - 1)
               PROVE  Get(u + (o + k)) = s[k + 1]
    OBVIOUS
  <2>1. k \in 0..l /\ k + 1 \in 1..l
    BY <1>6
  <2>2. QED
    BY <1>6, <1>8, <2>1
<1>10. Get(u + (o + l)) = 0
  <2>1. l \in 0..l
    BY <1>6
  <2>2. QED
    BY <1>6, <1>8, <2>1
<1>11. o + l < z
  BY <1>3, <1>6, <1>7
<1>12. HasString(o) /\ StringAt(o) = s
  <2>1. /\ o \in Nat /\ file \in Seq(Nat)
        /\ o + Len(s) < Header("stringSize")
        /\ Get(Header("stringOffset") + (o + Len(s))) = 0
    BY <1>2, <1>4, <1>7, <1>10, <1>11 DEF l
  <2>2. \A k \in 0..(Len(s) - 1) :
          Get(Header("stringOffset") + (o + k)) = s[k + 1]
    BY <1>2, <1>9 DEF l
  <2>3. QED
    BY <2>1, <2>2, StringFound
<1>13. QED
  BY <1>12 DEF o

-----------------------------------------------------------------------------
(* The records that the decoder reads are those that were written.         *)
LEMMA WrittenLayout ==
  ASSUME Written
  PROVE  /\ Header("sectionCount") = Len(origin.sections)
         /\ Header("symbolCount") = Len(origin.symbols)
         /\ Header("relocationCount") = Len(origin.relocations)
         /\ Header("sectionOffset") = 15
         /\ Header("symbolOffset") = SymbolStart(origin)
         /\ Header("relocationOffset") = RelocationStart(origin)
         /\ Header("payloadOffset") = PayloadStart(origin)
         /\ IsExecutable <=> origin.kind = EXECUTABLE
<1>1. PICK entry : entry = IF origin.kind = EXECUTABLE \/ origin.entrySymbol = NoName
                             THEN origin.entry
                             ELSE NameOffset(origin, Len(AllNames(origin)))
  OBVIOUS
<1>2. QED
  BY <1>1, WrittenHeader DEF IsExecutable

(* A record of a table, at the place at which its cells are read.          *)
RecordIn(cell, start, w, i, cells) ==
  \A k \in 1..w : cell[start + (((i + 1) - 1) * w + k)] = cells[k]

RecordAt(start, w, i, cells) ==
  \A k \in 0..(w - 1) : Get(start + i * w + k) = cells[k + 1]

LEMMA WrittenRecord ==
  ASSUME Written, NEW start \in Nat, NEW w \in {5, 7}, NEW n \in Nat,
         NEW i \in Nat, i < n, start + n * w <= Len(file),
         NEW cells, RecordIn(Encoded(origin), start, w, i, cells)
  PROVE  RecordAt(start, w, i, cells)
<1> SUFFICES ASSUME NEW k \in 0..(w - 1)
             PROVE  Get(start + i * w + k) = cells[k + 1]
  BY DEF RecordAt
<1> DEFINE a == start + i * w + k
<1>1. a \in Nat /\ a < Len(file) /\ k + 1 \in 1..w
      /\ a + 1 = start + (((i + 1) - 1) * w + (k + 1))
  <2>1. Len(file) \in Nat
    BY WrittenFile
  <2>2. CASE w = 5
    BY <2>1, <2>2
  <2>3. CASE w = 7
    BY <2>1, <2>3
  <2>4. QED
    BY <2>2, <2>3
<1>2. Get(a) = file[a + 1]
  <2> HIDE DEF a
  <2>1. QED
    BY <1>1, WrittenFile
<1>3. file[a + 1] = cells[k + 1]
  BY <1>1 DEF Written, RecordIn
<1>4. QED
  BY <1>2, <1>3

LEMMA TablesInside ==
  ASSUME Written
  PROVE  /\ 15 + Len(origin.sections) * 7 <= Len(file)
         /\ SymbolStart(origin) + Len(origin.symbols) * 7 <= Len(file)
         /\ RelocationStart(origin) + Len(origin.relocations) * 5 <= Len(file)
<1> DEFINE x == Len(origin.sections) * 7
           y == Len(origin.symbols) * 7
           q == Len(origin.relocations) * 5
           z == Len(Strings(origin))
           w == Len(Payloads(origin.sections))
           s == SymbolStart(origin)
           t == RelocationStart(origin)
           u == StringStart(origin)
           v == PayloadStart(origin)
           n == Len(file)
<1>1. /\ x \in Nat /\ y \in Nat /\ q \in Nat /\ z \in Nat
      /\ s = 15 + x /\ t = s + y /\ u = t + q /\ v = u + z
  BY PartStarts DEF Written, SymbolStart, RelocationStart, StringStart
<1>2. w \in Nat /\ n = v + w
  BY WrittenFile
<1> HIDE DEF x, y, q, z, w, s, t, u, v, n
<1>3. 15 + x <= n /\ s + y <= n /\ t + q <= n
  BY <1>1, <1>2
<1>4. QED
  BY <1>3 DEF x, y, q, s, t, n

LEMMA WrittenSectionCells ==
  ASSUME Written, index \in Nat, index < Len(origin.sections)
  PROVE  \A k \in 0..6 :
           SectionCell(k) = SectionCells(origin, index + 1)[k + 1]
<1> DEFINE n == Len(origin.sections)
           w == 7
           start == 15
           cells == SectionCells(origin, index + 1)
<1>1. n \in Nat /\ index < n /\ index + 1 \in 1..n
  <2>1. n \in Nat
    BY PartStarts DEF Written
  <2>2. QED
    BY <2>1
<1>2. RecordIn(Encoded(origin), start, w, index, cells)
  <2> DEFINE i == index + 1
  <2>1. i \in 1..n
    BY <1>1
  <2> HIDE DEF i
  <2>2. \A k \in 1..7 : Encoded(origin)[15 + ((i - 1) * 7 + k)]
                          = SectionCells(origin, i)[k]
    BY <2>1, EncodedParts DEF Written
  <2>3. QED
    BY <2>2 DEF i, RecordIn
<1>3. start + n * w <= Len(file)
  BY TablesInside
<1>4. \A k \in 0..6 : SectionCell(k) = Get(start + index * w + k)
  BY WrittenLayout DEF SectionCell, SECTION_RECORD
<1>5. start \in Nat /\ w \in {5, 7} /\ w - 1 = 6
  OBVIOUS
<1> HIDE DEF n, w, start, cells
<1>6. RecordAt(start, w, index, cells)
  BY <1>1, <1>2, <1>3, <1>5, WrittenRecord
<1>7. QED
  BY <1>4, <1>5, <1>6 DEF cells, RecordAt

LEMMA WrittenSymbolCells ==
  ASSUME Written, index \in Nat, index < Len(origin.symbols)
  PROVE  \A k \in 0..6 :
           SymbolCell(k) = SymbolCells(origin, index + 1)[k + 1]
<1> DEFINE n == Len(origin.symbols)
           w == 7
           start == SymbolStart(origin)
           cells == SymbolCells(origin, index + 1)
<1>1. n \in Nat /\ index < n /\ index + 1 \in 1..n
  <2>1. n \in Nat
    BY PartStarts DEF Written
  <2>2. QED
    BY <2>1
<1>2. RecordIn(Encoded(origin), start, w, index, cells)
  <2> DEFINE i == index + 1
  <2>1. i \in 1..n
    BY <1>1
  <2> HIDE DEF i
  <2>2. \A k \in 1..7 : Encoded(origin)[SymbolStart(origin) + ((i - 1) * 7 + k)]
                          = SymbolCells(origin, i)[k]
    BY <2>1, EncodedParts DEF Written
  <2>3. QED
    BY <2>2 DEF i, RecordIn
<1>3. start + n * w <= Len(file)
  BY TablesInside
<1>4. \A k \in 0..6 : SymbolCell(k) = Get(start + index * w + k)
  BY WrittenLayout DEF SymbolCell, SYMBOL_RECORD
<1>5. start \in Nat /\ w \in {5, 7} /\ w - 1 = 6
  BY PartStarts DEF Written
<1> HIDE DEF n, w, start, cells
<1>6. RecordAt(start, w, index, cells)
  BY <1>1, <1>2, <1>3, <1>5, WrittenRecord
<1>7. QED
  BY <1>4, <1>5, <1>6 DEF cells, RecordAt

LEMMA WrittenRelocationCells ==
  ASSUME Written, index \in Nat, index < Len(origin.relocations)
  PROVE  \A k \in 0..4 :
           RelocationCell(k) = RelocationCells(origin.relocations[index + 1])[k + 1]
<1> DEFINE n == Len(origin.relocations)
           w == 5
           start == RelocationStart(origin)
           cells == RelocationCells(origin.relocations[index + 1])
<1>1. n \in Nat /\ index < n /\ index + 1 \in 1..n
  <2>1. n \in Nat
    BY PartStarts DEF Written
  <2>2. QED
    BY <2>1
<1>2. RecordIn(Encoded(origin), start, w, index, cells)
  <2> DEFINE i == index + 1
  <2>1. i \in 1..n
    BY <1>1
  <2> HIDE DEF i
  <2>2. \A k \in 1..5 : Encoded(origin)[RelocationStart(origin) + ((i - 1) * 5 + k)]
                          = RelocationCells(origin.relocations[i])[k]
    BY <2>1, EncodedParts DEF Written
  <2>3. QED
    BY <2>2 DEF i, RecordIn
<1>3. start + n * w <= Len(file)
  BY TablesInside
<1>4. \A k \in 0..4 : RelocationCell(k) = Get(start + index * w + k)
  BY WrittenLayout DEF RelocationCell, RELOCATION_RECORD
<1>5. start \in Nat /\ w \in {5, 7} /\ w - 1 = 4
  BY PartStarts DEF Written
<1> HIDE DEF n, w, start, cells
<1>6. RecordAt(start, w, index, cells)
  BY <1>1, <1>2, <1>3, <1>5, WrittenRecord
<1>7. QED
  BY <1>4, <1>5, <1>6 DEF cells, RecordAt

-----------------------------------------------------------------------------
(* What the decoder makes of the records.                                  *)
RestoredSection(s) == IF s.type = BSS THEN Zeroed(s) ELSE s

LEMMA WrittenSection ==
  ASSUME Written, index \in Nat, index < Len(origin.sections)
  PROVE  /\ ~SectionMalformed
         /\ ReadSectionRecord = RestoredSection(origin.sections[index + 1])
<1> DEFINE N == Len(origin.sections)
           i == index + 1
           s == origin.sections[i]
           before == Len(Payloads(SubSeq(origin.sections, 1, i - 1)))
           start == PayloadStart(origin) + before
           own == Len(Payload(s))
           w == Len(Payloads(origin.sections))
           v == PayloadStart(origin)
<1>1. N \in Nat /\ i \in 1..N
  <2>1. N \in Nat
    BY PartStarts DEF Written
  <2>2. QED
    BY <2>1
<1>2. s \in ImageSection
  <2>1. origin.sections \in Seq(ImageSection)
    BY ImageShape DEF Written
  <2> HIDE DEF i
  <2>2. QED
    BY <1>1, <2>1
<1>3. /\ SectionCell(0) = NameOffset(origin, i) /\ SectionCell(1) = s.type
      /\ SectionCell(2) = s.flags /\ SectionCell(3) = s.alignment
      /\ SectionCell(4) = s.address /\ SectionCell(5) = start
      /\ SectionCell(6) = s.size
  <2> DEFINE cells == SectionCells(origin, i)
  <2>1. \A k \in 0..6 : SectionCell(k) = cells[k + 1]
    BY WrittenSectionCells
  <2>2. cells = <<NameOffset(origin, i), s.type, s.flags, s.alignment,
                  s.address, start, s.size>>
    BY DEF SectionCells
  <2> HIDE DEF cells, start, s, i
  <2>3. /\ cells[1] = NameOffset(origin, i) /\ cells[2] = s.type
        /\ cells[3] = s.flags /\ cells[4] = s.alignment
        /\ cells[5] = s.address /\ cells[6] = start /\ cells[7] = s.size
    BY <2>2
  <2>4. /\ SectionCell(0) = cells[1] /\ SectionCell(1) = cells[2]
        /\ SectionCell(2) = cells[3] /\ SectionCell(3) = cells[4]
        /\ SectionCell(4) = cells[5] /\ SectionCell(5) = cells[6]
        /\ SectionCell(6) = cells[7]
    BY <2>1
  <2>5. QED
    BY <2>3, <2>4
<1>4. HasString(NameOffset(origin, i)) /\ StringAt(NameOffset(origin, i)) = s.name
  <2> DEFINE n == Len(AllNames(origin))
             M == Len(origin.symbols)
  <2>1. /\ AllNames(origin)[i] = Name(s.name)
        /\ M \in Nat /\ (n = N + M + 0 \/ n = N + M + 1)
    <3>1. i \in 1..N
      BY <1>1
    <3> HIDE DEF i
    <3>2. QED
      BY <3>1, PartStarts, EncoderNames DEF Written
  <2>2. i \in 1..n
    <3>1. i \in 1..N
      BY <1>1
    <3> HIDE DEF i, n, N, M
    <3>2. QED
      BY <1>1, <2>1, <3>1
  <2>3. s.name \in CString
    BY <1>2, SectionFields
  <2> HIDE DEF i, s
  <2>4. QED
    BY <2>1, <2>2, <2>3, WrittenName
<1>5. /\ before \in Nat /\ Payload(s) \in Seq(Nat)
      /\ before + own <= w
      /\ \A k \in 1..own : Payloads(origin.sections)[before + k] = Payload(s)[k]
  <2>1. origin.sections \in Seq(ImageSection)
    BY ImageShape DEF Written
  <2>2. i \in 1..N
    BY <1>1
  <2> HIDE DEF i
  <2>3. QED
    BY <2>1, <2>2, PayloadPlaces
<1>6. own \in Nat /\ w \in Nat /\ v \in Nat /\ Len(file) = v + w
  BY <1>5, WrittenFile, PartStarts DEF Written
<1>7. s.size \in Nat /\ s.type \in Nat
      /\ (s.type # BSS => Payload(s) = s.data /\ own = s.size)
  <2>1. s.size \in Nat /\ s.type \in Word /\ (s.type # BSS => Len(s.data) = s.size)
    BY <1>2, SectionFields
  <2>2. s.type # BSS => Payload(s) = s.data
    BY DEF Payload
  <2> HIDE DEF s
  <2>3. QED
    BY <2>1, <2>2, Bases DEF Word
<1>8. ~BadSection(s.type, s.alignment, s.address, s.size)
  <2>1. i \in 1..N
    BY <1>1
  <2> HIDE DEF i
  <2>2. QED
    BY <2>1, EncoderAccepts DEF Written
<1>9. Header("payloadOffset") = v
  BY WrittenLayout
<1>10. s.type # BSS => s.data = [k \in 1..s.size |-> Get(start + k - 1)]
  <2> SUFFICES ASSUME s.type # BSS
               PROVE  s.data = [k \in 1..s.size |-> Get(start + k - 1)]
    OBVIOUS
  <2>1. s.data \in Seq(Nat) /\ Len(s.data) = s.size /\ s.data = Payload(s)
        /\ own = s.size
    BY <1>2, <1>7, SectionFields
  <2>2. \A k \in 1..w : file[v + k] = Payloads(origin.sections)[k]
    BY EncodedParts DEF Written
  <2>3. ASSUME NEW k \in 1..s.size
        PROVE  Get(start + k - 1) = s.data[k]
    <3> DEFINE a == start + k - 1
               m == Len(file)
    <3>1. /\ a \in Nat /\ a < Len(file) /\ a + 1 = v + (before + k)
          /\ before + k \in 1..w /\ k \in 1..own
      <4>1. start = v + before /\ k \in 1..own
        BY <2>1
      <4>2. /\ own \in Nat /\ before \in Nat /\ v \in Nat /\ w \in Nat
            /\ m = v + w /\ before + own <= w
        BY <1>5, <1>6
      <4> HIDE DEF start, v, w, own, before, m
      <4>3. a \in Nat /\ a < m /\ a + 1 = v + (before + k)
        BY <4>1, <4>2
      <4>4. before + k \in 1..w
        BY <4>1, <4>2
      <4>5. QED
        BY <4>1, <4>3, <4>4 DEF m
    <3> HIDE DEF a, start, before, s, own, w, v
    <3>2. Get(a) = file[a + 1]
      BY <3>1, WrittenFile
    <3>3. file[v + (before + k)] = Payloads(origin.sections)[before + k]
      BY <2>2, <3>1
    <3>4. Payloads(origin.sections)[before + k] = s.data[k]
      BY <1>5, <2>1, <3>1
    <3>5. Get(a) = s.data[k]
      BY <3>1, <3>2, <3>3, <3>4
    <3>6. QED
      BY <3>5 DEF a
  <2> HIDE DEF s, start
  <2>4. s.data = [k \in 1..s.size |-> s.data[k]]
    BY <2>1
  <2>5. QED
    BY <2>3, <2>4
<1>11. ~SectionMalformed
  <2>1. ~(SectionCell(1) = BSS /\ SectionCell(5) > Len(file))
    <3>1. SectionCell(5) <= Len(file)
      <4> HIDE DEF before, own, w
      <4>1. v + before <= v + w
        <5> HIDE DEF v
        <5>1. QED
          BY <1>5, <1>6
      <4>2. QED
        BY <1>3, <1>6, <4>1
    <3>2. SectionCell(5) \in Nat /\ Len(file) \in Nat
      BY <1>3, <1>5, <1>6
    <3> HIDE DEF s, start, i
    <3>3. QED
      BY <3>1, <3>2
  <2>2. SectionCell(1) # BSS =>
          /\ ~(SectionCell(5) < Header("payloadOffset"))
          /\ InRange(SectionCell(5), SectionCell(6))
    <3> HIDE DEF before, own, w, v, s, i
    <3>1. QED
      BY <1>3, <1>5, <1>6, <1>7, <1>9 DEF InRange, v
  <2>3. HasString(SectionCell(0))
    BY <1>3, <1>4
  <2>4. ~BadSection(SectionCell(1), SectionCell(3), SectionCell(4), SectionCell(6))
    <3> HIDE DEF s, i, start
    <3>1. QED
      BY <1>3, <1>8
  <2>5. QED
    BY <2>1, <2>2, <2>3, <2>4, Zenon DEF SectionMalformed
<1>12. s = [name |-> s.name, type |-> s.type, flags |-> s.flags,
            alignment |-> s.alignment, address |-> s.address,
            size |-> s.size, data |-> s.data]
  BY <1>2, SectionFields
<1>13. ReadSectionRecord =
         [name |-> s.name, type |-> s.type, flags |-> s.flags,
          alignment |-> s.alignment, address |-> s.address, size |-> s.size,
          data |-> [k \in 1..s.size |->
                      IF s.type = BSS THEN 0 ELSE Get(start + k - 1)]]
  <2> HIDE DEF s, start, i
  <2>1. QED
    BY <1>3, <1>4 DEF ReadSectionRecord
<1> HIDE DEF s, start, i
<1>14. CASE s.type = BSS
  <2>1. Zeroed(s) = [name |-> s.name, type |-> s.type, flags |-> s.flags,
                     alignment |-> s.alignment, address |-> s.address,
                     size |-> s.size, data |-> [k \in 1..s.size |-> 0]]
    <3> DEFINE zeros == [k \in 1..s.size |-> 0]
    <3>1. Zeroed(s) = [s EXCEPT !.data = zeros]
      BY Zenon DEF Zeroed
    <3>2. s \in [name : CString, type : Word, flags : Word, alignment : Word,
                 address : Word, size : Nat, data : Seq(Byte)]
      BY <1>2 DEF ImageSection
    <3> HIDE DEF zeros
    <3>3. [s EXCEPT !.data = zeros]
            = [name |-> s.name, type |-> s.type, flags |-> s.flags,
               alignment |-> s.alignment, address |-> s.address,
               size |-> s.size, data |-> zeros]
      BY <3>2
    <3>4. QED
      BY <3>1, <3>3 DEF zeros
  <2>2. ReadSectionRecord = Zeroed(s)
    BY <1>13, <1>14, <2>1
  <2>3. QED
    BY <1>11, <1>14, <2>2 DEF RestoredSection, s, i
<1>15. CASE s.type # BSS
  <2>1. ReadSectionRecord = s
    BY <1>10, <1>12, <1>13, <1>15
  <2>2. QED
    BY <1>11, <1>15, <2>1 DEF RestoredSection, s, i
<1>16. QED
  BY <1>14, <1>15

LEMMA WrittenSymbol ==
  ASSUME Written, index \in Nat, index < Len(origin.symbols)
  PROVE  /\ SymbolNamed /\ ~SymbolMalformed
         /\ ReadSymbolRecord = origin.symbols[index + 1]
<1> DEFINE N == Len(origin.sections)
           M == Len(origin.symbols)
           i == index + 1
           s == origin.symbols[i]
           j == N + i
<1>1. N \in Nat /\ M \in Nat /\ i \in 1..M
  <2>1. N \in Nat /\ M \in Nat
    BY PartStarts DEF Written
  <2>2. QED
    BY <2>1
<1>2. s \in ImageSymbol
  <2>1. origin.symbols \in Seq(ImageSymbol)
    BY ImageShape DEF Written
  <2> HIDE DEF i
  <2>2. QED
    BY <1>1, <2>1
<1>3. /\ SymbolCell(0) = NameOffset(origin, j) /\ SymbolCell(1) = s.section
      /\ SymbolCell(2) = s.value /\ SymbolCell(3) = s.size
      /\ SymbolCell(4) = s.binding /\ SymbolCell(5) = s.type
      /\ SymbolCell(6) = 0
  <2> DEFINE cells == SymbolCells(origin, i)
  <2>1. \A k \in 0..6 : SymbolCell(k) = cells[k + 1]
    BY WrittenSymbolCells
  <2>2. cells = <<NameOffset(origin, j), s.section, s.value, s.size, s.binding,
                  s.type, 0>>
    BY DEF SymbolCells
  <2> HIDE DEF cells, s, i, j
  <2>3. /\ cells[1] = NameOffset(origin, j) /\ cells[2] = s.section
        /\ cells[3] = s.value /\ cells[4] = s.size /\ cells[5] = s.binding
        /\ cells[6] = s.type /\ cells[7] = 0
    BY <2>2
  <2>4. /\ SymbolCell(0) = cells[1] /\ SymbolCell(1) = cells[2]
        /\ SymbolCell(2) = cells[3] /\ SymbolCell(3) = cells[4]
        /\ SymbolCell(4) = cells[5] /\ SymbolCell(5) = cells[6]
        /\ SymbolCell(6) = cells[7]
    BY <2>1
  <2>5. QED
    BY <2>3, <2>4
<1>4. HasString(NameOffset(origin, j)) /\ StringAt(NameOffset(origin, j)) = s.name
  <2> DEFINE n == Len(AllNames(origin))
  <2>1. /\ AllNames(origin)[j] = Name(s.name)
        /\ (n = N + M + 0 \/ n = N + M + 1)
    <3>1. i \in 1..M
      BY <1>1
    <3> HIDE DEF i
    <3>2. QED
      BY <3>1, EncoderNames DEF Written
  <2>2. j \in 1..n
    <3>1. i \in 1..M
      BY <1>1
    <3> HIDE DEF i, n, N, M
    <3>2. QED
      BY <1>1, <2>1, <3>1
  <2>3. s.name \in CString
    BY <1>2, SymbolFields
  <2> HIDE DEF i, j, s
  <2>4. QED
    BY <2>1, <2>2, <2>3, WrittenName
<1>5. ~BadSymbol(s.section, s.binding, s.type, N)
  <2>1. i \in 1..M
    BY <1>1
  <2> HIDE DEF i
  <2>2. QED
    BY <2>1, EncoderAccepts DEF Written
<1>6. Header("sectionCount") = N
  BY WrittenLayout
<1>7. s.section \in Nat
  BY <1>2, SymbolFields, Bases DEF Word
<1>8. s = [name |-> s.name, section |-> s.section, value |-> s.value,
           size |-> s.size, binding |-> s.binding, type |-> s.type]
  BY <1>2, SymbolFields
<1> HIDE DEF s, i, j, N
<1>9. SymbolNamed
  BY <1>1, <1>3, <1>4, <1>5, <1>6, <1>7 DEF SymbolNamed, BadSymbol
<1>10. ~SymbolMalformed
  BY <1>3, <1>5, <1>6 DEF SymbolMalformed
<1>11. ReadSymbolRecord = s
  BY <1>3, <1>4, <1>8 DEF ReadSymbolRecord
<1>12. QED
  BY <1>9, <1>10, <1>11 DEF s, i

(* The addend is stored as a word and read back with its sign.             *)
LEMMA AddendKept ==
  ASSUME NEW a \in SWORD_MIN..SWORD_MAX
  PROVE  Signed(ToWord(a)) = a
<1>1. SignBit \in Nat /\ SignBit > 0 /\ WordBase = 2 * SignBit
  BY Bases
<1>2. a \in Int /\ - SignBit <= a /\ a < SignBit
  BY <1>1 DEF SWORD_MIN, SWORD_MAX
<1>3. CASE a >= 0
  <2>1. ToWord(a) = a
    BY <1>1, <1>2, <1>3, ToWordOfWord DEF Word
  <2>2. QED
    BY <1>1, <1>2, <1>3, <2>1 DEF Signed
<1>4. CASE a < 0
  <2>1. ToWord(a) = a + WordBase
    <3>1. a + WordBase \in Word
      BY <1>1, <1>2, <1>4 DEF Word
    <3>2. QED
      BY <1>1, <1>2, <1>4, <3>1, ToWordOfWord, ToWordTurns
  <2>2. QED
    BY <1>1, <1>2, <1>4, <2>1 DEF Signed
<1>5. QED
  BY <1>2, <1>3, <1>4

(* The sections keep what the later checks look at.                        *)
RestoredSections(img) ==
  [i \in 1..Len(img.sections) |-> RestoredSection(img.sections[i])]

LEMMA RestoredKeeps ==
  ASSUME NEW img \in Images
  PROVE  /\ Len(RestoredSections(img)) = Len(img.sections)
         /\ RestoredSections(img) = [i \in 1..Len(RestoredSections(img)) |->
                                       RestoredSections(img)[i]]
         /\ \A i \in 1..Len(img.sections) :
              /\ RestoredSections(img)[i] = RestoredSection(img.sections[i])
              /\ RestoredSections(img)[i].type = img.sections[i].type
              /\ RestoredSections(img)[i].size = img.sections[i].size
              /\ RestoredSections(img)[i].address = img.sections[i].address
<1> DEFINE n == Len(img.sections)
           rs == RestoredSections(img)
<1>1. n \in Nat /\ \A i \in 1..n : img.sections[i] \in ImageSection
  BY ImageShape
<1>2. rs = [i \in 1..n |-> RestoredSection(img.sections[i])]
  BY DEF RestoredSections
<1>3. \A s \in ImageSection :
        /\ RestoredSection(s).type = s.type
        /\ RestoredSection(s).size = s.size
        /\ RestoredSection(s).address = s.address
  <2> SUFFICES ASSUME NEW s \in ImageSection
               PROVE  /\ RestoredSection(s).type = s.type
                      /\ RestoredSection(s).size = s.size
                      /\ RestoredSection(s).address = s.address
    OBVIOUS
  <2> DEFINE zeros == [k \in 1..s.size |-> 0]
  <2>1. Zeroed(s) = [s EXCEPT !.data = zeros]
    BY Zenon DEF Zeroed
  <2>2. s \in [name : CString, type : Word, flags : Word, alignment : Word,
               address : Word, size : Nat, data : Seq(Byte)]
    BY DEF ImageSection
  <2> HIDE DEF zeros
  <2>3. QED
    BY <2>1, <2>2 DEF RestoredSection
<1> HIDE DEF n, rs
<1>4. Len(rs) = n /\ rs = [i \in 1..n |-> rs[i]]
  BY <1>1, <1>2
<1>5. \A i \in 1..n : rs[i] = RestoredSection(img.sections[i])
  BY <1>2
<1>6. QED
  BY <1>1, <1>3, <1>4, <1>5 DEF n, rs

LEMMA WrittenRelocation ==
  ASSUME Written, index \in Nat, index < Len(origin.relocations),
         image.sections = RestoredSections(origin)
  PROVE  /\ ~RelocationMalformed
         /\ ReadRelocationRecord = origin.relocations[index + 1]
<1> DEFINE N == Len(origin.sections)
           M == Len(origin.symbols)
           R == Len(origin.relocations)
           i == index + 1
           r == origin.relocations[i]
           rs == RestoredSections(origin)
<1>1. N \in Nat /\ M \in Nat /\ R \in Nat /\ i \in 1..R
  <2>1. N \in Nat /\ M \in Nat /\ R \in Nat
    BY PartStarts DEF Written
  <2>2. QED
    BY <2>1
<1>2. r \in ImageRelocation
  <2>1. origin.relocations \in Seq(ImageRelocation)
    BY ImageShape DEF Written
  <2> HIDE DEF i
  <2>2. QED
    BY <1>1, <2>1
<1>3. /\ RelocationCell(0) = r.section /\ RelocationCell(1) = r.offset
      /\ RelocationCell(2) = r.type /\ RelocationCell(3) = r.symbol
      /\ RelocationCell(4) = ToWord(r.addend)
  <2> DEFINE cells == RelocationCells(r)
  <2>1. \A k \in 0..4 : RelocationCell(k) = cells[k + 1]
    BY WrittenRelocationCells
  <2>2. cells = <<r.section, r.offset, r.type, r.symbol, ToWord(r.addend)>>
    BY DEF RelocationCells
  <2> HIDE DEF cells, r, i
  <2>3. /\ cells[1] = r.section /\ cells[2] = r.offset /\ cells[3] = r.type
        /\ cells[4] = r.symbol /\ cells[5] = ToWord(r.addend)
    BY <2>2
  <2>4. /\ RelocationCell(0) = cells[1] /\ RelocationCell(1) = cells[2]
        /\ RelocationCell(2) = cells[3] /\ RelocationCell(3) = cells[4]
        /\ RelocationCell(4) = cells[5]
    BY <2>1
  <2>5. QED
    BY <2>3, <2>4
<1>4. r.section \in Nat /\ Signed(ToWord(r.addend)) = r.addend
  <2>1. r.section \in Word /\ r.addend \in SWORD_MIN..SWORD_MAX
    BY <1>2, RelocationFields
  <2>2. QED
    BY <2>1, AddendKept, Bases DEF Word
<1>5. r = [section |-> r.section, offset |-> r.offset, type |-> r.type,
           symbol |-> r.symbol, addend |-> r.addend]
  BY <1>2, RelocationFields
<1>6. ~BadRelocation(r, origin.sections, M)
  <2>1. i \in 1..R
    BY <1>1
  <2> HIDE DEF i
  <2>2. QED
    BY <2>1, EncoderAccepts DEF Written
<1>7. Header("symbolCount") = M
  BY WrittenLayout
<1> HIDE DEF r, i, rs, N, M
<1>8. ReadRelocationRecord = r
  BY <1>3, <1>4, <1>5 DEF ReadRelocationRecord
<1>9. ~BadRelocation(r, rs, M)
  <2> DEFINE j == r.section + 1
  <2>1. /\ r.section < N /\ r.symbol < M
        /\ r.type \in {ABSOLUTE32, PC_RELATIVE32}
        /\ origin.sections[j].type # BSS
        /\ r.offset <= origin.sections[j].size
        /\ origin.sections[j].size - r.offset >= FIELD_SIZE
    BY <1>6, Zenon DEF BadRelocation, N
  <2>2. j \in 1..N
    BY <1>1, <1>4, <2>1
  <2> HIDE DEF j
  <2>3. /\ Len(rs) = N /\ rs[j].type = origin.sections[j].type
        /\ rs[j].size = origin.sections[j].size
    BY <2>2, RestoredKeeps DEF Written, rs, N
  <2>4. QED
    BY <2>1, <2>3 DEF BadRelocation, j
<1>10. QED
  BY <1>7, <1>8, <1>9 DEF RelocationMalformed, r, i, rs

(* The name of the entry.                                                  *)
LEMMA WrittenEntry ==
  ASSUME Written
  PROVE  /\ WithEntrySymbol <=>
              origin.kind = OBJECT /\ origin.entrySymbol # NoName
         /\ WithEntrySymbol => /\ HasString(Header("entry"))
                               /\ StringAt(Header("entry")) = origin.entrySymbol
         /\ IsExecutable => Header("entry") = origin.entry
         /\ ~IsExecutable => origin.entry = 0
<1>1. PICK entry : entry = IF origin.kind = EXECUTABLE \/ origin.entrySymbol = NoName
                             THEN origin.entry
                             ELSE NameOffset(origin, Len(AllNames(origin)))
  OBVIOUS
<1>2. Header("entry") = entry /\ Header("kind") = origin.kind
  BY <1>1, WrittenHeader
<1>3. /\ origin.kind = OBJECT \/ origin.kind = EXECUTABLE
      /\ origin.kind = OBJECT => origin.entry = 0
      /\ OBJECT # EXECUTABLE
  BY EncoderAccepts DEF Written, OBJECT, EXECUTABLE
<1>4. CASE origin.kind = EXECUTABLE \/ origin.entrySymbol = NoName
  BY <1>1, <1>2, <1>3, <1>4 DEF WithEntrySymbol, IsExecutable
<1>5. CASE ~(origin.kind = EXECUTABLE \/ origin.entrySymbol = NoName)
  <2> DEFINE N == Len(origin.sections)
             M == Len(origin.symbols)
             n == Len(AllNames(origin))
  <2>1. /\ N \in Nat /\ M \in Nat /\ n = N + M + 1
        /\ AllNames(origin)[N + M + 1] = Name(origin.entrySymbol)
    BY <1>3, <1>5, PartStarts, EncoderNames DEF Written
  <2>2. n \in 1..n /\ AllNames(origin)[n] = Name(origin.entrySymbol)
    <3> HIDE DEF N, M, n
    <3>1. QED
      BY <2>1
  <2>3. origin.entrySymbol \in CString
    BY <1>5, ImageShape DEF Written
  <2>4. entry = NameOffset(origin, n)
    BY <1>1, <1>5
  <2>5. entry \in Nat /\ entry >= 1
    BY <2>2, <2>4, NamePlaces DEF Written
  <2>6. HasString(entry) /\ StringAt(entry) = origin.entrySymbol
    <3> HIDE DEF n
    <3>1. QED
      BY <2>2, <2>3, <2>4, WrittenName DEF n
  <2>7. QED
    BY <1>2, <1>3, <1>5, <2>5, <2>6 DEF WithEntrySymbol, IsExecutable
<1>6. QED
  BY <1>4, <1>5

LEMMA WrittenEntryAccepted ==
  ASSUME Written, image.entry = origin.entry,
         image.sections = RestoredSections(origin)
  PROVE  EntryAccepted
<1> DEFINE N == Len(origin.sections)
           rs == RestoredSections(origin)
<1>1. SUFFICES ASSUME IsExecutable
               PROVE  EntryInText(origin.entry, rs)
  BY DEF EntryAccepted
<1>2. EntryInText(origin.entry, origin.sections)
  BY <1>1, WrittenLayout, EncoderAccepts DEF Written
<1>3. PICK i \in 1..N : /\ origin.sections[i].type = TEXT
                        /\ origin.entry >= origin.sections[i].address
                        /\ origin.entry - origin.sections[i].address
                             < origin.sections[i].size
  BY <1>2 DEF EntryInText
<1>4. /\ Len(rs) = N /\ rs[i].type = origin.sections[i].type
      /\ rs[i].size = origin.sections[i].size
      /\ rs[i].address = origin.sections[i].address
  BY RestoredKeeps DEF Written
<1> HIDE DEF N, rs
<1>5. i \in 1..Len(rs)
  BY <1>4
<1>6. QED
  BY <1>3, <1>4, <1>5 DEF EntryInText

-----------------------------------------------------------------------------
(* The image, while it is built: the tables before the stage are complete, *)
(* the one that is read has as many entries as the loop has done, and the  *)
(* ones behind it are empty.                                               *)
KeptEntry(img) == IF img.kind = EXECUTABLE THEN NoName ELSE img.entrySymbol

Part(s, done, now, k) ==
  IF done THEN s ELSE IF now THEN SubSeq(s, 1, k) ELSE << >>

Partial(img, stg, k) ==
  [kind |-> img.kind, entry |-> img.entry,
   entrySymbol |-> IF stg \in {"tables", "entrySymbol"} THEN NoName
                                                        ELSE KeptEntry(img),
   sections |-> Part(RestoredSections(img),
                     stg \in {"symbols", "relocations", "entry"},
                     stg = "sections", k),
   symbols |-> Part(img.symbols, stg \in {"relocations", "entry"},
                    stg = "symbols", k),
   relocations |-> Part(img.relocations, stg = "entry",
                        stg = "relocations", k)]

EntriesOf(img, table) ==
  IF table = "sections" THEN Len(img.sections)
  ELSE IF table = "symbols" THEN Len(img.symbols) ELSE Len(img.relocations)

Restoring(org, f, stg, k, img, err) ==
  org # NoImage =>
    /\ org \in Images
    /\ stg \notin {"encode", "refused"} =>
         EncodeError(org) = "NONE" /\ f = Encoded(org)
    /\ stg \in {"encode", "header"} => img = NoDecoded /\ k = 0 /\ err = "NONE"
    /\ stg \in Reading => img = Partial(org, stg, k) /\ err = "NONE"
    /\ stg \in Reading \ Tables => k = 0
    /\ stg \in Tables => k <= EntriesOf(org, stg)
    /\ stg = "done" => \/ err = "OUT_OF_MEMORY"
                       \/ err = "NONE" /\ img = Restored(org)

RInv == Restoring(origin, file, stage, index, image, error)

(* The first entries of a table.                                           *)
LEMMA FirstEntries ==
  ASSUME NEW s, Len(s) \in Nat, s = [i \in 1..Len(s) |-> s[i]]
  PROVE  /\ SubSeq(s, 1, 0) = << >>
         /\ SubSeq(s, 1, Len(s)) = s
         /\ \A k \in Nat : k < Len(s) =>
              Append(SubSeq(s, 1, k), s[k + 1]) = SubSeq(s, 1, k + 1)
<1> DEFINE n == Len(s)
           T == {s[i] : i \in 1..n}
<1>1. s \in Seq(T)
  <2>1. \A i \in 1..n : s[i] \in T
    OBVIOUS
  <2> HIDE DEF T, n
  <2>2. [i \in 1..n |-> s[i]] \in Seq(T)
    BY <2>1 DEF n
  <2>3. QED
    BY <2>2 DEF n
<1> HIDE DEF T
<1>2. SubSeq(s, 1, 0) = << >>
  BY <1>1
<1>3. SubSeq(s, 1, n) = s
  BY <1>1, SubSeqFull
<1>4. ASSUME NEW k \in Nat, k < n
      PROVE  Append(SubSeq(s, 1, k), s[k + 1]) = SubSeq(s, 1, k + 1)
  BY <1>1, <1>4
<1>5. QED
  BY <1>2, <1>3, <1>4

LEMMA TableShapes ==
  ASSUME NEW img \in Images
  PROVE  /\ RestoredSections(img) = [i \in 1..Len(RestoredSections(img)) |->
                                       RestoredSections(img)[i]]
         /\ img.symbols = [i \in 1..Len(img.symbols) |-> img.symbols[i]]
         /\ img.relocations = [i \in 1..Len(img.relocations) |->
                                 img.relocations[i]]
         /\ Len(RestoredSections(img)) = Len(img.sections)
         /\ Len(img.sections) \in Nat /\ Len(img.symbols) \in Nat
         /\ Len(img.relocations) \in Nat
<1>1. img.symbols \in Seq(ImageSymbol) /\ img.relocations \in Seq(ImageRelocation)
  BY ImageShape
<1>2. /\ img.symbols = [i \in 1..Len(img.symbols) |-> img.symbols[i]]
      /\ img.relocations = [i \in 1..Len(img.relocations) |-> img.relocations[i]]
  BY <1>1
<1>3. QED
  BY <1>2, RestoredKeeps, PartStarts

(* Nothing is missing at the end.                                          *)
LEMMA PartialIsRestored ==
  ASSUME NEW img \in Images
  PROVE  Partial(img, "entry", 0) = Restored(img)
<1> DEFINE n == Len(img.sections)
           rs == RestoredSections(img)
<1>1. img = [kind |-> img.kind, entry |-> img.entry,
             entrySymbol |-> img.entrySymbol, sections |-> img.sections,
             symbols |-> img.symbols, relocations |-> img.relocations]
      /\ img.sections \in Seq(ImageSection)
  BY ImageShape
<1>2. DOMAIN img.sections = 1..n
  BY <1>1
<1>3. [i \in DOMAIN img.sections |-> IF img.sections[i].type = BSS
                                       THEN Zeroed(img.sections[i])
                                       ELSE img.sections[i]] = rs
  BY <1>2, Zenon DEF RestoredSections, RestoredSection
<1>4. img \in [kind : Word, entry : Word, entrySymbol : CString \cup {NoName},
               sections : Seq(ImageSection), symbols : Seq(ImageSymbol),
               relocations : Seq(ImageRelocation)]
  BY CodecAssumption DEF IsImage
<1> DEFINE e == KeptEntry(img)
<1>5. Restored(img) = [img EXCEPT !.entrySymbol = e, !.sections = rs]
  <2>1. (IF img.kind = EXECUTABLE THEN NoName ELSE img.entrySymbol) = e
    BY DEF KeptEntry
  <2> HIDE DEF e, rs
  <2>2. Restored(img) =
          [img EXCEPT
             !.entrySymbol = IF img.kind = EXECUTABLE THEN NoName
                             ELSE img.entrySymbol,
             !.sections = [i \in DOMAIN img.sections |->
                             IF img.sections[i].type = BSS
                               THEN Zeroed(img.sections[i])
                               ELSE img.sections[i]]]
    BY <1>4 DEF Restored
  <2>3. QED
    BY <1>3, <2>1, <2>2
<1>6. Partial(img, "entry", 0) =
        [kind |-> img.kind, entry |-> img.entry, entrySymbol |-> e,
         sections |-> rs, symbols |-> img.symbols,
         relocations |-> img.relocations]
  BY DEF Partial, Part
<1> HIDE DEF e, rs
<1>7. [img EXCEPT !.entrySymbol = e, !.sections = rs] =
        [kind |-> img.kind, entry |-> img.entry, entrySymbol |-> e,
         sections |-> rs, symbols |-> img.symbols,
         relocations |-> img.relocations]
  <2> DEFINE o == [img EXCEPT !.entrySymbol = e]
  <2>1. o = [kind |-> img.kind, entry |-> img.entry, entrySymbol |-> e,
             sections |-> img.sections, symbols |-> img.symbols,
             relocations |-> img.relocations]
    BY <1>4
  <2>2. [img EXCEPT !.entrySymbol = e, !.sections = rs] = [o EXCEPT !.sections = rs]
    BY <1>4
  <2> HIDE DEF o
  <2>3. [o EXCEPT !.sections = rs] =
          [kind |-> img.kind, entry |-> img.entry, entrySymbol |-> e,
           sections |-> rs, symbols |-> img.symbols,
           relocations |-> img.relocations]
    BY <2>1
  <2>4. QED
    BY <2>2, <2>3
<1>8. QED
  BY <1>5, <1>6, <1>7

-----------------------------------------------------------------------------
(* What the invariant says of the present state.                           *)
LEMMA NowRestoring ==
  ASSUME RInv, origin # NoImage
  PROVE  /\ origin \in Images
         /\ stage \notin {"encode", "refused"} => Written
         /\ stage \in {"encode", "header"} =>
              image = NoDecoded /\ index = 0 /\ error = "NONE"
         /\ stage \in Reading => image = Partial(origin, stage, index)
         /\ stage \in Reading => error = "NONE"
         /\ stage \in Reading \ Tables => index = 0
         /\ stage \in Tables => index <= EntriesOf(origin, stage)
BY DEF RInv, Restoring, Written

(* Where the decoder runs out of memory, nothing is promised.              *)
LEMMA OutOfMemoryStep ==
  RInv /\ stage \notin {"encode", "refused"}
       /\ stage' = "done" /\ error' = "OUT_OF_MEMORY"
       /\ UNCHANGED <<origin, file>> => RInv'
<1> SUFFICES ASSUME RInv, stage \notin {"encode", "refused"},
                    stage' = "done", error' = "OUT_OF_MEMORY",
                    origin' = origin, file' = file
             PROVE  RInv'
  OBVIOUS
<1>1. stage' \notin {"encode", "header", "refused"} /\ stage' \notin Reading
  BY DEF Reading
<1>2. stage' \notin Tables
  BY <1>1 DEF Tables
<1>3. QED
  BY <1>1, <1>2 DEF RInv, Restoring

LEMMA RoundInit == Init => RInv
<1>1. SUFFICES ASSUME Init, origin # NoImage
               PROVE  RInv
  BY DEF RInv, Restoring
<1>2. origin \in Images /\ stage = "encode" /\ image = NoDecoded /\ index = 0
      /\ error = "NONE"
  BY <1>1 DEF Init
<1>3. stage \notin Reading /\ stage \notin Tables /\ stage # "done"
  BY <1>2 DEF Reading, Tables
<1>4. QED
  BY <1>2, <1>3 DEF RInv, Restoring

LEMMA RoundEncoder == RInv /\ (Encode \/ EncodeRefused) => RInv'
<1> SUFFICES ASSUME RInv, Encode \/ EncodeRefused, origin # NoImage
             PROVE  RInv'
  BY DEF RInv, Restoring, Encode, EncodeRefused
<1>1. origin \in Images /\ origin' = origin /\ stage = "encode"
      /\ image = NoDecoded /\ index = 0 /\ error = "NONE"
  BY NowRestoring DEF Encode, EncodeRefused
<1>2. CASE Encode
  <2>1. /\ EncodeError(origin) = "NONE" /\ file' = Encoded(origin)
        /\ stage' = "header" /\ index' = index /\ image' = image
        /\ error' = error
    BY <1>2 DEF Encode
  <2>2. stage' \notin Reading /\ stage' \notin Tables /\ stage' # "done"
    BY <2>1 DEF Reading, Tables
  <2>3. QED
    BY <1>1, <2>1, <2>2 DEF RInv, Restoring
<1>3. CASE EncodeRefused
  <2>1. stage' = "refused"
    BY <1>3 DEF EncodeRefused
  <2>2. stage' \notin Reading /\ stage' \notin Tables
        /\ stage' \notin {"encode", "header", "done"}
    BY <2>1 DEF Reading, Tables
  <2>3. QED
    BY <1>1, <2>1, <2>2 DEF RInv, Restoring
<1>4. QED
  BY <1>2, <1>3

(* The kind and the entry are stored, and the tables are still empty.      *)
LEMMA FirstPartial ==
  ASSUME Written
  PROVE  /\ WithKind = Partial(origin, "tables", 0)
         /\ Partial(origin, "entrySymbol", 0) = Partial(origin, "tables", 0)
<1> DEFINE e == IF IsExecutable THEN Header("entry") ELSE 0
           kind == Header("kind")
           z == << >>
<1>1. kind = origin.kind /\ e = origin.entry
  <2>1. PICK entry : entry = IF origin.kind = EXECUTABLE \/ origin.entrySymbol = NoName
                               THEN origin.entry
                               ELSE NameOffset(origin, Len(AllNames(origin)))
    OBVIOUS
  <2>2. kind = origin.kind
    BY <2>1, WrittenHeader
  <2>3. e = origin.entry
    BY WrittenEntry
  <2>4. QED
    BY <2>2, <2>3
<1>2. Partial(origin, "tables", 0) =
        [kind |-> origin.kind, entry |-> origin.entry, entrySymbol |-> NoName,
         sections |-> z, symbols |-> z, relocations |-> z]
  BY DEF Partial, Part
<1>3. Partial(origin, "entrySymbol", 0) =
        [kind |-> origin.kind, entry |-> origin.entry, entrySymbol |-> NoName,
         sections |-> z, symbols |-> z, relocations |-> z]
  BY DEF Partial, Part
<1> HIDE DEF e, kind, z
<1>4. WithKind = [kind |-> kind, entry |-> e, entrySymbol |-> NoName,
                  sections |-> z, symbols |-> z, relocations |-> z]
  <2>1. NoDecoded = [kind |-> 0, entry |-> 0, entrySymbol |-> NoName,
                     sections |-> z, symbols |-> z, relocations |-> z]
    BY Zenon DEF NoDecoded, z
  <2> DEFINE d == NoDecoded
             o == [d EXCEPT !.kind = kind]
  <2>2. d = [kind |-> 0, entry |-> 0, entrySymbol |-> NoName,
             sections |-> z, symbols |-> z, relocations |-> z]
        /\ WithKind = [d EXCEPT !.kind = kind, !.entry = e]
    BY <2>1, Zenon DEF WithKind, kind, e
  <2> HIDE DEF d
  <2>3. o = [kind |-> kind, entry |-> 0, entrySymbol |-> NoName,
             sections |-> z, symbols |-> z, relocations |-> z]
    BY <2>2
  <2>4. WithKind = [o EXCEPT !.entry = e]
    BY <2>2
  <2> HIDE DEF o
  <2>5. [o EXCEPT !.entry = e] =
           [kind |-> kind, entry |-> e, entrySymbol |-> NoName,
            sections |-> z, symbols |-> z, relocations |-> z]
    BY <2>3
  <2>6. QED
    BY <2>4, <2>5
<1>5. QED
  BY <1>1, <1>2, <1>3, <1>4

LEMMA RoundHeader ==
  RInv /\ (HeaderRefused \/ ExecutableRefused \/ HeaderAccepted) => RInv'
<1> SUFFICES ASSUME RInv, HeaderRefused \/ ExecutableRefused \/ HeaderAccepted,
                    origin # NoImage
             PROVE  RInv'
  BY DEF RInv, Restoring, HeaderRefused, ExecutableRefused, HeaderAccepted
<1>1. stage = "header"
  BY DEF HeaderRefused, ExecutableRefused, HeaderAccepted
<1>2. Written /\ index = 0 /\ error = "NONE"
  BY <1>1, NowRestoring
<1>3. HeaderError = "NONE" /\ ~NotExecutable
  BY <1>2, WrittenSound
<1>4. HeaderAccepted
  BY <1>3, Zenon DEF HeaderRefused, ExecutableRefused
<1>5. /\ origin' = origin /\ file' = file /\ index' = index /\ error' = error
      /\ stage' = "tables" /\ image' = WithKind
  BY <1>4 DEF HeaderAccepted
<1>6. image' = Partial(origin, "tables", 0)
  BY <1>2, <1>5, FirstPartial
<1>7. stage' \notin Tables /\ stage' \notin {"encode", "header", "done"}
  BY <1>5 DEF Tables
<1>8. QED
  BY <1>2, <1>5, <1>6, <1>7 DEF RInv, Restoring, Written

(* A step that goes on to another stage with the tables as they are.       *)
LEMMA NextStage ==
  ASSUME NEW next \in Reading
  PROVE  RInv /\ origin # NoImage /\ stage \in Reading
              /\ image' = Partial(origin, next, 0)
              /\ UNCHANGED <<origin, file, error>> /\ stage' = next /\ index' = 0
           => RInv'
<1> SUFFICES ASSUME RInv, origin # NoImage, stage \in Reading,
                    image' = Partial(origin, next, 0),
                    origin' = origin, file' = file, error' = error,
                    stage' = next, index' = 0
             PROVE  RInv'
  OBVIOUS
<1>1. stage' \notin {"encode", "header", "done", "refused"}
      /\ stage \notin {"encode", "refused"}
  BY DEF Reading
<1>2. Written /\ error = "NONE"
  BY <1>1, NowRestoring
<1>3. \A t \in Tables : 0 <= EntriesOf(origin, t)
  BY <1>2, TableShapes DEF Written, EntriesOf
<1>4. QED
  BY <1>1, <1>2, <1>3 DEF RInv, Restoring, Written

LEMMA RoundTables == RInv /\ (AllocateTables \/ TablesOutOfMemory) => RInv'
<1> SUFFICES ASSUME RInv, AllocateTables \/ TablesOutOfMemory, origin # NoImage
             PROVE  RInv'
  BY DEF RInv, Restoring, AllocateTables, TablesOutOfMemory, Refuse
<1>1. stage = "tables"
  BY DEF AllocateTables, TablesOutOfMemory
<1>2. stage \in Reading /\ stage \notin Tables /\ stage \notin {"encode", "refused"}
  BY <1>1 DEF Reading, Tables
<1>3. CASE AllocateTables
  <2>1. /\ origin' = origin /\ file' = file /\ index' = index
        /\ error' = error /\ stage' = "entrySymbol" /\ image' = image
    BY <1>3 DEF AllocateTables
  <2>2. Written /\ image = Partial(origin, "tables", 0) /\ index = 0
    BY <1>1, <1>2, NowRestoring
  <2>3. image' = Partial(origin, "entrySymbol", 0)
    BY <2>1, <2>2, FirstPartial
  <2>4. "entrySymbol" \in Reading
    BY DEF Reading
  <2>5. QED
    BY <1>2, <2>1, <2>2, <2>3, <2>4, NextStage
<1>4. CASE TablesOutOfMemory
  <2>1. /\ origin' = origin /\ file' = file /\ stage' = "done"
        /\ error' = "OUT_OF_MEMORY"
    BY <1>4 DEF TablesOutOfMemory, Refuse
  <2>2. QED
    BY <1>2, <2>1, OutOfMemoryStep
<1>5. QED
  BY <1>3, <1>4

LEMMA RoundEntrySymbol == RInv /\ (NoEntrySymbol \/ ReadEntrySymbol) => RInv'
<1> SUFFICES ASSUME RInv, NoEntrySymbol \/ ReadEntrySymbol, origin # NoImage
             PROVE  RInv'
  BY DEF RInv, Restoring, NoEntrySymbol, ReadEntrySymbol, Refuse
<1>1. stage = "entrySymbol"
  BY DEF NoEntrySymbol, ReadEntrySymbol
<1>2. stage \in Reading /\ stage \notin Tables /\ stage \notin {"encode", "refused"}
      /\ "sections" \in Reading
  BY <1>1 DEF Reading, Tables
<1>3. Written /\ image = Partial(origin, "entrySymbol", 0) /\ index = 0
  BY <1>1, <1>2, NowRestoring
<1> DEFINE z == << >>
<1>4. image = [kind |-> origin.kind, entry |-> origin.entry,
               entrySymbol |-> NoName, sections |-> z, symbols |-> z,
               relocations |-> z]
  BY <1>3 DEF Partial, Part
<1>5. Partial(origin, "sections", 0) =
        [kind |-> origin.kind, entry |-> origin.entry,
         entrySymbol |-> KeptEntry(origin), sections |-> z, symbols |-> z,
         relocations |-> z]
  <2>1. SubSeq(RestoredSections(origin), 1, 0) = z
    BY <1>3, TableShapes, FirstEntries DEF Written
  <2>2. QED
    BY <2>1 DEF Partial, Part
<1>6. /\ origin.kind = OBJECT \/ origin.kind = EXECUTABLE
      /\ OBJECT # EXECUTABLE
  BY <1>3, EncoderAccepts DEF Written, OBJECT, EXECUTABLE
<1> HIDE DEF z
<1>7. CASE NoEntrySymbol
  <2>1. /\ origin' = origin /\ file' = file /\ index' = index
        /\ error' = error /\ stage' = "sections" /\ image' = image
        /\ ~WithEntrySymbol
    BY <1>7 DEF NoEntrySymbol
  <2>2. KeptEntry(origin) = NoName
    BY <1>3, <1>6, <2>1, WrittenEntry DEF KeptEntry
  <2>3. image' = Partial(origin, "sections", 0)
    BY <1>4, <1>5, <2>1, <2>2
  <2>4. QED
    BY <1>2, <1>3, <2>1, <2>3, NextStage
<1>8. CASE ReadEntrySymbol
  <2>1. HasString(Header("entry"))
        /\ StringAt(Header("entry")) = origin.entrySymbol
        /\ origin.kind = OBJECT
    BY <1>3, <1>8, WrittenEntry DEF ReadEntrySymbol
  <2>2. CASE /\ image' = [image EXCEPT !.entrySymbol = StringAt(Header("entry"))]
             /\ stage' = "sections"
             /\ UNCHANGED <<origin, file, index, error>>
    <3>1. KeptEntry(origin) = origin.entrySymbol
      BY <1>6, <2>1 DEF KeptEntry
    <3>2. image' = [image EXCEPT !.entrySymbol = origin.entrySymbol]
      BY <2>1, <2>2
    <3>3. image' = Partial(origin, "sections", 0)
      BY <1>4, <1>5, <3>1, <3>2
    <3>4. QED
      BY <1>2, <1>3, <2>2, <3>3, NextStage
  <2>3. CASE Refuse("OUT_OF_MEMORY", {})
    <3>1. /\ origin' = origin /\ file' = file /\ stage' = "done"
          /\ error' = "OUT_OF_MEMORY"
      BY <2>3 DEF Refuse
    <3>2. QED
      BY <1>2, <3>1, OutOfMemoryStep
  <2>4. QED
    BY <1>8, <2>1, <2>2, <2>3 DEF ReadEntrySymbol
<1>9. QED
  BY <1>7, <1>8

(* A table ends when as many entries as were written have been read.       *)
LEMMA RoundEndTable == RInv /\ index \in Nat /\ EndTable => RInv'
<1> SUFFICES ASSUME RInv, index \in Nat, EndTable, origin # NoImage
             PROVE  RInv'
  BY DEF RInv, Restoring, EndTable
<1>1. /\ stage \in Tables /\ index >= Count(stage) /\ index' = 0
      /\ stage' = IF stage = "sections" THEN "symbols"
                  ELSE IF stage = "symbols" THEN "relocations" ELSE "entry"
      /\ origin' = origin /\ file' = file /\ image' = image /\ error' = error
  BY DEF EndTable
<1>2. stage \in Reading /\ stage \notin {"encode", "refused"}
      /\ {"symbols", "relocations", "entry"} \subseteq Reading
  BY <1>1 DEF Reading, Tables
<1>3. Written /\ image = Partial(origin, stage, index)
      /\ index <= EntriesOf(origin, stage)
  BY <1>1, <1>2, NowRestoring
<1>4. Count(stage) = EntriesOf(origin, stage)
  BY <1>1, <1>3, WrittenLayout DEF Count, EntriesOf, Tables
<1>5. index = EntriesOf(origin, stage)
  <2>1. EntriesOf(origin, stage) \in Nat
    BY <1>3, TableShapes DEF Written, EntriesOf
  <2>2. QED
    BY <1>1, <1>3, <1>4, <2>1
<1> DEFINE rs == RestoredSections(origin)
           ss == origin.symbols
           rl == origin.relocations
<1>6. /\ SubSeq(rs, 1, Len(rs)) = rs /\ Len(rs) = Len(origin.sections)
      /\ SubSeq(ss, 1, Len(ss)) = ss /\ SubSeq(ss, 1, 0) = << >>
      /\ SubSeq(rl, 1, Len(rl)) = rl /\ SubSeq(rl, 1, 0) = << >>
  <2>1. /\ rs = [i \in 1..Len(rs) |-> rs[i]] /\ ss = [i \in 1..Len(ss) |-> ss[i]]
        /\ rl = [i \in 1..Len(rl) |-> rl[i]]
        /\ Len(rs) = Len(origin.sections)
        /\ Len(rs) \in Nat /\ Len(ss) \in Nat /\ Len(rl) \in Nat
    BY <1>3, TableShapes DEF Written
  <2> HIDE DEF rs, ss, rl
  <2>2. /\ SubSeq(rs, 1, Len(rs)) = rs
        /\ SubSeq(ss, 1, Len(ss)) = ss /\ SubSeq(ss, 1, 0) = << >>
        /\ SubSeq(rl, 1, Len(rl)) = rl /\ SubSeq(rl, 1, 0) = << >>
    BY <2>1, FirstEntries
  <2>3. QED
    BY <2>1, <2>2
<1>7. CASE stage = "sections"
  <2>1. stage' = "symbols"
    BY <1>1, <1>7
  <2>2. Partial(origin, "sections", Len(rs)) = Partial(origin, "symbols", 0)
    <3> HIDE DEF rs, ss
    <3>1. QED
      BY <1>6 DEF Partial, Part, rs, ss
  <2>3. index = Len(rs)
    BY <1>5, <1>6, <1>7 DEF EntriesOf
  <2>4. image' = Partial(origin, "symbols", 0)
    BY <1>1, <1>3, <1>7, <2>2, <2>3
  <2>5. QED
    BY <1>1, <1>2, <2>1, <2>4, NextStage
<1>8. CASE stage = "symbols"
  <2>1. stage' = "relocations"
    BY <1>1, <1>8
  <2>2. Partial(origin, "symbols", Len(ss)) = Partial(origin, "relocations", 0)
    BY <1>6 DEF Partial, Part
  <2>3. index = Len(ss)
    BY <1>5, <1>8 DEF EntriesOf
  <2>4. image' = Partial(origin, "relocations", 0)
    BY <1>1, <1>3, <1>8, <2>2, <2>3
  <2>5. QED
    BY <1>1, <1>2, <2>1, <2>4, NextStage
<1>9. CASE stage = "relocations"
  <2>1. stage' = "entry"
    BY <1>1, <1>9
  <2>2. Partial(origin, "relocations", Len(rl)) = Partial(origin, "entry", 0)
    BY <1>6 DEF Partial, Part
  <2>3. index = Len(rl)
    BY <1>5, <1>9 DEF EntriesOf
  <2>4. image' = Partial(origin, "entry", 0)
    BY <1>1, <1>3, <1>9, <2>2, <2>3
  <2>5. QED
    BY <1>1, <1>2, <2>1, <2>4, NextStage
<1>10. QED
  BY <1>1, <1>7, <1>8, <1>9 DEF Tables

(* One more entry of a table.                                              *)
LEMMA NextEntry ==
  RInv /\ origin # NoImage /\ stage \in Tables
       /\ index \in Nat /\ index + 1 <= EntriesOf(origin, stage)
       /\ image' = Partial(origin, stage, index + 1) /\ index' = index + 1
       /\ UNCHANGED <<origin, file, stage, error>> => RInv'
<1> SUFFICES ASSUME RInv, origin # NoImage, stage \in Tables,
                    index + 1 <= EntriesOf(origin, stage),
                    image' = Partial(origin, stage, index + 1),
                    index' = index + 1, origin' = origin, file' = file,
                    stage' = stage, error' = error
             PROVE  RInv'
  OBVIOUS
<1>1. stage \in Reading /\ stage \notin {"encode", "header", "refused", "done"}
  BY DEF Reading, Tables
<1>2. Written /\ error = "NONE"
  BY <1>1, NowRestoring
<1>3. QED
  BY <1>1, <1>2 DEF RInv, Restoring, Written

LEMMA RoundSection == RInv /\ index \in Nat /\ (ReadSection \/ SectionRefused) => RInv'
<1> SUFFICES ASSUME RInv, index \in Nat, ReadSection \/ SectionRefused,
                    origin # NoImage
             PROVE  RInv'
  BY DEF RInv, Restoring, ReadSection, SectionRefused, Refuse
<1>1. stage = "sections" /\ index < Count("sections")
  BY DEF ReadSection, SectionRefused, InTable
<1>2. stage \in Tables /\ stage \in Reading /\ stage \notin {"encode", "refused"}
  BY <1>1 DEF Reading, Tables
<1>3. Written /\ image = Partial(origin, "sections", index)
  BY <1>1, <1>2, NowRestoring
<1> DEFINE rs == RestoredSections(origin)
           n == Len(origin.sections)
<1>4. n \in Nat /\ index < n /\ Len(rs) = n /\ rs = [i \in 1..Len(rs) |-> rs[i]]
      /\ EntriesOf(origin, "sections") = n
  BY <1>1, <1>3, WrittenLayout, TableShapes DEF Written, Count, EntriesOf
<1>5. ~SectionMalformed
      /\ ReadSectionRecord = RestoredSection(origin.sections[index + 1])
  BY <1>3, <1>4, WrittenSection
<1>6. rs[index + 1] = RestoredSection(origin.sections[index + 1])
  <2>1. index + 1 \in 1..n
    <3> HIDE DEF n
    <3>1. QED
      BY <1>4
  <2>2. QED
    BY <1>3, <2>1, RestoredKeeps DEF Written
<1>7. CASE ReadSection
  <2>1. /\ image' = [image EXCEPT !.sections = Append(@, ReadSectionRecord)]
        /\ index' = index + 1 /\ origin' = origin /\ file' = file
        /\ stage' = stage /\ error' = error
    BY <1>7 DEF ReadSection
  <2>2. Append(SubSeq(rs, 1, index), rs[index + 1]) = SubSeq(rs, 1, index + 1)
    <3> HIDE DEF rs, n
    <3>1. QED
      BY <1>4, FirstEntries
  <2> DEFINE e == KeptEntry(origin)
             z == << >>
             some(k) == SubSeq(rs, 1, k)
             rest(k) == [kind |-> origin.kind, entry |-> origin.entry,
                         entrySymbol |-> e, sections |-> some(k),
                         symbols |-> z, relocations |-> z]
  <2>3. \A k : Partial(origin, "sections", k) = rest(k)
    BY DEF Partial, Part
  <2>4. image = rest(index)
    BY <1>3, <2>3
  <2>5. some(index + 1) = Append(some(index), ReadSectionRecord)
    BY <1>5, <1>6, <2>2
  <2> HIDE DEF e, z, some
  <2>6. image' = rest(index + 1)
    BY <2>1, <2>4, <2>5
  <2>7. image' = Partial(origin, stage, index + 1)
    BY <1>1, <2>3, <2>6
  <2>8. index + 1 <= EntriesOf(origin, stage)
    <3> HIDE DEF n
    <3>1. QED
      BY <1>1, <1>4
  <2>9. QED
    BY <1>2, <2>1, <2>7, <2>8, NextEntry
<1>8. CASE SectionRefused
  <2>1. /\ origin' = origin /\ file' = file /\ stage' = "done"
        /\ error' = "OUT_OF_MEMORY"
    BY <1>5, <1>8 DEF SectionRefused, Refuse
  <2>2. QED
    BY <1>2, <2>1, OutOfMemoryStep
<1>9. QED
  BY <1>7, <1>8

LEMMA RoundSymbol == RInv /\ index \in Nat /\ (ReadSymbol \/ SymbolRefused) => RInv'
<1> SUFFICES ASSUME RInv, index \in Nat, ReadSymbol \/ SymbolRefused,
                    origin # NoImage
             PROVE  RInv'
  BY DEF RInv, Restoring, ReadSymbol, SymbolRefused, Refuse
<1>1. stage = "symbols" /\ index < Count("symbols")
  BY DEF ReadSymbol, SymbolRefused, InTable
<1>2. stage \in Tables /\ stage \in Reading /\ stage \notin {"encode", "refused"}
  BY <1>1 DEF Reading, Tables
<1>3. Written /\ image = Partial(origin, "symbols", index)
  BY <1>1, <1>2, NowRestoring
<1> DEFINE ss == origin.symbols
           n == Len(origin.symbols)
<1>4. n \in Nat /\ index < n /\ ss = [i \in 1..Len(ss) |-> ss[i]]
      /\ EntriesOf(origin, "symbols") = n
  BY <1>1, <1>3, WrittenLayout, TableShapes DEF Written, Count, EntriesOf
<1>5. SymbolNamed /\ ~SymbolMalformed /\ ReadSymbolRecord = ss[index + 1]
  BY <1>3, <1>4, WrittenSymbol
<1>6. CASE ReadSymbol
  <2>1. /\ image' = [image EXCEPT !.symbols = Append(@, ReadSymbolRecord)]
        /\ index' = index + 1 /\ origin' = origin /\ file' = file
        /\ stage' = stage /\ error' = error
    BY <1>6 DEF ReadSymbol
  <2>2. Append(SubSeq(ss, 1, index), ss[index + 1]) = SubSeq(ss, 1, index + 1)
    <3>1. Len(ss) = n
      OBVIOUS
    <3> HIDE DEF ss, n
    <3>2. QED
      BY <1>4, <3>1, FirstEntries
  <2> DEFINE e == KeptEntry(origin)
             z == << >>
             rs == RestoredSections(origin)
             some(k) == SubSeq(ss, 1, k)
             rest(k) == [kind |-> origin.kind, entry |-> origin.entry,
                         entrySymbol |-> e, sections |-> rs,
                         symbols |-> some(k), relocations |-> z]
  <2>3. \A k : Partial(origin, "symbols", k) = rest(k)
    BY DEF Partial, Part
  <2>4. image = rest(index)
    BY <1>3, <2>3
  <2>5. some(index + 1) = Append(some(index), ReadSymbolRecord)
    BY <1>5, <2>2
  <2> HIDE DEF e, z, rs, some
  <2>6. image' = rest(index + 1)
    BY <2>1, <2>4, <2>5
  <2>7. image' = Partial(origin, stage, index + 1)
    BY <1>1, <2>3, <2>6
  <2>8. index + 1 <= EntriesOf(origin, stage)
    <3> HIDE DEF n
    <3>1. QED
      BY <1>1, <1>4
  <2>9. QED
    BY <1>2, <2>1, <2>7, <2>8, NextEntry
<1>7. CASE SymbolRefused
  <2>1. /\ origin' = origin /\ file' = file /\ stage' = "done"
        /\ error' = "OUT_OF_MEMORY"
    BY <1>5, <1>7 DEF SymbolRefused, Refuse
  <2>2. QED
    BY <1>2, <2>1, OutOfMemoryStep
<1>8. QED
  BY <1>6, <1>7

LEMMA RoundRelocation ==
  RInv /\ index \in Nat /\ (ReadRelocation \/ RelocationRefused) => RInv'
<1> SUFFICES ASSUME RInv, index \in Nat, ReadRelocation \/ RelocationRefused,
                    origin # NoImage
             PROVE  RInv'
  BY DEF RInv, Restoring, ReadRelocation, RelocationRefused, Refuse
<1>1. stage = "relocations" /\ index < Count("relocations")
  BY DEF ReadRelocation, RelocationRefused, InTable
<1>2. stage \in Tables /\ stage \in Reading /\ stage \notin {"encode", "refused"}
  BY <1>1 DEF Reading, Tables
<1>3. Written /\ image = Partial(origin, "relocations", index)
  BY <1>1, <1>2, NowRestoring
<1> DEFINE rl == origin.relocations
           n == Len(origin.relocations)
<1>4. n \in Nat /\ index < n /\ rl = [i \in 1..Len(rl) |-> rl[i]]
      /\ EntriesOf(origin, "relocations") = n
  BY <1>1, <1>3, WrittenLayout, TableShapes DEF Written, Count, EntriesOf
<1>5. ~RelocationMalformed /\ ReadRelocationRecord = rl[index + 1]
  <2>1. image.sections = RestoredSections(origin)
    BY <1>3 DEF Partial, Part
  <2>2. QED
    BY <1>3, <1>4, <2>1, WrittenRelocation
<1>6. ReadRelocation
  BY <1>5 DEF RelocationRefused
<1>7. /\ image' = [image EXCEPT !.relocations = Append(@, ReadRelocationRecord)]
      /\ index' = index + 1 /\ origin' = origin /\ file' = file
      /\ stage' = stage /\ error' = error
  BY <1>6 DEF ReadRelocation
<1>8. Append(SubSeq(rl, 1, index), rl[index + 1]) = SubSeq(rl, 1, index + 1)
  <2>1. Len(rl) = n
    OBVIOUS
  <2> HIDE DEF rl, n
  <2>2. QED
    BY <1>4, <2>1, FirstEntries
<1> DEFINE e == KeptEntry(origin)
           rs == RestoredSections(origin)
           ss == origin.symbols
           some(k) == SubSeq(rl, 1, k)
           rest(k) == [kind |-> origin.kind, entry |-> origin.entry,
                       entrySymbol |-> e, sections |-> rs,
                       symbols |-> ss, relocations |-> some(k)]
<1>9. \A k : Partial(origin, "relocations", k) = rest(k)
  BY DEF Partial, Part
<1>10. image = rest(index)
  BY <1>3, <1>9
<1>11. some(index + 1) = Append(some(index), ReadRelocationRecord)
  BY <1>5, <1>8
<1> HIDE DEF e, ss, rs, some
<1>12. image' = rest(index + 1)
  BY <1>7, <1>10, <1>11
<1>13. image' = Partial(origin, stage, index + 1)
  BY <1>1, <1>9, <1>12
<1>14. index + 1 <= EntriesOf(origin, stage)
  <2> HIDE DEF n
  <2>1. QED
    BY <1>1, <1>4
<1>15. QED
  BY <1>2, <1>7, <1>13, <1>14, NextEntry

LEMMA RoundLast == RInv /\ (CheckEntry \/ Free) => RInv'
<1> SUFFICES ASSUME RInv, CheckEntry \/ Free, origin # NoImage
             PROVE  RInv'
  BY DEF RInv, Restoring, CheckEntry, Free, Refuse
<1>1. CASE CheckEntry
  <2>1. stage = "entry"
    BY <1>1 DEF CheckEntry
  <2>2. stage \in Reading \ Tables /\ stage \notin {"encode", "refused"}
    BY <2>1 DEF Reading, Tables
  <2>3. Written /\ index = 0 /\ error = "NONE" /\ image = Partial(origin, "entry", 0)
    BY <2>1, <2>2, NowRestoring
  <2>4. image.entry = origin.entry /\ image.sections = RestoredSections(origin)
    BY <2>3 DEF Partial, Part
  <2>5. EntryAccepted
    BY <2>3, <2>4, WrittenEntryAccepted
  <2>6. /\ stage' = "done" /\ image' = image /\ error' = error
        /\ origin' = origin /\ file' = file
    BY <1>1, <2>5 DEF CheckEntry
  <2>7. image' = Restored(origin)
    BY <2>3, <2>6, PartialIsRestored DEF Written
  <2>8. /\ stage' \notin {"encode", "header", "refused"}
        /\ stage' \notin Reading /\ stage' \notin Tables
    BY <2>6 DEF Reading, Tables
  <2>9. QED
    BY <2>3, <2>6, <2>7, <2>8 DEF RInv, Restoring, Written
<1>2. CASE Free
  <2>1. stage = "done" /\ stage' = "freed" /\ origin' = origin /\ file' = file
    BY <1>2 DEF Free
  <2>2. Written
    BY <2>1, NowRestoring
  <2>3. /\ stage' \notin {"encode", "header", "refused", "done"}
        /\ stage' \notin Reading /\ stage' \notin Tables
    BY <2>1 DEF Reading, Tables
  <2>4. QED
    BY <2>1, <2>2, <2>3 DEF RInv, Restoring, Written
<1>3. QED
  BY <1>1, <1>2

LEMMA NextRInv == RInv /\ IInv /\ [Next]_vars => RInv'
<1>1. RInv /\ IInv /\ UNCHANGED vars => RInv'
  BY DEF RInv, Restoring, vars
<1>2. RInv /\ IInv /\ Next => RInv'
  <2>1. IInv => index \in Nat
    BY DEF IInv
  <2>2. QED
    BY <2>1, RoundEncoder, RoundHeader, RoundTables, RoundEntrySymbol,
       RoundEndTable, RoundSection, RoundSymbol, RoundRelocation, RoundLast,
       Zenon DEF Next
<1>3. QED
  BY <1>1, <1>2

(* An image that the encoder accepts is decoded to itself, whatever it is, *)
(* unless the decoder runs out of memory.                                  *)
(* Code: the layout in zl_image_encode against that in zl_image_decode.    *)
THEOREM RoundTripAlways == Spec => []RoundTrip
<1>1. Init => IInv /\ RInv
  BY InitIInv, RoundInit
<1>2. (IInv /\ RInv) /\ [Next]_vars => (IInv /\ RInv)'
  BY NextIInv, NextRInv
<1>3. IInv /\ RInv => RoundTrip
  BY DEF RInv, Restoring, RoundTrip
<1>4. QED
  BY <1>1, <1>2, <1>3, PTL DEF Spec

-----------------------------------------------------------------------------
(* What the checks of the decoder leave of a section, a symbol and a       *)
(* relocation.                                                             *)
GoodSection ==
  {s \in [name : Seq(Word), type : Word, flags : Word, alignment : Word,
          address : Word, size : Nat, data : Seq(Byte)] :
     ~BadSection(s.type, s.alignment, s.address, s.size) /\ Len(s.data) = s.size}

GoodSymbol(count) ==
  {s \in [name : Seq(Word), section : Word, value : Word, size : Word,
          binding : Word, type : Word] :
     ~BadSymbol(s.section, s.binding, s.type, count)}

GoodRelocation(sections, count) ==
  {r \in ImageRelocation : ~BadRelocation(r, sections, count)}

GoodTables(sections, symbols, relocations) ==
  /\ sections \in Seq(GoodSection)
  /\ symbols \in Seq(GoodSymbol(Len(sections)))
  /\ relocations \in Seq(GoodRelocation(sections, Len(symbols)))

LEMMA GoodSectionFields ==
  ASSUME NEW s \in GoodSection
  PROVE  /\ s.type \in {TEXT, DATA, BSS} /\ s.flags \in Nat /\ s.size \in Nat
         /\ PowerOfTwo(s.alignment) /\ s.alignment \in 1..WORD_MAX
         /\ s.address \in Word /\ s.data \in Seq(Byte) /\ Len(s.data) = s.size
         /\ s.address + s.size <= WORD_MAX
<1>1. /\ s.type \in Word /\ s.flags \in Word /\ s.alignment \in Word
      /\ s.address \in Word /\ s.size \in Nat /\ s.data \in Seq(Byte)
      /\ ~BadSection(s.type, s.alignment, s.address, s.size)
      /\ Len(s.data) = s.size
  BY DEF GoodSection
<1>2. Word \subseteq Nat /\ WORD_MAX \in Nat
  BY Bases DEF Word, WORD_MAX
<1>3. /\ PowerOfTwo(s.alignment) /\ s.type \in TEXT..BSS
      /\ ~(s.size > WORD_MAX - s.address)
  BY <1>1 DEF BadSection
<1>4. s.alignment \in 1..WORD_MAX
  BY <1>3 DEF PowerOfTwo
<1>5. s.address \in Nat /\ s.flags \in Nat
  BY <1>1, <1>2
<1>6. s.address + s.size <= WORD_MAX
  BY <1>1, <1>2, <1>3, <1>5
<1>7. s.type \in {TEXT, DATA, BSS}
  BY <1>3 DEF TEXT, DATA, BSS
<1>8. QED
  BY <1>1, <1>3, <1>4, <1>5, <1>6, <1>7

LEMMA GoodSymbolFields ==
  ASSUME NEW n \in Nat, NEW s \in GoodSymbol(n)
  PROVE  /\ s.name \in Seq(Word) /\ s.section \in Nat /\ s.value \in Word
         /\ s.section = UNDEFINED_SECTION \/ s.section < n
         /\ s.binding \in 0..2
<1>1. /\ s.name \in Seq(Word) /\ s.section \in Word /\ s.value \in Word
      /\ s.binding \in Word
      /\ ~BadSymbol(s.section, s.binding, s.type, n)
  BY DEF GoodSymbol
<1>2. s.section \in Nat /\ s.binding \in Nat
  BY <1>1, Bases DEF Word
<1>3. QED
  BY <1>1, <1>2 DEF BadSymbol, WEAK

LEMMA GoodRelocationFields ==
  ASSUME NEW sections \in Seq(GoodSection), NEW n \in Nat,
         NEW r \in GoodRelocation(sections, n)
  PROVE  /\ r.section \in Nat /\ r.section + 1 \in 1..Len(sections)
         /\ r.symbol \in Nat /\ r.symbol + 1 \in 1..n
         /\ r.offset \in Nat
         /\ sections[r.section + 1].type # BSS
         /\ r.offset + 4 <= sections[r.section + 1].size
         /\ r.addend \in SWORD_MIN..SWORD_MAX
<1>1. r \in ImageRelocation /\ ~BadRelocation(r, sections, n)
  BY DEF GoodRelocation
<1>2. /\ r.section \in Nat /\ r.symbol \in Nat /\ r.offset \in Nat
      /\ r.addend \in SWORD_MIN..SWORD_MAX
  BY <1>1, RelocationFields, Bases DEF Word
<1>3. /\ r.section < Len(sections) /\ r.symbol < n
      /\ sections[r.section + 1].type # BSS
      /\ sections[r.section + 1].size - r.offset >= FIELD_SIZE
  BY <1>1, Zenon DEF BadRelocation
<1>4. Len(sections) \in Nat
  OBVIOUS
<1>5. r.section + 1 \in 1..Len(sections) /\ r.symbol + 1 \in 1..n
  BY <1>2, <1>3, <1>4
<1>6. sections[r.section + 1].size \in Nat
  <2>1. sections[r.section + 1] \in GoodSection
    BY <1>5
  <2>2. QED
    BY <2>1, GoodSectionFields
<1>7. r.offset + 4 <= sections[r.section + 1].size
  BY <1>2, <1>3, <1>6 DEF FIELD_SIZE
<1>8. QED
  BY <1>2, <1>3, <1>5, <1>7

(* Such tables are what the linker assumes of its input.                   *)
LEMMA GoodTablesDecoded ==
  ASSUME Seq(Word) \subseteq Names,
         NEW img, GoodTables(img.sections, img.symbols, img.relocations)
  PROVE  Decoded(AsObject(img))
<1> DEFINE ss == img.sections
           ys == img.symbols
           rs == img.relocations
           N == Len(ss)
           M == Len(ys)
           R == Len(rs)
           sec(i) == [type |-> <<"text", "data", "bss">>[ss[i].type],
                      located |-> ss[i].flags % 2 = 1,
                      alignment |-> ss[i].alignment,
                      address |-> ss[i].address, size |-> ss[i].size,
                      data |-> ss[i].data]
           sym(i) == [name |-> ys[i].name,
                      section |-> IF ys[i].section = UNDEFINED_SECTION THEN 0
                                                        ELSE ys[i].section + 1,
                      value |-> ys[i].value,
                      binding |-> <<"local", "global", "weak">>[ys[i].binding + 1]]
           rel(i) == [section |-> rs[i].section + 1, offset |-> rs[i].offset,
                      pcRelative |-> rs[i].type = PC_RELATIVE32,
                      symbol |-> rs[i].symbol + 1, addend |-> rs[i].addend]
           o == AsObject(img)
<1>1. /\ ss \in Seq(GoodSection) /\ ys \in Seq(GoodSymbol(N))
      /\ rs \in Seq(GoodRelocation(ss, M))
      /\ N \in Nat /\ M \in Nat /\ R \in Nat
  BY DEF GoodTables
<1>2. o = [sections |-> [i \in 1..N |-> sec(i)],
           symbols |-> [i \in 1..M |-> sym(i)],
           relocations |-> [i \in 1..R |-> rel(i)]]
  BY Zenon DEF AsObject
<1>3. ASSUME NEW i \in 1..N
      PROVE  /\ sec(i) \in ObjectSection
             /\ PowerOfTwo(sec(i).alignment)
             /\ Len(sec(i).data) = sec(i).size
             /\ sec(i).address + sec(i).size <= WORD_MAX
             /\ ss[i].type # BSS => sec(i).type # "bss"
             /\ sec(i).size = ss[i].size
  <2> DEFINE s == ss[i]
             type == <<"text", "data", "bss">>[s.type]
  <2>1. s \in GoodSection
    BY <1>1
  <2>2. /\ s.type \in {TEXT, DATA, BSS} /\ s.flags \in Nat /\ s.size \in Nat
        /\ PowerOfTwo(s.alignment) /\ s.alignment \in 1..WORD_MAX
        /\ s.address \in Word /\ s.data \in Seq(Byte) /\ Len(s.data) = s.size
        /\ s.address + s.size <= WORD_MAX
    BY <2>1, GoodSectionFields
  <2>3. type \in SectionTypes /\ (s.type # BSS => type # "bss")
    <3> HIDE DEF s
    <3>1. QED
      BY <2>2 DEF TEXT, DATA, BSS, SectionTypes
  <2> HIDE DEF s, type
  <2> DEFINE located == s.flags % 2 = 1
  <2>4. located \in BOOLEAN
    BY <2>2
  <2>5. sec(i) = [type |-> type, located |-> located, alignment |-> s.alignment,
                  address |-> s.address, size |-> s.size, data |-> s.data]
    BY DEF s, type
  <2> HIDE DEF located, sec
  <2>6. QED
    BY <2>2, <2>3, <2>4, <2>5 DEF ObjectSection, s
<1>4. ASSUME NEW i \in 1..M
      PROVE  sym(i) \in Symbol /\ sym(i).section \in 0..N
  <2> DEFINE y == ys[i]
             section == IF y.section = UNDEFINED_SECTION THEN 0 ELSE y.section + 1
             binding == <<"local", "global", "weak">>[y.binding + 1]
  <2>1. y \in GoodSymbol(N)
    BY <1>1
  <2>2. /\ y.name \in Seq(Word) /\ y.section \in Nat /\ y.value \in Word
        /\ y.section = UNDEFINED_SECTION \/ y.section < N
        /\ y.binding \in 0..2
    BY <1>1, <2>1, GoodSymbolFields
  <2>3. binding \in Bindings
    <3> HIDE DEF y
    <3>1. QED
      BY <2>2 DEF Bindings
  <2>4. section \in Nat /\ section \in 0..N
    <3> HIDE DEF y, N
    <3>1. QED
      BY <1>1, <2>2
  <2>5. y.name \in Names
    BY <2>2
  <2>6. sym(i) = [name |-> y.name, section |-> section, value |-> y.value,
                  binding |-> binding]
    OBVIOUS
  <2> HIDE DEF y, section, binding, sym, N
  <2>7. QED
    BY <2>2, <2>3, <2>4, <2>5, <2>6 DEF Symbol
<1>5. ASSUME NEW i \in 1..R
      PROVE  /\ rel(i) \in Relocation
             /\ rel(i).section \in 1..N /\ rel(i).symbol \in 1..M
             /\ ss[rel(i).section].type # BSS
             /\ rel(i).offset + FIELD_SIZE <= ss[rel(i).section].size
  <2> DEFINE r == rs[i]
  <2>1. r \in GoodRelocation(ss, M)
    BY <1>1
  <2>2. /\ r.section \in Nat /\ r.section + 1 \in 1..N
        /\ r.symbol \in Nat /\ r.symbol + 1 \in 1..M
        /\ r.offset \in Nat
        /\ ss[r.section + 1].type # BSS
        /\ r.offset + 4 <= ss[r.section + 1].size
        /\ r.addend \in SWORD_MIN..SWORD_MAX
    BY <1>1, <2>1, GoodRelocationFields
  <2> DEFINE a == r.section + 1
             b == r.symbol + 1
             p == r.type = PC_RELATIVE32
  <2>3. a \in Nat /\ b \in Nat /\ p \in BOOLEAN
    BY <2>2
  <2>4. rel(i) = [section |-> a, offset |-> r.offset, pcRelative |-> p,
                  symbol |-> b, addend |-> r.addend]
    OBVIOUS
  <2> HIDE DEF r, rel, p, N, M, ss
  <2>5. QED
    BY <2>2, <2>3, <2>4 DEF Relocation, FIELD_SIZE
<1> HIDE DEF ss, ys, rs, N, M, R, sec, sym, rel, o
<1>6. /\ o.sections \in Seq(ObjectSection) /\ Len(o.sections) = N
      /\ \A i \in 1..N : o.sections[i] = sec(i)
  <2>1. \A i \in 1..N : sec(i) \in ObjectSection
    BY <1>3
  <2>2. o.sections = [i \in 1..N |-> sec(i)]
    BY <1>2
  <2>3. QED
    BY <1>1, <2>1, <2>2
<1>7. /\ o.symbols \in Seq(Symbol) /\ Len(o.symbols) = M
      /\ \A i \in 1..M : o.symbols[i] = sym(i)
  BY <1>1, <1>2, <1>4
<1>8. /\ o.relocations \in Seq(Relocation) /\ Len(o.relocations) = R
      /\ \A i \in 1..R : o.relocations[i] = rel(i)
  BY <1>1, <1>2, <1>5
<1>9. \A i \in 1..R :
        /\ o.relocations[i].section \in 1..N
        /\ o.relocations[i].symbol \in 1..M
        /\ o.sections[o.relocations[i].section].type # "bss"
        /\ o.relocations[i].offset + FIELD_SIZE
             <= o.sections[o.relocations[i].section].size
  <2> SUFFICES ASSUME NEW i \in 1..R
               PROVE  /\ rel(i).section \in 1..N
                      /\ rel(i).symbol \in 1..M
                      /\ o.sections[rel(i).section].type # "bss"
                      /\ rel(i).offset + FIELD_SIZE
                           <= o.sections[rel(i).section].size
    BY <1>8
  <2> DEFINE j == rel(i).section
  <2>1. j \in 1..N /\ rel(i).symbol \in 1..M /\ ss[j].type # BSS
        /\ rel(i).offset + FIELD_SIZE <= ss[j].size
    BY <1>5
  <2> HIDE DEF j
  <2>2. o.sections[j].type # "bss" /\ o.sections[j].size = ss[j].size
    BY <1>3, <1>6, <2>1
  <2>3. QED
    BY <2>1, <2>2 DEF j
<1>10. Decoded(o)
  BY <1>3, <1>4, <1>6, <1>7, <1>8, <1>9 DEF Decoded
<1>11. QED
  BY <1>10 DEF o


-----------------------------------------------------------------------------
(* A well-formed image: its tables, and what an executable has besides.    *)
WellFormed(img) ==
  /\ GoodTables(img.sections, img.symbols, img.relocations)
  /\ img.kind = EXECUTABLE =>
       /\ img.relocations = << >>
       /\ img.entry # 0
       /\ EntryInText(img.entry, img.sections)

LEMMA ZeroIsByte == 0 \in Byte /\ Byte \subseteq Nat
BY ByteBaseAssumption DEF Byte

LEMMA RestoredIsGood ==
  ASSUME NEW s \in ImageSection,
         ~BadSection(s.type, s.alignment, s.address, s.size)
  PROVE  RestoredSection(s) \in GoodSection
<1> DEFINE zeros == [k \in 1..s.size |-> 0]
           data == IF s.type = BSS THEN zeros ELSE s.data
<1>1. /\ s.name \in CString /\ s.type \in Word /\ s.flags \in Word
      /\ s.alignment \in Word /\ s.address \in Word /\ s.size \in Nat
      /\ s.data \in Seq(Byte)
      /\ s.type # BSS => Len(s.data) = s.size
      /\ s = [name |-> s.name, type |-> s.type, flags |-> s.flags,
              alignment |-> s.alignment, address |-> s.address,
              size |-> s.size, data |-> s.data]
  BY SectionFields
<1>2. zeros \in Seq(Byte) /\ Len(zeros) = s.size
  BY <1>1, ZeroIsByte
<1>3. data \in Seq(Byte) /\ Len(data) = s.size
  BY <1>1, <1>2
<1>4. s.name \in Seq(Word)
  BY <1>1, CStringType
<1>5. RestoredSection(s) =
        [name |-> s.name, type |-> s.type, flags |-> s.flags,
         alignment |-> s.alignment, address |-> s.address, size |-> s.size,
         data |-> data]
  <2>1. Zeroed(s) = [s EXCEPT !.data = zeros]
    BY Zenon DEF Zeroed
  <2> HIDE DEF zeros
  <2>2. QED
    BY <1>1, <2>1 DEF RestoredSection
<1> HIDE DEF data
<1>6. QED
  BY <1>1, <1>3, <1>4, <1>5 DEF GoodSection

(* What the encoder has accepted is well-formed when it has been restored. *)
LEMMA RestoredIsWellFormed ==
  ASSUME NEW img \in Images, EncodeError(img) = "NONE"
  PROVE  WellFormed(Restored(img))
<1> DEFINE rs == RestoredSections(img)
           n == Len(img.sections)
           o == Restored(img)
<1>1. /\ o.kind = img.kind /\ o.entry = img.entry /\ o.sections = rs
      /\ o.symbols = img.symbols /\ o.relocations = img.relocations
  <2>1. o = [kind |-> img.kind, entry |-> img.entry,
             entrySymbol |-> KeptEntry(img), sections |-> rs,
             symbols |-> img.symbols, relocations |-> img.relocations]
    BY PartialIsRestored DEF Partial, Part
  <2> HIDE DEF o
  <2>2. QED
    BY <2>1
<1>2. /\ img.sections \in Seq(ImageSection) /\ img.symbols \in Seq(ImageSymbol)
      /\ img.relocations \in Seq(ImageRelocation)
  BY ImageShape
<1>3. /\ n \in Nat /\ Len(rs) = n /\ rs = [i \in 1..n |-> rs[i]]
      /\ \A i \in 1..n : /\ rs[i] = RestoredSection(img.sections[i])
                         /\ rs[i].type = img.sections[i].type
                         /\ rs[i].size = img.sections[i].size
                         /\ rs[i].address = img.sections[i].address
  <2>1. Len(rs) = n /\ rs = [i \in 1..Len(rs) |-> rs[i]]
    BY RestoredKeeps
  <2>2. \A i \in 1..n : /\ rs[i] = RestoredSection(img.sections[i])
                        /\ rs[i].type = img.sections[i].type
                        /\ rs[i].size = img.sections[i].size
                        /\ rs[i].address = img.sections[i].address
    BY RestoredKeeps
  <2>3. QED
    BY <1>2, <2>1, <2>2
<1>4. \A i \in 1..n : rs[i] \in GoodSection
  <2> SUFFICES ASSUME NEW i \in 1..n
               PROVE  rs[i] \in GoodSection
    OBVIOUS
  <2>1. ~BadSection(img.sections[i].type, img.sections[i].alignment,
                    img.sections[i].address, img.sections[i].size)
    BY EncoderAccepts
  <2>2. img.sections[i] \in ImageSection
    BY <1>2
  <2>3. QED
    BY <1>3, <2>1, <2>2, RestoredIsGood
<1>5. img.symbols \in Seq(GoodSymbol(n))
  <2>1. ASSUME NEW i \in 1..Len(img.symbols)
        PROVE  img.symbols[i] \in GoodSymbol(n)
    <3> DEFINE y == img.symbols[i]
    <3>1. ~BadSymbol(y.section, y.binding, y.type, n)
      BY EncoderAccepts
    <3>2. y \in ImageSymbol
      BY <1>2
    <3>3. /\ y.name \in Seq(Word) /\ y.section \in Word /\ y.value \in Word
          /\ y.size \in Word /\ y.binding \in Word /\ y.type \in Word
          /\ y = [name |-> y.name, section |-> y.section, value |-> y.value,
                  size |-> y.size, binding |-> y.binding, type |-> y.type]
      BY <3>2, SymbolFields, CStringType
    <3> HIDE DEF y
    <3>4. y \in [name : Seq(Word), section : Word, value : Word, size : Word,
                 binding : Word, type : Word]
      BY <3>3
    <3>5. QED
      BY <3>1, <3>4 DEF GoodSymbol, y
  <2>2. img.symbols = [i \in 1..Len(img.symbols) |-> img.symbols[i]]
        /\ Len(img.symbols) \in Nat
    BY <1>2
  <2>3. QED
    BY <2>1, <2>2
<1>6. img.relocations \in Seq(GoodRelocation(rs, Len(img.symbols)))
  <2>1. ASSUME NEW i \in 1..Len(img.relocations)
        PROVE  img.relocations[i] \in GoodRelocation(rs, Len(img.symbols))
    <3> DEFINE r == img.relocations[i]
               m == Len(img.symbols)
    <3>1. ~BadRelocation(r, img.sections, m)
      BY EncoderAccepts
    <3>2. r \in ImageRelocation
      BY <1>2
    <3>3. r.section \in Nat
      BY <3>2, RelocationFields, Bases DEF Word
    <3> HIDE DEF r, m
    <3>4. r.section < n
      BY <3>1, Zenon DEF BadRelocation
    <3>5. r.section + 1 \in 1..n
      <4> HIDE DEF n
      <4>1. QED
        BY <1>3, <3>3, <3>4
    <3>6. /\ rs[r.section + 1].type = img.sections[r.section + 1].type
          /\ rs[r.section + 1].size = img.sections[r.section + 1].size
      BY <1>3, <3>5
    <3>7. ~BadRelocation(r, rs, m)
      BY <1>3, <3>1, <3>6 DEF BadRelocation
    <3>8. QED
      BY <3>2, <3>7 DEF GoodRelocation, r, m
  <2>2. img.relocations = [i \in 1..Len(img.relocations) |-> img.relocations[i]]
        /\ Len(img.relocations) \in Nat
    BY <1>2
  <2> HIDE DEF rs
  <2>3. QED
    BY <2>1, <2>2
<1>7. img.kind = EXECUTABLE =>
        /\ img.relocations = << >> /\ img.entry # 0
        /\ EntryInText(img.entry, rs)
  <2> SUFFICES ASSUME img.kind = EXECUTABLE
               PROVE  /\ img.relocations = << >> /\ img.entry # 0
                      /\ EntryInText(img.entry, rs)
    OBVIOUS
  <2>1. img.relocations = << >> /\ img.entry # 0
        /\ EntryInText(img.entry, img.sections)
    BY EncoderAccepts
  <2> HIDE DEF n, rs
  <2>2. QED
    BY <1>3, <2>1 DEF EntryInText, n
<1> HIDE DEF rs, o
<1>8. rs \in Seq(GoodSection)
  BY <1>3, <1>4
<1>9. GoodTables(rs, img.symbols, img.relocations)
  BY <1>3, <1>5, <1>6, <1>8 DEF GoodTables
<1>10. QED
  BY <1>1, <1>7, <1>9 DEF WellFormed, o

-----------------------------------------------------------------------------
(* An image that is built from a file nobody has encoded: its entries have *)
(* passed the checks, and there are as many as have been read.             *)
Entries(done, now, k, n) == IF done THEN n ELSE IF now THEN k ELSE 0

Building(stg, k, img, kind, entry, sections, symbols, relocations) ==
  /\ img = [kind |-> kind, entry |-> entry, entrySymbol |-> img.entrySymbol,
            sections |-> img.sections, symbols |-> img.symbols,
            relocations |-> img.relocations]
  /\ kind = EXECUTABLE => entry # 0 /\ relocations = 0
  /\ img.sections \in Seq(GoodSection)
  /\ Len(img.sections) =
       Entries(stg \in {"symbols", "relocations", "entry"}, stg = "sections",
               k, sections)
  /\ img.symbols \in Seq(GoodSymbol(sections))
  /\ Len(img.symbols) =
       Entries(stg \in {"relocations", "entry"}, stg = "symbols", k, symbols)
  /\ img.relocations \in Seq(GoodRelocation(img.sections, symbols))
  /\ Len(img.relocations) =
       Entries(stg = "entry", stg = "relocations", k, relocations)
  /\ k <= IF stg = "sections" THEN sections
          ELSE IF stg = "symbols" THEN symbols
          ELSE IF stg = "relocations" THEN relocations ELSE 0

(* The entry that an image gets from a header: an object has none.         *)
EntryOf == IF IsExecutable THEN Header("entry") ELSE 0

Built(stg, k, img) ==
  Building(stg, k, img, Header("kind"), EntryOf, Header("sectionCount"),
           Header("symbolCount"), Header("relocationCount"))

DInv ==
  origin = NoImage =>
    /\ file \in Seq(Word)
    /\ stage = "header" => image = NoDecoded /\ index = 0
    /\ stage \in Reading => Built(stage, index, image)
    /\ Accepted => WellFormed(image)

LEMMA HeaderKept ==
  ASSUME file' = file
  PROVE  /\ \A name : Header(name)' = Header(name)
         /\ EntryOf' = EntryOf
<1>1. \A k : Get(k)' = Get(k)
  BY DEF Get
<1>2. \A name : Header(name)' = Header(name)
  BY <1>1 DEF Header
<1>3. QED
  BY <1>2 DEF EntryOf, IsExecutable

(* A step that goes on.                                                    *)
LEMMA BuildingStep ==
  DInv /\ origin = NoImage /\ stage' \in Reading
       /\ UNCHANGED <<origin, file>> /\ Built(stage', index', image') => DInv'
<1> SUFFICES ASSUME DInv, origin = NoImage, stage' \in Reading,
                    origin' = origin, file' = file,
                    Built(stage', index', image')
             PROVE  DInv'
  OBVIOUS
<1>1. stage' \notin {"header", "done"}
  BY DEF Reading
<1>2. /\ Header("kind")' = Header("kind") /\ EntryOf' = EntryOf
      /\ Header("sectionCount")' = Header("sectionCount")
      /\ Header("symbolCount")' = Header("symbolCount")
      /\ Header("relocationCount")' = Header("relocationCount")
  BY HeaderKept
<1>3. Built(stage, index, image)'
  BY <1>2, Zenon DEF Built
<1>4. file' \in Seq(Word)
  BY DEF DInv
<1>5. QED
  BY <1>1, <1>3, <1>4 DEF DInv, Accepted

(* A step that refuses the file, and one of a file that is refused.        *)
LEMMA StoppedStep ==
  DInv /\ stage' \in {"done", "freed"} /\ (stage' = "done" => error' # "NONE")
       /\ UNCHANGED <<origin, file>> => DInv'
<1> SUFFICES ASSUME DInv, stage' \in {"done", "freed"},
                    stage' = "done" => error' # "NONE",
                    origin' = origin, file' = file
             PROVE  DInv'
  OBVIOUS
<1>1. stage' # "header" /\ stage' \notin Reading
  BY DEF Reading
<1>2. ~(stage' = "done" /\ error' = "NONE")
  OBVIOUS
<1>3. QED
  BY <1>1, <1>2 DEF DInv, Accepted

LEMMA RefuseStops ==
  ASSUME DInv, NEW e, e # "NONE", NEW made, Refuse(e, made)
  PROVE  DInv'
BY StoppedStep DEF Refuse

LEMMA DecoderInit == Init => DInv
<1> SUFFICES ASSUME Init, origin = NoImage
             PROVE  DInv
  BY DEF DInv
<1>1. /\ file \in Files /\ stage = "header" /\ index = 0 /\ image = NoDecoded
  BY CodecAssumption DEF Init
<1>2. file \in Seq(Word)
  BY <1>1, CodecAssumption
<1>3. stage \notin Reading /\ stage # "done"
  BY <1>1 DEF Reading
<1>4. QED
  BY <1>1, <1>2, <1>3 DEF DInv, Accepted

(* Nothing is encoded, and the header gives the kind and the entry.        *)
LEMMA DecoderHeader ==
  DInv /\ IInv /\ (\/ Encode \/ EncodeRefused \/ HeaderRefused
                   \/ ExecutableRefused \/ HeaderAccepted) => DInv'
<1> SUFFICES ASSUME DInv, IInv, origin = NoImage,
                    \/ Encode \/ EncodeRefused \/ HeaderRefused
                    \/ ExecutableRefused \/ HeaderAccepted
             PROVE  DInv'
  BY DEF DInv, Encode, EncodeRefused, HeaderRefused, ExecutableRefused,
         HeaderAccepted
<1>1. ~Encode /\ ~EncodeRefused
  BY CodecAssumption DEF IInv, Encode, EncodeRefused
<1>2. CASE HeaderRefused
  BY <1>2, StoppedStep DEF HeaderRefused
<1>3. CASE ExecutableRefused
  BY <1>3, StoppedStep DEF ExecutableRefused
<1>4. CASE HeaderAccepted
  <2> DEFINE kind == Header("kind")
             e == EntryOf
             z == << >>
  <2>1. /\ stage = "header" /\ ~NotExecutable /\ image' = WithKind
        /\ stage' = "tables" /\ origin' = origin /\ file' = file
        /\ index' = index
    BY <1>4 DEF HeaderAccepted
  <2>2. index' = 0
    BY <2>1 DEF DInv
  <2>3. kind = EXECUTABLE => e # 0 /\ Header("relocationCount") = 0
    BY <2>1 DEF NotExecutable, IsExecutable, EntryOf
  <2>4. WithKind = [kind |-> kind, entry |-> e, entrySymbol |-> NoName,
                    sections |-> z, symbols |-> z, relocations |-> z]
    <3> DEFINE d == NoDecoded
               o == [d EXCEPT !.kind = kind]
    <3>1. d = [kind |-> 0, entry |-> 0, entrySymbol |-> NoName,
               sections |-> z, symbols |-> z, relocations |-> z]
          /\ WithKind = [d EXCEPT !.kind = kind, !.entry = e]
      BY Zenon DEF NoDecoded, WithKind, EntryOf
    <3> HIDE DEF d, kind, e, z
    <3>2. o = [kind |-> kind, entry |-> 0, entrySymbol |-> NoName,
               sections |-> z, symbols |-> z, relocations |-> z]
      BY <3>1
    <3>3. WithKind = [o EXCEPT !.entry = e]
      BY <3>1
    <3> HIDE DEF o
    <3>4. QED
      BY <3>2, <3>3
  <2>5. z \in Seq(GoodSection) /\ z \in Seq(GoodSymbol(Header("sectionCount")))
        /\ z \in Seq(GoodRelocation(z, Header("symbolCount")))
        /\ Len(z) = 0
    OBVIOUS
  <2> HIDE DEF kind, e, z
  <2>6. /\ image'.sections = z /\ image'.symbols = z /\ image'.relocations = z
        /\ image' = [kind |-> kind, entry |-> e,
                     entrySymbol |-> image'.entrySymbol, sections |-> z,
                     symbols |-> z, relocations |-> z]
    BY <2>1, <2>4
  <2>7. Building("tables", 0, image', kind, e, Header("sectionCount"),
                 Header("symbolCount"), Header("relocationCount"))
    BY <2>3, <2>5, <2>6 DEF Building, Entries
  <2>8. Built(stage', index', image')
    BY <2>1, <2>2, <2>7 DEF Built, kind, e
  <2>9. QED
    BY <2>1, <2>8, BuildingStep DEF Reading
<1>5. QED
  BY <1>1, <1>2, <1>3, <1>4

-----------------------------------------------------------------------------
(* The tables and the name of the entry leave the counts as they are.      *)
LEMMA DecoderTables == DInv /\ (AllocateTables \/ TablesOutOfMemory) => DInv'
<1> SUFFICES ASSUME DInv, AllocateTables \/ TablesOutOfMemory,
                    origin = NoImage
             PROVE  DInv'
  BY DEF DInv, AllocateTables, TablesOutOfMemory, Refuse
<1>1. CASE AllocateTables
  <2>1. /\ stage = "tables" /\ stage' = "entrySymbol" /\ origin' = origin
        /\ file' = file /\ index' = index /\ image' = image
    BY <1>1 DEF AllocateTables
  <2>2. Built("tables", index, image)
    BY <2>1 DEF DInv, Reading
  <2>3. Built("entrySymbol", index, image)
    BY <2>2 DEF Built, Building, Entries
  <2>4. QED
    BY <2>1, <2>3, BuildingStep DEF Reading
<1>2. CASE TablesOutOfMemory
  <2>1. PICK made : Refuse("OUT_OF_MEMORY", made)
    BY <1>2 DEF TablesOutOfMemory
  <2>2. QED
    BY <2>1, RefuseStops
<1>3. QED
  BY <1>1, <1>2

(* What the two stages without a counter leave.                            *)
LEMMA NamedImage ==
  ASSUME file \in Seq(Nat), index \in Nat, Built("entrySymbol", index, image),
         NEW img,
         \/ img = image
         \/ \E name : img = [image EXCEPT !.entrySymbol = name]
  PROVE  index = 0 /\ Built("sections", 0, img)
<1> DEFINE kind == Header("kind")
           e == EntryOf
           n == Header("sectionCount")
           m == Header("symbolCount")
           o == Header("relocationCount")
<1>1. /\ image = [kind |-> kind, entry |-> e,
                  entrySymbol |-> image.entrySymbol,
                  sections |-> image.sections, symbols |-> image.symbols,
                  relocations |-> image.relocations]
      /\ kind = EXECUTABLE => e # 0 /\ o = 0
      /\ image.sections \in Seq(GoodSection) /\ Len(image.sections) = 0
      /\ image.symbols \in Seq(GoodSymbol(n)) /\ Len(image.symbols) = 0
      /\ image.relocations \in Seq(GoodRelocation(image.sections, m))
      /\ Len(image.relocations) = 0
      /\ index <= 0
  BY DEF Built, Building, Entries
<1>2. index = 0
  BY <1>1
<1>3. n \in Nat
  BY HeaderNumbers
<1> HIDE DEF kind, e, n, m, o
<1>4. /\ img = [kind |-> kind, entry |-> e, entrySymbol |-> img.entrySymbol,
                sections |-> img.sections, symbols |-> img.symbols,
                relocations |-> img.relocations]
      /\ img.sections = image.sections /\ img.symbols = image.symbols
      /\ img.relocations = image.relocations
  BY <1>1
<1>5. 0 <= n
  BY <1>3
<1>6. Building("sections", 0, img, kind, e, n, m, o)
  BY <1>1, <1>4, <1>5 DEF Building, Entries
<1>7. QED
  BY <1>2, <1>6 DEF Built, kind, e, n, m, o

LEMMA DecoderEntrySymbol ==
  DInv /\ IInv /\ (NoEntrySymbol \/ ReadEntrySymbol) => DInv'
<1> SUFFICES ASSUME DInv, IInv, NoEntrySymbol \/ ReadEntrySymbol,
                    origin = NoImage
             PROVE  DInv'
  BY DEF DInv, NoEntrySymbol, ReadEntrySymbol, Refuse
<1>1. stage = "entrySymbol" /\ stage \in Reading /\ "sections" \in Reading
  BY DEF NoEntrySymbol, ReadEntrySymbol, Reading
<1>2. Built("entrySymbol", index, image) /\ file \in Seq(Nat) /\ index \in Nat
  BY <1>1 DEF DInv, IInv
<1>3. ASSUME stage' = "sections", UNCHANGED <<origin, file, index>>,
             \/ image' = image
             \/ \E name : image' = [image EXCEPT !.entrySymbol = name]
      PROVE  DInv'
  <2>1. index = 0 /\ Built("sections", 0, image')
    BY <1>2, <1>3, NamedImage
  <2>2. QED
    BY <1>1, <1>3, <2>1, BuildingStep
<1>4. CASE NoEntrySymbol
  BY <1>3, <1>4 DEF NoEntrySymbol
<1>5. CASE ReadEntrySymbol
  <2>1. CASE /\ image' = [image EXCEPT !.entrySymbol = StringAt(Header("entry"))]
             /\ stage' = "sections"
             /\ UNCHANGED <<origin, file, index, error>>
    BY <1>3, <2>1
  <2>2. CASE \E e \in {"OUT_OF_MEMORY", "MALFORMED"} : Refuse(e, {})
    BY <2>2, RefuseStops
  <2>3. QED
    BY <1>5, <2>1, <2>2 DEF ReadEntrySymbol
<1>6. QED
  BY <1>4, <1>5

(* A table ends when it is complete.                                       *)
LEMMA DecoderEndTable == DInv /\ IInv /\ EndTable => DInv'
<1> SUFFICES ASSUME DInv, IInv, EndTable, origin = NoImage
             PROVE  DInv'
  BY DEF DInv, EndTable
<1> DEFINE kind == Header("kind")
           e == EntryOf
           n == Header("sectionCount")
           m == Header("symbolCount")
           o == Header("relocationCount")
           next == IF stage = "sections" THEN "symbols"
                   ELSE IF stage = "symbols" THEN "relocations" ELSE "entry"
<1>1. /\ stage \in Tables /\ index >= Count(stage) /\ index' = 0
      /\ stage' = next
      /\ origin' = origin /\ file' = file /\ image' = image
  BY DEF EndTable
<1>2. stage \in Reading /\ stage' \in Reading
  BY <1>1 DEF Reading, Tables
<1>3. file \in Seq(Nat) /\ index \in Nat /\ Built(stage, index, image)
  BY <1>2 DEF DInv, IInv
<1>4. n \in Nat /\ m \in Nat /\ o \in Nat
  BY <1>3, HeaderNumbers
<1>5. Building(stage, index, image, kind, e, n, m, o)
  BY <1>3 DEF Built
<1>6. index = IF stage = "sections" THEN n
              ELSE IF stage = "symbols" THEN m ELSE o
  <2>1. Count(stage) = IF stage = "sections" THEN n
                       ELSE IF stage = "symbols" THEN m ELSE o
    BY DEF Count
  <2>2. index <= IF stage = "sections" THEN n
                 ELSE IF stage = "symbols" THEN m ELSE o
    BY <1>1, <1>5 DEF Building, Tables
  <2> HIDE DEF n, m, o
  <2>3. QED
    BY <1>1, <1>3, <1>4, <2>1, <2>2
<1> HIDE DEF kind, e, n, m, o
<1>7. Building(stage', 0, image, kind, e, n, m, o)
  <2>1. CASE stage = "sections"
    BY <1>1, <1>4, <1>5, <1>6, <2>1 DEF Building, Entries
  <2>2. CASE stage = "symbols"
    BY <1>1, <1>4, <1>5, <1>6, <2>2 DEF Building, Entries
  <2>3. CASE stage = "relocations"
    BY <1>1, <1>4, <1>5, <1>6, <2>3 DEF Building, Entries
  <2>4. QED
    BY <1>1, <2>1, <2>2, <2>3 DEF Tables
<1>8. Built(stage', index', image')
  BY <1>1, <1>7 DEF Built, kind, e, n, m, o
<1>9. QED
  BY <1>1, <1>2, <1>8, BuildingStep

-----------------------------------------------------------------------------
(* What is read in a file of words.                                        *)
LEMMA WordCell ==
  ASSUME file \in Seq(Word), NEW k \in Nat
  PROVE  Get(k) \in Word
<1>1. 0 \in Word
  BY Bases DEF Word
<1>2. QED
  BY <1>1 DEF Get

LEMMA WordFile ==
  ASSUME file \in Seq(Word)
  PROVE  file \in Seq(Nat) /\ Len(file) \in Nat /\ Word \subseteq Nat
<1>1. Word \subseteq Nat /\ file \in Seq(Word)
  BY Bases DEF Word
<1>2. file \in Seq(Nat)
  BY <1>1, WiderType
<1>3. Len(file) \in Nat
  BY <1>2
<1>4. QED
  BY <1>1, <1>2, <1>3

LEMMA RecordCells ==
  ASSUME file \in Seq(Word), index \in Nat
  PROVE  /\ \A k \in 0..6 : SectionCell(k) \in Word /\ SymbolCell(k) \in Word
         /\ \A k \in 0..4 : RelocationCell(k) \in Word
<1>1. /\ Header("sectionOffset") \in Nat /\ Header("symbolOffset") \in Nat
      /\ Header("relocationOffset") \in Nat
  BY WordFile, HeaderNumbers
<1>2. \A start \in Nat, k \in 0..6 :
        start + index * 7 + k \in Nat /\ start + index * 5 + k \in Nat
  OBVIOUS
<1>3. \A start \in Nat, k \in 0..6 :
        Get(start + index * 7 + k) \in Word /\ Get(start + index * 5 + k) \in Word
  BY <1>2, WordCell
<1>4. \A k \in 0..4 : k \in 0..6
  OBVIOUS
<1>5. QED
  BY <1>1, <1>3, <1>4 DEF SectionCell, SymbolCell, RelocationCell,
     SECTION_RECORD, SYMBOL_RECORD, RELOCATION_RECORD

LEMMA NameRead ==
  ASSUME file \in Seq(Word), NEW offset \in Nat, HasString(offset)
  PROVE  StringAt(offset) \in Seq(Word)
<1> DEFINE o == Header("stringOffset")
           z == Header("stringSize")
           n == Min(Ends(offset)) - offset
<1>1. o \in Nat /\ z \in Nat
  BY WordFile, HeaderNumbers
<1>2. n \in Nat
  <2>1. Ends(offset) \subseteq offset..(z - 1) /\ Ends(offset) # {}
    BY DEF HasString, Ends
  <2>2. Ends(offset) \subseteq Nat
    BY <1>1, <2>1
  <2>3. \E x \in Ends(offset) : \A y \in Ends(offset) : x <= y
    BY <2>1, <2>2, LeastMember
  <2>4. Min(Ends(offset)) \in Ends(offset)
    BY <2>3 DEF Min
  <2>5. QED
    BY <1>1, <2>1, <2>4
<1>3. \A k \in 1..n : Get(o + offset + k - 1) \in Word
  <2> HIDE DEF n, o
  <2>1. \A k \in 1..n : o + offset + k - 1 \in Nat
    BY <1>1, <1>2
  <2>2. QED
    BY <2>1, WordCell
<1>4. StringAt(offset) = [k \in 1..n |-> Get(o + offset + k - 1)]
  BY Zenon DEF StringAt
<1> HIDE DEF n, o
<1>5. QED
  BY <1>2, <1>3, <1>4

(* A byte of payload is a cell that holds a byte.                          *)
BytesInPayload ==
  Sound => \A k \in Header("payloadOffset")..(Len(file) - 1) : Get(k) \in Byte

LEMMA SectionIsGood ==
  ASSUME file \in Seq(Word), index \in Nat, Sound, BytesInPayload,
         ~SectionMalformed
  PROVE  ReadSectionRecord \in GoodSection
<1> DEFINE type == SectionCell(1)
           start == SectionCell(5)
           size == SectionCell(6)
           name == StringAt(SectionCell(0))
           data == [k \in 1..size |-> IF type = BSS THEN 0
                                                    ELSE Get(start + k - 1)]
           p == Header("payloadOffset")
<1>1. /\ SectionCell(0) \in Word /\ type \in Word /\ SectionCell(2) \in Word
      /\ SectionCell(3) \in Word /\ SectionCell(4) \in Word
      /\ start \in Word /\ size \in Word
  BY RecordCells
<1>2. Word \subseteq Nat /\ file \in Seq(Nat) /\ Len(file) \in Nat
  BY WordFile
<1>3. /\ HasString(SectionCell(0))
      /\ ~BadSection(type, SectionCell(3), SectionCell(4), size)
      /\ type # BSS => start >= p /\ InRange(start, size)
  <2>1. /\ HasString(SectionCell(0))
        /\ ~BadSection(type, SectionCell(3), SectionCell(4), size)
        /\ type # BSS => ~(start < p) /\ InRange(start, size)
    BY Zenon DEF SectionMalformed
  <2>2. p \in Nat /\ start \in Nat
    BY <1>1, <1>2, HeaderNumbers
  <2> HIDE DEF p, start, type, size
  <2>3. QED
    BY <2>1, <2>2
<1>4. name \in Seq(Word)
  BY <1>1, <1>2, <1>3, NameRead
<1>5. data \in Seq(Byte) /\ Len(data) = size
  <2>1. p \in Nat /\ start \in Nat /\ size \in Nat
    BY <1>1, <1>2, HeaderNumbers
  <2>2. \A k \in 1..size : type # BSS => Get(start + k - 1) \in Byte
    <3>1. type # BSS => start <= Len(file) /\ size <= Len(file) - start
      BY <1>3 DEF InRange
    <3>2. \A k \in p..(Len(file) - 1) : Get(k) \in Byte
      BY DEF BytesInPayload
    <3>3. type # BSS =>
            \A k \in 1..size : start + k - 1 \in p..(Len(file) - 1)
      <4> HIDE DEF p, start, size, type
      <4>1. QED
        BY <1>2, <1>3, <2>1, <3>1
    <3> HIDE DEF p, start, size, type
    <3>4. QED
      BY <3>2, <3>3
  <2> HIDE DEF p, start, size, type
  <2>3. QED
    BY <2>1, <2>2, ZeroIsByte
<1>6. ReadSectionRecord =
        [name |-> name, type |-> type, flags |-> SectionCell(2),
         alignment |-> SectionCell(3), address |-> SectionCell(4),
         size |-> size, data |-> data]
  BY Zenon DEF ReadSectionRecord
<1> HIDE DEF name, data, type, size
<1>7. QED
  BY <1>1, <1>2, <1>3, <1>4, <1>5, <1>6 DEF GoodSection

LEMMA SymbolIsGood ==
  ASSUME file \in Seq(Word), index \in Nat, SymbolNamed, ~SymbolMalformed
  PROVE  ReadSymbolRecord \in GoodSymbol(Header("sectionCount"))
<1>1. /\ SymbolCell(0) \in Word /\ SymbolCell(1) \in Word
      /\ SymbolCell(2) \in Word /\ SymbolCell(3) \in Word
      /\ SymbolCell(4) \in Word /\ SymbolCell(5) \in Word
  BY RecordCells
<1>2. StringAt(SymbolCell(0)) \in Seq(Word)
  BY <1>1, WordFile, NameRead DEF SymbolNamed
<1>3. ~BadSymbol(SymbolCell(1), SymbolCell(4), SymbolCell(5),
                 Header("sectionCount"))
  BY DEF SymbolMalformed
<1> DEFINE name == StringAt(SymbolCell(0))
           c(k) == SymbolCell(k)
<1>4. ReadSymbolRecord =
        [name |-> name, section |-> c(1), value |-> c(2), size |-> c(3),
         binding |-> c(4), type |-> c(5)]
  BY Zenon DEF ReadSymbolRecord
<1>5. /\ name \in Seq(Word) /\ c(1) \in Word /\ c(2) \in Word /\ c(3) \in Word
      /\ c(4) \in Word /\ c(5) \in Word
      /\ ~BadSymbol(c(1), c(4), c(5), Header("sectionCount"))
  BY <1>1, <1>2, <1>3
<1> HIDE DEF name, c
<1>6. QED
  BY <1>4, <1>5 DEF GoodSymbol

LEMMA SignedRange ==
  ASSUME NEW w \in Word
  PROVE  Signed(w) \in SWORD_MIN..SWORD_MAX
<1>1. SignBit \in Nat /\ SignBit > 0 /\ WordBase = 2 * SignBit
  BY Bases
<1>2. w \in Nat /\ w < 2 * SignBit
  BY <1>1 DEF Word
<1>3. QED
  BY <1>1, <1>2 DEF Signed, SWORD_MIN, SWORD_MAX

LEMMA RelocationIsGood ==
  ASSUME file \in Seq(Word), index \in Nat, ~RelocationMalformed
  PROVE  ReadRelocationRecord
           \in GoodRelocation(image.sections, Header("symbolCount"))
<1> DEFINE c(k) == RelocationCell(k)
           a == Signed(RelocationCell(4))
<1>1. /\ c(0) \in Word /\ c(1) \in Word /\ c(2) \in Word /\ c(3) \in Word
      /\ a \in SWORD_MIN..SWORD_MAX
  BY RecordCells, SignedRange
<1>2. ReadRelocationRecord =
        [section |-> c(0), offset |-> c(1), type |-> c(2), symbol |-> c(3),
         addend |-> a]
  BY DEF ReadRelocationRecord
<1> HIDE DEF c, a
<1>3. ReadRelocationRecord \in ImageRelocation
  BY <1>1, <1>2 DEF ImageRelocation
<1>4. QED
  BY <1>3 DEF RelocationMalformed, GoodRelocation

-----------------------------------------------------------------------------
(* A table of an image gets an entry, and the rest of the image stays.     *)
HasFields(img, kind, entry) ==
  img = [kind |-> kind, entry |-> entry, entrySymbol |-> img.entrySymbol,
         sections |-> img.sections, symbols |-> img.symbols,
         relocations |-> img.relocations]

HasTables(img, kind, entry, sections, symbols, relocations) ==
  /\ HasFields(img, kind, entry)
  /\ img.sections = sections
  /\ img.symbols = symbols
  /\ img.relocations = relocations

LEMMA SectionAdded ==
  ASSUME NEW img, NEW kind, NEW entry, HasFields(img, kind, entry),
         NEW table
  PROVE  HasTables([img EXCEPT !.sections = table], kind, entry,
                   table, img.symbols, img.relocations)
<1> DEFINE new == [img EXCEPT !.sections = table]
           a == img.entrySymbol
           b == img.sections
           c == img.symbols
           d == img.relocations
<1>1. img = [kind |-> kind, entry |-> entry, entrySymbol |-> a,
             sections |-> b, symbols |-> c, relocations |-> d]
  BY DEF HasFields
<1> HIDE DEF a, b, c, d
<1>2. new = [kind |-> kind, entry |-> entry, entrySymbol |-> a,
             sections |-> table, symbols |-> c, relocations |-> d]
  BY <1>1
<1> HIDE DEF new
<1>3. HasFields(new, kind, entry)
  BY <1>2 DEF HasFields
<1>4. QED
  BY <1>2, <1>3 DEF HasTables, new, c, d

LEMMA SymbolAdded ==
  ASSUME NEW img, NEW kind, NEW entry, HasFields(img, kind, entry),
         NEW table
  PROVE  HasTables([img EXCEPT !.symbols = table], kind, entry,
                   img.sections, table, img.relocations)
<1> DEFINE new == [img EXCEPT !.symbols = table]
           a == img.entrySymbol
           b == img.sections
           c == img.symbols
           d == img.relocations
<1>1. img = [kind |-> kind, entry |-> entry, entrySymbol |-> a,
             sections |-> b, symbols |-> c, relocations |-> d]
  BY DEF HasFields
<1> HIDE DEF a, b, c, d
<1>2. new = [kind |-> kind, entry |-> entry, entrySymbol |-> a,
             sections |-> b, symbols |-> table, relocations |-> d]
  BY <1>1
<1> HIDE DEF new
<1>3. HasFields(new, kind, entry)
  BY <1>2 DEF HasFields
<1>4. QED
  BY <1>2, <1>3 DEF HasTables, new, b, d

LEMMA RelocationAdded ==
  ASSUME NEW img, NEW kind, NEW entry, HasFields(img, kind, entry),
         NEW table
  PROVE  HasTables([img EXCEPT !.relocations = table], kind, entry,
                   img.sections, img.symbols, table)
<1> DEFINE new == [img EXCEPT !.relocations = table]
           a == img.entrySymbol
           b == img.sections
           c == img.symbols
           d == img.relocations
<1>1. img = [kind |-> kind, entry |-> entry, entrySymbol |-> a,
             sections |-> b, symbols |-> c, relocations |-> d]
  BY DEF HasFields
<1> HIDE DEF a, b, c, d
<1>2. new = [kind |-> kind, entry |-> entry, entrySymbol |-> a,
             sections |-> b, symbols |-> c, relocations |-> table]
  BY <1>1
<1> HIDE DEF new
<1>3. HasFields(new, kind, entry)
  BY <1>2 DEF HasFields
<1>4. QED
  BY <1>2, <1>3 DEF HasTables, new, b, c

-----------------------------------------------------------------------------
(* What the invariant says while a table is read, and what an entry more   *)
(* leaves.                                                                 *)
LEMMA InsideTable ==
  ASSUME DInv, IInv, origin = NoImage, NEW t \in Tables, InTable(t)
  PROVE  /\ stage = t /\ stage \in Reading /\ Sound
         /\ file \in Seq(Word) /\ index \in Nat /\ index < Count(t)
         /\ Header("sectionCount") \in Nat /\ Header("symbolCount") \in Nat
         /\ Header("relocationCount") \in Nat
         /\ Built(t, index, image)
<1>1. stage = t /\ stage \in Reading /\ index < Count(t)
  BY DEF InTable, Tables, Reading
<1>2. /\ Sound /\ file \in Seq(Word) /\ index \in Nat /\ Built(t, index, image)
  BY <1>1 DEF DInv, IInv
<1>3. QED
  BY <1>1, <1>2, WordFile, HeaderNumbers

LEMMA DecoderSection ==
  DInv /\ IInv /\ BytesInPayload /\ (ReadSection \/ SectionRefused) => DInv'
<1> SUFFICES ASSUME DInv, IInv, BytesInPayload, ReadSection \/ SectionRefused,
                    origin = NoImage
             PROVE  DInv'
  BY DEF DInv, ReadSection, SectionRefused, Refuse
<1> DEFINE kind == Header("kind")
           e == EntryOf
           n == Header("sectionCount")
           m == Header("symbolCount")
           o == Header("relocationCount")
           s == ReadSectionRecord
<1>1. /\ stage = "sections" /\ stage \in Reading /\ Sound
      /\ file \in Seq(Word) /\ index \in Nat /\ index < Count("sections")
      /\ n \in Nat /\ m \in Nat /\ o \in Nat
      /\ Built("sections", index, image)
  <2>1. InTable("sections") /\ "sections" \in Tables
    BY DEF ReadSection, SectionRefused, Tables
  <2>2. QED
    BY <2>1, InsideTable
<1>2. CASE ReadSection
  <2>1. /\ image' = [image EXCEPT !.sections = Append(image.sections, s)]
        /\ index' = index + 1 /\ origin' = origin /\ file' = file
        /\ stage' = stage /\ ~SectionMalformed
    BY <1>2 DEF ReadSection
  <2>2. s \in GoodSection
    BY <1>1, <2>1, SectionIsGood
  <2>3. Building("sections", index, image, kind, e, n, m, o) /\ index < n
    BY <1>1 DEF Built, Count
  <2> HIDE DEF kind, e, n, m, o, s
  <2>4. /\ HasFields(image, kind, e)
        /\ kind = EXECUTABLE => e # 0 /\ o = 0
        /\ image.sections \in Seq(GoodSection)
        /\ Len(image.sections) = index
        /\ image.symbols \in Seq(GoodSymbol(n)) /\ Len(image.symbols) = 0
        /\ image.relocations \in Seq(GoodRelocation(image.sections, m))
        /\ Len(image.relocations) = 0
    BY <2>3 DEF Building, Entries, HasFields
  <2>5. /\ HasFields(image', kind, e)
        /\ image'.sections = Append(image.sections, s)
        /\ image'.symbols = image.symbols
        /\ image'.relocations = image.relocations
    <3> DEFINE table == Append(image.sections, s)
    <3>1. HasFields(image, kind, e)
      BY <2>4
    <3>2. image' = [image EXCEPT !.sections = table]
      BY <2>1
    <3> HIDE DEF table
    <3>3. HasTables([image EXCEPT !.sections = table], kind, e,
                    table, image.symbols, image.relocations)
      BY <3>1, SectionAdded, Zenon
    <3>4. QED
      BY <3>2, <3>3 DEF HasTables, table
  <2>6. /\ image'.sections \in Seq(GoodSection)
        /\ Len(image'.sections) = index + 1
    BY <2>2, <2>4, <2>5
  <2>7. image'.relocations \in Seq(GoodRelocation(image'.sections, m))
    <3>1. image'.relocations = << >>
      BY <2>4, <2>5
    <3>2. QED
      BY <3>1
  <2>8. index + 1 <= n
    BY <1>1, <2>3
  <2>9. Building("sections", index + 1, image', kind, e, n, m, o)
    BY <2>4, <2>5, <2>6, <2>7, <2>8 DEF Building, Entries, HasFields
  <2>10. Built(stage', index', image')
    BY <1>1, <2>1, <2>9 DEF Built, kind, e, n, m, o
  <2>11. QED
    BY <1>1, <2>1, <2>10, BuildingStep
<1>3. CASE SectionRefused
  <2>1. PICK reason, made : reason # "NONE" /\ Refuse(reason, made)
    BY <1>3 DEF SectionRefused
  <2>2. QED
    BY <2>1, RefuseStops
<1>4. QED
  BY <1>2, <1>3

LEMMA DecoderSymbol == DInv /\ IInv /\ (ReadSymbol \/ SymbolRefused) => DInv'
<1> SUFFICES ASSUME DInv, IInv, ReadSymbol \/ SymbolRefused, origin = NoImage
             PROVE  DInv'
  BY DEF DInv, ReadSymbol, SymbolRefused, Refuse
<1> DEFINE kind == Header("kind")
           e == EntryOf
           n == Header("sectionCount")
           m == Header("symbolCount")
           o == Header("relocationCount")
           s == ReadSymbolRecord
<1>1. /\ stage = "symbols" /\ stage \in Reading
      /\ file \in Seq(Word) /\ index \in Nat /\ index < Count("symbols")
      /\ n \in Nat /\ m \in Nat /\ o \in Nat
      /\ Built("symbols", index, image)
  <2>1. InTable("symbols") /\ "symbols" \in Tables
    BY DEF ReadSymbol, SymbolRefused, Tables
  <2>2. QED
    BY <2>1, InsideTable
<1>2. CASE ReadSymbol
  <2>1. /\ image' = [image EXCEPT !.symbols = Append(image.symbols, s)]
        /\ index' = index + 1 /\ origin' = origin /\ file' = file
        /\ stage' = stage /\ SymbolNamed /\ ~SymbolMalformed
    BY <1>2 DEF ReadSymbol
  <2>2. s \in GoodSymbol(n)
    BY <1>1, <2>1, SymbolIsGood
  <2>3. Building("symbols", index, image, kind, e, n, m, o) /\ index < m
    BY <1>1 DEF Built, Count
  <2> HIDE DEF kind, e, n, m, o, s
  <2>4. /\ HasFields(image, kind, e)
        /\ kind = EXECUTABLE => e # 0 /\ o = 0
        /\ image.sections \in Seq(GoodSection) /\ Len(image.sections) = n
        /\ image.symbols \in Seq(GoodSymbol(n)) /\ Len(image.symbols) = index
        /\ image.relocations \in Seq(GoodRelocation(image.sections, m))
        /\ Len(image.relocations) = 0
    BY <2>3 DEF Building, Entries, HasFields
  <2>5. /\ HasFields(image', kind, e)
        /\ image'.sections = image.sections
        /\ image'.symbols = Append(image.symbols, s)
        /\ image'.relocations = image.relocations
    <3> DEFINE table == Append(image.symbols, s)
    <3>1. HasFields(image, kind, e)
      BY <2>4
    <3>2. image' = [image EXCEPT !.symbols = table]
      BY <2>1
    <3> HIDE DEF table
    <3>3. HasTables([image EXCEPT !.symbols = table], kind, e,
                    image.sections, table, image.relocations)
      BY <3>1, SymbolAdded, Zenon
    <3>4. QED
      BY <3>2, <3>3 DEF HasTables, table
  <2>6. /\ image'.symbols \in Seq(GoodSymbol(n))
        /\ Len(image'.symbols) = index + 1
    BY <2>2, <2>4, <2>5
  <2>7. index + 1 <= m
    BY <1>1, <2>3
  <2>8. Building("symbols", index + 1, image', kind, e, n, m, o)
    BY <2>4, <2>5, <2>6, <2>7 DEF Building, Entries, HasFields
  <2>9. Built(stage', index', image')
    BY <1>1, <2>1, <2>8 DEF Built, kind, e, n, m, o
  <2>10. QED
    BY <1>1, <2>1, <2>9, BuildingStep
<1>3. CASE SymbolRefused
  <2>1. PICK reason, made : reason # "NONE" /\ Refuse(reason, made)
    BY <1>3 DEF SymbolRefused
  <2>2. QED
    BY <2>1, RefuseStops
<1>4. QED
  BY <1>2, <1>3

LEMMA DecoderRelocation ==
  DInv /\ IInv /\ (ReadRelocation \/ RelocationRefused) => DInv'
<1> SUFFICES ASSUME DInv, IInv, ReadRelocation \/ RelocationRefused,
                    origin = NoImage
             PROVE  DInv'
  BY DEF DInv, ReadRelocation, RelocationRefused, Refuse
<1> DEFINE kind == Header("kind")
           e == EntryOf
           n == Header("sectionCount")
           m == Header("symbolCount")
           o == Header("relocationCount")
           r == ReadRelocationRecord
<1>1. /\ stage = "relocations" /\ stage \in Reading
      /\ file \in Seq(Word) /\ index \in Nat /\ index < Count("relocations")
      /\ n \in Nat /\ m \in Nat /\ o \in Nat
      /\ Built("relocations", index, image)
  <2>1. InTable("relocations") /\ "relocations" \in Tables
    BY DEF ReadRelocation, RelocationRefused, Tables
  <2>2. QED
    BY <2>1, InsideTable
<1>2. CASE ReadRelocation
  <2>1. /\ image' = [image EXCEPT !.relocations = Append(image.relocations, r)]
        /\ index' = index + 1 /\ origin' = origin /\ file' = file
        /\ stage' = stage /\ ~RelocationMalformed
    BY <1>2 DEF ReadRelocation
  <2>2. r \in GoodRelocation(image.sections, m)
    BY <1>1, <2>1, RelocationIsGood
  <2>3. Building("relocations", index, image, kind, e, n, m, o) /\ index < o
    BY <1>1 DEF Built, Count
  <2> HIDE DEF kind, e, n, m, o, r
  <2>4. /\ HasFields(image, kind, e)
        /\ kind = EXECUTABLE => e # 0 /\ o = 0
        /\ image.sections \in Seq(GoodSection) /\ Len(image.sections) = n
        /\ image.symbols \in Seq(GoodSymbol(n)) /\ Len(image.symbols) = m
        /\ image.relocations \in Seq(GoodRelocation(image.sections, m))
        /\ Len(image.relocations) = index
    BY <2>3 DEF Building, Entries, HasFields
  <2>5. /\ HasFields(image', kind, e)
        /\ image'.sections = image.sections
        /\ image'.symbols = image.symbols
        /\ image'.relocations = Append(image.relocations, r)
    <3> DEFINE table == Append(image.relocations, r)
    <3>1. HasFields(image, kind, e)
      BY <2>4
    <3>2. image' = [image EXCEPT !.relocations = table]
      BY <2>1
    <3> HIDE DEF table
    <3>3. HasTables([image EXCEPT !.relocations = table], kind, e,
                    image.sections, image.symbols, table)
      BY <3>1, RelocationAdded, Zenon
    <3>4. QED
      BY <3>2, <3>3 DEF HasTables, table
  <2>6. /\ image'.relocations \in Seq(GoodRelocation(image.sections, m))
        /\ Len(image'.relocations) = index + 1
    BY <2>2, <2>4, <2>5
  <2>7. index + 1 <= o
    BY <1>1, <2>3
  <2>8. Building("relocations", index + 1, image', kind, e, n, m, o)
    BY <2>4, <2>5, <2>6, <2>7 DEF Building, Entries, HasFields
  <2>9. Built(stage', index', image')
    BY <1>1, <2>1, <2>8 DEF Built, kind, e, n, m, o
  <2>10. QED
    BY <1>1, <2>1, <2>9, BuildingStep
<1>3. CASE RelocationRefused
  <2>1. Refuse("MALFORMED", {})
    BY <1>3 DEF RelocationRefused
  <2>2. QED
    BY <2>1, RefuseStops
<1>4. QED
  BY <1>2, <1>3

(* The entry is looked at when everything has been read.                   *)
LEMMA DecoderLast == DInv /\ IInv /\ (CheckEntry \/ Free) => DInv'
<1> SUFFICES ASSUME DInv, IInv, CheckEntry \/ Free, origin = NoImage
             PROVE  DInv'
  BY DEF DInv, CheckEntry, Free, Refuse
<1>1. CASE Free
  BY <1>1, StoppedStep DEF Free
<1>2. CASE CheckEntry
  <2>1. stage = "entry" /\ stage \in Reading
    BY <1>2 DEF CheckEntry, Reading
  <2>2. Built("entry", index, image) /\ file \in Seq(Word)
    BY <2>1 DEF DInv
  <2> DEFINE kind == Header("kind")
             e == EntryOf
             n == Header("sectionCount")
             m == Header("symbolCount")
             o == Header("relocationCount")
  <2>3. CASE /\ EntryAccepted /\ stage' = "done"
             /\ UNCHANGED <<origin, file, index, image, blocks, error>>
    <3>1. Building("entry", index, image, kind, e, n, m, o)
      BY <2>2 DEF Built
    <3>2. kind = EXECUTABLE => EntryInText(image.entry, image.sections)
      BY <2>3 DEF EntryAccepted, IsExecutable
    <3> HIDE DEF kind, e, n, m, o
    <3>3. /\ image = [kind |-> kind, entry |-> e,
                      entrySymbol |-> image.entrySymbol,
                      sections |-> image.sections, symbols |-> image.symbols,
                      relocations |-> image.relocations]
          /\ kind = EXECUTABLE => e # 0 /\ o = 0
          /\ image.sections \in Seq(GoodSection) /\ Len(image.sections) = n
          /\ image.symbols \in Seq(GoodSymbol(n)) /\ Len(image.symbols) = m
          /\ image.relocations \in Seq(GoodRelocation(image.sections, m))
          /\ Len(image.relocations) = o
      BY <3>1 DEF Building, Entries
    <3>4. image.kind = kind /\ image.entry = e
      BY <3>3
    <3>5. kind = EXECUTABLE => image.relocations = << >>
      BY <3>3
    <3>6. GoodTables(image.sections, image.symbols, image.relocations)
      BY <3>3 DEF GoodTables
    <3>7. WellFormed(image)
      BY <3>2, <3>3, <3>4, <3>5, <3>6 DEF WellFormed
    <3>8. WellFormed(image)'
      BY <2>3, <3>7
    <3>9. stage' # "header" /\ stage' \notin Reading
      BY <2>3 DEF Reading
    <3>10. QED
      BY <2>2, <2>3, <3>8, <3>9 DEF DInv
  <2>4. CASE Refuse("MALFORMED", {})
    BY <2>4, RefuseStops
  <2>5. QED
    BY <1>2, <2>3, <2>4 DEF CheckEntry
<1>3. QED
  BY <1>1, <1>2

LEMMA NextDInv == DInv /\ IInv /\ BytesInPayload /\ [Next]_vars => DInv'
<1>1. DInv /\ UNCHANGED vars => DInv'
  <2> SUFFICES ASSUME DInv, UNCHANGED vars
               PROVE  DInv'
    OBVIOUS
  <2>1. /\ origin' = origin /\ file' = file /\ stage' = stage
        /\ index' = index /\ image' = image /\ error' = error
    BY DEF vars
  <2>2. CASE origin = NoImage /\ stage \in Reading
    BY <2>1, <2>2, BuildingStep DEF DInv
  <2>3. CASE origin = NoImage /\ stage \notin Reading
    BY <2>1, <2>3 DEF DInv, Accepted
  <2>4. QED
    BY <2>1, <2>2, <2>3 DEF DInv
<1>2. DInv /\ IInv /\ BytesInPayload /\ Next => DInv'
  BY DecoderHeader, DecoderTables, DecoderEntrySymbol, DecoderEndTable,
     DecoderSection, DecoderSymbol, DecoderRelocation, DecoderLast,
     Zenon DEF Next
<1>3. QED
  BY <1>1, <1>2

(* Whatever an accepted file holds, its image is what the linker assumes   *)
(* of an object and the machine of an executable.  A name is any sequence  *)
(* of characters, and a cell of payload holds a byte.                      *)
(* Code: the checks of the record loops and of the entry.                  *)
THEOREM AcceptedImages ==
  ASSUME Seq(Word) \subseteq Names
  PROVE  Spec /\ []BytesInPayload => []AcceptedIsWellFormed
<1>1. Init => IInv /\ RInv /\ DInv
  BY InitIInv, RoundInit, DecoderInit
<1>2. (IInv /\ RInv /\ DInv) /\ BytesInPayload /\ [Next]_vars
        => (IInv /\ RInv /\ DInv)'
  BY NextIInv, NextRInv, NextDInv
<1>3. IInv /\ RInv /\ DInv => AcceptedIsWellFormed
  <2> SUFFICES ASSUME IInv, RInv, DInv, Accepted
               PROVE  /\ Decoded(AsObject(image))
                      /\ image.kind = EXECUTABLE =>
                           /\ image.relocations = << >>
                           /\ image.entry # 0
                           /\ EntryInText(image.entry, image.sections)
    BY DEF AcceptedIsWellFormed
  <2>1. WellFormed(image)
    <3>1. CASE origin = NoImage
      BY <3>1 DEF DInv
    <3>2. CASE origin # NoImage
      <4>1. /\ origin \in Images /\ EncodeError(origin) = "NONE"
            /\ image = Restored(origin)
        BY <3>2 DEF RInv, Restoring, Accepted
      <4>2. QED
        BY <4>1, RestoredIsWellFormed
    <3>3. QED
      BY <3>1, <3>2
  <2>2. QED
    BY <2>1, GoodTablesDecoded DEF WellFormed
<1>4. QED
  BY <1>1, <1>2, <1>3, PTL DEF Spec
=============================================================================
