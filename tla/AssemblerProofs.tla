-------------------------- MODULE AssemblerProofs --------------------------
(***************************************************************************)
(* Where lines and bytes go, for every source and every size of the ROM,   *)
(* and that a raw image holds its source and an object means it.  Then     *)
(* that the objects of several files, linked, are the program they spell.  *)
(***************************************************************************)
EXTENDS Toolchain, WordProofs, SequenceTheorems, FiniteSetTheorems

-----------------------------------------------------------------------------
(* Totals of a list.                                                       *)
Sized(list) == \A i \in 1..Len(list) : list[i].size \in Nat

LEMMA TotalsExist ==
  ASSUME NEW n \in Nat, NEW s \in [1..n -> Nat]
  PROVE  \E f : f = [k \in 0..n |-> IF k = 0 THEN 0 ELSE f[k - 1] + s[k]]
<1> DEFINE P(m) == \E f : f = [k \in 0..m |-> IF k = 0 THEN 0 ELSE f[k - 1] + s[k]]
           S == {m \in 0..n : P(m)}
<1>1. 0 \in S
  <2> DEFINE f == [k \in 0..0 |-> 0]
  <2>1. f = [k \in 0..0 |-> IF k = 0 THEN 0 ELSE f[k - 1] + s[k]]
    OBVIOUS
  <2> HIDE DEF f
  <2>2. P(0)
    BY <2>1
  <2>3. QED
    BY <2>2
<1>2. ASSUME NEW m \in 1..n, m - 1 \in S
      PROVE  m \in S
  <2>1. PICK f : f = [k \in 0..(m - 1) |-> IF k = 0 THEN 0 ELSE f[k - 1] + s[k]]
    BY <1>2
  <2> DEFINE g == [k \in 0..m |-> IF k = m THEN f[m - 1] + s[m] ELSE f[k]]
  <2>2. ASSUME NEW k \in 0..m
        PROVE  g[k] = IF k = 0 THEN 0 ELSE g[k - 1] + s[k]
    <3>1. CASE k = m
      BY <3>1
    <3>2. CASE k # m /\ k # 0
      <4>1. k \in 0..(m - 1) /\ k - 1 \in 0..(m - 1)
        BY <3>2
      <4>2. g[k] = f[k] /\ g[k - 1] = f[k - 1]
        BY <3>2, <4>1
      <4>3. f[k] = f[k - 1] + s[k]
        BY <2>1, <3>2, <4>1
      <4>4. QED
        BY <3>2, <4>2, <4>3
    <3>3. CASE k # m /\ k = 0
      <4>1. g[k] = f[0] /\ f[0] = 0
        BY <2>1, <3>3
      <4>2. QED
        BY <3>3, <4>1
    <3>4. QED
      BY <3>1, <3>2, <3>3
  <2> HIDE DEF g
  <2>3. g = [k \in 0..m |-> g[k]]
    BY DEF g
  <2>4. g = [k \in 0..m |-> IF k = 0 THEN 0 ELSE g[k - 1] + s[k]]
    BY <2>2, <2>3
  <2>5. QED
    BY <2>4
<1> HIDE DEF S
<1>3. 0..n \subseteq S
  BY <1>1, <1>2, CountingUp
<1>4. n \in S
  BY <1>3
<1>5. P(n)
  BY <1>4, Zenon DEF S
<1>6. QED
  BY <1>5, Zenon

LEMMA Totals ==
  ASSUME NEW list, Len(list) \in Nat, Sized(list)
  PROVE  /\ SizeOfFirst(list)[0] = 0
         /\ \A k \in 1..Len(list) :
              SizeOfFirst(list)[k] = SizeOfFirst(list)[k - 1] + list[k].size
         /\ \A k \in 0..Len(list) : SizeOfFirst(list)[k] \in Nat
<1> DEFINE n == Len(list)
           s == [k \in 1..n |-> list[k].size]
           f == SizeOfFirst(list)
<1>1. s \in [1..n -> Nat]
  BY DEF Sized
<1>2. PICK g : g = [k \in 0..n |-> IF k = 0 THEN 0 ELSE g[k - 1] + s[k]]
  BY <1>1, TotalsExist
<1>3. g = [k \in 0..n |-> IF k = 0 THEN 0 ELSE g[k - 1] + list[k].size]
  <2>1. \A k \in 0..n : k # 0 => s[k] = list[k].size
    OBVIOUS
  <2>2. QED
    BY <1>2, <2>1
<1>4. f = [k \in 0..n |-> IF k = 0 THEN 0 ELSE f[k - 1] + list[k].size]
  BY <1>3, Zenon DEF SizeOfFirst
<1> HIDE DEF f
<1>5. f[0] = 0 /\ \A k \in 1..n : f[k] = f[k - 1] + list[k].size
  BY <1>4
<1> DEFINE S == {k \in 0..n : f[k] \in Nat}
<1>6. 0 \in S
  BY <1>5
<1>7. ASSUME NEW k \in 1..n, k - 1 \in S
      PROVE  k \in S
  <2>1. f[k] = f[k - 1] + list[k].size /\ k \in 0..n
    BY <1>5
  <2>2. f[k - 1] \in Nat /\ list[k].size \in Nat
    BY <1>7 DEF Sized
  <2>3. QED
    BY <2>1, <2>2
<1> HIDE DEF S
<1>8. 0..n \subseteq S
  BY <1>6, <1>7, CountingUp
<1>9. QED
  BY <1>5, <1>8 DEF f, S

-----------------------------------------------------------------------------
(* The bytes of data.                                                      *)
LEMMA JoinsExist ==
  ASSUME NEW n \in Nat, NEW p \in [1..n -> Seq(Byte)]
  PROVE  \E f : f = [k \in 0..n |-> IF k = 0 THEN << >> ELSE f[k - 1] \o p[k]]
<1> DEFINE P(m) == \E f : f = [k \in 0..m |-> IF k = 0 THEN << >> ELSE f[k - 1] \o p[k]]
           S == {m \in 0..n : P(m)}
<1>1. 0 \in S
  <2> DEFINE f == [k \in 0..0 |-> << >>]
  <2>1. f = [k \in 0..0 |-> IF k = 0 THEN << >> ELSE f[k - 1] \o p[k]]
    OBVIOUS
  <2> HIDE DEF f
  <2>2. P(0)
    BY <2>1
  <2> HIDE DEF P
  <2>3. QED
    BY <2>2
<1>2. ASSUME NEW m \in 1..n, m - 1 \in S
      PROVE  m \in S
  <2>1. PICK f : f = [k \in 0..(m - 1) |-> IF k = 0 THEN << >> ELSE f[k - 1] \o p[k]]
    BY <1>2
  <2> DEFINE g == [k \in 0..m |-> IF k = m THEN f[m - 1] \o p[m] ELSE f[k]]
  <2>2. ASSUME NEW k \in 0..m
        PROVE  g[k] = IF k = 0 THEN << >> ELSE g[k - 1] \o p[k]
    <3>1. CASE k = m
      <4>1. m # 0 /\ m - 1 \in 0..m /\ m - 1 # m
        OBVIOUS
      <4> DEFINE last == f[m - 1] \o p[m]
      <4>2. g[m] = last /\ g[m - 1] = f[m - 1]
        <5>1. g = [j \in 0..m |-> IF j = m THEN last ELSE f[j]]
          OBVIOUS
        <5> HIDE DEF last, g
        <5>2. m \in 0..m
          BY <4>1
        <5>3. QED
          BY <4>1, <5>1, <5>2
      <4> HIDE DEF g
      <4>3. g[m] = g[m - 1] \o p[m]
        BY <4>2
      <4>4. QED
        BY <3>1, <4>1, <4>3
    <3>2. CASE k # m /\ k # 0
      <4>1. k \in 0..(m - 1) /\ k - 1 \in 0..(m - 1)
        BY <3>2
      <4>2. g[k] = f[k] /\ g[k - 1] = f[k - 1]
        BY <3>2, <4>1
      <4>3. f[k] = f[k - 1] \o p[k]
        BY <2>1, <3>2, <4>1
      <4>4. QED
        BY <3>2, <4>2, <4>3
    <3>3. CASE k # m /\ k = 0
      <4>1. g[k] = f[0] /\ f[0] = << >>
        BY <2>1, <3>3
      <4>2. QED
        BY <3>3, <4>1
    <3>4. QED
      BY <3>1, <3>2, <3>3
  <2> HIDE DEF g
  <2>3. g = [k \in 0..m |-> g[k]]
    BY DEF g
  <2>4. g = [k \in 0..m |-> IF k = 0 THEN << >> ELSE g[k - 1] \o p[k]]
    BY <2>2, <2>3
  <2>5. P(m)
    BY <2>4
  <2> HIDE DEF P
  <2>6. QED
    BY <2>5
<1> HIDE DEF S
<1>3. 0..n \subseteq S
  BY <1>1, <1>2, CountingUp
<1>4. n \in S
  BY <1>3
<1>5. P(n)
  BY <1>4, Zenon DEF S
<1>6. QED
  BY <1>5, Zenon

(* Strings and single values, one after the other (directive_get_raw_data).*)
LEMMA CharactersAreBytes ==
  ASSUME NEW args, Len(args) \in Nat,
         \A i \in 1..Len(args) :
           IF args[i].type = "string" THEN args[i].value \in Seq(Byte)
                                      ELSE args[i].value \in Byte
  PROVE  Characters(args) \in Seq(Byte)
<1> DEFINE n == Len(args)
           piece(i) == IF args[i].type = "string" THEN args[i].value
                                                  ELSE <<args[i].value>>
           p == [i \in 1..n |-> piece(i)]
<1>1. \A i \in 1..n : piece(i) \in Seq(Byte)
  OBVIOUS
<1>2. p \in [1..n -> Seq(Byte)]
  BY <1>1
<1>3. PICK f : f = [k \in 0..n |-> IF k = 0 THEN << >> ELSE f[k - 1] \o p[k]]
  BY <1>2, JoinsExist
<1>4. \A k \in 0..n : k # 0 => p[k] = piece(k)
  OBVIOUS
<1> DEFINE joined[k \in 0..n] ==
             IF k = 0 THEN << >> ELSE joined[k - 1] \o piece(k)
<1>5. f = [k \in 0..n |-> IF k = 0 THEN << >> ELSE f[k - 1] \o piece(k)]
  BY <1>3, <1>4
<1>6. joined = [k \in 0..n |-> IF k = 0 THEN << >> ELSE joined[k - 1] \o piece(k)]
  BY <1>5, Zenon
<1>7. Characters(args) = joined[n]
  BY Zenon DEF Characters
<1> HIDE DEF joined, piece
<1> DEFINE S == {k \in 0..n : joined[k] \in Seq(Byte)}
<1>8. 0 \in S
  BY <1>6
<1>9. ASSUME NEW k \in 1..n, k - 1 \in S
      PROVE  k \in S
  <2>1. k \in 0..n /\ k # 0
    OBVIOUS
  <2>2. joined[k] = joined[k - 1] \o piece(k)
    BY <1>6, <2>1
  <2>3. joined[k - 1] \in Seq(Byte) /\ piece(k) \in Seq(Byte)
    BY <1>1, <1>9
  <2>4. joined[k] \in Seq(Byte)
    BY <2>2, <2>3
  <2>5. QED
    BY <2>1, <2>4
<1> HIDE DEF S
<1>10. 0..n \subseteq S
  BY <1>8, <1>9, CountingUp
<1>11. QED
  BY <1>7, <1>10 DEF S
-----------------------------------------------------------------------------
(* A list of checks finds no fault only if none of them does.              *)
LEMMA NoFault ==
  ASSUME NEW n \in Nat, NEW faults, DOMAIN faults = 1..n,
         FirstFault(faults) = "NONE"
  PROVE  \A i \in 1..n : faults[i] = "NONE"
<1> DEFINE bad == {i \in DOMAIN faults : faults[i] # "NONE"}
<1>1. SUFFICES ASSUME bad # {}
               PROVE  FALSE
  OBVIOUS
<1>2. bad \subseteq Nat
  OBVIOUS
<1>3. \E i \in bad : \A j \in bad : i <= j
  BY <1>1, <1>2, LeastMember
<1> DEFINE first == CHOOSE i \in bad : \A j \in bad : i <= j
<1>4. first \in bad
  BY <1>3
<1>5. FirstFault(faults) = faults[first]
  BY <1>1, Zenon DEF FirstFault
<1>6. QED
  BY <1>4, <1>5

LEMMA NoFaultOfTwo ==
  ASSUME NEW a, NEW b, FirstFault(<<a, b>>) = "NONE"
  PROVE  a = "NONE" /\ b = "NONE"
<1> DEFINE faults == <<a, b>>
<1>1. DOMAIN faults = 1..2 /\ faults[1] = a /\ faults[2] = b
  OBVIOUS
<1> HIDE DEF faults
<1>2. \A i \in 1..2 : faults[i] = "NONE"
  BY <1>1, NoFault DEF faults
<1>3. QED
  BY <1>1, <1>2

LEMMA ByteAtType ==
  ASSUME NEW v \in Nat, NEW k \in 0..7
  PROVE  ByteAt(v, k) \in Byte
<1>1. \A w \in Nat, d \in Nat : d > 0 => (w \div d) % ByteBase \in Byte
  <2> SUFFICES ASSUME NEW w \in Nat, NEW d \in Nat, d > 0
               PROVE  (w \div d) % ByteBase \in Byte
    OBVIOUS
  <2>1. w \div d \in Nat
    BY DivisionOfNats
  <2>2. QED
    BY <2>1, ByteBaseAssumption DEF Byte
<1>2. \A i \in 0..3 : ByteWeight[i + 1] \in Nat /\ ByteWeight[i + 1] > 0
  <2>1. HwordBase * ByteBase \in Nat /\ HwordBase * ByteBase > 0
    <3>1. HwordBase > 0 /\ ByteBase > 0 /\ HwordBase \in Nat /\ ByteBase \in Nat
      BY Bases, ByteBaseAssumption
    <3>2. QED
      BY <3>1
  <2>2. QED
    BY <2>1, Bases, ByteBaseAssumption DEF ByteWeight
<1>3. \A w \in Nat, i \in 0..3 : ByteOf(w, i) \in Byte
  BY <1>1, <1>2 DEF ByteOf
<1>4. v \div WordBase \in Nat
  BY DivisionOfNats, Bases
<1>5. CASE k < 4
  <2>1. k \in 0..3
    BY <1>5
  <2>2. QED
    BY <1>3, <1>5, <2>1 DEF ByteAt
<1>6. CASE ~(k < 4)
  <2>1. k - 4 \in 0..3
    BY <1>6
  <2>2. QED
    BY <1>3, <1>4, <1>6, <2>1 DEF ByteAt
<1>7. QED
  BY <1>5, <1>6

(* What the data of an accepted directive is.                              *)
LEMMA NumbersAreBytes ==
  ASSUME NEW args, Len(args) \in Nat, NEW size \in {1, 2, 4, 8},
         \A i \in 1..Len(args) : args[i].value \in Nat
  PROVE  Numbers(args, size) \in Seq(Byte)
<1> DEFINE n == Len(args) * size
           index(k) == (k - 1) \div size + 1
           rest(k)  == (k - 1) % size
<1>1. n \in Nat
  OBVIOUS
<1>2. \A k \in 1..n : index(k) \in 1..Len(args) /\ rest(k) \in 0..7
  <2>1. CASE size = 1
    BY <2>1
  <2>2. CASE size = 2
    BY <2>2
  <2>3. CASE size = 4
    BY <2>3
  <2>4. CASE size = 8
    BY <2>4
  <2>5. QED
    BY <2>1, <2>2, <2>3, <2>4
<1>3. Numbers(args, size) = [k \in 1..n |-> ByteAt(args[index(k)].value, rest(k))]
  BY DEF Numbers
<1> HIDE DEF n, index, rest
<1>4. \A k \in 1..n : ByteAt(args[index(k)].value, rest(k)) \in Byte
  BY <1>2, ByteAtType
<1>5. QED
  BY <1>1, <1>3, <1>4

LEMMA ArgumentsInRange ==
  ASSUME NEW dir, IsDirective(dir), dir.name \in DataDirectives,
         ValidDirective(dir), DataFault(dir) = "NONE",
         NEW i \in 1..Len(dir.args)
  PROVE  LET token == dir.args[i]
         IN  IF token.type = "string"
               THEN /\ dir.name \in {"ascii", "asciiz"}
                    /\ token.value \in Seq(Byte)
             ELSE /\ token.value \in Nat
                  /\ dir.name \in {"ascii", "asciiz"} => token.value \in Byte
<1> DEFINE token == dir.args[i]
           max == IF dir.name \in {"space", "dword"} THEN token.value
                  ELSE IF dir.name \in {"ascii", "asciiz"} THEN ByteBase - 1
                  ELSE ElementMax[dir.name]
<1>1. token \in ArgumentTokens /\ Len(dir.args) \in Nat
  BY DEF IsDirective
<1>2. \/ token.type \in {"int", "char"}
      \/ token.type = "string" /\ dir.name \in {"ascii", "asciiz"}
  BY DEF ValidDirective, DataDirectives
<1>3. ValueFault(token, max) = "NONE"
  <2>1. CASE dir.name \in {"space", "dword"}
    <3> DEFINE faults == [k \in 1..Len(dir.args) |->
                            ValueFault(dir.args[k], dir.args[k].value)]
    <3>1. FirstFault(faults) = "NONE"
      BY <2>1 DEF DataFault
    <3>2. DOMAIN faults = 1..Len(dir.args) /\ faults[i] = ValueFault(token, max)
      BY <2>1
    <3> HIDE DEF faults
    <3>3. QED
      BY <1>1, <3>1, <3>2, NoFault
  <2>2. CASE dir.name \notin {"space", "dword"}
    <3> DEFINE faults == [k \in 1..Len(dir.args) |-> ValueFault(dir.args[k], max)]
    <3>1. FirstFault(faults) = "NONE"
      BY <2>2 DEF DataFault
    <3>2. DOMAIN faults = 1..Len(dir.args) /\ faults[i] = ValueFault(token, max)
      OBVIOUS
    <3> HIDE DEF faults
    <3>3. QED
      BY <1>1, <3>1, <3>2, NoFault
  <2>3. QED
    BY <2>1, <2>2
<1> HIDE DEF token
<1>4. CASE token.type = "string"
  <2>1. token.value \in Seq(Byte)
    BY <1>1, <1>4 DEF ArgumentTokens, IntTokens, CharTokens, StringTokens, NameTokens
  <2>2. QED
    BY <1>2, <1>4, <2>1 DEF token
<1>5. CASE token.type = "char"
  <2>1. token.value \in (-1)..(ByteBase - 1)
    BY <1>1, <1>5 DEF ArgumentTokens, IntTokens, CharTokens, StringTokens, NameTokens
  <2>2. token.value >= 0
    BY <1>3, <1>5 DEF ValueFault, Check
  <2>3. token.value \in Byte /\ token.value \in Nat
    BY <2>1, <2>2, ByteBaseAssumption DEF Byte
  <2>4. QED
    BY <1>5, <2>3 DEF token
<1>6. CASE token.type = "int"
  <2>1. token.value \in Nat
    BY <1>1, <1>6 DEF ArgumentTokens, IntTokens, CharTokens, StringTokens, NameTokens
  <2>2. token.value <= max
    BY <1>3, <1>6 DEF ValueFault, Check
  <2>3. dir.name \in {"ascii", "asciiz"} => token.value \in Byte
    BY <2>1, <2>2, ByteBaseAssumption DEF Byte
  <2>4. QED
    BY <1>6, <2>1, <2>3 DEF token
<1>7. QED
  BY <1>2, <1>4, <1>5, <1>6

LEMMA RawDataIsBytes ==
  ASSUME NEW dir, IsDirective(dir), dir.name \in DataDirectives,
         ValidDirective(dir), DataFault(dir) = "NONE"
  PROVE  RawData(dir) \in Seq(Byte)
<1>1. Len(dir.args) \in Nat
  BY DEF IsDirective
<1>2. CASE dir.name \in {"ascii", "asciiz"}
  <2>1. \A i \in 1..Len(dir.args) :
          IF dir.args[i].type = "string" THEN dir.args[i].value \in Seq(Byte)
                                         ELSE dir.args[i].value \in Byte
    BY <1>2, ArgumentsInRange
  <2>2. Characters(dir.args) \in Seq(Byte)
    BY <1>1, <2>1, CharactersAreBytes
  <2>3. 0 \in Byte
    BY ByteBaseAssumption DEF Byte
  <2>4. QED
    BY <1>2, <2>2, <2>3 DEF RawData
<1>3. CASE dir.name = "space"
  <2>1. Len(dir.args) = 1
    BY <1>3 DEF ValidDirective
  <2>2. dir.args[1].value \in Nat
    BY <1>3, <2>1, ArgumentsInRange
  <2>3. 0 \in Byte
    BY ByteBaseAssumption DEF Byte
  <2>4. QED
    BY <1>3, <2>2, <2>3 DEF RawData
<1>4. CASE dir.name \in {"byte", "hword", "word", "dword"}
  <2>1. \A i \in 1..Len(dir.args) : dir.args[i].value \in Nat
    BY <1>4, ArgumentsInRange
  <2>2. ElementSize[dir.name] \in {1, 2, 4, 8}
    BY <1>4 DEF ElementSize
  <2>3. RawData(dir) = Numbers(dir.args, ElementSize[dir.name])
    BY <1>4 DEF RawData
  <2>4. QED
    BY <1>1, <2>1, <2>2, <2>3, NumbersAreBytes
<1>5. QED
  BY <1>2, <1>3, <1>4 DEF DataDirectives

-----------------------------------------------------------------------------
(* The layout of the first pass.                                           *)
IsList(list) == \E T : list \in Seq(T)

LEMMA AppendToList ==
  ASSUME NEW list, IsList(list), NEW e
  PROVE  /\ IsList(Append(list, e))
         /\ Len(list) \in Nat
         /\ Len(Append(list, e)) = Len(list) + 1
         /\ \A i \in 1..Len(list) : Append(list, e)[i] = list[i]
         /\ Append(list, e)[Len(list) + 1] = e
<1>1. PICK T : list \in Seq(T)
  BY DEF IsList
<1>2. list \in Seq(T \cup {e}) /\ e \in T \cup {e}
  BY <1>1
<1>3. Append(list, e) \in Seq(T \cup {e})
  BY <1>2
<1>4. IsList(Append(list, e))
  BY <1>3, Zenon DEF IsList
<1>5. QED
  BY <1>1, <1>4

PendingLines ==
  SourceLines \cup {[line EXCEPT !.label = ""] : line \in SourceLines}

LEMMA PendingAreParsed ==
  /\ \A line \in PendingLines : Parsed(line)
  /\ \A line \in PendingLines : [line EXCEPT !.label = ""] \in PendingLines
BY AssemblerAssumption DEF PendingLines

LEMMA RomSizeType == RomSize \in Nat /\ RomSize > 0 /\ RomSize < WordBase
<1>1. RomSize \in 1..WORD_MAX
  BY AssemblerAssumption
<1>2. QED
  BY <1>1, Bases DEF WORD_MAX

SectionsInRom(list) ==
  \A s \in 1..Len(list) : list[s].address + list[s].size <= RomSize

(* No place moves back from one list of sections to the other.             *)
PlacesKept(old, new) ==
  \A s \in 1..Len(old) :
    /\ new[s].address + new[s].size >= old[s].address + old[s].size
    /\ new[s].size >= old[s].size
    /\ old[s].size > 0 => new[s].address = old[s].address

LEMMA SectionReplaced ==
  ASSUME NEW old \in Seq(AsmSection), SectionsInRom(old),
         NEW c \in 1..Len(old), NEW section \in AsmSection,
         section.size >= old[c].size, section.address >= old[c].address,
         section.address + section.size <= RomSize,
         old[c].size > 0 => section.address = old[c].address
  PROVE  LET new == [old EXCEPT ![c] = section]
         IN  /\ new \in Seq(AsmSection)
             /\ Len(new) = Len(old)
             /\ SectionsInRom(new)
             /\ PlacesKept(old, new)
<1> DEFINE new == [old EXCEPT ![c] = section]
<1>1. new \in Seq(AsmSection) /\ Len(new) = Len(old)
  OBVIOUS
<1>2. \A s \in 1..Len(old) : new[s] = IF s = c THEN section ELSE old[s]
  OBVIOUS
<1>3. \A s \in 1..Len(old) : old[s].size \in Nat /\ old[s].address \in Nat
  <2>1. \A s \in 1..Len(old) : old[s] \in AsmSection
    OBVIOUS
  <2>2. \A x \in AsmSection : x.size \in Nat /\ x.address \in Nat
    BY RomSizeType DEF AsmSection
  <2>3. QED
    BY <2>1, <2>2
<1>4. section.size \in Nat /\ section.address \in Nat
  BY RomSizeType DEF AsmSection
<1> HIDE DEF new
<1>5. SectionsInRom(new)
  BY <1>1, <1>2 DEF SectionsInRom
<1>6. PlacesKept(old, new)
  <2> SUFFICES ASSUME NEW s \in 1..Len(old)
               PROVE  /\ new[s].address + new[s].size >= old[s].address + old[s].size
                      /\ new[s].size >= old[s].size
                      /\ old[s].size > 0 => new[s].address = old[s].address
    BY DEF PlacesKept
  <2>1. CASE s = c
    BY <1>2, <1>3, <1>4, <2>1
  <2>2. CASE s # c
    BY <1>2, <1>3, <2>2
  <2>3. QED
    BY <2>1, <2>2
<1>7. QED
  BY <1>1, <1>5, <1>6 DEF new

(* A power of two fits in the size once more at most, behind it.           *)
LEMMA PaddingGrows ==
  ASSUME NEW size \in Nat, NEW unit \in Nat, unit > 0
  PROVE  /\ ((size + unit - 1) \div unit) * unit \in Nat
         /\ ((size + unit - 1) \div unit) * unit >= size
<1> DEFINE a == size + unit - 1
           q == a \div unit
           r == a % unit
<1>1. a \in Nat
  OBVIOUS
<1>2. q \in Nat /\ r \in Nat /\ r < unit /\ a = unit * q + r
  BY <1>1, DivisionOfNats
<1> HIDE DEF q, r
<1>3. unit * q \in Nat /\ q * unit = unit * q
  BY <1>2
<1>4. q * unit >= size
  BY <1>2, <1>3
<1>5. QED
  BY <1>3, <1>4 DEF q

(* What makes the layout inductive: the lines to come are lines of the     *)
(* source, and the lines recorded are a list.                              *)
LayoutInv ==
  /\ TypeOK
  /\ LayoutApart
  /\ pending \in Seq(PendingLines)
  /\ IsList(lines)

LinesInSections ==
  \A i \in LineIndices : /\ lines[i].section \in SectionIndices
                         /\ lines[i].offset \in Nat
                         /\ lines[i].size \in Nat

LEMMA SectionNumbers ==
  ASSUME NEW list \in Seq(AsmSection), NEW s \in 1..Len(list)
  PROVE  list[s] \in AsmSection /\ list[s].size \in Nat /\ list[s].address \in Nat
<1>1. list[s] \in AsmSection
  OBVIOUS
<1>2. \A x \in AsmSection : x.size \in Nat /\ x.address \in Nat
  BY RomSizeType DEF AsmSection
<1>3. QED
  BY <1>1, <1>2

LEMMA LayoutInit ==
  ASSUME Init
  PROVE  LayoutInv
<1>1. NewSection("text") \in AsmSection
  BY RomSizeType, Bases DEF NewSection, AsmSection, SectionNames, SectionTypes, WORD_MAX
<1>2. sections \in Seq(AsmSection) /\ Len(sections) = 1 /\ current \in SectionIndices
  BY <1>1 DEF Init, SectionIndices
<1>3. SectionsInRom(sections)
  BY RomSizeType DEF Init, NewSection, SectionsInRom
<1>4. Len(lines) = 0 /\ lines \in Seq({})
  BY DEF Init
<1>5. pending \in Seq(PendingLines)
  <2>1. source.lines \in Seq(SourceLines)
    BY DEF Init, Sources
  <2>2. SourceLines \subseteq PendingLines
    BY DEF PendingLines
  <2>3. QED
    BY <2>1, <2>2 DEF Init
<1>6. TypeOK
  BY <1>2, <1>4 DEF Init, TypeOK, Stages, LineIndices
<1>7. LayoutApart
  BY <1>3, <1>4 DEF LayoutApart, SectionsInRom, LineIndices, SectionIndices
<1>8. IsList(lines)
  BY <1>4, Zenon DEF IsList
<1>9. QED
  BY <1>5, <1>6, <1>7, <1>8 DEF LayoutInv

(* Sections may grow at their end without touching a line.                 *)
LEMMA LinesStay ==
  ASSUME LayoutInv, sections' \in Seq(AsmSection), Len(sections') >= Len(sections),
         SectionsInRom(sections'), PlacesKept(sections, sections'), lines' = lines
  PROVE  LayoutApart' /\ LinesInSections' /\ IsList(lines)'
<1>1. Len(sections) \in Nat /\ Len(sections') \in Nat
  BY DEF LayoutInv, TypeOK
<1>2. LinesInSections'
  BY <1>1 DEF LayoutInv, TypeOK, LinesInSections, LineIndices, SectionIndices
<1>3. \A i \in LineIndices :
         lines[i].offset + lines[i].size <= sections'[lines[i].section].size
  <2> SUFFICES ASSUME NEW i \in LineIndices
               PROVE  lines[i].offset + lines[i].size <=
                        sections'[lines[i].section].size
    OBVIOUS
  <2> DEFINE s == lines[i].section
  <2>1. s \in 1..Len(sections) /\ lines[i].offset \in Nat /\ lines[i].size \in Nat
    BY DEF LayoutInv, TypeOK, SectionIndices
  <2>2. lines[i].offset + lines[i].size <= sections[s].size
    BY DEF LayoutInv, LayoutApart
  <2>3. sections'[s].size >= sections[s].size
    BY <2>1 DEF PlacesKept
  <2>4. sections[s].size \in Nat /\ sections'[s].size \in Nat
    <3>1. s \in 1..Len(sections')
      BY <1>1, <2>1
    <3>2. QED
      BY <2>1, <3>1, SectionNumbers DEF LayoutInv, TypeOK
  <2>5. QED
    BY <2>1, <2>2, <2>3, <2>4
<1>4. LayoutApart'
  BY <1>3 DEF LayoutInv, LayoutApart, SectionsInRom, LineIndices, SectionIndices
<1>5. QED
  BY <1>2, <1>4 DEF LayoutInv, IsList

(* A line recorded lies behind all others of its section.                  *)
LEMMA RecordKeeps ==
  ASSUME LayoutInv, NEW statement, NEW bytes, NEW size \in Nat,
         InRom(Grown(size)), Record(statement, bytes, size)
  PROVE  /\ sections' \in Seq(AsmSection)
         /\ Len(sections') = Len(sections)
         /\ PlacesKept(sections, sections')
         /\ LayoutApart' /\ LinesInSections' /\ IsList(lines)'
<1> DEFINE section == Grown(size)
           new == [label |-> ScopedLabel, section |-> current,
                   offset |-> Place.size, size |-> size,
                   statement |-> statement, bytes |-> bytes]
<1>1. sections \in Seq(AsmSection) /\ current \in 1..Len(sections)
  BY DEF LayoutInv, TypeOK, SectionIndices
<1>2. Place \in AsmSection /\ Place.size \in Nat /\ Place.address \in Nat
  BY <1>1, SectionNumbers DEF Place
<1>3. /\ section.size = Place.size + size
      /\ section.address = Place.address
      /\ section.address + section.size <= RomSize
  BY <1>2, RomSizeType DEF Grown, InRom, AsmSection
<1>4. section \in AsmSection
  <2>1. Place.size + size \in 0..RomSize
    BY <1>2, <1>3, RomSizeType
  <2>2. QED
    BY <1>2, <2>1 DEF Grown, AsmSection
<1>5. SectionsInRom(sections)
  BY DEF LayoutInv, LayoutApart, SectionIndices, SectionsInRom
<1>6. sections' = [sections EXCEPT ![current] = section]
  BY DEF Record
<1>7. /\ sections' \in Seq(AsmSection)
      /\ Len(sections') = Len(sections)
      /\ SectionsInRom(sections')
      /\ PlacesKept(sections, sections')
  <2> HIDE DEF section
  <2>1. Place = sections[current]
    BY DEF Place
  <2>2. section.size >= Place.size /\ section.address >= Place.address
    BY <1>2, <1>3
  <2>3. QED
    BY <1>1, <1>3, <1>4, <1>5, <1>6, <2>1, <2>2, SectionReplaced
<1>8. lines' = Append(lines, new)
  BY DEF Record
<1>9. /\ Len(lines) \in Nat /\ Len(lines') = Len(lines) + 1
      /\ \A i \in 1..Len(lines) : lines'[i] = lines[i]
      /\ lines'[Len(lines) + 1] = new
      /\ IsList(lines)'
  <2>1. IsList(Append(lines, new))
    BY AppendToList DEF LayoutInv
  <2>2. IsList(lines)'
    BY <1>8, <2>1 DEF IsList
  <2>3. QED
    BY <1>8, <2>2, AppendToList DEF LayoutInv
<1>10. /\ new.section = current /\ new.offset = Place.size /\ new.size = size
       /\ sections'[current] = section
  BY <1>1, <1>6
<1> HIDE DEF new, section
<1>11. LinesInSections'
  <2> SUFFICES ASSUME NEW i \in 1..Len(lines')
               PROVE  /\ lines'[i].section \in 1..Len(sections')
                      /\ lines'[i].offset \in Nat /\ lines'[i].size \in Nat
    BY DEF LinesInSections, LineIndices, SectionIndices
  <2>1. CASE i = Len(lines) + 1
    BY <1>1, <1>2, <1>7, <1>9, <1>10, <2>1
  <2>2. CASE i # Len(lines) + 1
    <3>1. i \in 1..Len(lines)
      BY <1>9, <2>2
    <3>2. QED
      BY <1>7, <1>9, <3>1 DEF LayoutInv, TypeOK, LineIndices, SectionIndices
  <2>3. QED
    BY <2>1, <2>2
<1>12. \A i \in 1..Len(lines) :
         /\ lines[i].section \in 1..Len(sections)
         /\ lines[i].offset \in Nat /\ lines[i].size \in Nat
         /\ lines[i].offset + lines[i].size <= sections[lines[i].section].size
  BY DEF LayoutInv, TypeOK, LayoutApart, LineIndices, SectionIndices
<1>13. ASSUME NEW i \in 1..Len(lines')
       PROVE  /\ lines'[i].offset + lines'[i].size <=
                    sections'[lines'[i].section].size
              /\ \A j \in 1..(i - 1) :
                   lines'[j].section = lines'[i].section =>
                     lines'[j].offset + lines'[j].size <= lines'[i].offset
  <2>1. CASE i = Len(lines) + 1
    <3>1. lines'[i] = new
      BY <1>9, <2>1
    <3>2. new.offset + new.size <= sections'[new.section].size
      BY <1>2, <1>3, <1>10
    <3>3. ASSUME NEW j \in 1..(i - 1), lines'[j].section = new.section
          PROVE  lines'[j].offset + lines'[j].size <= new.offset
      <4>1. j \in 1..Len(lines)
        BY <1>9, <2>1
      <4>2. QED
        BY <1>9, <1>10, <1>12, <3>3, <4>1 DEF Place
    <3>4. QED
      BY <3>1, <3>2, <3>3
  <2>2. CASE i # Len(lines) + 1
    <3>1. i \in 1..Len(lines) /\ lines'[i] = lines[i]
      BY <1>9, <2>2
    <3>2. lines[i].offset + lines[i].size <= sections'[lines[i].section].size
      <4> DEFINE s == lines[i].section
      <4>1. sections[s].size \in Nat /\ sections'[s].size \in Nat
        BY <1>1, <1>7, <1>12, <3>1, SectionNumbers
      <4>2. sections'[s].size >= sections[s].size
        BY <1>7, <1>12, <3>1 DEF PlacesKept
      <4>3. /\ lines[i].offset + lines[i].size <= sections[s].size
            /\ lines[i].offset \in Nat /\ lines[i].size \in Nat
        BY <1>12, <3>1
      <4> HIDE DEF s
      <4>4. lines[i].offset + lines[i].size <= sections'[s].size
        BY <4>1, <4>2, <4>3
      <4>5. QED
        BY <4>4 DEF s
    <3>3. \A j \in 1..(i - 1) : j \in 1..Len(lines) /\ lines'[j] = lines[j]
      BY <1>9, <3>1
    <3>4. \A j \in 1..(i - 1) :
            lines[j].section = lines[i].section =>
              lines[j].offset + lines[j].size <= lines[i].offset
      BY <3>1 DEF LayoutInv, LayoutApart, LineIndices
    <3>5. QED
      BY <3>1, <3>2, <3>3, <3>4
  <2>3. QED
    BY <2>1, <2>2
<1>14. LayoutApart'
  BY <1>7, <1>13 DEF LayoutApart, SectionsInRom, LineIndices, SectionIndices
<1>15. QED
  BY <1>7, <1>9, <1>11, <1>14

LEMMA HeadIsParsed ==
  ASSUME LayoutInv, Reading
  PROVE  /\ Line \in PendingLines
         /\ Tail(pending) \in Seq(PendingLines)
         /\ Parsed(Line)
<1>1. pending \in Seq(PendingLines) /\ pending # << >>
  BY DEF LayoutInv, Reading
<1>2. Line \in PendingLines /\ Tail(pending) \in Seq(PendingLines)
  BY <1>1 DEF Line
<1>3. QED
  BY <1>2, PendingAreParsed

(* What an accepted line says of its directive.                            *)
LEMMA DirectiveAccepted ==
  ASSUME LayoutInv, NEW names, AtDirective(names)
  PROVE  /\ IsDirective(Line)
         /\ ValidDirective(Line)
         /\ Line.name \in names
         /\ Line.name \in DataDirectives =>
              /\ RawData(Line) \in Seq(Byte)
              /\ InRom(Grown(Len(RawData(Line))))
         /\ Line.name \notin DataDirectives \cup {"proc"} => LayoutHolds
<1>1. IsDirective(Line)
  BY HeadIsParsed DEF AtDirective, Accepted, Parsed, IsStatement
<1>2. ValidDirective(Line)
  BY DEF AtDirective, Accepted, LineFault, Reading
<1>3. ASSUME Line.name \in DataDirectives
      PROVE  /\ RawData(Line) \in Seq(Byte)
             /\ InRom(Grown(Len(RawData(Line))))
  <2>1. FirstFault(<<DataFault(Line),
                     Check(InRom(Grown(Len(RawData(Line)))), "SECTION_ERROR")>>)
          = "NONE"
    BY <1>2, <1>3 DEF AtDirective, Accepted, LineFault
  <2>2. DataFault(Line) = "NONE"
    BY <2>1, NoFaultOfTwo
  <2>3. Check(InRom(Grown(Len(RawData(Line)))), "SECTION_ERROR") = "NONE"
    BY <2>1, NoFaultOfTwo
  <2>4. InRom(Grown(Len(RawData(Line))))
    BY <2>3 DEF Check
  <2>5. RawData(Line) \in Seq(Byte)
    BY <1>1, <1>2, <1>3, <2>2, RawDataIsBytes
  <2>6. QED
    BY <2>4, <2>5
<1>4. Line.name \notin DataDirectives \cup {"proc"} => LayoutHolds
  BY <1>2 DEF AtDirective, Accepted, LineFault, Check
<1>5. QED
  BY <1>1, <1>2, <1>3, <1>4 DEF AtDirective

(* What every step of the first pass shows.                                *)
LayoutStep ==
  /\ sections' \in Seq(AsmSection)
  /\ Len(sections') >= Len(sections)
  /\ PlacesKept(sections, sections')
  /\ LayoutApart' /\ LinesInSections' /\ IsList(lines)'

LEMMA StatementStep ==
  ASSUME LayoutInv, ReadStatement
  PROVE  LayoutInv' /\ LayoutStep
<1>1. INSTRUCTION_SIZE \in Nat
  BY DEF INSTRUCTION_SIZE
<1>2. InRom(Grown(INSTRUCTION_SIZE))
  BY DEF ReadStatement, Accepted, LineFault, Check
<1>3. Record(Line, << >>, INSTRUCTION_SIZE)
  BY DEF ReadStatement
<1>4. LayoutStep
  BY <1>1, <1>2, <1>3, RecordKeeps DEF LayoutStep, LayoutInv, TypeOK
<1>5. pending' \in Seq(PendingLines)
  BY HeadIsParsed DEF ReadStatement, Accepted, Record, LineRead
<1>6. TypeOK'
  BY <1>3, <1>4, RecordKeeps, <1>1, <1>2
    DEF LayoutInv, TypeOK, LayoutStep, LinesInSections, Record, LineRead, SectionIndices
<1>7. QED
  BY <1>4, <1>5, <1>6 DEF LayoutInv, LayoutStep

LEMMA DataStep ==
  ASSUME LayoutInv, ReadData
  PROVE  LayoutInv' /\ LayoutStep
<1> DEFINE size == Len(RawData(Line))
<1>1. AtDirective(DataDirectives) /\ Record(NoToken, RawData(Line), size)
  BY DEF ReadData
<1>2. RawData(Line) \in Seq(Byte) /\ InRom(Grown(size))
  BY <1>1, DirectiveAccepted
<1>3. size \in Nat
  BY <1>2
<1> HIDE DEF size
<1>4. LayoutStep /\ Len(sections') = Len(sections)
  BY <1>1, <1>2, <1>3, RecordKeeps DEF LayoutStep, LayoutInv, TypeOK
<1>5. pending' \in Seq(PendingLines)
  BY <1>1, HeadIsParsed DEF AtDirective, Accepted, Record, LineRead
<1>6. TypeOK'
  BY <1>1, <1>4
    DEF LayoutInv, TypeOK, LayoutStep, LinesInSections, Record, LineRead, SectionIndices
<1>7. QED
  BY <1>4, <1>5, <1>6 DEF LayoutInv, LayoutStep

(* A step that replaces the current section by one that goes further.      *)
LEMMA PlaceStep ==
  ASSUME LayoutInv, Accepted, NEW section \in AsmSection,
         section.size >= Place.size, section.address >= Place.address,
         section.address + section.size <= RomSize,
         Place.size > 0 => section.address = Place.address,
         sections' = [sections EXCEPT ![current] = section],
         UNCHANGED <<current, lines>>, LineRead
  PROVE  LayoutInv' /\ LayoutStep
<1>1. sections \in Seq(AsmSection) /\ current \in 1..Len(sections)
  BY DEF LayoutInv, TypeOK, SectionIndices
<1>2. SectionsInRom(sections)
  BY DEF LayoutInv, LayoutApart, SectionIndices, SectionsInRom
<1>3. /\ sections' \in Seq(AsmSection)
      /\ Len(sections') = Len(sections)
      /\ SectionsInRom(sections')
      /\ PlacesKept(sections, sections')
  BY <1>1, <1>2, SectionReplaced DEF Place
<1>4. LayoutApart' /\ LinesInSections' /\ IsList(lines)'
  BY <1>3, LinesStay
<1>5. LayoutStep
  BY <1>3, <1>4 DEF LayoutStep
<1>6. pending' \in Seq(PendingLines)
  BY HeadIsParsed DEF Accepted, LineRead
<1>7. TypeOK'
  BY <1>1, <1>3, <1>4 DEF LayoutInv, TypeOK, LinesInSections, LineRead, SectionIndices
<1>8. QED
  BY <1>4, <1>5, <1>6, <1>7 DEF LayoutInv

LEMMA PlaceType ==
  ASSUME LayoutInv
  PROVE  /\ Place \in AsmSection
         /\ Place.size \in Nat /\ Place.address \in Nat
         /\ Place.address + Place.size <= RomSize
<1>1. sections \in Seq(AsmSection) /\ current \in 1..Len(sections)
  BY DEF LayoutInv, TypeOK, SectionIndices
<1>2. QED
  BY <1>1, SectionNumbers DEF Place, LayoutInv, LayoutApart, SectionIndices

LEMMA Resized ==
  ASSUME NEW p \in AsmSection, NEW size \in 0..RomSize,
         NEW alignment \in 1..WORD_MAX
  PROVE  [p EXCEPT !.size = size, !.alignment = alignment] \in AsmSection
BY DEF AsmSection

LEMMA AlignStep ==
  ASSUME LayoutInv, AlignSection
  PROVE  LayoutInv' /\ LayoutStep
<1> DEFINE section == Padded(Arg)
           unit == Arg
<1>1. AtDirective({"align"}) /\ Accepted
  BY DEF AlignSection, AtDirective
<1>2. Line.name = "align"
  BY <1>1 DEF AtDirective
<1>3. LayoutHolds
  BY <1>1, <1>2, DirectiveAccepted DEF DataDirectives
<1>4. unit \in 1..WORD_MAX /\ InRom(section)
  BY <1>2, <1>3 DEF LayoutHolds, PowerOfTwo
<1>5. unit \in Nat /\ unit > 0
  BY <1>4, Bases DEF WORD_MAX
<1> DEFINE size == ((Place.size + unit - 1) \div unit) * unit
           alignment == IF Place.alignment < unit THEN unit ELSE Place.alignment
<1> HIDE DEF unit
<1>6. section = [Place EXCEPT !.size = size, !.alignment = alignment]
  BY DEF Padded, unit
<1>7. size \in Nat /\ size >= Place.size
  BY <1>5, PlaceType, PaddingGrows
<1>8. sections' = [sections EXCEPT ![current] = section]
  BY DEF AlignSection
<1>9. UNCHANGED <<current, lines>> /\ LineRead
  BY DEF AlignSection
<1>10. section.address <= RomSize /\ section.size <= RomSize - section.address
  BY <1>4 DEF InRom
<1>11. alignment \in 1..WORD_MAX
  BY <1>4, PlaceType DEF AsmSection
<1> HIDE DEF section, size, alignment
<1>12. section.size = size /\ section.address = Place.address
  BY <1>6, PlaceType DEF AsmSection
<1>13. section.address + section.size <= RomSize /\ size \in 0..RomSize
  BY <1>7, <1>10, <1>12, PlaceType, RomSizeType
<1>14. section \in AsmSection
  BY <1>6, <1>11, <1>13, PlaceType, Resized
<1>15. section.address >= Place.address /\ section.size >= Place.size
  BY <1>7, <1>12, PlaceType
<1>16. QED
  BY <1>1, <1>8, <1>9, <1>12, <1>13, <1>14, <1>15, PlaceStep DEF section

LEMMA LocateStep ==
  ASSUME LayoutInv, Locate
  PROVE  LayoutInv' /\ LayoutStep
<1> DEFINE section == MovedTo(Arg)
           target == Arg
<1>1. AtDirective({"locate"}) /\ Accepted
  BY DEF Locate, AtDirective
<1>2. Line.name = "locate"
  BY <1>1 DEF AtDirective
<1>3. LayoutHolds
  BY <1>1, <1>2, DirectiveAccepted DEF DataDirectives
<1>4. LocationAhead(target) /\ InRom(section)
  BY <1>2, <1>3 DEF LayoutHolds
<1>5. target \in Nat
  <2>1. IsDirective(Line) /\ ValidDirective(Line)
    BY <1>1, DirectiveAccepted
  <2>2. Len(Line.args) = 1 /\ Line.args[1].type = "int"
    BY <1>2, <2>1 DEF ValidDirective
  <2>3. Line.args[1] \in ArgumentTokens
    BY <2>1, <2>2 DEF IsDirective
  <2>4. QED
    BY <2>2, <2>3
      DEF Arg, ArgumentTokens, IntTokens, CharTokens, StringTokens, NameTokens
<1> HIDE DEF target
<1>6. target >= Place.address + Place.size
  BY <1>4 DEF LocationAhead
<1>7. section = IF Place.size = 0
                  THEN [Place EXCEPT !.address = target, !.located = TRUE]
                  ELSE [Place EXCEPT !.size = target - Place.address]
  BY DEF MovedTo, target
<1>8. section.address <= RomSize /\ section.size <= RomSize - section.address
  BY <1>4 DEF InRom
<1> HIDE DEF section
<1>9. /\ section \in AsmSection
      /\ section.size >= Place.size /\ section.address >= Place.address
      /\ section.address + section.size <= RomSize
      /\ Place.size > 0 => section.address = Place.address
  <2>1. CASE Place.size = 0
    <3>1. section = [Place EXCEPT !.address = target, !.located = TRUE]
      BY <1>7, <2>1
    <3>2. section.size = 0 /\ section.address = target
      BY <2>1, <3>1, PlaceType DEF AsmSection
    <3>3. target \in 0..RomSize
      BY <1>5, <1>8, <3>2, RomSizeType
    <3>4. section \in AsmSection
      BY <3>1, <3>3, PlaceType DEF AsmSection
    <3>5. QED
      BY <1>5, <1>6, <2>1, <3>2, <3>3, <3>4, PlaceType, RomSizeType
  <2>2. CASE Place.size # 0
    <3>1. section = [Place EXCEPT !.size = target - Place.address]
      BY <1>7, <2>2
    <3>2. section.size = target - Place.address /\ section.address = Place.address
      BY <3>1, PlaceType DEF AsmSection
    <3>3. section.size \in 0..RomSize
      BY <1>5, <1>6, <1>8, <3>2, PlaceType, RomSizeType
    <3>4. section \in AsmSection
      BY <3>1, <3>2, <3>3, PlaceType DEF AsmSection
    <3>5. QED
      BY <1>5, <1>6, <1>8, <3>2, <3>3, <3>4, PlaceType, RomSizeType
  <2>3. QED
    BY <2>1, <2>2
<1>10. sections' = [sections EXCEPT ![current] = section]
  BY DEF Locate, section
<1>11. UNCHANGED <<current, lines>> /\ LineRead
  BY DEF Locate
<1>12. QED
  BY <1>1, <1>9, <1>10, <1>11, PlaceStep

LEMMA SelectStep ==
  ASSUME LayoutInv, SelectSection
  PROVE  LayoutInv' /\ LayoutStep
<1>1. AtDirective({"section"}) /\ Accepted
  BY DEF SelectSection, AtDirective
<1>2. Arg \in SectionNames
  <2>1. Line.name = "section"
    BY <1>1 DEF AtDirective
  <2>2. QED
    BY <1>1, <2>1, DirectiveAccepted DEF DataDirectives, LayoutHolds
<1>3. NewSection(Arg) \in AsmSection
  <2>1. NewSection(Arg).type \in SectionTypes
    BY DEF NewSection, SectionTypes
  <2>2. 1 \in 1..WORD_MAX
    BY Bases DEF WORD_MAX
  <2>3. QED
    BY <1>2, <2>1, <2>2, RomSizeType DEF NewSection, AsmSection
<1>4. sections \in Seq(AsmSection) /\ current \in 1..Len(sections)
      /\ SectionsInRom(sections)
  BY DEF LayoutInv, TypeOK, LayoutApart, SectionIndices, SectionsInRom
<1>5. \A s \in 1..Len(sections) :
        sections[s].size \in Nat /\ sections[s].address \in Nat
  BY <1>4, SectionNumbers
<1>6. /\ sections' \in Seq(AsmSection)
      /\ Len(sections') >= Len(sections)
      /\ \A s \in 1..Len(sections) : sections'[s] = sections[s]
      /\ current' \in 1..Len(sections')
      /\ SectionsInRom(sections')
  <2>1. CASE Named(Arg) = {}
    <3>1. sections' = Append(sections, NewSection(Arg)) /\ current' = Len(sections) + 1
      BY <2>1 DEF SelectSection
    <3>2. NewSection(Arg).address + NewSection(Arg).size <= RomSize
      BY RomSizeType DEF NewSection
    <3> HIDE DEF NewSection
    <3>3. QED
      BY <1>3, <1>4, <3>1, <3>2 DEF SectionsInRom
  <2>2. CASE Named(Arg) # {}
    <3>1. sections' = sections /\ current' \in Named(Arg)
      BY <2>2 DEF SelectSection
    <3>2. QED
      BY <1>4, <3>1 DEF Named
  <2>3. QED
    BY <2>1, <2>2
<1>7. PlacesKept(sections, sections')
  BY <1>5, <1>6 DEF PlacesKept
<1>8. lines' = lines /\ LineRead
  BY DEF SelectSection
<1>9. LayoutStep
  BY <1>6, <1>7, <1>8, LinesStay DEF LayoutStep
<1>10. pending' \in Seq(PendingLines)
  BY <1>1, <1>8, HeadIsParsed DEF Accepted, LineRead
<1>11. TypeOK'
  BY <1>6, <1>8, <1>9
    DEF LayoutInv, TypeOK, LayoutStep, LinesInSections, LineRead, SectionIndices
<1>12. QED
  BY <1>9, <1>10, <1>11 DEF LayoutInv, LayoutStep

(* All other steps leave the sections and the lines.                       *)
LEMMA PlacesAreKept ==
  ASSUME LayoutInv, UNCHANGED <<sections, current, lines>>
  PROVE  LayoutStep
<1>1. \A s \in 1..Len(sections) :
        sections[s].size \in Nat /\ sections[s].address \in Nat
  BY SectionNumbers DEF LayoutInv, TypeOK
<1>2. PlacesKept(sections, sections')
  BY <1>1 DEF PlacesKept
<1>3. sections' \in Seq(AsmSection) /\ Len(sections') >= Len(sections)
  BY DEF LayoutInv, TypeOK
<1>4. SectionsInRom(sections')
  BY DEF LayoutInv, LayoutApart, SectionsInRom, SectionIndices
<1>5. QED
  BY <1>2, <1>3, <1>4, LinesStay DEF LayoutStep

LEMMA PlacesLeft ==
  ASSUME LayoutInv, UNCHANGED <<sections, current, lines>>,
         pending' \in Seq(PendingLines), stage' \in Stages,
         at' \in Nat \ {0}, address' \in Nat
  PROVE  LayoutInv' /\ LayoutStep
<1>1. LayoutStep
  BY PlacesAreKept
<1>2. TypeOK'
  BY <1>1 DEF LayoutInv, TypeOK, LayoutStep, LinesInSections, SectionIndices
<1>3. QED
  BY <1>1, <1>2 DEF LayoutInv, LayoutStep

LEMMA DeclarationStep ==
  ASSUME LayoutInv, DeclareSymbol \/ EndProcedure
  PROVE  LayoutInv' /\ LayoutStep
<1>1. /\ Reading /\ UNCHANGED <<sections, current, lines, stage, at, address>>
      /\ pending' = Tail(pending)
  BY DEF DeclareSymbol, EndProcedure, AtDirective, Accepted, LineRead, context
<1>2. pending' \in Seq(PendingLines)
  BY <1>1, HeadIsParsed
<1>3. QED
  BY <1>1, <1>2, PlacesLeft DEF LayoutInv, TypeOK

LEMMA HeadReplaced ==
  ASSUME NEW T, NEW list \in Seq(T), NEW e \in T
  PROVE  [list EXCEPT ![1] = e] \in Seq(T)
<1> DEFINE n == Len(list)
           new == [list EXCEPT ![1] = e]
<1>1. n \in Nat /\ list \in [1..n -> T]
  OBVIOUS
<1>2. new \in [1..n -> T]
  BY <1>1
<1>3. QED
  BY <1>1, <1>2

LEMMA ProcedureStep ==
  ASSUME LayoutInv, BeginProcedure
  PROVE  LayoutInv' /\ LayoutStep
<1>1. Reading /\ Accepted /\ Line.type = "dir" /\ Line.name = "proc"
  BY DEF BeginProcedure, AtDirective, Accepted
<1>2. Tail(pending) \in Seq(PendingLines)
  BY <1>1, HeadIsParsed
<1>3. Len(pending) > 1
  <2>1. IsDirective(Line) /\ ValidDirective(Line)
    BY DirectiveAccepted DEF BeginProcedure
  <2>2. QED
    BY <1>1, <2>1 DEF Accepted, LineFault, DataDirectives, Check
<1>4. 1 \in 1..Len(Tail(pending))
  BY <1>3 DEF LayoutInv
<1>5. Tail(pending)[1] \in PendingLines
  BY <1>2, <1>4
<1>6. [Tail(pending)[1] EXCEPT !.label = ""] \in PendingLines
  BY <1>5, PendingAreParsed
<1>7. pending' = [Tail(pending) EXCEPT ![1] = [Tail(pending)[1] EXCEPT !.label = ""]]
  BY <1>4 DEF BeginProcedure
<1>8. pending' \in Seq(PendingLines)
  BY <1>2, <1>6, <1>7, HeadReplaced
<1>9. UNCHANGED <<sections, current, lines, stage, at, address>>
  BY DEF BeginProcedure, context
<1>10. QED
  BY <1>8, <1>9, PlacesLeft DEF LayoutInv, TypeOK

LEMMA FailStep ==
  ASSUME LayoutInv, NEW code, Fail(code)
  PROVE  LayoutInv' /\ LayoutStep
<1>1. /\ UNCHANGED <<sections, current, lines, pending, at, address>>
      /\ stage' = "done"
  BY DEF Fail, context
<1>2. QED
  BY <1>1, PlacesLeft DEF LayoutInv, TypeOK, Stages

LEMMA ItemStep ==
  ASSUME LayoutInv, NextItem, address' \in Nat
  PROVE  LayoutInv' /\ LayoutStep
<1>1. UNCHANGED <<sections, current, lines, pending, stage>> /\ at' = at + 1
  BY DEF NextItem, context
<1>2. QED
  BY <1>1, PlacesLeft DEF LayoutInv, TypeOK

LEMMA LoopEnds ==
  ASSUME LayoutInv, EndLoop
  PROVE  LayoutInv' /\ LayoutStep
<1>1. UNCHANGED <<sections, current, lines, pending, address>> /\ at' = 1
  BY DEF EndLoop, context
<1>2. stage' \in Stages
  BY DEF EndLoop, Following, Stages
<1>3. QED
  BY <1>1, <1>2, PlacesLeft DEF LayoutInv, TypeOK

LEMMA NumberStep ==
  ASSUME LayoutInv, NumberLine
  PROVE  LayoutInv' /\ LayoutStep
<1>1. at \in LineIndices
  BY DEF NumberLine, InLoop, Items, LayoutInv, TypeOK, LineIndices, IsList
<1>2. Item.size \in Nat
  BY <1>1 DEF NumberLine, InLoop, Item, Items, LayoutInv, TypeOK
<1>3. address' \in Nat
  BY <1>2 DEF NumberLine, LayoutInv, TypeOK
<1>4. QED
  BY <1>3, ItemStep DEF NumberLine

(* The steps of an item that count nothing.                                *)
LEMMA EmittingSteps ==
  ASSUME LayoutInv,
         \/ Translate \/ LabelSymbol \/ PassUnlabelled \/ ExportSymbol
         \/ ImportSymbol \/ EmitData \/ EmitInstruction \/ EmitReference
  PROVE  NextItem /\ address' = address
BY DEF Translate, LabelSymbol, PassUnlabelled, ExportSymbol, ImportSymbol, AddSymbol,
       EmitData, EmitInstruction, EmitReference

LEMMA ReturnSteps ==
  ASSUME LayoutInv, ReturnRaw \/ Encode
  PROVE  LayoutInv' /\ LayoutStep
<1>1. UNCHANGED <<sections, current, lines, pending, at, address>> /\ stage' = "done"
  BY DEF ReturnRaw, Encode, context
<1>2. QED
  BY <1>1, PlacesLeft DEF LayoutInv, TypeOK, Stages

LEMMA LayoutNext ==
  ASSUME LayoutInv, [Next]_vars
  PROVE  LayoutInv' /\ LayoutStep
<1>1. CASE ReadStatement
  BY <1>1, StatementStep
<1>2. CASE ReadData
  BY <1>2, DataStep
<1>3. CASE SelectSection
  BY <1>3, SelectStep
<1>4. CASE AlignSection
  BY <1>4, AlignStep
<1>5. CASE Locate
  BY <1>5, LocateStep
<1>6. CASE DeclareSymbol \/ EndProcedure
  BY <1>6, DeclarationStep
<1>7. CASE BeginProcedure
  BY <1>7, ProcedureStep
<1>8. CASE \/ RejectLine \/ DuplicateLabel \/ RejectRaw \/ UndefinedGlobal
           \/ RejectObject \/ OutOfMemory
  <2>1. PICK code : Fail(code)
    BY <1>8, Zenon DEF RejectLine, DuplicateLabel, RejectRaw, UndefinedGlobal,
                       RejectObject, OutOfMemory
  <2>2. QED
    BY <2>1, FailStep
<1>9. CASE EndLoop
  BY <1>9, LoopEnds
<1>10. CASE NumberLine
  BY <1>10, NumberStep
<1>11. CASE \/ Translate \/ LabelSymbol \/ PassUnlabelled \/ ExportSymbol
            \/ ImportSymbol \/ EmitData \/ EmitInstruction \/ EmitReference
  <2>1. NextItem /\ address' = address
    BY <1>11, EmittingSteps
  <2>2. address' \in Nat
    BY <2>1 DEF LayoutInv, TypeOK
  <2>3. QED
    BY <2>1, <2>2, ItemStep
<1>12. CASE ReturnRaw \/ Encode
  BY <1>12, ReturnSteps
<1>13. CASE UNCHANGED vars
  <2>1. UNCHANGED <<sections, current, lines, pending, stage, at, address>>
    BY <1>13 DEF vars, context
  <2>2. QED
    BY <2>1, PlacesLeft DEF LayoutInv, TypeOK
<1>14. QED
  BY <1>1, <1>2, <1>3, <1>4, <1>5, <1>6, <1>7, <1>8, <1>9, <1>10, <1>11,
     <1>12, <1>13 DEF Next, Proceed

(* Every line is in a section that exists, at an offset that has been      *)
(* counted, whatever the source selects, declares and moves.               *)
(* Code: struct AssemblerContext and the line records of the assembler.    *)
THEOREM TypeCorrect == Spec => []TypeOK
<1>1. Init => LayoutInv
  BY LayoutInit
<1>2. LayoutInv /\ [Next]_vars => LayoutInv'
  BY LayoutNext
<1>3. LayoutInv => TypeOK
  BY DEF LayoutInv
<1>4. QED
  BY <1>1, <1>2, <1>3, PTL DEF Spec

(* However a source mixes sections, alignments and locations, its lines    *)
(* lie apart in their sections, and these in the ROM.                      *)
(* Code: record_line, select_section, validate_section_range and .locate.  *)
THEOREM LayoutApartAlways == Spec => []LayoutApart
<1>1. Init => LayoutInv
  BY LayoutInit
<1>2. LayoutInv /\ [Next]_vars => LayoutInv'
  BY LayoutNext
<1>3. LayoutInv => LayoutApart
  BY DEF LayoutInv
<1>4. QED
  BY <1>1, <1>2, <1>3, PTL DEF Spec

(* Locations never move backwards, for no section and in no step.          *)
(* Code: DIR_LOCATE and DIR_ALIGN in asm_processDirectives.                *)
THEOREM LocationsNeverMoveBackAlways == Spec => LocationsNeverMoveBack
<1>1. Init => LayoutInv
  BY LayoutInit
<1>2. LayoutInv /\ [Next]_vars => LayoutInv'
  BY LayoutNext
<1>3. LayoutInv /\ [Next]_vars =>
        [stage = "directives" => \A s \in SectionIndices :
           /\ sections'[s].address + sections'[s].size >=
                sections[s].address + sections[s].size
           /\ sections[s].size > 0 =>
                sections'[s].address = sections[s].address]_vars
  BY LayoutNext DEF LayoutStep, PlacesKept, SectionIndices
<1>4. QED
  BY <1>1, <1>2, <1>3, PTL DEF Spec, LocationsNeverMoveBack

-----------------------------------------------------------------------------
(* A raw image is its source, for every source: the instructions decode to *)
(* the statements, and labels stand for the places of their lines.         *)

(* The code of a name is its place in the list.                            *)
LEMMA CodeOfName ==
  ASSUME NEW names, Len(names) \in Nat, NEW name,
         \E i \in 1..Len(names) : names[i] = name
  PROVE  /\ CodeIn(names, name) \in 0..(Len(names) - 1)
         /\ names[CodeIn(names, name) + 1] = name
<1> DEFINE i == CHOOSE j \in 1..Len(names) : names[j] = name
<1>1. i \in 1..Len(names) /\ names[i] = name
  OBVIOUS
<1>2. CodeIn(names, name) = i - 1
  BY DEF CodeIn
<1> HIDE DEF i
<1>3. QED
  BY <1>1, <1>2

LEMMA KnownOpcodesHaveCodes ==
  ASSUME NEW op \in KnownOpcodes
  PROVE  \E i \in 1..56 : Opcodes[i] = op
<1>1. CASE op \in Plain \cup Immediate0
  BY <1>1 DEF Plain, Immediate0, Opcodes
<1>2. CASE op \in Unary \cup Accesses
  BY <1>2 DEF Unary, Accesses, Opcodes
<1>3. CASE op \in Binary
  BY <1>3 DEF Binary, Opcodes
<1>4. CASE op \in Immediate1
  BY <1>4 DEF Immediate1, Opcodes
<1>5. QED
  BY <1>1, <1>2, <1>3, <1>4 DEF KnownOpcodes

LEMMA OpcodeCode ==
  ASSUME NEW op \in KnownOpcodes
  PROVE  /\ CodeIn(Opcodes, op) \in Byte
         /\ OpcodeOf(CodeIn(Opcodes, op)) = op
<1>1. Len(Opcodes) = 56
  BY DEF Opcodes
<1>2. /\ CodeIn(Opcodes, op) \in 0..55
      /\ Opcodes[CodeIn(Opcodes, op) + 1] = op
  <2> DEFINE i == CHOOSE j \in 1..Len(Opcodes) : Opcodes[j] = op
  <2>1. i \in 1..56 /\ Opcodes[i] = op
    BY <1>1, KnownOpcodesHaveCodes
  <2>2. CodeIn(Opcodes, op) = i - 1
    BY DEF CodeIn
  <2> HIDE DEF i
  <2>3. i = (i - 1) + 1 /\ i - 1 \in 0..55
    BY <2>1
  <2>4. QED
    BY <2>1, <2>2, <2>3
<1>3. ByteBase \in Nat /\ ByteBase >= 56
  BY AssemblerAssumption, ByteBaseAssumption DEF OPCODE_TOTAL
<1>4. QED
  BY <1>2, <1>3 DEF OpcodeOf, OPCODE_TOTAL, Byte

LEMMA ConditionNamesHaveCodes ==
  ASSUME NEW name \in DOMAIN ConditionNames
  PROVE  \E i \in 1..17 : Conditions[i] = ConditionNames[name]
BY DEF ConditionNames, Conditions

LEMMA ConditionCode ==
  ASSUME NEW cond, \E i \in 1..17 : Conditions[i] = cond
  PROVE  /\ CodeIn(Conditions, cond) \in Byte
         /\ ConditionOf(CodeIn(Conditions, cond)) = cond
<1>1. Len(Conditions) = 17 /\ Len(Conditions) \in Nat
  BY DEF Conditions
<1>2. /\ CodeIn(Conditions, cond) \in 0..16
      /\ Conditions[CodeIn(Conditions, cond) + 1] = cond
  <2>1. \E i \in 1..Len(Conditions) : Conditions[i] = cond
    BY <1>1
  <2>2. /\ CodeIn(Conditions, cond) \in 0..(Len(Conditions) - 1)
        /\ Conditions[CodeIn(Conditions, cond) + 1] = cond
    BY <1>1, <2>1, CodeOfName
  <2>3. QED
    BY <1>1, <2>2
<1>3. ByteBase \in Nat /\ ByteBase >= 56
  BY AssemblerAssumption, ByteBaseAssumption DEF OPCODE_TOTAL
<1>4. QED
  BY <1>2, <1>3 DEF ConditionOf, C_TOTAL, Byte
LEMMA RegisterCodeType ==
  ASSUME NEW st, st.registers \in Seq(RegisterTokens),
         \A i \in 1..Len(st.registers) : KnownRegister(st.registers[i]),
         NEW i \in {1, 2}
  PROVE  RegisterCode(st, i) \in Byte
<1> DEFINE token == st.registers[i]
<1>1. ByteBase \in Nat /\ ByteBase >= 56
  BY AssemblerAssumption, ByteBaseAssumption DEF OPCODE_TOTAL
<1>2. CASE i > Len(st.registers)
  BY <1>1, <1>2 DEF RegisterCode, Byte
<1>3. CASE ~(i > Len(st.registers))
  <2>1. i \in 1..Len(st.registers)
    BY <1>3
  <2>2. token \in RegisterTokens /\ KnownRegister(token)
    BY <2>1
  <2>3. RegisterCode(st, i) = IF token.type = "number" THEN token.value
                              ELSE CodeIn(RegisterNames, token.value)
    BY <1>3 DEF RegisterCode
  <2> HIDE DEF token
  <2>4. CASE token.type = "number"
    <3>1. token.value \in Nat /\ token.value < 32
      BY <2>2, <2>4 DEF RegisterTokens, KnownRegister, REGISTER_COUNT
    <3>2. token.value \in Byte
      BY <1>1, <3>1 DEF Byte
    <3>3. RegisterCode(st, i) = token.value
      BY <2>3, <2>4
    <3>4. QED
      BY <3>2, <3>3
  <2>5. CASE token.type # "number"
    <3>1. Len(RegisterNames) = 32 /\ Len(RegisterNames) \in Nat
      BY DEF RegisterNames
    <3>2. \E k \in 1..Len(RegisterNames) : RegisterNames[k] = token.value
      BY <2>2, <2>5, <3>1 DEF KnownRegister, REGISTER_COUNT
    <3>3. CodeIn(RegisterNames, token.value) \in 0..(Len(RegisterNames) - 1)
      BY <3>1, <3>2, CodeOfName, Zenon
    <3>4. RegisterCode(st, i) = CodeIn(RegisterNames, token.value)
      BY <2>3, <2>5
    <3>5. RegisterCode(st, i) \in 0..31
      BY <3>1, <3>3, <3>4
    <3>6. \A c \in 0..31 : c \in Byte
      BY <1>1 DEF Byte
    <3>7. QED
      BY <3>5, <3>6, Zenon
  <2>6. QED
    BY <2>4, <2>5
<1>4. QED
  BY <1>2, <1>3

(* A character becomes the word of its signed value.                       *)
LEMMA CharacterWord ==
  ASSUME NEW b \in Byte
  PROVE  /\ ToWord(CharValue(b)) \in Word
         /\ Signed(ToWord(CharValue(b))) = CharValue(b)
<1> DEFINE h == ByteBase \div 2
<1>1. ByteBase \in Nat /\ h \in Nat /\ h > 0 /\ ByteBase = 2 * h /\ b \in Nat
      /\ b < ByteBase
  BY ByteBaseAssumption DEF Byte
<1>2. /\ WordBase \in Nat /\ SignBit \in Nat /\ WordBase = 2 * SignBit
      /\ HwordBase \in Nat /\ HwordBase >= ByteBase
  BY Bases
<1>3. SignBit >= ByteBase
  <2>1. h * ByteBase \in Nat /\ h * ByteBase > 0
    BY <1>1
  <2>2. SignBit = (h * ByteBase) * HwordBase
    BY DEF SignBit
  <2>3. ((h * ByteBase) - 1) * HwordBase >= 0
    BY <1>2, <2>1
  <2>4. ((h * ByteBase) - 1) * HwordBase = (h * ByteBase) * HwordBase - HwordBase
    BY <1>2, <2>1
  <2>5. (h * ByteBase) * HwordBase \in Nat
    BY <1>2, <2>1
  <2>6. QED
    BY <1>1, <1>2, <2>2, <2>3, <2>4, <2>5
<1>4. CharValue(b) = IF b < h THEN b ELSE b - ByteBase
  BY DEF CharValue
<1> HIDE DEF h
<1>5. CASE b < h
  <2>1. CharValue(b) = b /\ b \in Word /\ b < SignBit
    BY <1>1, <1>2, <1>3, <1>4, <1>5 DEF Word
  <2>2. QED
    BY <2>1, ToWordOfWord DEF Signed
<1>6. CASE ~(b < h)
  <2> DEFINE c == b - ByteBase
  <2>1. CharValue(b) = c /\ c \in Int /\ -ByteBase <= c /\ c < 0
    BY <1>1, <1>4, <1>6
  <2> HIDE DEF c
  <2>2. ToWord(c) = c + WordBase
    BY <1>1, <1>2, <1>3, <2>1, CutOnce
  <2>3. c + WordBase >= SignBit /\ c + WordBase \in Word
    BY <1>1, <1>2, <1>3, <2>1 DEF Word
  <2>4. Signed(c + WordBase) = c
    BY <1>1, <1>2, <2>1, <2>3 DEF Signed
  <2>5. QED
    BY <2>1, <2>2, <2>3, <2>4
<1>7. QED
  BY <1>5, <1>6

(* The immediate of a statement without faults, with a word for its label. *)
LEMMA ImmediateHolds ==
  ASSUME NEW imm \in ImmediateTokens \cup {NoToken}, NEW label,
         imm # NoToken /\ imm.type = "use" => label \in Word,
         ImmediateFault(imm, TRUE) = "NONE"
  PROVE  /\ ImmediateWord(imm, label) \in Word
         /\ IsImmediate(ImmediateWord(imm, label), imm, label)
<1>1. CASE imm = NoToken
  BY <1>1, Bases DEF ImmediateWord, IsImmediate, Word
<1>2. CASE imm # NoToken
  <2>1. imm \in ImmediateTokens
    BY <1>2
  <2>2. imm.type \in {"use", "int", "char"}
    BY <2>1 DEF ImmediateTokens, IntTokens, CharTokens
  <2>3. CASE imm.type = "use"
    BY <1>2, <2>3 DEF ImmediateWord, IsImmediate
  <2>4. CASE imm.type = "char"
    <3>1. imm.value \in (-1)..(ByteBase - 1)
      BY <2>1, <2>4 DEF ImmediateTokens, IntTokens, CharTokens
    <3>2. imm.value >= 0
      BY <1>2, <2>4 DEF ImmediateFault, Check
    <3>3. imm.value \in Byte
      BY <3>1, <3>2, ByteBaseAssumption DEF Byte
    <3>4. ImmediateWord(imm, label) = ToWord(CharValue(imm.value))
      BY <1>2, <2>4 DEF ImmediateWord
    <3>5. QED
      BY <1>2, <2>4, <3>3, <3>4, CharacterWord DEF IsImmediate
  <2>5. CASE imm.type = "int"
    <3>1. imm.value \in Nat
      BY <2>1, <2>5 DEF ImmediateTokens, IntTokens, CharTokens
    <3>2. imm.value <= WORD_MAX
      BY <1>2, <2>5 DEF ImmediateFault, Check
    <3>3. imm.value \in Word
      BY <3>1, <3>2, Bases DEF Word, WORD_MAX
    <3>4. QED
      BY <1>2, <2>5, <3>3 DEF ImmediateWord, IsImmediate
  <2>6. QED
    BY <2>2, <2>3, <2>4, <2>5
<1>3. QED
  BY <1>1, <1>2

(* What asm_translate makes of a statement that passes its checks.         *)
LEMMA InstructionDecodes ==
  ASSUME NEW st, IsStatement(st), OperandFault(st) = "NONE",
         SpellingFault(st) = "NONE", ImmediateFault(st.imm, TRUE) = "NONE",
         NEW label, IsUse(st) => label \in Word
  PROVE  /\ InstructionOf(st, label) \in Seq(Byte)
         /\ DecodesTo(InstructionOf(st, label), st, label)
<1> DEFINE cond == IF st.cond = NoToken THEN "UNCONDITIONAL"
                   ELSE ConditionNames[st.cond]
           w == ImmediateWord(st.imm, label)
           bytes == InstructionOf(st, label)
<1>1. st.opcode \in KnownOpcodes
  <2>1. Check(st.opcode \in KnownOpcodes, "UNKNOWN_OPCODE") = "NONE"
    BY NoFaultOfTwo DEF OperandFault
  <2>2. QED
    BY <2>1 DEF Check
<1>2. /\ st.cond = NoToken \/ st.cond \in DOMAIN ConditionNames
      /\ \A i \in 1..Len(st.registers) : KnownRegister(st.registers[i])
  <2>1. /\ Check(\/ st.cond = NoToken
                 \/ st.cond \in DOMAIN ConditionNames, "UNKNOWN_CONDITION") = "NONE"
        /\ Check(\A i \in 1..Len(st.registers) : KnownRegister(st.registers[i]),
                 "UNKNOWN_REGISTER") = "NONE"
    BY NoFaultOfTwo DEF SpellingFault
  <2>2. QED
    BY <2>1 DEF Check
<1>3. /\ CodeIn(Opcodes, st.opcode) \in Byte
      /\ OpcodeOf(CodeIn(Opcodes, st.opcode)) = st.opcode
  BY <1>1, OpcodeCode
<1>4. \E i \in 1..17 : Conditions[i] = cond
  <2>1. CASE st.cond = NoToken
    <3>1. Conditions[1] = "UNCONDITIONAL"
      BY DEF Conditions
    <3>2. QED
      BY <2>1, <3>1
  <2>2. CASE st.cond # NoToken
    BY <1>2, <2>2, ConditionNamesHaveCodes
  <2>3. QED
    BY <2>1, <2>2
<1>5. /\ CodeIn(Conditions, cond) \in Byte
      /\ ConditionOf(CodeIn(Conditions, cond)) = cond
  <2> HIDE DEF cond
  <2>1. QED
    BY <1>4, ConditionCode
<1>6. \A i \in {1, 2} : RegisterCode(st, i) \in Byte
  BY <1>2, RegisterCodeType DEF IsStatement
<1>7. /\ w \in Word
      /\ IsImmediate(w, st.imm, label)
  <2>1. st.imm \in ImmediateTokens \cup {NoToken}
    BY DEF IsStatement
  <2>2. QED
    BY <2>1, ImmediateHolds DEF IsUse
<1>8. bytes = <<CodeIn(Opcodes, st.opcode), CodeIn(Conditions, cond),
                RegisterCode(st, 1), RegisterCode(st, 2)>> \o WordBytes(w)
  BY DEF InstructionOf, EncodedInstruction
<1> HIDE DEF cond, w, bytes
<1>9. \A i \in 0..3 : ByteOf(w, i) \in Byte
  BY <1>7, ByteOfType
<1>10. /\ bytes \in Seq(Byte)
       /\ Len(bytes) = 8
       /\ bytes[1] = CodeIn(Opcodes, st.opcode)
       /\ bytes[2] = CodeIn(Conditions, cond)
       /\ bytes[3] = RegisterCode(st, 1)
       /\ bytes[4] = RegisterCode(st, 2)
       /\ bytes[5] = ByteOf(w, 0) /\ bytes[6] = ByteOf(w, 1)
       /\ bytes[7] = ByteOf(w, 2) /\ bytes[8] = ByteOf(w, 3)
  <2> DEFINE b1 == CodeIn(Opcodes, st.opcode)
             b2 == CodeIn(Conditions, cond)
             b3 == RegisterCode(st, 1)
             b4 == RegisterCode(st, 2)
             b5 == ByteOf(w, 0)
             b6 == ByteOf(w, 1)
             b7 == ByteOf(w, 2)
             b8 == ByteOf(w, 3)
  <2>1. bytes = <<b1, b2, b3, b4>> \o <<b5, b6, b7, b8>>
    BY <1>8 DEF WordBytes
  <2>2. /\ b1 \in Byte /\ b2 \in Byte /\ b3 \in Byte /\ b4 \in Byte
        /\ b5 \in Byte /\ b6 \in Byte /\ b7 \in Byte /\ b8 \in Byte
    BY <1>3, <1>5, <1>6, <1>9
  <2> HIDE DEF b1, b2, b3, b4, b5, b6, b7, b8
  <2>3. /\ bytes \in Seq(Byte) /\ Len(bytes) = 8
        /\ bytes[1] = b1 /\ bytes[2] = b2 /\ bytes[3] = b3 /\ bytes[4] = b4
        /\ bytes[5] = b5 /\ bytes[6] = b6 /\ bytes[7] = b7 /\ bytes[8] = b8
    BY <2>1, <2>2
  <2>4. QED
    BY <2>3 DEF b1, b2, b3, b4, b5, b6, b7, b8
<1>11. ImmediateIn(bytes) = w
  BY <1>7, <1>10, WordRejoins DEF ImmediateIn
<1>12. DecodesTo(bytes, st, label)
  <2>1. Len(bytes) = INSTRUCTION_SIZE
    BY <1>10 DEF INSTRUCTION_SIZE
  <2>2. OpcodeOf(bytes[1]) = st.opcode
    BY <1>3, <1>10
  <2>3. ConditionOf(bytes[2]) = cond
    BY <1>5, <1>10
  <2>4. \A i \in {1, 2} : bytes[i + 2] = RegisterCode(st, i)
    BY <1>10
  <2>5. IsImmediate(ImmediateIn(bytes), st.imm, label)
    BY <1>7, <1>11
  <2>6. QED
    BY <2>1, <2>2, <2>3, <2>4, <2>5 DEF DecodesTo, cond
<1>13. QED
  BY <1>10, <1>12 DEF bytes

-----------------------------------------------------------------------------
(* Where the lines of a list start.                                        *)
Start(list, i) == SizeOfFirst(list)[i - 1]

LEMMA Starts ==
  ASSUME NEW list, Len(list) \in Nat, Sized(list)
  PROVE  /\ Start(list, 1) = 0
         /\ \A i \in 1..Len(list) : Start(list, i + 1) = Start(list, i) + list[i].size
         /\ \A i \in 1..(Len(list) + 1) : Start(list, i) \in Nat
         /\ \A i, j \in 1..(Len(list) + 1) : i <= j => Start(list, i) <= Start(list, j)
<1> DEFINE n == Len(list)
           f == SizeOfFirst(list)
<1>1. /\ f[0] = 0
      /\ \A k \in 1..n : f[k] = f[k - 1] + list[k].size
      /\ \A k \in 0..n : f[k] \in Nat
  BY Totals
<1>2. \A k \in 1..n : list[k].size \in Nat
  BY DEF Sized
<1>3. ASSUME NEW k \in 0..n
      PROVE  \A j \in 0..n : k <= j => f[k] <= f[j]
  <2> DEFINE S == {j \in 0..n : k <= j => f[k] <= f[j]}
  <2>1. 0 \in S
    BY <1>1
  <2>2. ASSUME NEW j \in 1..n, j - 1 \in S
        PROVE  j \in S
    <3>1. j \in 0..n /\ j - 1 \in 0..n
      OBVIOUS
    <3>2. f[j] = f[j - 1] + list[j].size /\ f[j] \in Nat /\ f[j - 1] \in Nat
          /\ f[k] \in Nat /\ list[j].size \in Nat
      BY <1>1, <1>2, <3>1
    <3>3. CASE k <= j - 1
      <4>1. f[k] <= f[j - 1]
        BY <2>2, <3>3
      <4>2. QED
        BY <3>1, <3>2, <4>1
    <3>4. CASE k = j
      BY <3>1, <3>2, <3>4
    <3>5. CASE k > j
      BY <3>1, <3>5
    <3>6. QED
      BY <3>3, <3>4, <3>5
  <2> HIDE DEF S
  <2>3. 0..n \subseteq S
    BY <2>1, <2>2, CountingUp
  <2>4. QED
    BY <2>3 DEF S
<1> HIDE DEF f
<1>4. \A i \in 1..(n + 1) : i - 1 \in 0..n /\ Start(list, i) = f[i - 1]
  BY DEF Start, f
<1>5. Start(list, 1) = 0
  BY <1>1, <1>4
<1>6. ASSUME NEW i \in 1..n
      PROVE  Start(list, i + 1) = Start(list, i) + list[i].size
  <2>1. Start(list, i + 1) = f[i]
    BY <1>4
  <2>2. QED
    BY <1>1, <1>4, <2>1
<1>7. \A i \in 1..(n + 1) : Start(list, i) \in Nat
  BY <1>1, <1>4
<1>8. ASSUME NEW i \in 1..(n + 1), NEW j \in 1..(n + 1), i <= j
      PROVE  Start(list, i) <= Start(list, j)
  <2>1. i - 1 \in 0..n /\ j - 1 \in 0..n /\ i - 1 <= j - 1
    BY <1>8
  <2>2. f[i - 1] <= f[j - 1]
    BY <1>3, <2>1
  <2>3. QED
    BY <1>4, <2>2
<1>9. QED
  BY <1>5, <1>6, <1>7, <1>8

(* Bytes at the end leave the others, and are found there.                 *)
LEMMA BytesAppended ==
  ASSUME NEW c \in Seq(Byte), NEW b \in Seq(Byte)
  PROVE  /\ c \o b \in Seq(Byte)
         /\ Len(c \o b) = Len(c) + Len(b)
         /\ \A m, n \in Nat : m <= n /\ n <= Len(c) =>
              SubSeq(c \o b, m + 1, n) = SubSeq(c, m + 1, n)
         /\ SubSeq(c \o b, Len(c) + 1, Len(c) + Len(b)) = b
<1>1. /\ c \o b \in Seq(Byte)
      /\ Len(c \o b) = Len(c) + Len(b)
      /\ \A i \in 1..Len(c) : (c \o b)[i] = c[i]
      /\ \A i \in 1..Len(b) : (c \o b)[Len(c) + i] = b[i]
      /\ Len(c) \in Nat /\ Len(b) \in Nat
  OBVIOUS
<1>2. ASSUME NEW m \in Nat, NEW n \in Nat, m <= n, n <= Len(c)
      PROVE  SubSeq(c \o b, m + 1, n) = SubSeq(c, m + 1, n)
  BY <1>1, <1>2
<1>3. SubSeq(c \o b, Len(c) + 1, Len(c) + Len(b)) = b
  BY <1>1
<1>4. QED
  BY <1>1, <1>2, <1>3

-----------------------------------------------------------------------------
(* What the three passes have done to their lists of lines.                *)
LineMade(line) ==
  IF line.statement = NoToken
    THEN line.bytes \in Seq(Byte) /\ Len(line.bytes) = line.size
    ELSE IsStatement(line.statement) /\ line.size = INSTRUCTION_SIZE

(* The labels in front of line k are numbered.                             *)
NumberedTo(list, table, k) ==
  /\ k \in 1..(Len(list) + 1)
  /\ DOMAIN table = {list[i].label : i \in 1..(k - 1)} \ {NoName}
  /\ \A i \in 1..(k - 1) :
       list[i].label # NoName => table[list[i].label] = Start(list, i)
  /\ \A i, j \in 1..(k - 1) :
       list[i].label # NoName /\ list[i].label = list[j].label => i = j

(* An image has line i in its place, and in it the place of its label.     *)
HasLine(list, image, i) ==
  LET bytes == SubSeq(image, Start(list, i) + 1, Start(list, i + 1))
  IN  IF ~UsesLabel(list[i]) THEN BytesOf(bytes, list[i], 0)
      ELSE \E j \in 1..Len(list) :
             /\ {x \in 1..Len(list) : list[x].label = UsedLabel(list[i])} = {j}
             /\ BytesOf(bytes, list[i], Start(list, j))

TranslatedTo(list, parts, k) ==
  /\ k \in 1..(Len(list) + 1)
  /\ parts = <<parts[1]>>
  /\ parts[1] \in Seq(Byte)
  /\ Len(parts[1]) = Start(list, k)
  /\ \A i \in 1..(k - 1) : HasLine(list, parts[1], i)

ObjectStages == {"symbols", "globals", "externals", "emit", "encode"}

(* A raw image is its lines, whether its source asks for padding or not.   *)
RawLines == Returned(FALSE) => LinesInARow

(* What makes the raw image inductive: the passes so far.                  *)
RawInv ==
  /\ LayoutInv
  /\ source.object \in BOOLEAN
  /\ \A i \in 1..Len(lines) : LineMade(lines[i])
  /\ output # NoOutput => stage = "done"
  /\ stage \in {"directives", "labels"} => contents = <<<< >>>>
  /\ stage = "directives" => labels = [name \in {} |-> 0] /\ at = 1 /\ address = 0
  /\ stage = "labels" =>
       NumberedTo(lines, labels, at) /\ address = Start(lines, at)
  /\ stage = "translate" =>
       /\ source.object = FALSE
       /\ NumberedTo(lines, labels, Len(lines) + 1)
       /\ TranslatedTo(lines, contents, at)
  /\ stage \in ObjectStages => source.object = TRUE
  /\ RawLines

LEMMA LinesSized ==
  ASSUME LayoutInv
  PROVE  Len(lines) \in Nat /\ Sized(lines)
BY DEF LayoutInv, TypeOK, IsList, Sized, LineIndices

LEMMA RawInit ==
  ASSUME Init
  PROVE  RawInv
<1>1. LayoutInv
  BY LayoutInit
<1>2. source.object \in BOOLEAN
  BY DEF Init, Sources
<1>3. \A i \in 1..Len(lines) : LineMade(lines[i])
  BY DEF Init
<1>4. RawLines
  BY DEF Init, RawLines, LinesInARow, Returned
<1>5. QED
  BY <1>1, <1>2, <1>3, <1>4 DEF Init, RawInv, ObjectStages

(* Once it has returned, the assembler keeps what it has made.             *)
LEMMA OutputKept ==
  ASSUME RawInv, UNCHANGED <<source, lines, output>>
  PROVE  RawLines' /\ \A i \in 1..Len(lines') : LineMade(lines'[i])
<1>1. RawLines
  BY DEF RawInv
<1>2. RawLines'
  BY <1>1 DEF RawLines, LinesInARow, Returned, RawStart, LineIndices, Labelled
<1>3. QED
  BY <1>2 DEF RawInv

LEMMA ReadingStep ==
  ASSUME RawInv, LayoutInv', Reading, LineRead,
         \A i \in 1..Len(lines') : LineMade(lines'[i])
  PROVE  RawInv'
<1>1. /\ stage = "directives"
      /\ UNCHANGED <<source, stage, labels, at, address, contents, output>>
  BY DEF Reading, LineRead, made
<1>2. output' = NoOutput
  BY <1>1 DEF RawInv
<1>3. RawLines'
  BY <1>2 DEF RawLines, LinesInARow, Returned
<1>4. QED
  BY <1>1, <1>2, <1>3 DEF RawInv, ObjectStages

LEMMA RecordedLine ==
  ASSUME RawInv, NEW statement, NEW bytes, NEW size, Record(statement, bytes, size),
         LineMade([label |-> ScopedLabel, section |-> current,
                   offset |-> Place.size, size |-> size,
                   statement |-> statement, bytes |-> bytes])
  PROVE  \A i \in 1..Len(lines') : LineMade(lines'[i])
<1> DEFINE new == [label |-> ScopedLabel, section |-> current,
                   offset |-> Place.size, size |-> size,
                   statement |-> statement, bytes |-> bytes]
<1>1. lines' = Append(lines, new)
  BY DEF Record
<1>2. LineMade(new)
  OBVIOUS
<1> HIDE DEF new
<1>3. /\ Len(lines) \in Nat /\ Len(lines') = Len(lines) + 1
      /\ \A i \in 1..Len(lines) : lines'[i] = lines[i]
      /\ lines'[Len(lines) + 1] = new
  BY <1>1, AppendToList DEF RawInv, LayoutInv
<1>4. \A i \in 1..Len(lines) : LineMade(lines[i])
  BY DEF RawInv
<1>5. ASSUME NEW i \in 1..Len(lines')
      PROVE  LineMade(lines'[i])
  <2>1. CASE i = Len(lines) + 1
    BY <1>2, <1>3, <2>1
  <2>2. CASE i # Len(lines) + 1
    <3>1. i \in 1..Len(lines) /\ lines'[i] = lines[i]
      BY <1>3, <2>2
    <3>2. QED
      BY <1>4, <3>1
  <2>3. QED
    BY <2>1, <2>2
<1>6. QED
  BY <1>5

LEMMA RecordingSteps ==
  ASSUME RawInv, LayoutInv', ReadStatement \/ ReadData
  PROVE  RawInv'
<1>1. CASE ReadStatement
  <2>1. /\ Record(Line, << >>, INSTRUCTION_SIZE) /\ Reading /\ LineRead
        /\ Line.type = "stmt"
    BY <1>1 DEF ReadStatement, Accepted, Record
  <2>2. IsStatement(Line)
    <3>1. Parsed(Line)
      BY <2>1, HeadIsParsed DEF RawInv
    <3>2. QED
      BY <2>1, <3>1 DEF Parsed, IsDirective
  <2>3. Line # NoToken
    BY <2>2 DEF IsStatement
  <2>4. \A i \in 1..Len(lines') : LineMade(lines'[i])
    BY <2>1, <2>2, <2>3, RecordedLine DEF LineMade
  <2>5. QED
    BY <2>1, <2>4, ReadingStep
<1>2. CASE ReadData
  <2>1. /\ Record(NoToken, RawData(Line), Len(RawData(Line))) /\ Reading /\ LineRead
        /\ AtDirective(DataDirectives)
    BY <1>2 DEF ReadData, AtDirective, Accepted, Record
  <2>2. RawData(Line) \in Seq(Byte)
    BY <2>1, DirectiveAccepted DEF RawInv
  <2>3. \A i \in 1..Len(lines') : LineMade(lines'[i])
    BY <2>1, <2>2, RecordedLine DEF LineMade
  <2>4. QED
    BY <2>1, <2>3, ReadingStep
<1>3. QED
  BY <1>1, <1>2

LEMMA DirectiveSteps ==
  ASSUME RawInv, LayoutInv',
         \/ SelectSection \/ AlignSection \/ Locate
         \/ DeclareSymbol \/ EndProcedure \/ BeginProcedure
  PROVE  RawInv'
<1>1. /\ stage = "directives"
      /\ UNCHANGED <<source, stage, lines, labels, at, address, contents, output>>
  BY DEF SelectSection, AlignSection, Locate, DeclareSymbol, EndProcedure,
         BeginProcedure, AtDirective, Accepted, Reading, LineRead, made
<1>2. RawLines' /\ \A i \in 1..Len(lines') : LineMade(lines'[i])
  BY <1>1, OutputKept
<1>3. QED
  BY <1>1, <1>2 DEF RawInv, ObjectStages

LEMMA FailSteps ==
  ASSUME RawInv, LayoutInv', NEW code, Fail(code)
  PROVE  RawInv'
<1>1. stage' = "done" /\ UNCHANGED <<source, lines, output>>
  BY DEF Fail
<1>2. RawLines' /\ \A i \in 1..Len(lines') : LineMade(lines'[i])
  BY <1>1, OutputKept
<1>3. QED
  BY <1>1, <1>2 DEF RawInv, ObjectStages

LEMMA ObjectSteps ==
  ASSUME RawInv, LayoutInv',
         \/ LabelSymbol \/ PassUnlabelled \/ ExportSymbol \/ ImportSymbol
         \/ EmitData \/ EmitInstruction \/ EmitReference
  PROVE  RawInv'
<1>1. /\ stage \in {"symbols", "globals", "externals", "emit"}
      /\ UNCHANGED <<source, stage, lines, output>>
  BY DEF LabelSymbol, PassUnlabelled, ExportSymbol, ImportSymbol, AddSymbol,
         EmitData, EmitInstruction, EmitReference, Emitting, InLoop, NextItem
<1>2. RawLines' /\ \A i \in 1..Len(lines') : LineMade(lines'[i])
  BY <1>1, OutputKept
<1>3. QED
  BY <1>1, <1>2 DEF RawInv, ObjectStages

LEMMA EncodeStep ==
  ASSUME RawInv, LayoutInv', Encode
  PROVE  RawInv'
<1>1. /\ stage = "encode" /\ stage' = "done"
      /\ UNCHANGED <<source, lines>>
  BY DEF Encode
<1>2. source.object = TRUE
  BY <1>1 DEF RawInv, ObjectStages
<1>3. RawLines'
  BY <1>1, <1>2 DEF RawLines, LinesInARow, Returned
<1>4. QED
  BY <1>1, <1>3 DEF RawInv, ObjectStages

LEMMA LoopEndSteps ==
  ASSUME RawInv, LayoutInv', EndLoop
  PROVE  RawInv'
<1>1. /\ UNCHANGED <<source, lines, labels, address, output>> /\ at' = 1
      /\ stage \in {"directives", "labels"} \cup ObjectStages /\ stage # "encode"
  BY DEF EndLoop, ObjectStages
<1>2. RawLines' /\ \A i \in 1..Len(lines') : LineMade(lines'[i])
  BY <1>1, OutputKept
<1>3. /\ Len(lines) \in Nat
      /\ Start(lines, 1) = 0
  BY LinesSized, Starts DEF RawInv
<1>4. output' = NoOutput
  BY <1>1 DEF RawInv, ObjectStages
<1>5. CASE stage = "directives"
  <2>1. stage' = "labels" /\ contents' = <<<< >>>>
    BY <1>5 DEF EndLoop, Following, RawInv
  <2>2. NumberedTo(lines, labels, 1) /\ address = Start(lines, 1)
    BY <1>3, <1>5 DEF RawInv, NumberedTo
  <2>3. QED
    BY <1>1, <1>2, <1>4, <2>1, <2>2 DEF RawInv, ObjectStages
<1>6. CASE stage = "labels"
  <2>1. at > Len(lines)
    BY <1>6 DEF EndLoop, Items
  <2>2. NumberedTo(lines, labels, Len(lines) + 1)
    <3>1. at = Len(lines) + 1
      BY <1>3, <1>6, <2>1 DEF RawInv, NumberedTo
    <3>2. QED
      BY <1>6, <3>1 DEF RawInv
  <2>3. CASE source.object
    <3>1. stage' = "symbols"
      BY <1>6, <2>3 DEF EndLoop, Following
    <3>2. QED
      BY <1>1, <1>2, <1>4, <2>3, <3>1 DEF RawInv, ObjectStages
  <2>4. CASE ~source.object
    <3>1. stage' = "translate" /\ contents' = <<<< >>>>
      BY <1>6, <2>4 DEF EndLoop, RawInv
    <3>2. TranslatedTo(lines, <<<< >>>>, 1)
      BY <1>3 DEF TranslatedTo
    <3>3. QED
      BY <1>1, <1>2, <1>4, <2>2, <2>4, <3>1, <3>2 DEF RawInv, ObjectStages
  <2>5. QED
    BY <2>3, <2>4
<1>7. CASE stage \in {"symbols", "globals", "externals", "emit"}
  <2>1. stage' \in ObjectStages /\ source.object = TRUE
    BY <1>7 DEF EndLoop, Following, ObjectStages, RawInv
  <2>2. QED
    BY <1>1, <1>2, <1>4, <2>1 DEF RawInv, ObjectStages
<1>8. QED
  BY <1>1, <1>5, <1>6, <1>7 DEF ObjectStages

(* A label gets the place of its line.                                     *)
LEMMA Numbered ==
  ASSUME NEW list, Len(list) \in Nat, Sized(list), NEW table, NEW k \in 1..Len(list),
         NumberedTo(list, table, k),
         ~(list[k].label # NoName /\ list[k].label \in DOMAIN table)
  PROVE  NumberedTo(list,
           IF list[k].label = NoName THEN table
           ELSE [name \in DOMAIN table \cup {list[k].label} |->
                   IF name = list[k].label THEN Start(list, k) ELSE table[name]],
           k + 1)
<1> DEFINE L == list[k].label
           new == IF L = NoName THEN table
                  ELSE [name \in DOMAIN table \cup {L} |->
                          IF name = L THEN Start(list, k) ELSE table[name]]
           before == 1..(k - 1)
<1>1. /\ DOMAIN table = {list[i].label : i \in before} \ {NoName}
      /\ \A i \in before :
           list[i].label # NoName => table[list[i].label] = Start(list, i)
      /\ \A i, j \in before :
           list[i].label # NoName /\ list[i].label = list[j].label => i = j
  BY DEF NumberedTo
<1>2. 1..((k + 1) - 1) = before \cup {k}
  OBVIOUS
<1>3. k + 1 \in 1..(Len(list) + 1)
  OBVIOUS
<1> HIDE DEF before, L
<1>4. DOMAIN new = {list[i].label : i \in before \cup {k}} \ {NoName}
  <2>1. CASE L = NoName
    BY <1>1, <2>1 DEF L
  <2>2. CASE L # NoName
    <3>1. DOMAIN new = DOMAIN table \cup {L}
      BY <2>2
    <3> HIDE DEF new
    <3>2. QED
      BY <1>1, <2>2, <3>1 DEF L
  <2>3. QED
    BY <2>1, <2>2
<1>5. L # NoName => L \notin DOMAIN table
  BY DEF L
<1>6. \A i \in before : list[i].label # NoName => list[i].label \in DOMAIN table
  BY <1>1
<1>7. \A i \in before \cup {k} :
        list[i].label # NoName => new[list[i].label] = Start(list, i)
  <2> SUFFICES ASSUME NEW i \in before \cup {k}, list[i].label # NoName
               PROVE  new[list[i].label] = Start(list, i)
    OBVIOUS
  <2>1. CASE i = k
    BY <2>1 DEF L
  <2>2. CASE i # k
    <3>1. i \in before /\ list[i].label \in DOMAIN table
      BY <1>6, <2>2
    <3>2. table[list[i].label] = Start(list, i)
      BY <1>1, <3>1
    <3>3. L # NoName => list[i].label # L
      BY <1>5, <3>1
    <3>4. new[list[i].label] = table[list[i].label]
      BY <3>1, <3>3
    <3>5. QED
      BY <3>2, <3>4
  <2>3. QED
    BY <2>1, <2>2
<1>8. \A i, j \in before \cup {k} :
        list[i].label # NoName /\ list[i].label = list[j].label => i = j
  <2> SUFFICES ASSUME NEW i \in before \cup {k}, NEW j \in before \cup {k},
                      list[i].label # NoName, list[i].label = list[j].label
               PROVE  i = j
    OBVIOUS
  <2>1. CASE i \in before /\ j \in before
    BY <1>1, <2>1
  <2>2. CASE i \in before /\ j = k
    BY <1>5, <1>6, <2>2 DEF L
  <2>3. CASE i = k /\ j \in before
    BY <1>5, <1>6, <2>3 DEF L
  <2>4. QED
    BY <2>1, <2>2, <2>3
<1> HIDE DEF new
<1>9. NumberedTo(list, new, k + 1)
  BY <1>2, <1>3, <1>4, <1>7, <1>8 DEF NumberedTo
<1>10. QED
  BY <1>9 DEF new, L

LEMMA NumberingStep ==
  ASSUME RawInv, LayoutInv', NumberLine
  PROVE  RawInv'
<1>1. /\ stage = "labels" /\ stage' = "labels" /\ at' = at + 1
      /\ at <= Len(lines) /\ Item = lines[at]
      /\ UNCHANGED <<source, lines, contents, output>>
  BY DEF NumberLine, InLoop, NextItem, Items, Item, made
<1>2. RawLines' /\ \A i \in 1..Len(lines') : LineMade(lines'[i])
  BY <1>1, OutputKept
<1>3. Len(lines) \in Nat /\ Sized(lines)
  BY LinesSized DEF RawInv
<1>4. NumberedTo(lines, labels, at) /\ address = Start(lines, at)
  BY <1>1 DEF RawInv
<1>5. at \in 1..Len(lines)
  BY <1>1, <1>3, <1>4 DEF NumberedTo
<1>6. ~(lines[at].label # NoName /\ lines[at].label \in DOMAIN labels)
  BY <1>1 DEF NumberLine, Duplicate
<1>7. labels' = IF lines[at].label = NoName THEN labels
                ELSE [name \in DOMAIN labels \cup {lines[at].label} |->
                        IF name = lines[at].label THEN Start(lines, at) ELSE labels[name]]
  BY <1>1, <1>4 DEF NumberLine
<1>8. NumberedTo(lines, labels', at + 1)
  BY <1>3, <1>4, <1>5, <1>6, <1>7, Numbered
<1>9. address' = Start(lines, at + 1)
  <2>1. address' = address + lines[at].size
    BY <1>1 DEF NumberLine
  <2>2. QED
    BY <1>3, <1>4, <1>5, <2>1, Starts
<1>10. QED
  BY <1>1, <1>2, <1>8, <1>9 DEF RawInv, ObjectStages

LEMMA NoFaultOfFour ==
  ASSUME NEW a, NEW b, NEW c, NEW d, FirstFault(<<a, b, c, d>>) = "NONE"
  PROVE  a = "NONE" /\ b = "NONE" /\ c = "NONE" /\ d = "NONE"
<1> DEFINE faults == <<a, b, c, d>>
<1>1. DOMAIN faults = 1..4 /\ faults[1] = a /\ faults[2] = b
      /\ faults[3] = c /\ faults[4] = d
  OBVIOUS
<1> HIDE DEF faults
<1>2. \A i \in 1..4 : faults[i] = "NONE"
  BY <1>1, NoFault DEF faults
<1>3. QED
  BY <1>1, <1>2

(* What the checks of asm_translate leave of a statement.                  *)
LEMMA StatementAccepted ==
  ASSUME RawFault = "NONE", Item.statement # NoToken
  PROVE  LET st == Item.statement
         IN  /\ OperandFault(st) = "NONE"
             /\ SpellingFault(st) = "NONE"
             /\ ImmediateFault(st.imm, TRUE) = "NONE"
             /\ IsUse(st) => /\ st.imm.value \in DOMAIN labels
                             /\ labels[st.imm.value] <= WORD_MAX
<1> DEFINE st == Item.statement
           a == OperandFault(st)
           b == SpellingFault(st)
           known == st.imm.value \in DOMAIN labels
           c == ImmediateFault(st.imm, known)
           d == Check(IsUse(st) /\ known => labels[st.imm.value] <= WORD_MAX,
                      "VALUE_OUT_OF_RANGE")
<1>1. FirstFault(<<a, b, c, d>>) = "NONE"
  BY DEF RawFault
<1> HIDE DEF a, b, c, d
<1>2. a = "NONE" /\ b = "NONE" /\ c = "NONE" /\ d = "NONE"
  BY <1>1, NoFaultOfFour
<1>3. IsUse(st) => known
  BY <1>2 DEF c, ImmediateFault, IsUse, Check
<1>4. ImmediateFault(st.imm, TRUE) = "NONE"
  BY <1>2, <1>3 DEF c, ImmediateFault, IsUse, Check
<1>5. IsUse(st) => labels[st.imm.value] <= WORD_MAX
  BY <1>2, <1>3 DEF d, Check
<1>6. QED
  BY <1>2, <1>3, <1>4, <1>5 DEF a, b

LEMMA TargetOfNone ==
  ASSUME NEW st, ~IsUse(st), NEW bytes, NEW target, DecodesTo(bytes, st, target)
  PROVE  DecodesTo(bytes, st, 0)
BY DEF DecodesTo, IsImmediate, IsUse

(* A numbered label is the one of the line it counts the bytes up to.      *)
LEMMA LabelIsNumbered ==
  ASSUME NEW list, Len(list) \in Nat, NEW table,
         NumberedTo(list, table, Len(list) + 1), NEW name \in DOMAIN table
  PROVE  \E j \in 1..Len(list) :
           /\ {x \in 1..Len(list) : list[x].label = name} = {j}
           /\ table[name] = Start(list, j)
<1>1. 1..((Len(list) + 1) - 1) = 1..Len(list)
  OBVIOUS
<1>2. /\ DOMAIN table = {list[i].label : i \in 1..Len(list)} \ {NoName}
      /\ \A i \in 1..Len(list) :
           list[i].label # NoName => table[list[i].label] = Start(list, i)
      /\ \A i, j \in 1..Len(list) :
           list[i].label # NoName /\ list[i].label = list[j].label => i = j
  BY <1>1 DEF NumberedTo
<1>3. name # NoName
  BY <1>2
<1>4. PICK j \in 1..Len(list) : list[j].label = name
  BY <1>2
<1>5. {x \in 1..Len(list) : list[x].label = name} = {j}
  BY <1>2, <1>3, <1>4
<1>6. table[name] = Start(list, j)
  BY <1>2, <1>3, <1>4
<1>7. QED
  BY <1>5, <1>6

(* The bytes of the line that asm_translate is at.                         *)
LEMMA BytesOfItem ==
  ASSUME RawInv, stage = "translate", at \in 1..Len(lines), RawFault = "NONE"
  PROVE  LET line == lines[at]
         IN  /\ RawBytes \in Seq(Byte)
             /\ Len(RawBytes) = line.size
             /\ IF ~UsesLabel(line) THEN BytesOf(RawBytes, line, 0)
                ELSE \E j \in 1..Len(lines) :
                       /\ {x \in 1..Len(lines) :
                             lines[x].label = UsedLabel(line)} = {j}
                       /\ BytesOf(RawBytes, line, Start(lines, j))
<1> DEFINE line == lines[at]
           st == line.statement
<1>1. LineMade(line)
  BY DEF RawInv
<1>2. Item = line
  BY DEF Item, Items
<1>3. CASE st = NoToken
  <2>1. RawBytes = line.bytes
    BY <1>2, <1>3 DEF RawBytes
  <2>2. ~UsesLabel(line)
    BY <1>3 DEF UsesLabel
  <2>3. line.bytes \in Seq(Byte) /\ Len(line.bytes) = line.size
    BY <1>1, <1>3 DEF LineMade
  <2>4. BytesOf(RawBytes, line, 0)
    BY <1>3, <2>1 DEF BytesOf
  <2> HIDE DEF line
  <2>5. QED
    BY <2>1, <2>2, <2>3, <2>4 DEF line
<1>4. CASE st # NoToken
  <2> DEFINE label == labels[st.imm.value]
  <2>1. IsStatement(st) /\ line.size = 8
    BY <1>1, <1>4 DEF LineMade, INSTRUCTION_SIZE
  <2>2. /\ OperandFault(st) = "NONE"
        /\ SpellingFault(st) = "NONE"
        /\ ImmediateFault(st.imm, TRUE) = "NONE"
        /\ IsUse(st) => st.imm.value \in DOMAIN labels /\ label <= WORD_MAX
    BY <1>2, <1>4, StatementAccepted
  <2>3. RawBytes = InstructionOf(st, label)
    BY <1>2, <1>4 DEF RawBytes
  <2>4. Len(lines) \in Nat /\ Sized(lines)
    BY LinesSized DEF RawInv
  <2>5. NumberedTo(lines, labels, Len(lines) + 1)
    BY DEF RawInv
  <2>6. IsUse(st) => \E j \in 1..Len(lines) :
          /\ {x \in 1..Len(lines) : lines[x].label = st.imm.value} = {j}
          /\ label = Start(lines, j)
    BY <2>2, <2>4, <2>5, LabelIsNumbered
  <2>7. IsUse(st) => label \in Word
    <3>1. \A j \in 1..Len(lines) : Start(lines, j) \in Nat
      BY <2>4, Starts
    <3>2. QED
      BY <2>2, <2>6, <3>1, Bases DEF Word, WORD_MAX
  <2> HIDE DEF label, st
  <2>8. /\ InstructionOf(st, label) \in Seq(Byte)
        /\ DecodesTo(InstructionOf(st, label), st, label)
    BY <2>1, <2>2, <2>7, InstructionDecodes
  <2>9. RawBytes \in Seq(Byte) /\ Len(RawBytes) = 8
    BY <2>3, <2>8 DEF DecodesTo, INSTRUCTION_SIZE
  <2>10. CASE IsUse(st)
    <3>1. UsesLabel(line) /\ UsedLabel(line) = st.imm.value
      BY <1>4, <2>10 DEF UsesLabel, UsedLabel, st
    <3>2. BytesOf(RawBytes, line, label)
      BY <1>4, <2>3, <2>8 DEF BytesOf, st
    <3> HIDE DEF line
    <3>3. PICK j \in 1..Len(lines) :
            /\ {x \in 1..Len(lines) : lines[x].label = st.imm.value} = {j}
            /\ label = Start(lines, j)
      BY <2>6, <2>10
    <3>4. \E k \in 1..Len(lines) :
            /\ {x \in 1..Len(lines) : lines[x].label = UsedLabel(line)} = {k}
            /\ BytesOf(RawBytes, line, Start(lines, k))
      BY <3>1, <3>2, <3>3
    <3>5. QED
      BY <2>1, <2>9, <3>1, <3>4 DEF line
  <2>11. CASE ~IsUse(st)
    <3>1. ~UsesLabel(line)
      BY <2>11 DEF UsesLabel, st
    <3>2. DecodesTo(RawBytes, st, 0)
      BY <2>3, <2>8, <2>11, TargetOfNone
    <3>3. BytesOf(RawBytes, line, 0)
      BY <1>4, <3>2 DEF BytesOf, st
    <3> HIDE DEF line
    <3>4. QED
      BY <2>1, <2>9, <3>1, <3>3 DEF line
  <2>12. QED
    BY <2>10, <2>11
<1>5. QED
  BY <1>3, <1>4

LEMMA LineAppended ==
  ASSUME NEW list, Len(list) \in Nat, Sized(list), NEW k \in 1..Len(list),
         NEW c, TranslatedTo(list, <<c>>, k),
         NEW b \in Seq(Byte), Len(b) = list[k].size,
         IF ~UsesLabel(list[k]) THEN BytesOf(b, list[k], 0)
         ELSE \E j \in 1..Len(list) :
                /\ {x \in 1..Len(list) : list[x].label = UsedLabel(list[k])} = {j}
                /\ BytesOf(b, list[k], Start(list, j))
  PROVE  TranslatedTo(list, <<c \o b>>, k + 1)
<1> DEFINE d == c \o b
<1>1. /\ c \in Seq(Byte) /\ Len(c) = Start(list, k)
      /\ \A i \in 1..(k - 1) : HasLine(list, c, i)
  BY DEF TranslatedTo
<1>2. /\ \A i \in 1..Len(list) : Start(list, i + 1) = Start(list, i) + list[i].size
      /\ \A i \in 1..(Len(list) + 1) : Start(list, i) \in Nat
      /\ \A i, j \in 1..(Len(list) + 1) : i <= j => Start(list, i) <= Start(list, j)
  BY Starts
<1>3. /\ d \in Seq(Byte)
      /\ Len(d) = Len(c) + Len(b)
      /\ \A m, n \in Nat : m <= n /\ n <= Len(c) =>
           SubSeq(d, m + 1, n) = SubSeq(c, m + 1, n)
      /\ SubSeq(d, Len(c) + 1, Len(c) + Len(b)) = b
  BY <1>1, BytesAppended
<1> HIDE DEF d
<1>4. ASSUME NEW i \in 1..(k - 1)
      PROVE  HasLine(list, d, i)
  <2>1. i \in 1..(Len(list) + 1) /\ i + 1 \in 1..(Len(list) + 1)
        /\ k \in 1..(Len(list) + 1) /\ i <= i + 1 /\ i + 1 <= k
    OBVIOUS
  <2>2. /\ Start(list, i) \in Nat /\ Start(list, i + 1) \in Nat
        /\ Start(list, i) <= Start(list, i + 1)
        /\ Start(list, i + 1) <= Len(c)
    BY <1>1, <1>2, <2>1
  <2>3. SubSeq(d, Start(list, i) + 1, Start(list, i + 1))
          = SubSeq(c, Start(list, i) + 1, Start(list, i + 1))
    BY <1>3, <2>2
  <2>4. HasLine(list, c, i)
    BY <1>1
  <2>5. QED
    BY <2>3, <2>4, Zenon DEF HasLine
<1>5. HasLine(list, d, k)
  <2>1. SubSeq(d, Start(list, k) + 1, Start(list, k + 1)) = b
    BY <1>1, <1>2, <1>3
  <2>2. QED
    BY <2>1, Zenon DEF HasLine
<1>6. Len(d) = Start(list, k + 1)
  BY <1>1, <1>2, <1>3
<1>7. \A i \in 1..((k + 1) - 1) : HasLine(list, d, i)
  <2> SUFFICES ASSUME NEW i \in 1..((k + 1) - 1)
               PROVE  HasLine(list, d, i)
    OBVIOUS
  <2>1. i \in 1..(k - 1) \/ i = k
    OBVIOUS
  <2>2. QED
    BY <1>4, <1>5, <2>1
<1>8. TranslatedTo(list, <<d>>, k + 1)
  BY <1>3, <1>6, <1>7 DEF TranslatedTo
<1>9. QED
  BY <1>8 DEF d

LEMMA TranslationStep ==
  ASSUME RawInv, LayoutInv', Translate
  PROVE  RawInv'
<1>1. /\ stage = "translate" /\ stage' = "translate" /\ at' = at + 1
      /\ at <= Len(lines) /\ RawFault = "NONE"
      /\ contents' = [contents EXCEPT ![1] = @ \o RawBytes]
      /\ UNCHANGED <<source, lines, labels, output>>
  BY DEF Translate, InLoop, NextItem, Items
<1>2. RawLines' /\ \A i \in 1..Len(lines') : LineMade(lines'[i])
  BY <1>1, OutputKept
<1>3. Len(lines) \in Nat /\ Sized(lines)
  BY LinesSized DEF RawInv
<1>4. /\ source.object = FALSE
      /\ NumberedTo(lines, labels, Len(lines) + 1)
      /\ TranslatedTo(lines, contents, at)
  BY <1>1 DEF RawInv
<1>5. at \in 1..Len(lines)
  BY <1>1, <1>3, <1>4 DEF TranslatedTo
<1> DEFINE c == contents[1]
<1>6. contents = <<c>>
  BY <1>4 DEF TranslatedTo
<1>7. TranslatedTo(lines, <<c>>, at)
  BY <1>4, <1>6
<1> HIDE DEF c
<1>8. TranslatedTo(lines, <<c \o RawBytes>>, at + 1)
  BY <1>1, <1>3, <1>5, <1>7, BytesOfItem, LineAppended
<1>9. contents' = <<c \o RawBytes>>
  BY <1>1, <1>6
<1>10. QED
  BY <1>1, <1>2, <1>4, <1>8, <1>9 DEF RawInv, ObjectStages

LEMMA RawReturnStep ==
  ASSUME RawInv, LayoutInv', ReturnRaw
  PROVE  RawInv'
<1>1. /\ stage = "translate" /\ stage' = "done" /\ at > Len(lines)
      /\ output' = contents[1]
      /\ UNCHANGED <<source, lines>>
  BY DEF ReturnRaw
<1>2. Len(lines) \in Nat
  BY LinesSized DEF RawInv
<1>3. TranslatedTo(lines, contents, at)
  BY <1>1 DEF RawInv
<1>4. at = Len(lines) + 1
  BY <1>1, <1>2, <1>3 DEF TranslatedTo
<1>5. /\ Len(output') = Start(lines, Len(lines) + 1)
      /\ \A i \in 1..Len(lines) : HasLine(lines, output', i)
  BY <1>1, <1>2, <1>3, <1>4 DEF TranslatedTo
<1>6. RawLines'
  <2>1. \A i \in 1..Len(lines) : HasLine(lines', output', i)
    BY <1>1, <1>5
  <2>2. QED
    BY <1>1, <1>5, <2>1
      DEF RawLines, LinesInARow, HasLine, RawStart, Start, LineIndices, Labelled
<1>7. \A i \in 1..Len(lines') : LineMade(lines'[i])
  BY <1>1 DEF RawInv
<1>8. QED
  BY <1>1, <1>6, <1>7 DEF RawInv, ObjectStages

LEMMA RawNext ==
  ASSUME RawInv, [Next]_vars
  PROVE  RawInv'
<1>1. LayoutInv'
  BY LayoutNext DEF RawInv
<1>2. CASE ReadStatement \/ ReadData
  BY <1>1, <1>2, RecordingSteps
<1>3. CASE \/ SelectSection \/ AlignSection \/ Locate
           \/ DeclareSymbol \/ EndProcedure \/ BeginProcedure
  BY <1>1, <1>3, DirectiveSteps
<1>4. CASE \/ RejectLine \/ DuplicateLabel \/ RejectRaw \/ UndefinedGlobal
           \/ RejectObject \/ OutOfMemory
  <2>1. PICK code : Fail(code)
    BY <1>4, Zenon DEF RejectLine, DuplicateLabel, RejectRaw, UndefinedGlobal,
                       RejectObject, OutOfMemory
  <2>2. QED
    BY <1>1, <2>1, FailSteps
<1>5. CASE EndLoop
  BY <1>1, <1>5, LoopEndSteps
<1>6. CASE NumberLine
  BY <1>1, <1>6, NumberingStep
<1>7. CASE Translate
  BY <1>1, <1>7, TranslationStep
<1>8. CASE ReturnRaw
  BY <1>1, <1>8, RawReturnStep
<1>9. CASE \/ LabelSymbol \/ PassUnlabelled \/ ExportSymbol \/ ImportSymbol
           \/ EmitData \/ EmitInstruction \/ EmitReference
  BY <1>1, <1>9, ObjectSteps
<1>10. CASE Encode
  BY <1>1, <1>10, EncodeStep
<1>11. CASE UNCHANGED vars
  <2>1. UNCHANGED <<source, stage, lines, labels, at, address, contents, output>>
    BY <1>11 DEF vars, made
  <2>2. RawLines' /\ \A i \in 1..Len(lines') : LineMade(lines'[i])
    BY <2>1, OutputKept
  <2>3. QED
    BY <1>1, <2>1, <2>2 DEF RawInv
<1>12. QED
  BY <1>2, <1>3, <1>4, <1>5, <1>6, <1>7, <1>8, <1>9, <1>10, <1>11 DEF Next, Proceed

(* A raw image is the lines of its source one after the other, and every   *)
(* label stands for the place of the one line that has it; RawInv says so  *)
(* of every source, RawImageHolds of those that ask for no padding.        *)
(* Code: asm_processLabels against asm_translate.                          *)
THEOREM RawImageHoldsAlways == Spec => []RawImageHolds
<1>1. Init => RawInv
  BY RawInit
<1>2. RawInv /\ [Next]_vars => RawInv'
  BY RawNext
<1>3. RawInv => RawImageHolds
  BY DEF RawInv, RawLines, RawImageHolds
<1>4. QED
  BY <1>1, <1>2, <1>3, PTL DEF Spec

-----------------------------------------------------------------------------
(* What the loops of asm_translate_object have made.                       *)
UniqueLabels(list) ==
  \A i, j \in 1..Len(list) :
    list[i].label # NoName /\ list[i].label = list[j].label => i = j

PowersOfTwo == \A s \in SectionIndices : PowerOfTwo(sections[s].alignment)

DeclaredNames == globals \in Seq(STRING) /\ externals \in Seq(STRING)

(* The members in front of the k-th one.                                   *)
Before(list, k) == {list[x] : x \in 1..(k - 1)}

LabelDefinition(line, exported) ==
  [name |-> line.label, section |-> line.section, value |-> line.offset,
   binding |-> IF line.label \in exported THEN "global" ELSE "local"]

ExternalReference(name) ==
  [name |-> name, section |-> 0, value |-> 0, binding |-> "global"]

NamesApart(syms) ==
  \A x, y \in 1..Len(syms) : syms[x].name = syms[y].name => x = y

LabelsDefined(list, syms, m, exported) ==
  \A i \in 1..(m - 1) : list[i].label # NoName =>
    \E x \in 1..Len(syms) : syms[x] = LabelDefinition(list[i], exported)

DefinesLabel(list, symbol, m, exported) ==
  \E i \in 1..(m - 1) : /\ list[i].label # NoName
                        /\ symbol = LabelDefinition(list[i], exported)

RefersOutside(list, symbol, imported) ==
  /\ symbol.name \in imported
  /\ symbol = ExternalReference(symbol.name)
  /\ \A i \in 1..Len(list) : list[i].label # symbol.name

(* The symbols of the labels in front of line m and of the names imported, *)
(* and those of the labels exported are global.                            *)
SymbolsMade(list, syms, m, exported, imported) ==
  /\ IsList(syms)
  /\ NamesApart(syms)
  /\ LabelsDefined(list, syms, m, exported)
  /\ \A x \in 1..Len(syms) : \/ DefinesLabel(list, syms[x], m, exported)
                             \/ RefersOutside(list, syms[x], imported)

(* These are the bytes of a line in an object.                             *)
LocalIn(list, line) ==
  {i \in 1..Len(list) : list[i].label = UsedLabel(line) /\ list[i].section = line.section}

HasLocal(list, line) == UsesLabel(line) /\ LocalIn(list, line) # {}

IsPart(list, bytes, line) ==
  IF ~HasLocal(list, line) THEN BytesOf(bytes, line, 0)
  ELSE \E j \in LocalIn(list, line) : BytesOf(bytes, line, list[j].offset)

HasPart(list, parts, i) ==
  IsPart(list, SubSeq(parts[list[i].section],
                      list[i].offset + 1, list[i].offset + list[i].size), list[i])

Fits(places, parts) ==
  /\ parts = [s \in 1..Len(places) |-> parts[s]]
  /\ \A s \in 1..Len(places) : /\ parts[s] \in Seq(Byte)
                               /\ Len(parts[s]) = places[s].size

LiesIn(line, s, p) ==
  line.section = s /\ p \in (line.offset + 1)..(line.offset + line.size)

GapsAreZero(list, places, parts, k) ==
  \A s \in 1..Len(places) : \A p \in 1..places[s].size :
    (\A i \in 1..(k - 1) : ~LiesIn(list[i], s, p)) => parts[s][p] = 0

(* The contents of the sections, with the lines in front of line k.        *)
ContentsMade(list, places, parts, k) ==
  /\ Fits(places, parts)
  /\ GapsAreZero(list, places, parts, k)
  /\ \A i \in 1..(k - 1) : HasPart(list, parts, i)

(* The relocations of the lines in front of line k.                        *)
RelocationAt(line, x) ==
  [section |-> line.section, offset |-> line.offset + 4, pcRelative |-> FALSE,
   symbol |-> x, addend |-> 0]

IsRemoteIn(list, line) == UsesLabel(line) /\ LocalIn(list, line) = {}

RemoteBefore(list, k) == {i \in 1..(k - 1) : IsRemoteIn(list, list[i])}

Relocates(syms, relocation, line) ==
  \E x \in 1..Len(syms) : /\ relocation = RelocationAt(line, x)
                          /\ syms[x].name = UsedLabel(line)

RelocationsMade(list, places, syms, rels, k) ==
  /\ IsList(rels)
  /\ Len(rels) = Cardinality(RemoteBefore(list, k))
  /\ \A i \in RemoteBefore(list, k) :
       \E r \in 1..Len(rels) : Relocates(syms, rels[r], list[i])
  /\ \A r \in 1..Len(rels) :
       \E i \in RemoteBefore(list, k) : /\ Relocates(syms, rels[r], list[i])
                                        /\ places[list[i].section].type # "bss"

Exported == Before(globals, Len(globals) + 1)
Imported == Before(externals, Len(externals) + 1)

(* The parts of the object, with the lines in front of line k.             *)
PartsMade(k) ==
  /\ SymbolsMade(lines, symbols, Len(lines) + 1, Exported, Imported)
  /\ ContentsMade(lines, sections, contents, k)
  /\ RelocationsMade(lines, sections, symbols, relocations, k)

(* What each loop adds.                                                    *)
LoopInv ==
  /\ stage \in {"symbols", "globals", "externals", "emit"} =>
       at \in 1..(Len(Items) + 1)
  /\ stage = "symbols"   => SymbolsMade(lines, symbols, at, {}, {})
  /\ stage = "globals"   =>
       SymbolsMade(lines, symbols, Len(lines) + 1, Before(globals, at), {})
  /\ stage = "externals" =>
       SymbolsMade(lines, symbols, Len(lines) + 1, Exported, Before(externals, at))
  /\ stage \in {"symbols", "globals", "externals"} =>
       ContentsMade(lines, sections, contents, 1) /\ relocations = << >>
  /\ stage = "emit"   => PartsMade(at)
  /\ stage = "encode" => PartsMade(Len(lines) + 1)

(* What makes an object inductive.                                         *)
ObjectInv ==
  /\ RawInv
  /\ PowersOfTwo
  /\ DeclaredNames
  /\ stage \in {"directives", "labels"} => symbols = << >> /\ relocations = << >>
  /\ stage \in ObjectStages => UniqueLabels(lines)
  /\ LoopInv
  /\ Returned(TRUE) =>
       PartsMade(Len(lines) + 1) /\ output = AssembledObject /\ UniqueLabels(lines)

(* Alignments.                                                             *)
LEMMA OneIsPower == PowerOfTwo(1)
<1>1. 1 \in 1..WORD_MAX
  BY Bases DEF WORD_MAX
<1>2. \A i \in 0..3 : ByteOf(0, i) = 0
  <2>1. ASSUME NEW i \in 0..3
        PROVE  ByteWeight[i + 1] \in Nat \ {0}
    <3>1. HwordBase * ByteBase \in Nat /\ HwordBase * ByteBase > 0
      BY ByteBaseAssumption, Bases
    <3>2. QED
      BY <3>1, ByteBaseAssumption, Bases DEF ByteWeight
  <2>2. ASSUME NEW w \in Nat \ {0}
        PROVE  (0 \div w) % ByteBase = 0
    <3>1. 0 \div w = 0
      OBVIOUS
    <3>2. 0 % ByteBase = 0
      BY ByteBaseAssumption
    <3>3. QED
      BY <3>1, <3>2
  <2>3. QED
    BY <2>1, <2>2 DEF ByteOf
<1>3. \A i \in 0..3 : ByteOf(1, i) \in Byte
  BY <1>1, ByteOfType, Bases DEF Word, WORD_MAX
<1>4. 0 \in Byte
  BY ByteBaseAssumption DEF Byte
<1>5. \A b \in Byte : ByteAnd[b][0] = 0
  <2>1. \A b \in Byte : ByteAnd[b][0] \in Byte /\ ByteAnd[b][0] <= 0
    BY <1>4, ByteAndAssumption
  <2>2. QED
    BY <2>1 DEF Byte
<1>6. \A i \in 0..3 : ByteConj(ByteOf(1, i), ByteOf(0, i)) = 0
  BY <1>2, <1>3, <1>5 DEF ByteConj
<1>7. WordAnd(1, 0) = JoinWord(JoinHword(0, 0), JoinHword(0, 0))
  BY <1>6 DEF WordAnd, Bytewise
<1>8. JoinWord(JoinHword(0, 0), JoinHword(0, 0)) = 0
  <2>1. JoinHword(0, 0) = 0
    BY ByteBaseAssumption DEF JoinHword
  <2>2. JoinWord(0, 0) = 0
    BY Bases DEF JoinWord
  <2>3. QED
    BY <2>1, <2>2
<1>9. 1 - 1 = 0
  OBVIOUS
<1>10. QED
  BY <1>1, <1>7, <1>8, <1>9 DEF PowerOfTwo

LEMMA PowersReplaced ==
  ASSUME LayoutInv, PowersOfTwo, NEW section, PowerOfTwo(section.alignment),
         sections' = [sections EXCEPT ![current] = section]
  PROVE  PowersOfTwo'
<1>1. sections \in Seq(AsmSection)
  BY DEF LayoutInv, TypeOK
<1>2. Len(sections') = Len(sections)
  BY <1>1
<1>3. \A s \in 1..Len(sections) :
        sections'[s] = IF s = current THEN section ELSE sections[s]
  BY <1>1
<1>4. QED
  BY <1>2, <1>3 DEF PowersOfTwo, SectionIndices

LEMMA PlaceIsAligned ==
  ASSUME LayoutInv, PowersOfTwo
  PROVE  /\ PowerOfTwo(Place.alignment)
         /\ \A size : Grown(size).alignment = Place.alignment
         /\ \A target : MovedTo(target).alignment = Place.alignment
         /\ \A unit : Padded(unit).alignment \in {Place.alignment, unit}
<1>1. Place \in AsmSection
  BY PlaceType
<1>2. PowerOfTwo(Place.alignment)
  BY DEF LayoutInv, TypeOK, PowersOfTwo, Place
<1> DEFINE p == Place
<1>3. p = [name |-> p.name, address |-> p.address, located |-> p.located,
           alignment |-> p.alignment, size |-> p.size, type |-> p.type]
  BY <1>1 DEF AsmSection
<1>4. \A size : Grown(size).alignment = p.alignment
  <2> HIDE DEF p
  <2>1. \A size : [p EXCEPT !.size = @ + size].alignment = p.alignment
    BY <1>3
  <2>2. QED
    BY <2>1 DEF Grown, p
<1>5. \A target : MovedTo(target).alignment = p.alignment
  <2> HIDE DEF p
  <2>1. \A t : [p EXCEPT !.address = t, !.located = TRUE].alignment = p.alignment
    BY <1>3
  <2>2. \A t : [p EXCEPT !.size = t - p.address].alignment = p.alignment
    BY <1>3
  <2>3. QED
    BY <2>1, <2>2 DEF MovedTo, p
<1>6. \A unit : Padded(unit).alignment \in {p.alignment, unit}
  <2> HIDE DEF p
  <2>1. \A x, unit :
          [p EXCEPT !.size = x,
                    !.alignment = IF @ < unit THEN unit ELSE @].alignment
            \in {p.alignment, unit}
    BY <1>3
  <2>2. QED
    BY <2>1 DEF Padded, p
<1>7. QED
  BY <1>2, <1>4, <1>5, <1>6 DEF p

LEMMA PowersSelect ==
  ASSUME LayoutInv, PowersOfTwo, SelectSection
  PROVE  PowersOfTwo'
<1>1. CASE sections' = sections
  BY <1>1 DEF PowersOfTwo, SectionIndices
<1>2. CASE sections' = Append(sections, NewSection(Arg))
  <2>1. PowerOfTwo(NewSection(Arg).alignment)
    BY OneIsPower DEF NewSection
  <2>2. sections \in Seq(AsmSection)
    BY DEF LayoutInv, TypeOK
  <2> DEFINE new == NewSection(Arg)
  <2> HIDE DEF new
  <2>3. /\ Len(sections) \in Nat /\ Len(sections') = Len(sections) + 1
        /\ \A s \in 1..Len(sections) : sections'[s] = sections[s]
        /\ sections'[Len(sections) + 1] = new
    <3>1. IsList(sections)
      BY <2>2 DEF IsList
    <3>2. sections' = Append(sections, new)
      BY <1>2 DEF new
    <3>3. QED
      BY <3>1, <3>2, AppendToList
  <2>4. PowerOfTwo(new.alignment)
    BY <2>1 DEF new
  <2>5. QED
    BY <2>3, <2>4 DEF PowersOfTwo, SectionIndices
<1>3. QED
  BY <1>1, <1>2 DEF SelectSection

LEMMA PowersNext ==
  ASSUME LayoutInv, PowersOfTwo, [Next]_vars
  PROVE  PowersOfTwo'
<1>1. CASE ReadStatement \/ ReadData
  <2>1. PICK size : sections' = [sections EXCEPT ![current] = Grown(size)]
    BY <1>1 DEF ReadStatement, ReadData, Record
  <2>2. PowerOfTwo(Grown(size).alignment)
    BY PlaceIsAligned
  <2> DEFINE new == Grown(size)
  <2>3. PowerOfTwo(new.alignment) /\ sections' = [sections EXCEPT ![current] = new]
    BY <2>1, <2>2
  <2> HIDE DEF new
  <2>4. QED
    BY <2>3, PowersReplaced
<1>2. CASE SelectSection
  BY <1>2, PowersSelect
<1>3. CASE AlignSection
  <2>1. AtDirective({"align"})
    BY <1>3 DEF AlignSection
  <2>2. Line.name = "align" /\ LayoutHolds
    BY <2>1, DirectiveAccepted DEF DataDirectives
  <2>3. PowerOfTwo(Arg)
    BY <2>2 DEF LayoutHolds
  <2>4. PowerOfTwo(Padded(Arg).alignment)
    BY <2>3, PlaceIsAligned
  <2>5. QED
    BY <1>3, <2>4, PowersReplaced DEF AlignSection
<1>4. CASE Locate
  <2>1. PowerOfTwo(MovedTo(Arg).alignment)
    BY PlaceIsAligned
  <2>2. QED
    BY <1>4, <2>1, PowersReplaced DEF Locate
<1>5. CASE UNCHANGED sections
  BY <1>5 DEF PowersOfTwo, SectionIndices
<1>6. QED
  <2>1. CASE DeclareSymbol \/ BeginProcedure \/ EndProcedure
    BY <1>5, <2>1 DEF DeclareSymbol, BeginProcedure, EndProcedure, context
  <2>2. CASE \/ RejectLine \/ DuplicateLabel \/ RejectRaw \/ UndefinedGlobal
             \/ RejectObject \/ OutOfMemory
    BY <1>5, <2>2 DEF RejectLine, DuplicateLabel, RejectRaw, UndefinedGlobal,
                      RejectObject, OutOfMemory, Fail, context
  <2>3. CASE EndLoop \/ ReturnRaw \/ Encode \/ NumberLine
    BY <1>5, <2>3 DEF EndLoop, ReturnRaw, Encode, NumberLine, NextItem, context
  <2>4. CASE \/ Translate \/ LabelSymbol \/ PassUnlabelled \/ ExportSymbol
             \/ ImportSymbol \/ EmitData \/ EmitInstruction \/ EmitReference
    BY <1>5, <2>4, EmittingSteps DEF NextItem, context
  <2>5. CASE UNCHANGED vars
    BY <1>5, <2>5 DEF vars, context
  <2>6. QED
    BY <1>1, <1>2, <1>3, <1>4, <2>1, <2>2, <2>3, <2>4, <2>5 DEF Next, Proceed

(* The names that are declared.                                            *)
LEMMA IdentifierIsText ==
  ASSUME NEW token \in ArgumentTokens, token.type = "id"
  PROVE  token.value \in STRING
<1>1. token \in NameTokens
  BY DEF ArgumentTokens, IntTokens, CharTokens, StringTokens, NameTokens
<1>2. QED
  BY <1>1 DEF NameTokens

LEMMA NamedArgument ==
  ASSUME LayoutInv, AtDirective({"global", "extern", "entry", "proc"})
  PROVE  Arg \in STRING
<1>1. IsDirective(Line) /\ ValidDirective(Line)
      /\ Line.name \in {"global", "extern", "entry", "proc"}
  BY DirectiveAccepted
<1>2. Len(Line.args) > 0 /\ Line.args[1].type = "id"
  <2>1. Line.args \in Seq(ArgumentTokens)
    BY <1>1 DEF IsDirective
  <2>2. CASE Line.name = "extern"
    BY <1>1, <2>1, <2>2 DEF ValidDirective
  <2>3. CASE Line.name # "extern"
    BY <1>1, <2>1, <2>3 DEF ValidDirective
  <2>4. QED
    BY <2>2, <2>3
<1>3. Line.args[1] \in ArgumentTokens
  <2>1. Line.args \in Seq(ArgumentTokens)
    BY <1>1 DEF IsDirective
  <2>2. QED
    BY <1>2, <2>1
<1>4. QED
  BY <1>2, <1>3, IdentifierIsText DEF Arg

LEMMA DeclaredNext ==
  ASSUME LayoutInv, DeclaredNames, [Next]_vars
  PROVE  DeclaredNames'
<1>1. CASE DeclareSymbol
  <2>1. AtDirective({"global", "extern", "entry", "proc"})
    BY <1>1 DEF DeclareSymbol, AtDirective
  <2>2. Arg \in STRING
    BY <2>1, NamedArgument
  <2>3. /\ globals'   = globals \/ globals' = Append(globals, Arg)
        /\ externals' = externals \/ externals' = Append(externals, Arg)
    BY <1>1 DEF DeclareSymbol
  <2> DEFINE name == Arg
  <2> HIDE DEF name
  <2>4. name \in STRING
    BY <2>2 DEF name
  <2>5. Append(globals, name) \in Seq(STRING) /\ Append(externals, name) \in Seq(STRING)
    BY <2>4, AppendProperties DEF DeclaredNames
  <2>6. QED
    BY <2>3, <2>5 DEF DeclaredNames, name
<1>2. CASE UNCHANGED <<globals, externals>>
  BY <1>2 DEF DeclaredNames
<1>3. QED
  <2>1. CASE \/ ReadStatement \/ ReadData \/ SelectSection \/ AlignSection
             \/ Locate \/ BeginProcedure \/ EndProcedure
    BY <1>2, <2>1 DEF ReadStatement, ReadData, Record, SelectSection, AlignSection,
                      Locate, BeginProcedure, EndProcedure, context
  <2>2. CASE \/ RejectLine \/ DuplicateLabel \/ RejectRaw \/ UndefinedGlobal
             \/ RejectObject \/ OutOfMemory
    BY <1>2, <2>2 DEF RejectLine, DuplicateLabel, RejectRaw, UndefinedGlobal,
                      RejectObject, OutOfMemory, Fail, context
  <2>3. CASE EndLoop \/ ReturnRaw \/ Encode \/ NumberLine
    BY <1>2, <2>3 DEF EndLoop, ReturnRaw, Encode, NumberLine, NextItem, context
  <2>4. CASE \/ Translate \/ LabelSymbol \/ PassUnlabelled \/ ExportSymbol
             \/ ImportSymbol \/ EmitData \/ EmitInstruction \/ EmitReference
    BY <1>2, <2>4, EmittingSteps DEF NextItem, context
  <2>5. CASE UNCHANGED vars
    BY <1>2, <2>5 DEF vars, context
  <2>6. QED
    BY <1>1, <2>1, <2>2, <2>3, <2>4, <2>5 DEF Next, Proceed

(* The loops over the labels, the globals and the externals.               *)
LEMMA NoSymbols ==
  ASSUME NEW list
  PROVE  SymbolsMade(list, << >>, 1, {}, {})
<1>1. IsList(<< >>)
  <2>1. << >> \in Seq({})
    OBVIOUS
  <2>2. QED
    BY <2>1, Zenon DEF IsList
<1>2. QED
  BY <1>1 DEF SymbolsMade, NamesApart, LabelsDefined

LEMMA SymbolAppended ==
  ASSUME NEW list, NEW syms, NEW m \in Nat, NEW exported, NEW imported,
         SymbolsMade(list, syms, m, exported, imported),
         NEW m2 \in {m, m + 1}, NEW imported2, imported \subseteq imported2,
         NEW symbol, \A x \in 1..Len(syms) : syms[x].name # symbol.name,
         m2 = m + 1 => symbol = LabelDefinition(list[m], exported),
         DefinesLabel(list, symbol, m2, exported) \/ RefersOutside(list, symbol, imported2)
  PROVE  SymbolsMade(list, Append(syms, symbol), m2, exported, imported2)
<1> DEFINE new == Append(syms, symbol)
<1>1. /\ IsList(new)
      /\ Len(syms) \in Nat /\ Len(new) = Len(syms) + 1
      /\ \A x \in 1..Len(syms) : new[x] = syms[x]
      /\ new[Len(syms) + 1] = symbol
  BY AppendToList DEF SymbolsMade
<1> HIDE DEF new
<1>2. NamesApart(new)
  <2> SUFFICES ASSUME NEW x \in 1..Len(new), NEW y \in 1..Len(new),
                      new[x].name = new[y].name
               PROVE  x = y
    BY DEF NamesApart
  <2>1. \A z \in 1..Len(new) : z # Len(syms) + 1 => z \in 1..Len(syms)
    BY <1>1
  <2>2. CASE x # Len(syms) + 1 /\ y # Len(syms) + 1
    BY <1>1, <2>1, <2>2 DEF SymbolsMade, NamesApart
  <2>3. CASE x = Len(syms) + 1 \/ y = Len(syms) + 1
    BY <1>1, <2>1, <2>3
  <2>4. QED
    BY <2>2, <2>3
<1>3. LabelsDefined(list, new, m2, exported)
  <2> SUFFICES ASSUME NEW i \in 1..(m2 - 1), list[i].label # NoName
               PROVE  \E x \in 1..Len(new) : new[x] = LabelDefinition(list[i], exported)
    BY DEF LabelsDefined
  <2>1. CASE i \in 1..(m - 1)
    <3>1. PICK x \in 1..Len(syms) : syms[x] = LabelDefinition(list[i], exported)
      BY <2>1 DEF SymbolsMade, LabelsDefined
    <3>2. x \in 1..Len(new) /\ new[x] = LabelDefinition(list[i], exported)
      BY <1>1, <3>1
    <3>3. QED
      BY <3>2
  <2>2. CASE i \notin 1..(m - 1)
    <3>1. i = m /\ m2 = m + 1
      BY <2>2
    <3>2. /\ new[Len(syms) + 1] = LabelDefinition(list[i], exported)
          /\ Len(syms) + 1 \in 1..Len(new)
      BY <1>1, <3>1
    <3>3. QED
      BY <3>2
  <2>3. QED
    BY <2>1, <2>2
<1>4. ASSUME NEW x \in 1..Len(new)
      PROVE  \/ DefinesLabel(list, new[x], m2, exported)
             \/ RefersOutside(list, new[x], imported2)
  <2>1. CASE x = Len(syms) + 1
    BY <1>1, <2>1
  <2>2. CASE x # Len(syms) + 1
    <3>1. x \in 1..Len(syms) /\ new[x] = syms[x]
      BY <1>1, <2>2
    <3>2. \/ DefinesLabel(list, new[x], m, exported)
          \/ RefersOutside(list, new[x], imported)
      BY <3>1 DEF SymbolsMade
    <3>3. 1..(m - 1) \subseteq 1..(m2 - 1)
      OBVIOUS
    <3>4. QED
      BY <3>2, <3>3 DEF DefinesLabel, RefersOutside
  <2>3. QED
    BY <2>1, <2>2
<1>5. SymbolsMade(list, new, m2, exported, imported2)
  BY <1>1, <1>2, <1>3, <1>4 DEF SymbolsMade
<1>6. QED
  BY <1>5 DEF new

LEMMA SymbolsPassed ==
  ASSUME NEW list, NEW syms, NEW m \in Nat, NEW exported, NEW imported,
         SymbolsMade(list, syms, m, exported, imported),
         NEW m2 \in {m, m + 1}, NEW imported2, imported \subseteq imported2,
         m2 = m + 1 => list[m].label = NoName
  PROVE  SymbolsMade(list, syms, m2, exported, imported2)
<1>1. 1..(m - 1) \subseteq 1..(m2 - 1)
  OBVIOUS
<1>2. \A i \in 1..(m2 - 1) : i \in 1..(m - 1) \/ (i = m /\ m2 = m + 1)
  OBVIOUS
<1>3. LabelsDefined(list, syms, m2, exported)
  BY <1>2 DEF SymbolsMade, LabelsDefined
<1>4. ASSUME NEW x \in 1..Len(syms)
      PROVE  \/ DefinesLabel(list, syms[x], m2, exported)
             \/ RefersOutside(list, syms[x], imported2)
  <2>1. \/ DefinesLabel(list, syms[x], m, exported)
        \/ RefersOutside(list, syms[x], imported)
    BY DEF SymbolsMade
  <2>2. QED
    BY <1>1, <2>1 DEF DefinesLabel, RefersOutside
<1>5. QED
  BY <1>3, <1>4 DEF SymbolsMade

LEMMA LabelAdded ==
  ASSUME NEW list, UniqueLabels(list), Len(list) \in Nat, NEW k \in 1..Len(list),
         list[k].label # NoName, NEW syms, SymbolsMade(list, syms, k, {}, {})
  PROVE  /\ \A x \in 1..Len(syms) : syms[x].name # list[k].label
         /\ SymbolsMade(list, Append(syms, LabelDefinition(list[k], {})), k + 1, {}, {})
<1>1. \A x \in 1..Len(syms) : syms[x].name # list[k].label
  <2> SUFFICES ASSUME NEW x \in 1..Len(syms), syms[x].name = list[k].label
               PROVE  FALSE
    OBVIOUS
  <2>1. DefinesLabel(list, syms[x], k, {})
    BY DEF SymbolsMade, RefersOutside
  <2>2. PICK i \in 1..(k - 1) : syms[x] = LabelDefinition(list[i], {})
    BY <2>1 DEF DefinesLabel
  <2>3. list[i].label = list[k].label
    BY <2>2 DEF LabelDefinition
  <2>4. i \in 1..Len(list) /\ i # k
    OBVIOUS
  <2>5. QED
    BY <2>3, <2>4 DEF UniqueLabels
<1> DEFINE symbol == LabelDefinition(list[k], {})
<1>2. symbol.name = list[k].label
  BY DEF LabelDefinition
<1>3. DefinesLabel(list, symbol, k + 1, {})
  <2>1. k \in 1..((k + 1) - 1)
    OBVIOUS
  <2>2. QED
    BY <2>1 DEF DefinesLabel
<1>4. symbol = LabelDefinition(list[k], {})
  OBVIOUS
<1> HIDE DEF symbol
<1>5. \A x \in 1..Len(syms) : syms[x].name # symbol.name
  BY <1>1, <1>2
<1>6. SymbolsMade(list, Append(syms, symbol), k + 1, {}, {})
  <2> DEFINE none == {}
             n == k + 1
  <2>1. k \in Nat /\ n \in {k, k + 1} /\ none \subseteq none
    OBVIOUS
  <2>2. /\ DefinesLabel(list, symbol, n, none) \/ RefersOutside(list, symbol, none)
        /\ n = k + 1 => symbol = LabelDefinition(list[k], none)
        /\ SymbolsMade(list, syms, k, none, none)
    BY <1>3, <1>4
  <2> HIDE DEF none, n
  <2>3. SymbolsMade(list, Append(syms, symbol), n, none, none)
    BY <1>5, <2>1, <2>2, SymbolAppended
  <2>4. QED
    BY <2>3 DEF none, n
<1>7. QED
  BY <1>1, <1>6 DEF symbol

LEMMA ExternalAdded ==
  ASSUME NEW list, Len(list) \in Nat, NEW syms, NEW exported, NEW imported,
         SymbolsMade(list, syms, Len(list) + 1, exported, imported),
         NEW name, name # NoName, \A x \in 1..Len(syms) : syms[x].name # name
  PROVE  SymbolsMade(list, Append(syms, ExternalReference(name)),
                     Len(list) + 1, exported, imported \cup {name})
<1> DEFINE symbol == ExternalReference(name)
<1>1. \A i \in 1..Len(list) : list[i].label # name
  <2> SUFFICES ASSUME NEW i \in 1..Len(list), list[i].label = name
               PROVE  FALSE
    OBVIOUS
  <2>1. i \in 1..((Len(list) + 1) - 1)
    OBVIOUS
  <2>2. PICK x \in 1..Len(syms) : syms[x] = LabelDefinition(list[i], exported)
    BY <2>1 DEF SymbolsMade, LabelsDefined
  <2>3. syms[x].name = name
    BY <2>2 DEF LabelDefinition
  <2>4. QED
    BY <2>3
<1>2. symbol.name = name
  BY DEF ExternalReference
<1>3. RefersOutside(list, symbol, imported \cup {name})
  BY <1>1, <1>2 DEF RefersOutside
<1> DEFINE m == Len(list) + 1
<1>4. m \in Nat /\ m # m + 1 /\ SymbolsMade(list, syms, m, exported, imported)
  OBVIOUS
<1> HIDE DEF symbol, m
<1>5. \A x \in 1..Len(syms) : syms[x].name # symbol.name
  BY <1>2
<1>6. SymbolsMade(list, Append(syms, symbol), m, exported, imported \cup {name})
  BY <1>3, <1>4, <1>5, SymbolAppended
<1>7. QED
  BY <1>6 DEF symbol, m

(* A symbol that is exported is that of the one label of that name.        *)
LEMMA SymbolExported ==
  ASSUME NEW list, NEW syms, NEW m, NEW exported,
         SymbolsMade(list, syms, m, exported, {}),
         NEW s \in 1..Len(syms), NEW name, syms[s].name = name
  PROVE  SymbolsMade(list, [syms EXCEPT ![s].binding = "global"],
                     m, exported \cup {name}, {})
<1> DEFINE symbol == [syms[s] EXCEPT !.binding = "global"]
           new == [syms EXCEPT ![s].binding = "global"]
           wider == exported \cup {name}
<1>1. /\ IsList(new) /\ Len(new) = Len(syms)
      /\ \A x \in 1..Len(syms) : new[x] = IF x = s THEN symbol ELSE syms[x]
  <2>1. PICK T : syms \in Seq(T)
    BY DEF SymbolsMade, IsList
  <2>2. new = [syms EXCEPT ![s] = symbol]
    OBVIOUS
  <2> HIDE DEF symbol, new
  <2>3. syms \in Seq(T \cup {symbol})
    BY <2>1
  <2>4. [syms EXCEPT ![s] = symbol] \in Seq(T \cup {symbol})
    BY <2>3
  <2>5. /\ Len([syms EXCEPT ![s] = symbol]) = Len(syms)
        /\ \A x \in 1..Len(syms) :
             [syms EXCEPT ![s] = symbol][x] = IF x = s THEN symbol ELSE syms[x]
    BY <2>3
  <2>6. IsList(new)
    BY <2>2, <2>4, Zenon DEF IsList
  <2>7. QED
    BY <2>2, <2>5, <2>6
<1> HIDE DEF new, symbol, wider
<1>2. name \in wider /\ \A n : n # name => (n \in wider <=> n \in exported)
  BY DEF wider
<1>3. ASSUME NEW x \in 1..Len(syms), NEW line, syms[x] = LabelDefinition(line, exported)
      PROVE  new[x] = LabelDefinition(line, wider)
  <2>1. syms[x].name = line.label
    BY <1>3 DEF LabelDefinition
  <2>2. CASE x = s
    <3>1. line.label \in wider
      BY <1>2, <2>1, <2>2
    <3>2. symbol = [LabelDefinition(line, exported) EXCEPT !.binding = "global"]
      BY <1>3, <2>2 DEF symbol
    <3>3. symbol = LabelDefinition(line, wider)
      BY <3>1, <3>2 DEF LabelDefinition
    <3>4. QED
      BY <1>1, <2>2, <3>3
  <2>3. CASE x # s
    <3>1. line.label # name
      BY <2>1, <2>3 DEF SymbolsMade, NamesApart
    <3>2. LabelDefinition(line, wider) = LabelDefinition(line, exported)
      BY <1>2, <3>1 DEF LabelDefinition
    <3>3. QED
      BY <1>1, <1>3, <2>3, <3>2
  <2>4. QED
    BY <2>2, <2>3
<1>4. ASSUME NEW x \in 1..Len(syms)
      PROVE  new[x].name = syms[x].name /\ DefinesLabel(list, new[x], m, wider)
  <2>1. DefinesLabel(list, syms[x], m, exported)
    BY DEF SymbolsMade, RefersOutside
  <2>2. PICK i \in 1..(m - 1) : /\ list[i].label # NoName
                                /\ syms[x] = LabelDefinition(list[i], exported)
    BY <2>1 DEF DefinesLabel
  <2>3. new[x] = LabelDefinition(list[i], wider)
    BY <1>3, <2>2
  <2>4. new[x].name = list[i].label /\ syms[x].name = list[i].label
    BY <2>2, <2>3 DEF LabelDefinition
  <2>5. DefinesLabel(list, new[x], m, wider)
    BY <2>2, <2>3 DEF DefinesLabel
  <2>6. QED
    BY <2>4, <2>5
<1>5. NamesApart(new)
  BY <1>1, <1>4 DEF NamesApart, SymbolsMade
<1>6. LabelsDefined(list, new, m, wider)
  <2> SUFFICES ASSUME NEW i \in 1..(m - 1), list[i].label # NoName
               PROVE  \E x \in 1..Len(new) : new[x] = LabelDefinition(list[i], wider)
    BY DEF LabelsDefined
  <2>1. PICK x \in 1..Len(syms) : syms[x] = LabelDefinition(list[i], exported)
    BY DEF SymbolsMade, LabelsDefined
  <2>2. new[x] = LabelDefinition(list[i], wider)
    BY <1>3, <2>1
  <2>3. QED
    BY <1>1, <2>2
<1>7. SymbolsMade(list, new, m, wider, {})
  BY <1>1, <1>4, <1>5, <1>6 DEF SymbolsMade
<1>8. QED
  BY <1>7 DEF new, wider

LEMMA BeforeNext ==
  ASSUME NEW list, NEW k \in Nat \ {0}
  PROVE  Before(list, k + 1) = Before(list, k) \cup {list[k]}
<1>1. \A x : x \in 1..((k + 1) - 1) <=> x \in 1..(k - 1) \/ x = k
  OBVIOUS
<1>2. QED
  BY <1>1 DEF Before

(* Bytes are put in a section behind those of the lines in front.          *)
Placed(data, offset, bytes) ==
  [p \in DOMAIN data |-> IF p \in (offset + 1)..(offset + Len(bytes))
                           THEN bytes[p - offset] ELSE data[p]]

HoldsAt(new, data, offset, bytes) ==
  /\ new \in Seq(Byte) /\ Len(new) = Len(data)
  /\ \A p \in 1..Len(data) : p \notin (offset + 1)..(offset + Len(bytes)) =>
       new[p] = data[p]
  /\ SubSeq(new, offset + 1, offset + Len(bytes)) = bytes
  /\ \A m, n \in Nat : m <= n /\ n <= offset =>
       SubSeq(new, m + 1, n) = SubSeq(data, m + 1, n)

LEMMA BytesPlaced ==
  ASSUME NEW data \in Seq(Byte), NEW offset \in Nat, NEW bytes \in Seq(Byte),
         offset + Len(bytes) <= Len(data)
  PROVE  HoldsAt(Placed(data, offset, bytes), data, offset, bytes)
<1> DEFINE new == Placed(data, offset, bytes)
<1>1. Len(data) \in Nat /\ Len(bytes) \in Nat /\ DOMAIN data = 1..Len(data)
  OBVIOUS
<1>2. /\ new = [p \in 1..Len(data) |-> IF p \in (offset + 1)..(offset + Len(bytes))
                                         THEN bytes[p - offset] ELSE data[p]]
  BY <1>1 DEF Placed
<1>3. \A p \in 1..Len(data) : data[p] \in Byte
  OBVIOUS
<1>4. ASSUME NEW p \in (offset + 1)..(offset + Len(bytes))
      PROVE  p - offset \in 1..Len(bytes) /\ bytes[p - offset] \in Byte
  <2>1. p - offset \in 1..Len(bytes)
    BY <1>1
  <2>2. QED
    BY <2>1
<1> HIDE DEF new
<1>5. new \in [1..Len(data) -> Byte]
  BY <1>2, <1>3, <1>4
<1>6. new \in Seq(Byte) /\ Len(new) = Len(data)
  BY <1>1, <1>5
<1>7. \A p \in 1..Len(data) :
        new[p] = IF p \in (offset + 1)..(offset + Len(bytes))
                   THEN bytes[p - offset] ELSE data[p]
  BY <1>2
<1>8. SubSeq(new, offset + 1, offset + Len(bytes)) = bytes
  <2>1. \A i \in 1..Len(bytes) : new[offset + i] = bytes[i]
    <3> TAKE i \in 1..Len(bytes)
    <3>1. /\ offset + i \in 1..Len(data) /\ (offset + i) - offset = i
          /\ offset + i \in (offset + 1)..(offset + Len(bytes))
      BY <1>1
    <3>2. QED
      BY <1>7, <3>1
  <2>2. QED
    BY <1>1, <1>6, <2>1
<1>9. ASSUME NEW m \in Nat, NEW n \in Nat, m <= n, n <= offset
      PROVE  SubSeq(new, m + 1, n) = SubSeq(data, m + 1, n)
  <2>1. \A i \in (m + 1)..n : new[i] = data[i]
    BY <1>1, <1>7, <1>9
  <2>2. n <= Len(data)
    BY <1>1, <1>9
  <2>3. QED
    BY <1>1, <1>6, <1>9, <2>1, <2>2
<1>10. HoldsAt(new, data, offset, bytes)
  BY <1>6, <1>7, <1>8, <1>9 DEF HoldsAt
<1>11. QED
  BY <1>10 DEF new

LEMMA LineNumbers ==
  ASSUME LayoutInv, NEW i \in 1..Len(lines)
  PROVE  /\ lines[i].section \in 1..Len(sections)
         /\ lines[i].offset \in Nat /\ lines[i].size \in Nat
         /\ sections[lines[i].section].size \in Nat
         /\ lines[i].offset + lines[i].size <= sections[lines[i].section].size
         /\ sections[lines[i].section].size <= RomSize
<1>1. /\ lines[i].section \in 1..Len(sections)
      /\ lines[i].offset \in Nat /\ lines[i].size \in Nat
      /\ lines[i].offset + lines[i].size <= sections[lines[i].section].size
  BY DEF LayoutInv, TypeOK, LayoutApart, LineIndices, SectionIndices
<1>2. sections \in Seq(AsmSection)
  BY DEF LayoutInv, TypeOK
<1>3. \A s \in 1..Len(sections) : sections[s].size \in Nat /\ sections[s].size <= RomSize
  <2>1. \A x \in AsmSection : x.size \in Nat /\ x.size <= RomSize
    BY RomSizeType DEF AsmSection
  <2>2. QED
    BY <1>2, <2>1
<1>4. QED
  BY <1>1, <1>3

LEMMA NoContents ==
  ASSUME LayoutInv
  PROVE  ContentsMade(lines, sections, [s \in 1..Len(sections) |->
                         [p \in 1..sections[s].size |-> 0]], 1)
<1> DEFINE parts == [s \in 1..Len(sections) |-> [p \in 1..sections[s].size |-> 0]]
<1>1. \A s \in 1..Len(sections) : sections[s].size \in Nat
  BY SectionNumbers DEF LayoutInv, TypeOK
<1>2. 0 \in Byte
  BY ByteBaseAssumption DEF Byte
<1>3. ASSUME NEW s \in 1..Len(sections)
      PROVE  /\ parts[s] \in Seq(Byte) /\ Len(parts[s]) = sections[s].size
             /\ \A p \in 1..sections[s].size : parts[s][p] = 0
  <2> DEFINE n == sections[s].size
  <2>1. n \in Nat /\ parts[s] = [p \in 1..n |-> 0]
    BY <1>1
  <2> HIDE DEF n, parts
  <2>2. [p \in 1..n |-> 0] \in Seq(Byte) /\ Len([p \in 1..n |-> 0]) = n
    BY <1>2, <2>1
  <2>3. QED
    BY <2>1, <2>2 DEF n
<1>4. parts = [s \in 1..Len(sections) |-> parts[s]]
  OBVIOUS
<1> HIDE DEF parts
<1>5. ContentsMade(lines, sections, parts, 1)
  <2>1. Fits(sections, parts)
    BY <1>3, <1>4 DEF Fits
  <2>2. GapsAreZero(lines, sections, parts, 1)
    BY <1>3 DEF GapsAreZero
  <2>3. QED
    BY <2>1, <2>2 DEF ContentsMade
<1>6. QED
  BY <1>5 DEF parts

LEMMA PartAdded ==
  ASSUME LayoutInv, NEW k \in 1..Len(lines), NEW parts, ContentsMade(lines, sections, parts, k),
         NEW bytes \in Seq(Byte), Len(bytes) = lines[k].size, IsPart(lines, bytes, lines[k])
  PROVE  ContentsMade(lines, sections, [parts EXCEPT ![lines[k].section] =
                         Placed(@, lines[k].offset, bytes)], k + 1)
<1> DEFINE c == lines[k].section
           data == Placed(parts[c], lines[k].offset, bytes)
           new == [parts EXCEPT ![c] = data]
<1>1. /\ c \in 1..Len(sections)
      /\ lines[k].offset \in Nat /\ lines[k].size \in Nat
      /\ sections[c].size \in Nat
      /\ lines[k].offset + lines[k].size <= sections[c].size
  BY LineNumbers
<1>2. /\ parts = [s \in 1..Len(sections) |-> parts[s]]
      /\ \A s \in 1..Len(sections) : /\ parts[s] \in Seq(Byte)
                                   /\ Len(parts[s]) = sections[s].size
  BY DEF ContentsMade, Fits
<1>3. /\ data \in Seq(Byte) /\ Len(data) = sections[c].size
      /\ \A p \in 1..sections[c].size :
           p \notin (lines[k].offset + 1)..(lines[k].offset + lines[k].size) =>
             data[p] = parts[c][p]
      /\ SubSeq(data, lines[k].offset + 1, lines[k].offset + lines[k].size) = bytes
      /\ \A m, n \in Nat : m <= n /\ n <= lines[k].offset =>
           SubSeq(data, m + 1, n) = SubSeq(parts[c], m + 1, n)
  <2>1. /\ parts[c] \in Seq(Byte) /\ Len(parts[c]) = sections[c].size
        /\ lines[k].offset + Len(bytes) <= Len(parts[c])
    BY <1>1, <1>2
  <2> DEFINE old == parts[c]
             offset == lines[k].offset
  <2>2. old \in Seq(Byte) /\ offset \in Nat /\ offset + Len(bytes) <= Len(old)
    BY <1>1, <2>1
  <2> HIDE DEF old, offset, c
  <2>3. HoldsAt(Placed(old, offset, bytes), old, offset, bytes)
    BY <2>2, BytesPlaced, Zenon
  <2>4. QED
    BY <2>1, <2>3 DEF HoldsAt, old, offset
<1> HIDE DEF data
<1>4. /\ new = [s \in 1..Len(sections) |-> new[s]]
      /\ new[c] = data
      /\ \A s \in 1..Len(sections) : s # c => new[s] = parts[s]
  BY <1>1, <1>2
<1>5. \A i \in 1..((k + 1) - 1) : i \in 1..(k - 1) \/ i = k
  OBVIOUS
<1> HIDE DEF new, c
<1>6. Fits(sections, new)
  <2>1. ASSUME NEW s \in 1..Len(sections)
        PROVE  new[s] \in Seq(Byte) /\ Len(new[s]) = sections[s].size
    <3>1. CASE s = c
      BY <1>3, <1>4, <3>1
    <3>2. CASE s # c
      BY <1>2, <1>4, <3>2
    <3>3. QED
      BY <3>1, <3>2
  <2>2. QED
    BY <1>4, <2>1 DEF Fits
<1>7. GapsAreZero(lines, sections, new, k + 1)
  <2> SUFFICES ASSUME NEW s \in 1..Len(sections), NEW p \in 1..sections[s].size,
                      \A i \in 1..((k + 1) - 1) : ~LiesIn(lines[i], s, p)
               PROVE  new[s][p] = 0
    BY DEF GapsAreZero
  <2>1. (\A i \in 1..(k - 1) : ~LiesIn(lines[i], s, p)) /\ ~LiesIn(lines[k], s, p)
    OBVIOUS
  <2>2. parts[s][p] = 0
    BY <2>1 DEF ContentsMade, GapsAreZero
  <2>3. CASE s = c
    <3>1. p \notin (lines[k].offset + 1)..(lines[k].offset + lines[k].size)
      BY <2>1, <2>3 DEF LiesIn, c
    <3>2. QED
      BY <1>3, <1>4, <2>2, <2>3, <3>1
  <2>4. CASE s # c
    BY <1>4, <2>2, <2>4
  <2>5. QED
    BY <2>3, <2>4
<1>8. ASSUME NEW i \in 1..(k - 1)
      PROVE  HasPart(lines, new, i)
  <2>1. HasPart(lines, parts, i) /\ i \in 1..Len(lines)
    <3>1. Len(lines) \in Nat
      BY LinesSized
    <3>2. QED
      BY <3>1 DEF ContentsMade
  <2>2. /\ lines[i].section \in 1..Len(sections)
        /\ lines[i].offset \in Nat /\ lines[i].size \in Nat
    BY <2>1, LineNumbers
  <2>3. CASE lines[i].section # c
    BY <1>4, <2>1, <2>2, <2>3 DEF HasPart
  <2>4. CASE lines[i].section = c
    <3>1. lines[i].offset + lines[i].size <= lines[k].offset
      <4>1. k \in LineIndices
        BY DEF LineIndices
      <4>2. QED
        BY <2>4, <4>1 DEF LayoutInv, LayoutApart, c
    <3> DEFINE m == lines[i].offset
               n == lines[i].offset + lines[i].size
    <3>2. m \in Nat /\ n \in Nat /\ m <= n /\ n <= lines[k].offset
      BY <2>2, <3>1
    <3> HIDE DEF m, n
    <3>3. SubSeq(data, m + 1, n) = SubSeq(parts[c], m + 1, n)
      BY <1>3, <3>2
    <3>4. QED
      BY <1>4, <2>1, <2>4, <3>3 DEF HasPart, m, n
  <2>5. QED
    BY <2>3, <2>4
<1>9. HasPart(lines, new, k)
  BY <1>3, <1>4 DEF HasPart, c
<1>10. ContentsMade(lines, sections, new, k + 1)
  BY <1>5, <1>6, <1>7, <1>8, <1>9 DEF ContentsMade
<1>11. QED
  BY <1>10 DEF new, data, c

(* What the last loop makes of a line.                                     *)
LEMMA NoFaultOfThree ==
  ASSUME NEW a, NEW b, NEW c, FirstFault(<<a, b, c>>) = "NONE"
  PROVE  a = "NONE" /\ b = "NONE" /\ c = "NONE"
<1> DEFINE faults == <<a, b, c>>
<1>1. DOMAIN faults = 1..3 /\ faults[1] = a /\ faults[2] = b /\ faults[3] = c
  OBVIOUS
<1> HIDE DEF faults
<1>2. \A i \in 1..3 : faults[i] = "NONE"
  BY <1>1, NoFault DEF faults
<1>3. QED
  BY <1>1, <1>2

LEMMA ObjectStatementAccepted ==
  ASSUME ObjectFault = "NONE", Item.statement # NoToken
  PROVE  /\ OperandFault(Item.statement) = "NONE"
         /\ SpellingFault(Item.statement) = "NONE"
         /\ ImmediateFault(Item.statement.imm, TRUE) = "NONE"
<1> DEFINE st == Item.statement
           a == SpellingFault(st)
           b == OperandFault(st)
           known == LocalLines # {} \/ SymbolsNamed(st.imm.value) # {}
           c == ImmediateFault(st.imm, known)
<1>1. FirstFault(<<a, b, c>>) = "NONE"
  BY DEF ObjectFault
<1> HIDE DEF a, b, c, known
<1>2. a = "NONE" /\ b = "NONE" /\ c = "NONE"
  BY <1>1, NoFaultOfThree
<1>3. IsUse(st) => known
  BY <1>2 DEF c, ImmediateFault, IsUse, Check
<1>4. ImmediateFault(st.imm, TRUE) = "NONE"
  BY <1>2, <1>3 DEF c, ImmediateFault, IsUse, Check
<1>5. QED
  BY <1>2, <1>4 DEF a, b

LEMMA LocalLinesAreLocal ==
  ASSUME Item = lines[at], Item.statement # NoToken
  PROVE  /\ UsesLabel(lines[at]) <=> IsUse(Item.statement)
         /\ IsUse(Item.statement) => LocalLines = LocalIn(lines, lines[at])
<1>1. LocalLines = {i \in 1..Len(lines) : /\ lines[i].label = UsedLabel(lines[at])
                                          /\ lines[i].section = lines[at].section}
  BY DEF LocalLines, LinesNamed, UsedLabel
<1>2. LocalIn(lines, lines[at]) =
        {i \in 1..Len(lines) : /\ lines[i].label = UsedLabel(lines[at])
                               /\ lines[i].section = lines[at].section}
  BY DEF LocalIn
<1>3. QED
  BY <1>1, <1>2 DEF UsesLabel

LEMMA DataIsPart ==
  ASSUME NEW i, LineMade(lines[i]), lines[i].statement = NoToken
  PROVE  /\ lines[i].bytes \in Seq(Byte) /\ Len(lines[i].bytes) = lines[i].size
         /\ IsPart(lines, lines[i].bytes, lines[i])
         /\ ~IsRemoteIn(lines, lines[i])
BY DEF LineMade, IsPart, HasLocal, IsRemoteIn, UsesLabel, BytesOf

LEMMA InstructionIsPart ==
  ASSUME NEW i, LineMade(lines[i]), lines[i].statement # NoToken,
         NEW st, st = lines[i].statement,
         OperandFault(st) = "NONE", SpellingFault(st) = "NONE",
         ImmediateFault(st.imm, TRUE) = "NONE",
         NEW label, IsUse(st) => label \in Word,
         HasLocal(lines, lines[i]) => \E j \in LocalIn(lines, lines[i]) : label = lines[j].offset,
         IsRemoteIn(lines, lines[i]) => label = 0
  PROVE  /\ InstructionOf(st, label) \in Seq(Byte)
         /\ Len(InstructionOf(st, label)) = lines[i].size
         /\ lines[i].size = 8
         /\ IsPart(lines, InstructionOf(st, label), lines[i])
<1> DEFINE bytes == InstructionOf(st, label)
<1>1. IsStatement(st) /\ lines[i].size = INSTRUCTION_SIZE
  BY DEF LineMade
<1>2. bytes \in Seq(Byte) /\ DecodesTo(bytes, st, label)
  BY <1>1, InstructionDecodes
<1> HIDE DEF bytes
<1>3. Len(bytes) = lines[i].size
  BY <1>1, <1>2 DEF DecodesTo
<1>4. BytesOf(bytes, lines[i], label)
  BY <1>2 DEF BytesOf
<1>5. UsesLabel(lines[i]) <=> IsUse(st)
  BY DEF UsesLabel
<1>6. IsPart(lines, bytes, lines[i])
  <2>1. CASE HasLocal(lines, lines[i])
    BY <1>4, <2>1 DEF IsPart
  <2>2. CASE IsRemoteIn(lines, lines[i])
    BY <1>4, <2>2 DEF IsPart, HasLocal, IsRemoteIn
  <2>3. CASE ~UsesLabel(lines[i])
    <3>1. DecodesTo(bytes, st, 0)
      BY <1>2, <1>5, <2>3, TargetOfNone
    <3>2. BytesOf(bytes, lines[i], 0)
      BY <3>1 DEF BytesOf
    <3>3. QED
      BY <2>3, <3>2 DEF IsPart, HasLocal
  <2>4. QED
    BY <2>1, <2>2, <2>3 DEF HasLocal, IsRemoteIn
<1>7. QED
  BY <1>1, <1>2, <1>3, <1>6 DEF bytes, INSTRUCTION_SIZE

(* An offset is a word, and the immediate of an instruction is behind its  *)
(* first half.                                                             *)
LEMMA OffsetIsWord ==
  ASSUME LayoutInv, NEW i \in 1..Len(lines)
  PROVE  /\ lines[i].offset \in Word
         /\ ToWord(lines[i].offset) = lines[i].offset
         /\ lines[i].size = 8 => ToWord(lines[i].offset + 4) = lines[i].offset + 4
<1> DEFINE offset == lines[i].offset
<1>1. /\ offset \in Nat /\ lines[i].size \in Nat
      /\ offset + lines[i].size <= RomSize
  <2>1. /\ offset \in Nat /\ lines[i].size \in Nat
        /\ sections[lines[i].section].size \in Nat
        /\ offset + lines[i].size <= sections[lines[i].section].size
        /\ sections[lines[i].section].size <= RomSize
    BY LineNumbers
  <2>2. QED
    BY <2>1, RomSizeType
<1> HIDE DEF offset
<1>2. offset \in Word /\ (lines[i].size = 8 => offset + 4 \in Word)
  BY <1>1, RomSizeType, Bases DEF Word
<1>3. ToWord(offset) = offset
  BY <1>2, ToWordOfWord
<1>4. lines[i].size = 8 => ToWord(offset + 4) = offset + 4
  BY <1>2, ToWordOfWord
<1>5. QED
  BY <1>2, <1>3, <1>4 DEF offset

(* A relocation is added for the instruction with a remote label.          *)
LEMMA RemoteCounted ==
  ASSUME NEW k \in Nat \ {0}
  PROVE  /\ IsFiniteSet(RemoteBefore(lines, k))
         /\ IsRemoteIn(lines, lines[k]) => /\ RemoteBefore(lines, k + 1) = RemoteBefore(lines, k) \cup {k}
                                  /\ Cardinality(RemoteBefore(lines, k + 1))
                                       = Cardinality(RemoteBefore(lines, k)) + 1
         /\ ~IsRemoteIn(lines, lines[k]) => RemoteBefore(lines, k + 1) = RemoteBefore(lines, k)
<1>1. IsFiniteSet(RemoteBefore(lines, k))
  <2>1. IsFiniteSet(1..(k - 1))
    BY FS_Interval
  <2>2. RemoteBefore(lines, k) \subseteq 1..(k - 1)
    BY DEF RemoteBefore
  <2>3. QED
    BY <2>1, <2>2, FS_Subset
<1>2. \A i : i \in 1..((k + 1) - 1) <=> i \in 1..(k - 1) \/ i = k
  OBVIOUS
<1>3. IsRemoteIn(lines, lines[k]) => RemoteBefore(lines, k + 1) = RemoteBefore(lines, k) \cup {k}
  BY <1>2 DEF RemoteBefore
<1>4. ~IsRemoteIn(lines, lines[k]) => RemoteBefore(lines, k + 1) = RemoteBefore(lines, k)
  BY <1>2 DEF RemoteBefore
<1>5. k \notin RemoteBefore(lines, k)
  BY DEF RemoteBefore
<1>6. Cardinality(RemoteBefore(lines, k) \cup {k}) = Cardinality(RemoteBefore(lines, k)) + 1
  BY <1>1, <1>5, FS_AddElement
<1>7. QED
  BY <1>1, <1>3, <1>4, <1>6

LEMMA RelocationAdded ==
  ASSUME NEW k \in Nat \ {0}, NEW rels, RelocationsMade(lines, sections, symbols, rels, k), IsRemoteIn(lines, lines[k]),
         NEW relocation, Relocates(symbols, relocation, lines[k]),
         sections[lines[k].section].type # "bss"
  PROVE  RelocationsMade(lines, sections, symbols, Append(rels, relocation), k + 1)
<1> DEFINE new == Append(rels, relocation)
<1>1. /\ IsList(new)
      /\ Len(rels) \in Nat /\ Len(new) = Len(rels) + 1
      /\ \A x \in 1..Len(rels) : new[x] = rels[x]
      /\ new[Len(rels) + 1] = relocation
  BY AppendToList DEF RelocationsMade
<1> HIDE DEF new
<1>2. /\ RemoteBefore(lines, k + 1) = RemoteBefore(lines, k) \cup {k}
      /\ Cardinality(RemoteBefore(lines, k + 1)) = Cardinality(RemoteBefore(lines, k)) + 1
  BY RemoteCounted
<1>3. Len(new) = Cardinality(RemoteBefore(lines, k + 1))
  BY <1>1, <1>2 DEF RelocationsMade
<1>4. ASSUME NEW i \in RemoteBefore(lines, k + 1)
      PROVE  \E r \in 1..Len(new) : Relocates(symbols, new[r], lines[i])
  <2>1. CASE i = k
    BY <1>1, <2>1
  <2>2. CASE i # k
    <3>1. i \in RemoteBefore(lines, k)
      BY <1>2, <2>2
    <3>2. PICK r \in 1..Len(rels) : Relocates(symbols, rels[r], lines[i])
      BY <3>1 DEF RelocationsMade
    <3>3. r \in 1..Len(new) /\ new[r] = rels[r]
      BY <1>1
    <3>4. QED
      BY <3>2, <3>3
  <2>3. QED
    BY <2>1, <2>2
<1>5. ASSUME NEW r \in 1..Len(new)
      PROVE  \E i \in RemoteBefore(lines, k + 1) : /\ Relocates(symbols, new[r], lines[i])
                                            /\ sections[lines[i].section].type # "bss"
  <2>1. CASE r = Len(rels) + 1
    <3>1. k \in RemoteBefore(lines, k + 1) /\ new[r] = relocation
      BY <1>1, <1>2, <2>1
    <3>2. QED
      BY <3>1
  <2>2. CASE r # Len(rels) + 1
    <3>1. r \in 1..Len(rels) /\ new[r] = rels[r]
      BY <1>1, <2>2
    <3>2. PICK i \in RemoteBefore(lines, k) : /\ Relocates(symbols, rels[r], lines[i])
                                       /\ sections[lines[i].section].type # "bss"
      BY <3>1 DEF RelocationsMade
    <3>3. i \in RemoteBefore(lines, k + 1)
      BY <1>2
    <3>4. QED
      BY <3>1, <3>2, <3>3
  <2>3. QED
    BY <2>1, <2>2
<1>6. RelocationsMade(lines, sections, symbols, new, k + 1)
  BY <1>1, <1>3, <1>4, <1>5 DEF RelocationsMade
<1>7. QED
  BY <1>6 DEF new

LEMMA NoRelocations ==
  ASSUME NEW list, NEW places, NEW syms
  PROVE  RelocationsMade(list, places, syms, << >>, 1)
<1>1. IsList(<< >>)
  <2>1. << >> \in Seq({})
    OBVIOUS
  <2>2. QED
    BY <2>1, Zenon DEF IsList
<1>2. RemoteBefore(list, 1) = {}
  BY DEF RemoteBefore
<1>3. Cardinality({}) = 0
  BY FS_EmptySet
<1>4. QED
  BY <1>1, <1>2, <1>3 DEF RelocationsMade

(* The first step, and those of the passes before.                         *)
LEMMA ObjectInit ==
  ASSUME Init
  PROVE  ObjectInv
<1>1. RawInv
  BY RawInit
<1>2. PowersOfTwo
  BY OneIsPower DEF Init, PowersOfTwo, SectionIndices, NewSection
<1>3. DeclaredNames
  BY DEF Init, DeclaredNames
<1>4. QED
  BY <1>1, <1>2, <1>3 DEF Init, ObjectInv, LoopInv, ObjectStages, Returned

CommonInv == RawInv /\ PowersOfTwo /\ DeclaredNames

LEMMA CommonNext ==
  ASSUME ObjectInv, [Next]_vars
  PROVE  CommonInv'
<1>1. RawInv'
  BY RawNext DEF ObjectInv
<1>2. LayoutInv
  BY DEF ObjectInv, RawInv
<1>3. PowersOfTwo' /\ DeclaredNames'
  BY <1>2, PowersNext, DeclaredNext DEF ObjectInv
<1>4. QED
  BY <1>1, <1>3 DEF CommonInv

LEMMA FirstPassStep ==
  ASSUME ObjectInv, CommonInv',
         \/ ReadStatement \/ ReadData \/ SelectSection \/ AlignSection \/ Locate
         \/ DeclareSymbol \/ BeginProcedure \/ EndProcedure \/ NumberLine
         \/ Translate \/ ReturnRaw
  PROVE  ObjectInv'
<1>1. CASE \/ ReadStatement \/ ReadData \/ SelectSection \/ AlignSection \/ Locate
           \/ DeclareSymbol \/ BeginProcedure \/ EndProcedure
  <2>1. stage = "directives" /\ UNCHANGED <<stage, symbols, relocations, output>>
    BY <1>1 DEF ReadStatement, ReadData, Record, SelectSection, AlignSection, Locate,
                DeclareSymbol, BeginProcedure, EndProcedure, AtDirective, Accepted,
                Reading, LineRead, made
  <2>2. output' = NoOutput
    BY <2>1 DEF ObjectInv, RawInv
  <2>3. QED
    BY <2>1, <2>2 DEF ObjectInv, LoopInv, CommonInv, ObjectStages, Returned
<1>2. CASE NumberLine
  <2>1. stage = "labels" /\ UNCHANGED <<stage, symbols, relocations, output>>
    BY <1>2 DEF NumberLine, InLoop, NextItem, made
  <2>2. output' = NoOutput
    BY <2>1 DEF ObjectInv, RawInv
  <2>3. QED
    BY <2>1, <2>2 DEF ObjectInv, LoopInv, CommonInv, ObjectStages, Returned
<1>3. CASE Translate \/ ReturnRaw
  <2>1. stage = "translate" /\ stage' \in {"translate", "done"} /\ UNCHANGED source
    BY <1>3 DEF Translate, ReturnRaw, InLoop, NextItem
  <2>2. source'.object = FALSE
    BY <2>1 DEF ObjectInv, RawInv
  <2>3. QED
    BY <2>1, <2>2 DEF ObjectInv, LoopInv, CommonInv, ObjectStages, Returned
<1>4. QED
  BY <1>1, <1>2, <1>3

LEMMA FailedStep ==
  ASSUME ObjectInv, CommonInv', stage # "done", NEW code, Fail(code)
  PROVE  ObjectInv'
<1>1. stage' = "done" /\ output' = NoOutput
  BY DEF Fail, ObjectInv, RawInv
<1>2. QED
  BY <1>1 DEF ObjectInv, LoopInv, CommonInv, ObjectStages, Returned

(* A loop begins with what the one before it has made.                     *)
LEMMA LabelsAreUnique ==
  ASSUME NEW list, Len(list) \in Nat, NEW table, NumberedTo(list, table, Len(list) + 1)
  PROVE  UniqueLabels(list)
<1>1. 1..((Len(list) + 1) - 1) = 1..Len(list)
  OBVIOUS
<1>2. QED
  BY <1>1 DEF NumberedTo, UniqueLabels

LEMMA DirectivesEnd ==
  ASSUME ObjectInv, CommonInv', EndLoop, stage \in {"directives", "emit"}
  PROVE  ObjectInv'
<1>1. /\ UNCHANGED <<source, lines, sections, globals, externals, symbols,
                     relocations, contents, output>>
      /\ stage' = IF stage = "directives" THEN "labels" ELSE "encode"
  BY DEF EndLoop, Following, context
<1>2. output' = NoOutput
  BY <1>1 DEF ObjectInv, RawInv
<1>3. CASE stage = "directives"
  BY <1>1, <1>2, <1>3 DEF ObjectInv, LoopInv, CommonInv, ObjectStages, Returned
<1>4. CASE stage = "emit"
  <2>1. at = Len(lines) + 1
    <3>1. at > Len(lines) /\ at \in 1..(Len(lines) + 1)
      BY <1>4 DEF EndLoop, Items, ObjectInv, LoopInv
    <3>2. Len(lines) \in Nat
      BY LinesSized DEF ObjectInv, RawInv
    <3>3. QED
      BY <3>1, <3>2
  <2>2. PartsMade(Len(lines) + 1) /\ UniqueLabels(lines)
    BY <1>4, <2>1 DEF ObjectInv, LoopInv, ObjectStages
  <2>3. PartsMade(Len(lines) + 1)' /\ UniqueLabels(lines')
    BY <1>1, <2>2 DEF PartsMade, Exported, Imported
  <2>4. QED
    BY <1>1, <1>2, <1>4, <2>3 DEF ObjectInv, LoopInv, CommonInv, ObjectStages, Returned
<1>5. QED
  BY <1>3, <1>4

LEMMA LabelsEnd ==
  ASSUME ObjectInv, CommonInv', EndLoop, stage = "labels"
  PROVE  ObjectInv'
<1>1. /\ UNCHANGED <<source, lines, sections, globals, externals, symbols,
                     relocations, output>>
      /\ stage' = IF source.object THEN "symbols" ELSE "translate"
      /\ at' = 1
  BY DEF EndLoop, Following, context
<1>2. output' = NoOutput
  BY <1>1 DEF ObjectInv, RawInv
<1>3. Len(lines) \in Nat
  BY LinesSized DEF ObjectInv, RawInv
<1>4. UniqueLabels(lines)
  <2>1. NumberedTo(lines, labels, at)
    BY DEF ObjectInv, RawInv
  <2>2. at > Len(lines) /\ at \in 1..(Len(lines) + 1)
    BY <2>1 DEF EndLoop, Items, NumberedTo
  <2>3. at = Len(lines) + 1
    BY <1>3, <2>2
  <2>4. QED
    BY <1>3, <2>1, <2>3, LabelsAreUnique
<1>5. CASE source.object
  <2>1. contents' = [s \in 1..Len(sections) |-> [k \in 1..sections[s].size |-> 0]]
    BY <1>1, <1>5 DEF EndLoop
  <2>2. ContentsMade(lines, sections, contents', 1)
    BY <2>1, NoContents DEF ObjectInv, RawInv
  <2>3. SymbolsMade(lines', symbols', at', {}, {}) /\ relocations' = << >>
    BY <1>1, NoSymbols DEF ObjectInv
  <2>4. ContentsMade(lines', sections', contents', 1) /\ UniqueLabels(lines')
    BY <1>1, <1>4, <2>2
  <2>5. stage' = "symbols" /\ Items' = lines'
    BY <1>1, <1>5 DEF Items
  <2>6. at' \in 1..(Len(Items') + 1)
    BY <1>1, <1>3, <2>5
  <2>7. LoopInv'
    BY <2>3, <2>4, <2>5, <2>6 DEF LoopInv
  <2>8. QED
    BY <1>2, <2>4, <2>5, <2>7 DEF ObjectInv, CommonInv, Returned
<1>6. CASE ~source.object
  <2>1. stage' = "translate"
    BY <1>1, <1>6
  <2>2. QED
    BY <1>2, <2>1 DEF ObjectInv, LoopInv, CommonInv, ObjectStages, Returned
<1>7. QED
  BY <1>5, <1>6

LEMMA ListsAreCounted ==
  ASSUME ObjectInv
  PROVE  Len(lines) \in Nat /\ Len(globals) \in Nat /\ Len(externals) \in Nat
<1>1. Len(lines) \in Nat
  BY LinesSized DEF ObjectInv, RawInv
<1>2. QED
  BY <1>1 DEF ObjectInv, DeclaredNames

LEMMA SymbolLoopEnds ==
  ASSUME ObjectInv, CommonInv', EndLoop, stage \in {"symbols", "globals", "externals"}
  PROVE  ObjectInv'
<1>1. /\ UNCHANGED <<source, lines, sections, globals, externals, symbols,
                     relocations, contents, output>>
      /\ stage' = Following[stage]
      /\ at' = 1
  BY DEF EndLoop, Following, context
<1>2. output' = NoOutput
  BY <1>1 DEF ObjectInv, RawInv
<1>3. Len(lines) \in Nat /\ Len(globals) \in Nat /\ Len(externals) \in Nat
  BY ListsAreCounted
<1>4. /\ UniqueLabels(lines)
      /\ ContentsMade(lines, sections, contents, 1) /\ relocations = << >>
  BY DEF ObjectInv, LoopInv, ObjectStages
<1>5. at = Len(Items) + 1
  <2>1. at > Len(Items) /\ at \in 1..(Len(Items) + 1)
    BY DEF EndLoop, ObjectInv, LoopInv
  <2>2. Len(Items) \in Nat
    BY <1>3 DEF Items
  <2>3. QED
    BY <2>1, <2>2
<1>6. UniqueLabels(lines') /\ ContentsMade(lines', sections', contents', 1)
      /\ relocations' = << >>
  BY <1>1, <1>4
<1>7. stage' \in {"globals", "externals", "emit"}
  BY <1>1 DEF Following
<1>8. 1 \in 1..(Len(Items') + 1)
  BY <1>1, <1>3 DEF Items
<1>9. CASE stage = "symbols"
  <2>1. stage' = "globals" /\ at = Len(lines) + 1
    BY <1>1, <1>5, <1>9 DEF Following, Items
  <2>2. SymbolsMade(lines, symbols, Len(lines) + 1, {}, {}) /\ Before(globals, 1) = {}
    BY <1>9, <2>1 DEF ObjectInv, LoopInv, Before
  <2>3. SymbolsMade(lines', symbols', Len(lines') + 1, Before(globals', at'), {})
    BY <1>1, <2>2
  <2>4. LoopInv'
    BY <1>1, <1>6, <1>8, <2>1, <2>3 DEF LoopInv
  <2>5. QED
    BY <1>2, <1>6, <2>1, <2>4 DEF ObjectInv, CommonInv, Returned
<1>10. CASE stage = "globals"
  <2>1. stage' = "externals" /\ at = Len(globals) + 1
    BY <1>1, <1>5, <1>10 DEF Following, Items
  <2>2. /\ SymbolsMade(lines, symbols, Len(lines) + 1, Exported, {})
        /\ Before(externals, 1) = {}
    BY <1>10, <2>1 DEF ObjectInv, LoopInv, Before, Exported
  <2>3. SymbolsMade(lines', symbols', Len(lines') + 1, Exported', Before(externals', at'))
    BY <1>1, <2>2 DEF Exported
  <2>4. LoopInv'
    BY <1>1, <1>6, <1>8, <2>1, <2>3 DEF LoopInv
  <2>5. QED
    BY <1>2, <1>6, <2>1, <2>4 DEF ObjectInv, CommonInv, Returned
<1>11. CASE stage = "externals"
  <2>1. stage' = "emit" /\ at = Len(externals) + 1
    BY <1>1, <1>5, <1>11 DEF Following, Items
  <2>2. SymbolsMade(lines, symbols, Len(lines) + 1, Exported, Imported)
    BY <1>11, <2>1 DEF ObjectInv, LoopInv, Imported
  <2>3. SymbolsMade(lines', symbols', Len(lines') + 1, Exported', Imported')
    BY <1>1, <2>2 DEF Exported, Imported
  <2>4. RelocationsMade(lines', sections', symbols', relocations', 1)
    BY <1>6, NoRelocations
  <2>5. PartsMade(at)'
    BY <1>1, <1>6, <2>3, <2>4 DEF PartsMade
  <2>6. LoopInv'
    BY <1>1, <1>8, <2>1, <2>5 DEF LoopInv
  <2>7. QED
    BY <1>2, <1>6, <2>1, <2>6 DEF ObjectInv, CommonInv, Returned
<1>12. QED
  BY <1>9, <1>10, <1>11

LEMMA ItemOfLoop ==
  ASSUME ObjectInv, stage \in {"symbols", "globals", "externals", "emit"},
         at <= Len(Items), NextItem
  PROVE  /\ UNCHANGED <<source, stage, lines, sections, globals, externals, output>>
         /\ output' = NoOutput
         /\ at \in 1..Len(Items) /\ at \in Nat \ {0}
         /\ at' = at + 1 /\ at' \in 1..(Len(Items') + 1)
         /\ UniqueLabels(lines')
<1>1. /\ UNCHANGED <<source, stage, lines, sections, globals, externals, output>>
      /\ at' = at + 1
  BY DEF NextItem, context
<1>2. Items' = Items
  BY <1>1 DEF Items
<1>3. Len(Items) \in Nat
  BY ListsAreCounted DEF Items
<1>4. at \in 1..(Len(Items) + 1)
  BY DEF ObjectInv, LoopInv
<1>5. output' = NoOutput /\ UniqueLabels(lines')
  BY <1>1 DEF ObjectInv, RawInv, ObjectStages
<1>6. at \in 1..Len(Items) /\ at \in Nat \ {0} /\ at + 1 \in 1..(Len(Items) + 1)
  BY <1>3, <1>4
<1>7. QED
  BY <1>1, <1>2, <1>5, <1>6

LEMMA LabelStep ==
  ASSUME ObjectInv, CommonInv', LabelSymbol \/ PassUnlabelled
  PROVE  ObjectInv'
<1>1. /\ stage = "symbols" /\ at <= Len(Items) /\ NextItem
      /\ UNCHANGED <<relocations, contents>>
  BY DEF LabelSymbol, PassUnlabelled, InLoop, AddSymbol, made
<1>2. /\ UNCHANGED <<source, stage, lines, sections, globals, externals, output>>
      /\ output' = NoOutput
      /\ at \in 1..Len(Items) /\ at \in Nat \ {0}
      /\ at' = at + 1 /\ at' \in 1..(Len(Items') + 1)
      /\ UniqueLabels(lines')
  BY <1>1, ItemOfLoop
<1>3. Items = lines /\ Item = lines[at]
  BY <1>1 DEF Items, Item
<1>4. /\ SymbolsMade(lines, symbols, at, {}, {})
      /\ ContentsMade(lines, sections, contents, 1) /\ relocations = << >>
      /\ UniqueLabels(lines)
  BY <1>1 DEF ObjectInv, LoopInv, ObjectStages
<1>5. SymbolsMade(lines, symbols', at + 1, {}, {})
  <2>1. CASE LabelSymbol
    <3>1. Len(lines) \in Nat /\ at \in 1..Len(lines) /\ lines[at].label # NoName
      BY <1>2, <1>3, <2>1, ListsAreCounted DEF LabelSymbol
    <3>2. /\ \A x \in 1..Len(symbols) : symbols[x].name # lines[at].label
          /\ SymbolsMade(lines, Append(symbols, LabelDefinition(lines[at], {})),
                         at + 1, {}, {})
      BY <1>4, <3>1, LabelAdded
    <3>3. ToWord(lines[at].offset) = lines[at].offset
      BY <3>1, OffsetIsWord DEF ObjectInv, RawInv
    <3>4. SymbolsNamed(lines[at].label) = {}
      BY <3>2 DEF SymbolsNamed
    <3>5. symbols' = Append(symbols, [name |-> lines[at].label,
                                      section |-> lines[at].section,
                                      value |-> lines[at].offset,
                                      binding |-> "local"])
      BY <1>3, <2>1, <3>3, <3>4 DEF LabelSymbol, AddSymbol
    <3>6. symbols' = Append(symbols, LabelDefinition(lines[at], {}))
      BY <3>5 DEF LabelDefinition
    <3>7. QED
      BY <3>2, <3>6
  <2>2. CASE PassUnlabelled
    <3>1. symbols' = symbols /\ lines[at].label = NoName
      BY <1>3, <2>2 DEF PassUnlabelled, made
    <3> DEFINE none == {}
               n == at + 1
    <3>2. /\ at \in Nat /\ n \in {at, at + 1} /\ none \subseteq none
          /\ SymbolsMade(lines, symbols, at, none, none)
      BY <1>2, <1>4
    <3> HIDE DEF none, n
    <3>3. SymbolsMade(lines, symbols, n, none, none)
      BY <3>1, <3>2, SymbolsPassed
    <3>4. QED
      BY <3>1, <3>3 DEF none, n
  <2>3. QED
    BY <2>1, <2>2
<1>6. /\ SymbolsMade(lines', symbols', at', {}, {})
      /\ ContentsMade(lines', sections', contents', 1) /\ relocations' = << >>
  BY <1>1, <1>2, <1>4, <1>5
<1>7. LoopInv'
  BY <1>1, <1>2, <1>6 DEF LoopInv
<1>8. QED
  BY <1>1, <1>2, <1>7 DEF ObjectInv, CommonInv, Returned

LEMMA ExportStep ==
  ASSUME ObjectInv, CommonInv', ExportSymbol
  PROVE  ObjectInv'
<1>1. /\ stage = "globals" /\ at <= Len(Items) /\ NextItem
      /\ UNCHANGED <<relocations, contents>>
  BY DEF ExportSymbol, InLoop
<1>2. /\ UNCHANGED <<source, stage, lines, sections, globals, externals, output>>
      /\ output' = NoOutput
      /\ at \in 1..Len(Items) /\ at \in Nat \ {0}
      /\ at' = at + 1 /\ at' \in 1..(Len(Items') + 1)
      /\ UniqueLabels(lines')
  BY <1>1, ItemOfLoop
<1>3. Item = globals[at]
  BY <1>1 DEF Items, Item
<1>4. /\ SymbolsMade(lines, symbols, Len(lines) + 1, Before(globals, at), {})
      /\ ContentsMade(lines, sections, contents, 1) /\ relocations = << >>
  BY <1>1 DEF ObjectInv, LoopInv
<1>5. PICK s \in 1..Len(symbols) :
        /\ symbols[s].name = globals[at]
        /\ symbols' = [symbols EXCEPT ![s].binding = "global"]
  BY <1>3 DEF ExportSymbol, SymbolsNamed
<1>6. SymbolsMade(lines, symbols', Len(lines) + 1, Before(globals, at) \cup {globals[at]}, {})
  <2> DEFINE m == Len(lines) + 1
             exported == Before(globals, at)
             name == globals[at]
  <2>1. SymbolsMade(lines, symbols, m, exported, {}) /\ symbols[s].name = name
    BY <1>4, <1>5
  <2> HIDE DEF m, exported, name
  <2>2. SymbolsMade(lines, [symbols EXCEPT ![s].binding = "global"],
                    m, exported \cup {name}, {})
    BY <2>1, SymbolExported
  <2>3. QED
    BY <1>5, <2>2 DEF m, exported, name
<1>7. Before(globals, at + 1) = Before(globals, at) \cup {globals[at]}
  BY <1>2, BeforeNext
<1>8. /\ SymbolsMade(lines', symbols', Len(lines') + 1, Before(globals', at'), {})
      /\ ContentsMade(lines', sections', contents', 1) /\ relocations' = << >>
  BY <1>1, <1>2, <1>4, <1>6, <1>7
<1>9. LoopInv'
  BY <1>1, <1>2, <1>8 DEF LoopInv
<1>10. QED
  BY <1>1, <1>2, <1>9 DEF ObjectInv, CommonInv, Returned

LEMMA ImportStep ==
  ASSUME ObjectInv, CommonInv', ImportSymbol
  PROVE  ObjectInv'
<1>1. /\ stage = "externals" /\ at <= Len(Items) /\ NextItem
      /\ UNCHANGED <<relocations, contents>>
  BY DEF ImportSymbol, InLoop, AddSymbol
<1>2. /\ UNCHANGED <<source, stage, lines, sections, globals, externals, output>>
      /\ output' = NoOutput
      /\ at \in 1..Len(Items) /\ at \in Nat \ {0}
      /\ at' = at + 1 /\ at' \in 1..(Len(Items') + 1)
      /\ UniqueLabels(lines')
  BY <1>1, ItemOfLoop
<1>3. Items = externals /\ Item = externals[at]
  BY <1>1 DEF Items, Item
<1>4. /\ SymbolsMade(lines, symbols, Len(lines) + 1, Exported, Before(externals, at))
      /\ ContentsMade(lines, sections, contents, 1) /\ relocations = << >>
  BY <1>1 DEF ObjectInv, LoopInv
<1> DEFINE name == externals[at]
           m == Len(lines) + 1
           imported == Before(externals, at)
           exported == Exported
<1>5. name # NoName
  <2>1. name \in STRING
    BY <1>2, <1>3 DEF ObjectInv, DeclaredNames
  <2>2. QED
    BY <2>1, AssemblerAssumption
<1>6. Len(lines) \in Nat
  BY ListsAreCounted
<1>7. SymbolsMade(lines, symbols, m, exported, imported)
  BY <1>4
<1> HIDE DEF name, imported, exported
<1>8. SymbolsMade(lines, symbols', m, exported, imported \cup {name})
  <2>1. CASE SymbolsNamed(name) = {}
    <3>1. \A x \in 1..Len(symbols) : symbols[x].name # name
      BY <2>1 DEF SymbolsNamed
    <3>2. symbols' = Append(symbols, ExternalReference(name))
      BY <1>3, <2>1 DEF ImportSymbol, AddSymbol, ExternalReference, name
    <3>3. SymbolsMade(lines, Append(symbols, ExternalReference(name)),
                      m, exported, imported \cup {name})
      BY <1>5, <1>6, <1>7, <3>1, ExternalAdded
    <3>4. QED
      BY <3>2, <3>3
  <2>2. CASE SymbolsNamed(name) # {}
    <3>1. symbols' = symbols
      BY <1>3, <2>2 DEF ImportSymbol, AddSymbol, name
    <3>2. m \in Nat /\ m \in {m, m + 1} /\ m # m + 1
          /\ imported \subseteq imported \cup {name}
      BY <1>6
    <3> HIDE DEF m
    <3>3. SymbolsMade(lines, symbols, m, exported, imported \cup {name})
      BY <1>7, <3>2, SymbolsPassed
    <3>4. QED
      BY <3>1, <3>3
  <2>3. QED
    BY <2>1, <2>2
<1>9. Before(externals, at + 1) = imported \cup {name}
  BY <1>2, BeforeNext DEF imported, name
<1>10. SymbolsMade(lines, symbols', Len(lines) + 1, Exported, Before(externals, at + 1))
  BY <1>8, <1>9 DEF exported
<1>11. /\ SymbolsMade(lines', symbols', Len(lines') + 1, Exported', Before(externals', at'))
       /\ ContentsMade(lines', sections', contents', 1) /\ relocations' = << >>
  BY <1>1, <1>2, <1>4, <1>10 DEF Exported
<1>12. LoopInv'
  BY <1>1, <1>2, <1>11 DEF LoopInv
<1>13. QED
  BY <1>1, <1>2, <1>12 DEF ObjectInv, CommonInv, Returned

LEMMA PutAdds ==
  ASSUME LayoutInv, at \in 1..Len(lines), Item = lines[at],
         ContentsMade(lines, sections, contents, at),
         NEW bytes \in Seq(Byte), Len(bytes) = lines[at].size,
         IsPart(lines, bytes, lines[at]), Put(bytes)
  PROVE  ContentsMade(lines, sections, contents', at + 1)
<1>1. contents' = [contents EXCEPT ![lines[at].section] =
                     Placed(@, lines[at].offset, bytes)]
  BY DEF Put, Placed
<1>2. ContentsMade(lines, sections,
                   [contents EXCEPT ![lines[at].section] =
                      Placed(@, lines[at].offset, bytes)], at + 1)
  BY PartAdded
<1>3. QED
  BY <1>1, <1>2

LEMMA RelocationsPassed ==
  ASSUME NEW k \in Nat \ {0}, NEW rels, ~IsRemoteIn(lines, lines[k]),
         RelocationsMade(lines, sections, symbols, rels, k)
  PROVE  RelocationsMade(lines, sections, symbols, rels, k + 1)
<1>1. RemoteBefore(lines, k + 1) = RemoteBefore(lines, k)
  BY RemoteCounted
<1>2. QED
  BY <1>1 DEF RelocationsMade

(* The bytes of the line, and a relocation if its label is a remote one.   *)
LEMMA EmittedParts ==
  ASSUME ObjectInv, stage = "emit", at \in 1..Len(lines), Item = lines[at],
         EmitData \/ EmitInstruction \/ EmitReference
  PROVE  /\ ContentsMade(lines, sections, contents', at + 1)
         /\ RelocationsMade(lines, sections, symbols, relocations', at + 1)
<1>1. /\ LayoutInv /\ LineMade(lines[at])
      /\ ContentsMade(lines, sections, contents, at)
      /\ RelocationsMade(lines, sections, symbols, relocations, at)
  BY DEF ObjectInv, RawInv, LoopInv, PartsMade
<1>2. at \in Nat \ {0}
  BY ListsAreCounted
<1>3. ObjectFault = "NONE" /\ sections[lines[at].section].type # "bss"
  <2>1. ObjectFault = "NONE"
    BY DEF EmitData, EmitInstruction, EmitReference, Emitting
  <2>2. QED
    BY <2>1 DEF ObjectFault
<1>4. CASE EmitData
  <2>1. lines[at].statement = NoToken /\ Put(lines[at].bytes) /\ relocations' = relocations
    BY <1>4 DEF EmitData, Emitting
  <2>2. /\ lines[at].bytes \in Seq(Byte) /\ Len(lines[at].bytes) = lines[at].size
        /\ IsPart(lines, lines[at].bytes, lines[at])
        /\ ~IsRemoteIn(lines, lines[at])
    BY <1>1, <2>1, DataIsPart
  <2>3. ContentsMade(lines, sections, contents', at + 1)
    BY <1>1, <2>1, <2>2, PutAdds
  <2>4. QED
    BY <1>1, <1>2, <2>1, <2>2, <2>3, RelocationsPassed
<1>5. CASE EmitInstruction \/ EmitReference
  <2> DEFINE st == lines[at].statement
  <2>1. st # NoToken
    BY <1>5 DEF EmitInstruction, EmitReference, Emitting
  <2>2. /\ OperandFault(st) = "NONE" /\ SpellingFault(st) = "NONE"
        /\ ImmediateFault(st.imm, TRUE) = "NONE"
    BY <1>3, <2>1, ObjectStatementAccepted
  <2>3. /\ UsesLabel(lines[at]) <=> IsUse(st)
        /\ IsUse(st) => LocalLines = LocalIn(lines, lines[at])
    BY <2>1, LocalLinesAreLocal
  <2>4. CASE EmitReference
    <3>1. /\ IsUse(st) /\ LocalLines = {} /\ Put(InstructionOf(st, 0))
      BY <2>4 DEF EmitReference
    <3>2. IsRemoteIn(lines, lines[at]) /\ ~HasLocal(lines, lines[at])
      BY <2>3, <3>1 DEF IsRemoteIn, HasLocal
    <3>3. 0 \in Word
      BY Bases DEF Word
    <3> DEFINE encoded == InstructionOf(st, 0)
    <3> HIDE DEF st
    <3>4. /\ InstructionOf(st, 0) \in Seq(Byte)
          /\ Len(InstructionOf(st, 0)) = lines[at].size /\ lines[at].size = 8
          /\ IsPart(lines, InstructionOf(st, 0), lines[at])
      BY <1>1, <2>1, <2>2, <3>2, <3>3, InstructionIsPart DEF st
    <3> HIDE DEF encoded
    <3>5. /\ encoded \in Seq(Byte) /\ Len(encoded) = lines[at].size
          /\ IsPart(lines, encoded, lines[at]) /\ Put(encoded)
      BY <3>1, <3>4 DEF encoded
    <3>6. ContentsMade(lines, sections, contents', at + 1)
      BY <1>1, <3>5, PutAdds
    <3>7. PICK x \in SymbolsNamed(UsedLabel(lines[at])) :
            relocations' = Append(relocations,
                             [section |-> lines[at].section,
                              offset |-> ToWord(lines[at].offset + 4),
                              pcRelative |-> FALSE, symbol |-> x, addend |-> 0])
      BY <2>4 DEF EmitReference, UsedLabel
    <3>8. ToWord(lines[at].offset + 4) = lines[at].offset + 4
      BY <1>1, <3>4, OffsetIsWord
    <3> DEFINE relocation == RelocationAt(lines[at], x)
    <3>9. relocations' = Append(relocations, relocation)
      BY <3>7, <3>8 DEF RelocationAt
    <3>10. Relocates(symbols, relocation, lines[at])
      BY DEF Relocates, SymbolsNamed
    <3> HIDE DEF relocation
    <3>11. RelocationsMade(lines, sections, symbols, Append(relocations, relocation), at + 1)
      BY <1>1, <1>2, <1>3, <3>2, <3>10, RelocationAdded
    <3>12. QED
      BY <3>6, <3>9, <3>11
  <2>5. CASE EmitInstruction /\ ~EmitReference
    <3> DEFINE chosen == CHOOSE i \in LocalLines : TRUE
               target == lines[chosen].offset
               encoded == InstructionOf(st, target)
    <3>1. /\ IsUse(st) => LocalLines # {}
          /\ Put(encoded) /\ relocations' = relocations
      BY <2>5 DEF EmitInstruction
    <3>2. ~IsRemoteIn(lines, lines[at])
      BY <2>3, <3>1 DEF IsRemoteIn
    <3>3. IsUse(st) => chosen \in LocalIn(lines, lines[at])
      BY <2>3, <3>1
    <3>4. IsUse(st) => target \in Word
      <4>1. IsUse(st) => chosen \in 1..Len(lines)
        BY <3>3 DEF LocalIn
      <4>2. QED
        BY <1>1, <4>1, OffsetIsWord
    <3>5. HasLocal(lines, lines[at]) =>
            \E j \in LocalIn(lines, lines[at]) : target = lines[j].offset
      BY <2>3, <3>3 DEF HasLocal
    <3> HIDE DEF st, chosen, target
    <3>6. /\ InstructionOf(st, target) \in Seq(Byte)
          /\ Len(InstructionOf(st, target)) = lines[at].size
          /\ IsPart(lines, InstructionOf(st, target), lines[at])
      BY <1>1, <2>1, <2>2, <3>2, <3>4, <3>5, InstructionIsPart DEF st
    <3> HIDE DEF encoded
    <3>7. /\ encoded \in Seq(Byte) /\ Len(encoded) = lines[at].size
          /\ IsPart(lines, encoded, lines[at]) /\ Put(encoded)
      BY <3>1, <3>6 DEF encoded
    <3>8. ContentsMade(lines, sections, contents', at + 1)
      BY <1>1, <3>7, PutAdds
    <3>9. QED
      BY <1>1, <1>2, <3>1, <3>2, <3>8, RelocationsPassed
  <2>6. QED
    BY <1>5, <2>4, <2>5
<1>6. QED
  BY <1>4, <1>5

LEMMA EmitStep ==
  ASSUME ObjectInv, CommonInv', EmitData \/ EmitInstruction \/ EmitReference
  PROVE  ObjectInv'
<1>1. /\ stage = "emit" /\ at <= Len(Items) /\ NextItem /\ UNCHANGED symbols
  BY DEF EmitData, EmitInstruction, EmitReference, Emitting, InLoop
<1>2. /\ UNCHANGED <<source, stage, lines, sections, globals, externals, output>>
      /\ output' = NoOutput
      /\ at \in 1..Len(Items) /\ at \in Nat \ {0}
      /\ at' = at + 1 /\ at' \in 1..(Len(Items') + 1)
      /\ UniqueLabels(lines')
  BY <1>1, ItemOfLoop
<1>3. Items = lines /\ Item = lines[at]
  BY <1>1 DEF Items, Item
<1>4. /\ ContentsMade(lines, sections, contents', at + 1)
      /\ RelocationsMade(lines, sections, symbols, relocations', at + 1)
  BY <1>1, <1>2, <1>3, EmittedParts
<1>5. SymbolsMade(lines, symbols, Len(lines) + 1, Exported, Imported)
  BY <1>1 DEF ObjectInv, LoopInv, PartsMade
<1>6. PartsMade(at)'
  BY <1>1, <1>2, <1>4, <1>5 DEF PartsMade, Exported, Imported
<1>7. LoopInv'
  BY <1>1, <1>2, <1>6 DEF LoopInv
<1>8. QED
  BY <1>1, <1>2, <1>7 DEF ObjectInv, CommonInv, Returned

LEMMA ObjectReturnStep ==
  ASSUME ObjectInv, CommonInv', Encode
  PROVE  ObjectInv'
<1>1. /\ stage = "encode" /\ stage' = "done" /\ output' = AssembledObject
      /\ UNCHANGED <<source, lines, sections, globals, externals, entry, symbols,
                     relocations, contents>>
  BY DEF Encode, context, made
<1>2. PartsMade(Len(lines) + 1)
  BY <1>1 DEF ObjectInv, LoopInv
<1>3. PartsMade(Len(lines) + 1)'
  BY <1>1, <1>2 DEF PartsMade, Exported, Imported
<1>4. output' = AssembledObject'
  BY <1>1 DEF AssembledObject
<1>5. UniqueLabels(lines')
  BY <1>1 DEF ObjectInv, ObjectStages
<1>6. QED
  BY <1>1, <1>3, <1>4, <1>5 DEF ObjectInv, LoopInv, CommonInv, ObjectStages

LEMMA ObjectRests ==
  ASSUME ObjectInv, CommonInv', UNCHANGED vars
  PROVE  ObjectInv'
<1>1. UNCHANGED <<source, stage, lines, sections, globals, externals, entry, at,
                  symbols, relocations, contents, output>>
  BY DEF vars, context, made
<1>2. /\ Items' = Items /\ Exported' = Exported /\ Imported' = Imported
      /\ AssembledObject' = AssembledObject
      /\ Returned(TRUE)' => Returned(TRUE)
  BY <1>1 DEF Items, Exported, Imported, AssembledObject, Returned
<1>3. PartsMade(at) => PartsMade(at)'
  BY <1>1, <1>2 DEF PartsMade
<1>4. PartsMade(Len(lines) + 1) => PartsMade(Len(lines) + 1)'
  BY <1>1, <1>2 DEF PartsMade
<1>5. LoopInv'
  BY <1>1, <1>2, <1>3, <1>4 DEF ObjectInv, LoopInv
<1>6. Returned(TRUE)' => /\ PartsMade(Len(lines) + 1)' /\ output' = AssembledObject'
                         /\ UniqueLabels(lines')
  BY <1>1, <1>2, <1>4 DEF ObjectInv
<1>7. /\ stage' \in {"directives", "labels"} => symbols' = << >> /\ relocations' = << >>
      /\ stage' \in ObjectStages => UniqueLabels(lines')
  BY <1>1 DEF ObjectInv
<1>8. QED
  BY <1>5, <1>6, <1>7 DEF ObjectInv, CommonInv

LEMMA ObjectNext ==
  ASSUME ObjectInv, [Next]_vars
  PROVE  ObjectInv'
<1>1. CommonInv'
  BY CommonNext
<1>2. CASE \/ ReadStatement \/ ReadData \/ SelectSection \/ AlignSection \/ Locate
           \/ DeclareSymbol \/ BeginProcedure \/ EndProcedure \/ NumberLine
           \/ Translate \/ ReturnRaw
  BY <1>1, <1>2, FirstPassStep
<1>3. CASE \/ RejectLine \/ DuplicateLabel \/ RejectRaw \/ UndefinedGlobal
           \/ RejectObject \/ OutOfMemory
  <2>1. PICK code : Fail(code)
    BY <1>3, Zenon DEF RejectLine, DuplicateLabel, RejectRaw, UndefinedGlobal,
                       RejectObject, OutOfMemory
  <2>2. stage # "done"
    BY <1>3 DEF RejectLine, DuplicateLabel, RejectRaw, UndefinedGlobal, RejectObject,
                OutOfMemory, Reading, InLoop
  <2>3. QED
    BY <1>1, <2>1, <2>2, FailedStep
<1>4. CASE EndLoop
  <2>1. stage \in {"directives", "labels", "symbols", "globals", "externals", "emit"}
    BY <1>4 DEF EndLoop
  <2>2. QED
    BY <1>1, <1>4, <2>1, DirectivesEnd, LabelsEnd, SymbolLoopEnds
<1>5. CASE LabelSymbol \/ PassUnlabelled
  BY <1>1, <1>5, LabelStep
<1>6. CASE ExportSymbol
  BY <1>1, <1>6, ExportStep
<1>7. CASE ImportSymbol
  BY <1>1, <1>7, ImportStep
<1>8. CASE EmitData \/ EmitInstruction \/ EmitReference
  BY <1>1, <1>8, EmitStep
<1>9. CASE Encode
  BY <1>1, <1>9, ObjectReturnStep
<1>10. CASE UNCHANGED vars
  BY <1>1, <1>10, ObjectRests
<1>11. QED
  BY <1>2, <1>3, <1>4, <1>5, <1>6, <1>7, <1>8, <1>9, <1>10 DEF Next, Proceed

(* What the object says, read off its parts.                               *)
LEMMA LocalIsLocal ==
  /\ \A line : LocalTo(line) = LocalIn(lines, line)
  /\ \A line : IsLocal(line) <=> HasLocal(lines, line)
  /\ \A line : IsRemote(line) <=> IsRemoteIn(lines, line)
<1>1. \A line : LocalTo(line) = LocalIn(lines, line)
  BY DEF LocalTo, Labelled, LocalIn, LineIndices
<1>2. QED
  BY <1>1 DEF IsLocal, HasLocal, IsRemote, IsRemoteIn

LEMMA ContentsHoldLines ==
  ASSUME ObjectInv
  PROVE  ObjectHoldsLines
<1> SUFFICES ASSUME Returned(TRUE), NEW s \in SectionIndices
             PROVE  LET data == contents[s]
                    IN  /\ Len(data) = sections[s].size
                        /\ \A k \in 1..Len(data) :
                             (\A i \in LineIndices : ~InLine(s, k, i)) => data[k] = 0
                        /\ \A i \in LineIndices :
                             LET line  == lines[i]
                                 bytes == SubSeq(data, line.offset + 1,
                                                 line.offset + line.size)
                             IN  line.section = s =>
                                   IF ~IsLocal(line) THEN BytesOf(bytes, line, 0)
                                   ELSE \E j \in LocalTo(line) :
                                          BytesOf(bytes, line, lines[j].offset)
  <2>1. Returned(TRUE) => \A s \in SectionIndices : output.sections[s].data = contents[s]
    BY DEF ObjectInv, AssembledObject, SectionIndices
  <2>2. QED
    BY <2>1 DEF ObjectHoldsLines
<1>1. ContentsMade(lines, sections, contents, Len(lines) + 1)
  BY DEF ObjectInv, PartsMade
<1>2. Len(lines) \in Nat
  BY ListsAreCounted
<1>3. 1..((Len(lines) + 1) - 1) = LineIndices
  BY <1>2 DEF LineIndices
<1>4. Len(contents[s]) = sections[s].size
  BY <1>1 DEF ContentsMade, Fits, SectionIndices
<1>5. ASSUME NEW k \in 1..Len(contents[s]), \A i \in LineIndices : ~InLine(s, k, i)
      PROVE  contents[s][k] = 0
  <2>1. \A i \in 1..((Len(lines) + 1) - 1) : ~LiesIn(lines[i], s, k)
    BY <1>3, <1>5 DEF InLine, LiesIn
  <2>2. QED
    BY <1>1, <1>4, <2>1 DEF ContentsMade, GapsAreZero, SectionIndices
<1>6. ASSUME NEW i \in LineIndices, lines[i].section = s
      PROVE  LET line  == lines[i]
                 bytes == SubSeq(contents[s], line.offset + 1, line.offset + line.size)
             IN  IF ~IsLocal(line) THEN BytesOf(bytes, line, 0)
                 ELSE \E j \in LocalTo(line) : BytesOf(bytes, line, lines[j].offset)
  <2>1. HasPart(lines, contents, i)
    BY <1>1, <1>3 DEF ContentsMade
  <2> DEFINE bytes == SubSeq(contents[s], lines[i].offset + 1,
                             lines[i].offset + lines[i].size)
  <2>2. IsPart(lines, bytes, lines[i])
    BY <1>6, <2>1 DEF HasPart
  <2> HIDE DEF bytes
  <2>3. IF ~IsLocal(lines[i]) THEN BytesOf(bytes, lines[i], 0)
        ELSE \E j \in LocalTo(lines[i]) : BytesOf(bytes, lines[i], lines[j].offset)
    BY <2>2, LocalIsLocal DEF IsPart
  <2>4. QED
    BY <2>3 DEF bytes
<1>7. QED
  BY <1>4, <1>5, <1>6

LEMMA SymbolsMeanLabels ==
  ASSUME ObjectInv, SymbolsMade(lines, symbols, Len(lines) + 1, Exported, Imported)
  PROVE  /\ \A x, y \in 1..Len(symbols) : symbols[x].name = symbols[y].name => x = y
         /\ \A i \in LineIndices : lines[i].label # NoName =>
              \E x \in 1..Len(symbols) :
                symbols[x] =
                  [name |-> lines[i].label, section |-> lines[i].section,
                   value |-> lines[i].offset,
                   binding |-> IF \E g \in DOMAIN globals : globals[g] = lines[i].label
                                 THEN "global" ELSE "local"]
         /\ \A x \in 1..Len(symbols) : symbols[x].section = 0 =>
              /\ Labelled(symbols[x].name) = {}
              /\ \E e \in DOMAIN externals : externals[e] = symbols[x].name
<1>1. Len(lines) \in Nat /\ Len(globals) \in Nat /\ Len(externals) \in Nat
  BY ListsAreCounted
<1>2. 1..((Len(lines) + 1) - 1) = LineIndices /\ LineIndices = 1..Len(lines)
  BY <1>1 DEF LineIndices
<1>3. \A name : name \in Exported <=> \E g \in DOMAIN globals : globals[g] = name
  <2>1. DOMAIN globals = 1..((Len(globals) + 1) - 1)
    BY <1>1 DEF ObjectInv, DeclaredNames
  <2>2. QED
    BY <2>1 DEF Exported, Before
<1>4. \A name \in Imported : \E e \in DOMAIN externals : externals[e] = name
  <2>1. DOMAIN externals = 1..((Len(externals) + 1) - 1)
    BY <1>1 DEF ObjectInv, DeclaredNames
  <2>2. QED
    BY <2>1 DEF Imported, Before
<1>5. \A x, y \in 1..Len(symbols) : symbols[x].name = symbols[y].name => x = y
  BY DEF SymbolsMade, NamesApart
<1>6. ASSUME NEW i \in LineIndices, lines[i].label # NoName
      PROVE  \E x \in 1..Len(symbols) :
               symbols[x] =
                 [name |-> lines[i].label, section |-> lines[i].section,
                  value |-> lines[i].offset,
                  binding |-> IF \E g \in DOMAIN globals : globals[g] = lines[i].label
                                THEN "global" ELSE "local"]
  <2>1. PICK x \in 1..Len(symbols) : symbols[x] = LabelDefinition(lines[i], Exported)
    BY <1>2, <1>6 DEF SymbolsMade, LabelsDefined
  <2>2. symbols[x] = [name |-> lines[i].label, section |-> lines[i].section,
                      value |-> lines[i].offset,
                      binding |-> IF lines[i].label \in Exported
                                    THEN "global" ELSE "local"]
    BY <2>1 DEF LabelDefinition
  <2>3. lines[i].label \in Exported <=>
          \E g \in DOMAIN globals : globals[g] = lines[i].label
    BY <1>3
  <2>4. QED
    BY <2>2, <2>3
<1>7. ASSUME NEW x \in 1..Len(symbols), symbols[x].section = 0
      PROVE  /\ Labelled(symbols[x].name) = {}
             /\ \E e \in DOMAIN externals : externals[e] = symbols[x].name
  <2>1. ~DefinesLabel(lines, symbols[x], Len(lines) + 1, Exported)
    <3>1. ASSUME NEW i \in LineIndices, symbols[x] = LabelDefinition(lines[i], Exported)
          PROVE  FALSE
      <4>1. symbols[x].section = lines[i].section
        BY <3>1 DEF LabelDefinition
      <4>2. lines[i].section \in 1..Len(sections)
        BY <1>2, LineNumbers DEF ObjectInv, RawInv, SectionIndices
      <4>3. QED
        BY <1>7, <4>1, <4>2
    <3>2. QED
      BY <1>2, <3>1 DEF DefinesLabel
  <2>2. RefersOutside(lines, symbols[x], Imported)
    BY <2>1 DEF SymbolsMade
  <2>3. QED
    BY <1>2, <1>4, <2>2 DEF RefersOutside, Labelled
<1>8. QED
  BY <1>5, <1>6, <1>7

LEMMA PartsMeanLabels ==
  ASSUME ObjectInv
  PROVE  ReferencesMeanLabels
<1> SUFFICES ASSUME Returned(TRUE)
             PROVE  ReferencesMeanLabels
  BY DEF ReferencesMeanLabels
<1>1. PartsMade(Len(lines) + 1) /\ output = AssembledObject
  BY DEF ObjectInv
<1>2. output.symbols = symbols /\ output.relocations = relocations
  BY <1>1 DEF AssembledObject
<1>3. SymbolsMade(lines, symbols, Len(lines) + 1, Exported, Imported)
  BY <1>1 DEF PartsMade
<1>4. RelocationsMade(lines, sections, symbols, relocations, Len(lines) + 1)
  BY <1>1 DEF PartsMade
<1> DEFINE Remote == {i \in LineIndices : IsRemote(lines[i])}
<1>5. Remote = RemoteBefore(lines, Len(lines) + 1)
  <2>1. 1..((Len(lines) + 1) - 1) = LineIndices
    BY ListsAreCounted DEF LineIndices
  <2>2. QED
    BY <2>1, LocalIsLocal DEF RemoteBefore
<1> HIDE DEF Remote
<1>6. Cardinality(1..Len(relocations)) = Cardinality(Remote)
  <2>1. Len(relocations) \in Nat /\ Len(relocations) = Cardinality(Remote)
    BY <1>4, <1>5 DEF RelocationsMade, IsList
  <2>2. Cardinality(1..Len(relocations)) = Len(relocations)
    <3> DEFINE n == Len(relocations)
    <3>1. n \in Nat
      BY <2>1
    <3> HIDE DEF n
    <3>2. Cardinality(1..n) = n
      BY <3>1, FS_Interval
    <3>3. QED
      BY <3>2 DEF n
  <2>3. QED
    BY <2>1, <2>2
<1>7. ASSUME NEW i \in Remote
      PROVE  \E r \in 1..Len(relocations) :
               /\ relocations[r].section = lines[i].section
               /\ relocations[r].offset = lines[i].offset + 4
               /\ symbols[relocations[r].symbol].name = UsedLabel(lines[i])
  <2>1. PICK r \in 1..Len(relocations) : Relocates(symbols, relocations[r], lines[i])
    BY <1>4, <1>5 DEF RelocationsMade
  <2>2. PICK x \in 1..Len(symbols) : /\ relocations[r] = RelocationAt(lines[i], x)
                                     /\ symbols[x].name = UsedLabel(lines[i])
    BY <2>1 DEF Relocates
  <2>3. /\ relocations[r].section = lines[i].section
        /\ relocations[r].offset = lines[i].offset + 4
        /\ relocations[r].symbol = x
    BY <2>2 DEF RelocationAt
  <2>4. QED
    BY <2>2, <2>3
<1> DEFINE Ids == 1..Len(output.symbols)
           Rel == 1..Len(output.relocations)
<1>8. \A x, y \in Ids : output.symbols[x].name = output.symbols[y].name => x = y
  BY <1>2, <1>3, SymbolsMeanLabels, Zenon
<1>9. \A i \in LineIndices : lines[i].label # NoName =>
        \E x \in Ids :
          output.symbols[x] =
            [name |-> lines[i].label, section |-> lines[i].section,
             value |-> lines[i].offset,
             binding |-> IF \E g \in DOMAIN globals : globals[g] = lines[i].label
                           THEN "global" ELSE "local"]
  <2>1. \A i \in LineIndices : lines[i].label # NoName =>
          \E x \in 1..Len(symbols) :
            symbols[x] =
              [name |-> lines[i].label, section |-> lines[i].section,
               value |-> lines[i].offset,
               binding |-> IF \E g \in DOMAIN globals : globals[g] = lines[i].label
                             THEN "global" ELSE "local"]
    BY <1>3, SymbolsMeanLabels, Zenon
  <2>2. QED
    BY <1>2, <2>1, Zenon
<1>10. \A x \in Ids : output.symbols[x].section = 0 =>
         /\ Labelled(output.symbols[x].name) = {}
         /\ \E e \in DOMAIN externals : externals[e] = output.symbols[x].name
  BY <1>2, <1>3, SymbolsMeanLabels, Zenon
<1>11. Cardinality(Rel) = Cardinality(Remote)
  BY <1>2, <1>6, Zenon
<1>12. \A i \in Remote : \E r \in Rel :
         /\ output.relocations[r].section = lines[i].section
         /\ output.relocations[r].offset = lines[i].offset + 4
         /\ output.symbols[output.relocations[r].symbol].name = UsedLabel(lines[i])
  BY <1>2, <1>7, Zenon
<1> HIDE DEF Ids, Rel
<1>13. QED
  BY <1>8, <1>9, <1>10, <1>11, <1>12, Zenon DEF ReferencesMeanLabels, Remote, Ids, Rel

-----------------------------------------------------------------------------
(* The linker takes what it gets.                                          *)

(* The names of symbols are those that sources make: the texts of labels   *)
(* and arguments, and the labels of a procedure behind the name of it.     *)
NamesSuffice ==
  /\ STRING \subseteq Names /\ "" \in Names
  /\ \A line \in SourceLines : line.label \in Names \cup {NoName}
  /\ \A scope, name \in Names : scope \o "." \o name \in Names

LabelNames == Names \cup {NoName}

LabelsNamed ==
  /\ procedure \in LabelNames
  /\ entry \in LabelNames
  /\ \A i \in 1..Len(lines) : lines[i].label \in LabelNames

LEMMA PendingLabels ==
  ASSUME NamesSuffice, NEW line \in PendingLines
  PROVE  line.label \in LabelNames
<1>1. CASE line \in SourceLines
  BY <1>1 DEF NamesSuffice, LabelNames
<1>2. ASSUME NEW first \in SourceLines, line = [first EXCEPT !.label = ""]
      PROVE  line.label \in LabelNames
  <2>1. "label" \in DOMAIN first
    <3>1. Parsed(first)
      BY AssemblerAssumption
    <3>2. CASE IsStatement(first)
      <4> DEFINE full == [label |-> first.label, type |-> "stmt",
                          opcode |-> first.opcode, cond |-> first.cond,
                          registers |-> first.registers, imm |-> first.imm]
      <4>1. first = full
        BY <3>2 DEF IsStatement
      <4>2. "label" \in DOMAIN full
        OBVIOUS
      <4> HIDE DEF full
      <4>3. QED
        BY <4>1, <4>2
    <3>3. CASE IsDirective(first)
      <4> DEFINE full == [label |-> first.label, type |-> "dir",
                          name |-> first.name, args |-> first.args]
      <4>1. first = full
        BY <3>3 DEF IsDirective
      <4>2. "label" \in DOMAIN full
        OBVIOUS
      <4> HIDE DEF full
      <4>3. QED
        BY <4>1, <4>2
    <3>4. QED
      BY <3>1, <3>2, <3>3 DEF Parsed
  <2>2. line.label = ""
    BY <1>2, <2>1
  <2>3. QED
    BY <2>2 DEF NamesSuffice, LabelNames
<1>3. QED
  BY <1>1, <1>2 DEF PendingLines

LEMMA LabelRecorded ==
  ASSUME NamesSuffice, LayoutInv, LabelsNamed, Reading,
         NEW statement, NEW bytes, NEW size, Record(statement, bytes, size)
  PROVE  LabelsNamed'
<1>1. Line.label \in LabelNames
  BY HeadIsParsed, PendingLabels
<1>2. ScopedLabel \in LabelNames
  <2>1. CASE procedure = NoName \/ Line.label = NoName \/ Line.label = ""
    BY <1>1, <2>1 DEF ScopedLabel, LabelsNamed
  <2>2. CASE ~(procedure = NoName \/ Line.label = NoName \/ Line.label = "")
    <3>1. procedure \in Names /\ Line.label \in Names
      BY <1>1, <2>2 DEF LabelNames, LabelsNamed
    <3>2. procedure \o "." \o Line.label \in Names
      BY <3>1 DEF NamesSuffice
    <3>3. ScopedLabel = procedure \o "." \o Line.label
      BY <2>2 DEF ScopedLabel
    <3>4. QED
      BY <3>2, <3>3 DEF LabelNames
  <2>3. QED
    BY <2>1, <2>2
<1> DEFINE new == [label |-> ScopedLabel, section |-> current,
                   offset |-> Place.size, size |-> size,
                   statement |-> statement, bytes |-> bytes]
<1>3. lines' = Append(lines, new) /\ procedure' = procedure /\ entry' = entry
  BY DEF Record
<1>4. new.label = ScopedLabel
  OBVIOUS
<1> HIDE DEF new
<1>5. /\ Len(lines) \in Nat /\ Len(lines') = Len(lines) + 1
      /\ \A i \in 1..Len(lines) : lines'[i] = lines[i]
      /\ lines'[Len(lines) + 1] = new
  BY <1>3, AppendToList DEF LayoutInv
<1>6. ASSUME NEW i \in 1..Len(lines')
      PROVE  lines'[i].label \in LabelNames
  <2>1. CASE i = Len(lines) + 1
    BY <1>2, <1>4, <1>5, <2>1
  <2>2. CASE i # Len(lines) + 1
    <3>1. i \in 1..Len(lines) /\ lines'[i] = lines[i]
      BY <1>5, <2>2
    <3>2. QED
      BY <3>1 DEF LabelsNamed
  <2>3. QED
    BY <2>1, <2>2
<1>7. QED
  BY <1>3, <1>6 DEF LabelsNamed

LEMMA LabelsNamedNext ==
  ASSUME NamesSuffice, LayoutInv, LabelsNamed, [Next]_vars
  PROVE  LabelsNamed'
<1>1. CASE ReadStatement \/ ReadData
  <2>1. PICK statement, bytes, size : Record(statement, bytes, size)
    BY <1>1 DEF ReadStatement, ReadData
  <2>2. Reading
    BY <1>1 DEF ReadStatement, ReadData, AtDirective, Accepted
  <2>3. QED
    BY <2>1, <2>2, LabelRecorded
<1>2. CASE BeginProcedure
  <2>1. AtDirective({"global", "extern", "entry", "proc"})
    BY <1>2 DEF BeginProcedure, AtDirective
  <2>2. Arg \in STRING
    BY <2>1, NamedArgument
  <2>3. procedure' = Arg /\ lines' = lines /\ entry' = entry
    BY <1>2 DEF BeginProcedure, context
  <2>4. procedure' \in LabelNames
    BY <2>2, <2>3 DEF LabelNames, NamesSuffice
  <2>5. QED
    BY <2>3, <2>4 DEF LabelsNamed
<1>3. CASE lines' = lines /\ procedure' \in {procedure, NoName} /\ entry' = entry
  BY <1>3 DEF LabelsNamed, LabelNames
<1>4. CASE DeclareSymbol
  <2>1. AtDirective({"global", "extern", "entry", "proc"})
    BY <1>4 DEF DeclareSymbol, AtDirective
  <2>2. Arg \in STRING
    BY <2>1, NamedArgument
  <2>3. procedure' = procedure /\ lines' = lines /\ entry' \in {Arg, entry}
    BY <1>4 DEF DeclareSymbol
  <2>4. Arg \in LabelNames
    BY <2>2 DEF LabelNames, NamesSuffice
  <2>5. QED
    BY <2>3, <2>4 DEF LabelsNamed
<1>5. QED
  <2>1. CASE SelectSection \/ AlignSection \/ Locate \/ EndProcedure
    BY <1>3, <2>1 DEF SelectSection, AlignSection, Locate, EndProcedure, context
  <2>2. CASE \/ RejectLine \/ DuplicateLabel \/ RejectRaw \/ UndefinedGlobal
             \/ RejectObject \/ OutOfMemory
    BY <1>3, <2>2 DEF RejectLine, DuplicateLabel, RejectRaw, UndefinedGlobal,
                      RejectObject, OutOfMemory, Fail, context
  <2>3. CASE EndLoop \/ ReturnRaw \/ Encode \/ NumberLine
    BY <1>3, <2>3 DEF EndLoop, ReturnRaw, Encode, NumberLine, NextItem, context
  <2>4. CASE \/ Translate \/ LabelSymbol \/ PassUnlabelled \/ ExportSymbol
             \/ ImportSymbol \/ EmitData \/ EmitInstruction \/ EmitReference
    BY <1>3, <2>4, EmittingSteps DEF NextItem, context
  <2>5. CASE UNCHANGED vars
    BY <1>3, <2>5 DEF vars, context
  <2>6. QED
    BY <1>1, <1>2, <1>4, <2>1, <2>2, <2>3, <2>4, <2>5 DEF Next, Proceed

LEMMA ListOf ==
  ASSUME NEW S, NEW list, IsList(list), \A i \in 1..Len(list) : list[i] \in S
  PROVE  list \in Seq(S)
<1>1. PICK T : list \in Seq(T)
  BY DEF IsList
<1>2. Len(list) \in Nat /\ list = [i \in 1..Len(list) |-> list[i]]
  BY <1>1
<1>3. QED
  BY <1>2

LEMMA SectionsDecode ==
  ASSUME LayoutInv, PowersOfTwo, Fits(sections, contents)
  PROVE  /\ AssembledObject.sections \in Seq(ObjectSection)
         /\ Len(AssembledObject.sections) = Len(sections)
         /\ \A s \in 1..Len(sections) :
              /\ AssembledObject.sections[s].type = sections[s].type
              /\ AssembledObject.sections[s].size = sections[s].size
              /\ PowerOfTwo(AssembledObject.sections[s].alignment)
              /\ Len(AssembledObject.sections[s].data)
                   = AssembledObject.sections[s].size
              /\ AssembledObject.sections[s].address
                   + AssembledObject.sections[s].size <= WORD_MAX
<1> DEFINE Made(s) == [type |-> sections[s].type, located |-> sections[s].located,
                       alignment |-> sections[s].alignment,
                       address |-> sections[s].address,
                       size |-> sections[s].size, data |-> contents[s]]
           n == Len(sections)
           image == AssembledObject.sections
<1>1. image = [s \in 1..n |-> Made(s)]
  BY DEF AssembledObject
<1>2. n \in Nat /\ sections \in Seq(AsmSection)
  BY DEF LayoutInv, TypeOK
<1>3. ASSUME NEW s \in 1..n
      PROVE  /\ Made(s) \in ObjectSection
             /\ PowerOfTwo(Made(s).alignment)
             /\ Len(Made(s).data) = Made(s).size
             /\ Made(s).address + Made(s).size <= WORD_MAX
  <2>1. /\ sections[s] \in AsmSection
        /\ sections[s].size \in Nat /\ sections[s].address \in Nat
    BY <1>2, SectionNumbers
  <2>2. /\ sections[s].type \in SectionTypes /\ sections[s].located \in BOOLEAN
        /\ sections[s].alignment \in 1..WORD_MAX
    BY <2>1 DEF AsmSection
  <2>3. sections[s].address + sections[s].size <= RomSize
    BY DEF LayoutInv, LayoutApart, SectionIndices
  <2>4. /\ sections[s].address \in Word
        /\ sections[s].address + sections[s].size <= WORD_MAX
    BY <2>1, <2>3, RomSizeType, Bases DEF Word, WORD_MAX
  <2>5. contents[s] \in Seq(Byte) /\ Len(contents[s]) = sections[s].size
    BY DEF Fits
  <2>6. PowerOfTwo(sections[s].alignment)
    BY DEF PowersOfTwo, SectionIndices
  <2>7. Made(s) \in ObjectSection
    BY <2>1, <2>2, <2>4, <2>5 DEF ObjectSection
  <2>8. QED
    BY <2>4, <2>5, <2>6, <2>7
<1> HIDE DEF n, image
<1>4. /\ \A s \in 1..n : image[s] = Made(s)
      /\ image \in Seq(ObjectSection) /\ Len(image) = n
  <2> HIDE DEF Made
  <2>1. \A s \in 1..n : Made(s) \in ObjectSection
    BY <1>3
  <2>2. [s \in 1..n |-> Made(s)] \in Seq(ObjectSection)
    BY <1>2, <2>1
  <2>3. QED
    BY <1>1, <1>2, <2>2
<1>5. \A s \in 1..n : Made(s).type = sections[s].type /\ Made(s).size = sections[s].size
  OBVIOUS
<1> HIDE DEF Made
<1>6. \A s \in 1..n : /\ image[s].type = sections[s].type
                      /\ image[s].size = sections[s].size
                      /\ PowerOfTwo(image[s].alignment)
                      /\ Len(image[s].data) = image[s].size
                      /\ image[s].address + image[s].size <= WORD_MAX
  BY <1>3, <1>4, <1>5
<1>7. QED
  BY <1>4, <1>6 DEF n, image

LEMMA SymbolsDecode ==
  ASSUME NamesSuffice, LabelsNamed, ObjectInv,
         SymbolsMade(lines, symbols, Len(lines) + 1, Exported, Imported)
  PROVE  /\ symbols \in Seq(Symbol)
         /\ \A x \in 1..Len(symbols) : symbols[x].section \in 0..Len(sections)
<1>1. LayoutInv /\ Len(lines) \in Nat /\ Len(externals) \in Nat
  BY ListsAreCounted DEF ObjectInv, RawInv
<1>2. 1..((Len(lines) + 1) - 1) = 1..Len(lines)
  BY <1>1
<1>3. Len(sections) \in Nat
  BY <1>1 DEF LayoutInv, TypeOK
<1>4. ASSUME NEW x \in 1..Len(symbols)
      PROVE  symbols[x] \in Symbol /\ symbols[x].section \in 0..Len(sections)
  <2>1. CASE DefinesLabel(lines, symbols[x], Len(lines) + 1, Exported)
    <3>1. PICK i \in 1..Len(lines) : /\ lines[i].label # NoName
                                     /\ symbols[x] = LabelDefinition(lines[i], Exported)
      BY <1>2, <2>1 DEF DefinesLabel
    <3>2. lines[i].label \in Names
      BY <3>1 DEF LabelsNamed, LabelNames
    <3>3. lines[i].section \in 1..Len(sections) /\ lines[i].offset \in Word
      BY <1>1, LineNumbers, OffsetIsWord
    <3> DEFINE binding == IF lines[i].label \in Exported THEN "global" ELSE "local"
               section == lines[i].section
               name == lines[i].label
               offset == lines[i].offset
    <3>4. /\ symbols[x] = [name |-> name, section |-> section, value |-> offset,
                           binding |-> binding]
          /\ name \in Names /\ section \in Nat /\ offset \in Word
          /\ section \in 0..Len(sections)
          /\ binding \in Bindings
      BY <1>3, <3>1, <3>2, <3>3 DEF LabelDefinition, Bindings
    <3> HIDE DEF binding, section, name, offset
    <3>5. QED
      BY <3>4 DEF Symbol
  <2>2. CASE RefersOutside(lines, symbols[x], Imported)
    <3> DEFINE name == symbols[x].name
    <3>1. name \in Imported /\ symbols[x] = ExternalReference(name)
      BY <2>2 DEF RefersOutside
    <3>2. name \in STRING
      <4>1. 1..((Len(externals) + 1) - 1) = 1..Len(externals)
        BY <1>1
      <4>2. PICK e \in 1..Len(externals) : name = externals[e]
        BY <3>1, <4>1 DEF Imported, Before
      <4>3. \A j \in 1..Len(externals) : externals[j] \in STRING
        BY DEF ObjectInv, DeclaredNames
      <4>4. QED
        BY <4>2, <4>3
    <3>3. name \in Names
      BY <3>2 DEF NamesSuffice
    <3> HIDE DEF name
    <3>4. symbols[x] = [name |-> name, section |-> 0, value |-> 0, binding |-> "global"]
      BY <3>1 DEF ExternalReference
    <3>5. 0 \in Word /\ 0 \in 0..Len(sections)
      BY <1>3, Bases DEF Word
    <3>6. QED
      BY <3>3, <3>4, <3>5 DEF Symbol, Bindings
  <2>3. QED
    BY <2>1, <2>2 DEF SymbolsMade
<1>5. IsList(symbols)
  BY DEF SymbolsMade
<1>6. symbols \in Seq(Symbol)
  BY <1>4, <1>5, ListOf
<1>7. QED
  BY <1>4, <1>6

LEMMA RelocationsDecode ==
  ASSUME RawInv, RelocationsMade(lines, sections, symbols, relocations, Len(lines) + 1)
  PROVE  /\ relocations \in Seq(Relocation)
         /\ \A r \in 1..Len(relocations) :
              /\ relocations[r].section \in 1..Len(sections)
              /\ relocations[r].symbol \in 1..Len(symbols)
              /\ sections[relocations[r].section].type # "bss"
              /\ relocations[r].offset + FIELD_SIZE
                   <= sections[relocations[r].section].size
<1>1. LayoutInv /\ Len(lines) \in Nat
  BY LinesSized DEF RawInv
<1>2. ASSUME NEW r \in 1..Len(relocations)
      PROVE  /\ relocations[r] \in Relocation
             /\ relocations[r].section \in 1..Len(sections)
             /\ relocations[r].symbol \in 1..Len(symbols)
             /\ sections[relocations[r].section].type # "bss"
             /\ relocations[r].offset + 4 <= sections[relocations[r].section].size
  <2>1. PICK i \in RemoteBefore(lines, Len(lines) + 1) :
          /\ Relocates(symbols, relocations[r], lines[i])
          /\ sections[lines[i].section].type # "bss"
    BY DEF RelocationsMade
  <2>2. i \in 1..Len(lines) /\ UsesLabel(lines[i])
    BY <1>1 DEF RemoteBefore, IsRemoteIn
  <2>3. PICK x \in 1..Len(symbols) : relocations[r] = RelocationAt(lines[i], x)
    BY <2>1 DEF Relocates
  <2>4. lines[i].size = 8
    BY <2>2 DEF RawInv, LineMade, UsesLabel, INSTRUCTION_SIZE
  <2> DEFINE section == lines[i].section
             offset == lines[i].offset
  <2>5. /\ section \in 1..Len(sections) /\ offset \in Nat
        /\ sections[section].size \in Nat /\ offset + 8 <= sections[section].size
    BY <1>1, <2>2, <2>4, LineNumbers DEF SectionIndices
  <2>6. sections[section].type # "bss"
    BY <2>1
  <2> HIDE DEF section, offset
  <2>7. relocations[r] = [section |-> section, offset |-> offset + 4,
                          pcRelative |-> FALSE, symbol |-> x, addend |-> 0]
    BY <2>3 DEF RelocationAt, section, offset
  <2>8. 0 \in SWORD_MIN..SWORD_MAX
    <3>1. SignBit \in Nat /\ SignBit > 0
      BY Bases
    <3>2. QED
      BY <3>1 DEF SWORD_MIN, SWORD_MAX
  <2>9. relocations[r] \in Relocation
    BY <2>5, <2>7, <2>8 DEF Relocation
  <2>10. QED
    BY <2>5, <2>6, <2>7, <2>9
<1>3. IsList(relocations)
  BY DEF RelocationsMade
<1>4. relocations \in Seq(Relocation)
  BY <1>2, <1>3, ListOf
<1>5. QED
  BY <1>2, <1>4 DEF FIELD_SIZE

LEMMA PartsAreDecoded ==
  ASSUME NamesSuffice, LabelsNamed, ObjectInv, PartsMade(Len(lines) + 1)
  PROVE  Decoded(AssembledObject)
<1>1. /\ SymbolsMade(lines, symbols, Len(lines) + 1, Exported, Imported)
      /\ Fits(sections, contents)
      /\ RelocationsMade(lines, sections, symbols, relocations, Len(lines) + 1)
  BY DEF PartsMade, ContentsMade
<1> DEFINE object == AssembledObject
<1>2. /\ object.sections \in Seq(ObjectSection)
      /\ Len(object.sections) = Len(sections)
      /\ \A s \in 1..Len(sections) :
           /\ object.sections[s].type = sections[s].type
           /\ object.sections[s].size = sections[s].size
           /\ PowerOfTwo(object.sections[s].alignment)
           /\ Len(object.sections[s].data) = object.sections[s].size
           /\ object.sections[s].address + object.sections[s].size <= WORD_MAX
  BY <1>1, SectionsDecode DEF ObjectInv, RawInv
<1>3. /\ symbols \in Seq(Symbol)
      /\ \A x \in 1..Len(symbols) : symbols[x].section \in 0..Len(sections)
  BY <1>1, SymbolsDecode
<1>4. /\ relocations \in Seq(Relocation)
      /\ \A r \in 1..Len(relocations) :
           /\ relocations[r].section \in 1..Len(sections)
           /\ relocations[r].symbol \in 1..Len(symbols)
           /\ sections[relocations[r].section].type # "bss"
           /\ relocations[r].offset + FIELD_SIZE
                <= sections[relocations[r].section].size
  BY <1>1, RelocationsDecode DEF ObjectInv
<1>5. object.symbols = symbols /\ object.relocations = relocations
  BY DEF AssembledObject
<1> HIDE DEF object
<1>6. Decoded(object)
  BY <1>2, <1>3, <1>4, <1>5 DEF Decoded
<1>7. QED
  BY <1>6 DEF object

LEMMA ObjectIsDecoded ==
  ASSUME NamesSuffice, LabelsNamed, ObjectInv
  PROVE  ObjectDecodes
BY PartsAreDecoded DEF ObjectDecodes, ObjectInv, LoopInv

(* An object holds the bytes of its lines and its references are those of  *)
(* its source, whatever the names in it are.                               *)
(* Code: asm_translate_object.                                             *)
THEOREM ObjectHoldsItsSource == Spec => [](ObjectHoldsLines /\ ReferencesMeanLabels)
<1>1. Init => ObjectInv
  BY ObjectInit
<1>2. ObjectInv /\ [Next]_vars => ObjectInv'
  BY ObjectNext
<1>3. ObjectInv => ObjectHoldsLines /\ ReferencesMeanLabels
  BY ContentsHoldLines, PartsMeanLabels
<1>4. QED
  BY <1>1, <1>2, <1>3, PTL DEF Spec

(* And when the names of symbols are those that sources make, the object   *)
(* is one that the linker takes.                                           *)
(* Code: asm_translate_object, with set_label_context for the names.       *)
THEOREM ObjectMeansLinesAlways ==
  ASSUME NamesSuffice
  PROVE  Spec => []ObjectMeansLines
<1> DEFINE Inv == ObjectInv /\ LabelsNamed
<1>1. Init => Inv
  <2>1. Init => LabelsNamed
    BY DEF Init, LabelsNamed, LabelNames
  <2>2. QED
    BY <2>1, ObjectInit
<1>2. Inv /\ [Next]_vars => Inv'
  <2> SUFFICES ASSUME Inv, [Next]_vars
               PROVE  Inv'
    OBVIOUS
  <2>1. LabelsNamed'
    BY LabelsNamedNext DEF ObjectInv, RawInv
  <2>2. ObjectInv'
    BY ObjectNext
  <2>3. QED
    BY <2>1, <2>2
<1>3. Inv => ObjectMeansLines
  BY ContentsHoldLines, PartsMeanLabels, ObjectIsDecoded DEF ObjectMeansLines
<1> HIDE DEF Inv
<1>4. QED
  BY <1>1, <1>2, <1>3, PTL DEF Spec

-----------------------------------------------------------------------------
(* Programs of several files.  The linker is called with objects that the  *)
(* assembler made, so that what it assumes of its arguments holds.         *)
LEMMA SameBytes == Link!Byte = Byte
BY DEF Link!Byte, Byte

LEMMA SameWords ==
  /\ Link!HwordBase = HwordBase /\ Link!WordBase = WordBase
  /\ Link!WORD_MAX = WORD_MAX /\ Link!Word = Word /\ Link!SignBit = SignBit
  /\ Link!SWORD_MIN = SWORD_MIN /\ Link!SWORD_MAX = SWORD_MAX
<1>1. Link!HwordBase = HwordBase
  BY DEF Link!HwordBase, HwordBase
<1>2. Link!WordBase = WordBase
  BY <1>1 DEF Link!WordBase, WordBase
<1>3. Link!SignBit = SignBit
  BY <1>1 DEF Link!SignBit, SignBit
<1>4. Link!WORD_MAX = WORD_MAX
  BY <1>2 DEF Link!WORD_MAX, WORD_MAX
<1>5. Link!Word = Word
  BY <1>2 DEF Link!Word, Word
<1>6. QED
  BY <1>1, <1>2, <1>3, <1>4, <1>5
     DEF Link!SWORD_MIN, SWORD_MIN, Link!SWORD_MAX, SWORD_MAX

LEMMA SameBytewise ==
  ASSUME NEW v, NEW w
  PROVE  Link!WordAnd(v, w) = WordAnd(v, w)
<1>1. Link!ByteWeight = ByteWeight
  BY SameWords DEF Link!ByteWeight, ByteWeight
<1>2. \A x, i : Link!ByteOf(x, i) = ByteOf(x, i)
  BY <1>1 DEF Link!ByteOf, ByteOf
<1>3. \A a, b : Link!ByteConj(a, b) = ByteConj(a, b)
  BY DEF Link!ByteConj, ByteConj
<1>4. /\ \A a, b : Link!JoinHword(a, b) = JoinHword(a, b)
      /\ \A a, b : Link!JoinWord(a, b) = JoinWord(a, b)
  BY SameWords DEF Link!JoinHword, JoinHword, Link!JoinWord, JoinWord
<1>5. QED
  BY <1>2, <1>3, <1>4 DEF Link!WordAnd, WordAnd, Link!Bytewise, Bytewise

LEMMA SameTables ==
  /\ Link!SectionTypes = SectionTypes
  /\ Link!ObjectSection = ObjectSection
  /\ Link!Symbol = Symbol /\ Link!Relocation = Relocation
<1>1. Link!SectionTypes = SectionTypes /\ Link!Bindings = Bindings
  BY DEF Link!SectionTypes, SectionTypes, Link!Bindings, Bindings
<1>2. Link!ObjectSection = ObjectSection
  BY <1>1, SameWords, SameBytes DEF Link!ObjectSection, ObjectSection
<1>3. Link!Symbol = Symbol
  BY <1>1, SameWords DEF Link!Symbol, Symbol
<1>4. Link!Relocation = Relocation
  BY SameWords DEF Link!Relocation, Relocation
<1>5. QED
  BY <1>1, <1>2, <1>3, <1>4

LEMMA SameDecoded ==
  ASSUME NEW file, Decoded(file)
  PROVE  Link!Decoded(file)
<1>1. \A w : PowerOfTwo(w) => Link!PowerOfTwo(w)
  BY SameWords, SameBytewise DEF Link!PowerOfTwo, PowerOfTwo
<1>2. Link!FIELD_SIZE = FIELD_SIZE
  BY DEF Link!FIELD_SIZE, FIELD_SIZE
<1>3. QED
  BY <1>1, <1>2, SameWords, SameTables DEF Link!Decoded, Decoded

(* What ZlWord and Linker assume of their constants.                       *)
LinkAssumptions ==
  /\ ByteAnd \in [Link!Byte -> [Link!Byte -> Link!Byte]]
  /\ \A a, b \in Link!Byte : /\ ByteAnd[a][b] <= a
                             /\ ByteAnd[a][b] <= b
                             /\ a + b - ByteAnd[a][b] < ByteBase
  /\ RomSize \in Link!Word
  /\ RomSize >= Link!FIRST_ADDRESS
  /\ \A call \in Calls :
       /\ Len(call.objects) \in Nat \ {0}
       /\ \A o \in 1..Len(call.objects) :
            call.objects[o].valid => Link!Decoded(call.objects[o])

LEMMA LinkAssumed == LinkAssumptions
<1>1. RomSize \in Link!Word
  BY RomSizeType, Bases, SameWords DEF Word, WORD_MAX
<1>2. ASSUME NEW call \in Calls
      PROVE  /\ Len(call.objects) \in Nat \ {0}
             /\ \A o \in 1..Len(call.objects) :
                  call.objects[o].valid => Link!Decoded(call.objects[o])
  <2>1. call.objects \in Seq(ObjectFiles) /\ call.objects # << >>
    BY DEF Calls
  <2>2. \A o \in 1..Len(call.objects) : call.objects[o] \in ObjectFiles
    BY <2>1
  <2>3. \A o \in 1..Len(call.objects) : Decoded(call.objects[o])
    BY <2>2 DEF ObjectFiles
  <2>4. QED
    BY <2>1, <2>3, SameDecoded
<1>3. QED
  BY <1>1, <1>2, SameBytes, ByteAndAssumption, BuildsAssumption DEF LinkAssumptions

(* What the linker is known to keep.                                       *)
LinkKeeps == Link!IInv /\ Link!LinkInv /\ Link!SizesKept

LEMMA LinkBegins == Link!Init => LinkKeeps
BY Link!InitOK, Link!InitKeeps, Link!SizesInit, ByteBaseAssumption, LinkAssumed
   DEF LinkAssumptions, LinkKeeps

LEMMA LinkGoesOn == LinkKeeps /\ [Link!Next]_link => LinkKeeps' /\ request' = request
<1> SUFFICES ASSUME LinkKeeps, [Link!Next]_link
             PROVE  LinkKeeps' /\ request' = request
  OBVIOUS
<1>1. [Link!Next]_Link!vars /\ Link!IInv /\ Link!LinkInv /\ Link!SizesKept
  BY DEF Link!vars, link, Link!position, LinkKeeps
<1>2. Link!IInv' /\ Link!LinkInv' /\ request' = request
  BY <1>1, Link!NextOK, Link!NextKeeps, Link!RequestStays, ByteBaseAssumption,
     LinkAssumed DEF LinkAssumptions
<1>3. Link!SizesKept'
  BY <1>1, Link!SizesNext, ByteBaseAssumption, LinkAssumed
     DEF LinkAssumptions, Link!IInv
<1>4. QED
  BY <1>2, <1>3 DEF LinkKeeps


-----------------------------------------------------------------------------
(* What is known of a file that was assembled to an object.                *)
ExportedBy(file) == Before(file.globals, Len(file.globals) + 1)

Payloads(file) == [s \in 1..Len(file.object.sections) |-> file.object.sections[s].data]

LinesApart(list, places) ==
  \A i \in 1..Len(list) :
    /\ list[i].section \in 1..Len(places)
    /\ list[i].offset \in Nat /\ list[i].size \in Nat
    /\ list[i].offset + list[i].size <= places[list[i].section].size
    /\ \A j \in 1..(i - 1) :
         list[j].section = list[i].section =>
           list[j].offset + list[j].size <= list[i].offset

FileMade(file) ==
  LET list == file.lines
      object == file.object
  IN  /\ object \in ObjectFiles
      /\ IsList(list) /\ IsList(file.globals)
      /\ LinesApart(list, object.sections)
      /\ \A i \in 1..Len(list) : LineMade(list[i]) /\ HasPart(list, Payloads(file), i)
      /\ UniqueLabels(list)
      /\ \E imported :
           SymbolsMade(list, object.symbols, Len(list) + 1, ExportedBy(file), imported)
      /\ RelocationsMade(list, object.sections, object.symbols, object.relocations,
                         Len(list) + 1)

ThisFile == [object |-> output, lines |-> lines, globals |-> globals]

(* What has been assembled is a file of that kind.                         *)
LEMMA FileIsMade ==
  ASSUME NamesSuffice, ObjectInv, LabelsNamed, Returned(TRUE)
  PROVE  FileMade(ThisFile)
<1> DEFINE object == AssembledObject
<1>1. /\ PartsMade(Len(lines) + 1) /\ output = object /\ UniqueLabels(lines)
      /\ LayoutInv /\ PowersOfTwo /\ Fits(sections, contents)
      /\ \A i \in 1..Len(lines) : LineMade(lines[i])
  BY DEF ObjectInv, RawInv, PartsMade, ContentsMade
<1>2. /\ ThisFile.object = object /\ ThisFile.lines = lines
      /\ ThisFile.globals = globals
  BY <1>1 DEF ThisFile
<1>3. /\ object.sections \in Seq(ObjectSection)
      /\ Len(object.sections) = Len(sections)
      /\ \A s \in 1..Len(sections) : /\ object.sections[s].type = sections[s].type
                                     /\ object.sections[s].size = sections[s].size
  BY <1>1, SectionsDecode
<1>4. Decoded(object)
  BY <1>1, PartsAreDecoded
<1>5. object \in ObjectFiles
  <2>1. object.symbols \in Seq(Symbol) /\ object.relocations \in Seq(Relocation)
    BY <1>4 DEF Decoded
  <2> DEFINE tables == object.sections
  <2>2. /\ object = [valid |-> TRUE, kind |-> "object", sections |-> tables,
                     symbols |-> symbols, relocations |-> relocations,
                     entrySymbol |-> entry]
        /\ object.symbols = symbols /\ object.relocations = relocations
    BY DEF AssembledObject
  <2>3. entry \in Names \cup {NoName} /\ tables \in Seq(ObjectSection)
    BY <1>3 DEF LabelsNamed, LabelNames
  <2> HIDE DEF object, tables
  <2>4. QED
    BY <1>4, <2>1, <2>2, <2>3 DEF ObjectFiles
<1>6. object.symbols = symbols /\ object.relocations = relocations
  BY DEF AssembledObject
<1>7. \A s \in 1..Len(sections) : object.sections[s].data = contents[s]
  BY DEF AssembledObject
<1> HIDE DEF object
<1>8. LinesApart(lines, object.sections)
  BY <1>1, <1>3, LineNumbers DEF LinesApart, LayoutInv, LayoutApart, LineIndices
<1>9. IsList(lines) /\ Len(lines) \in Nat
  BY <1>1, LinesSized DEF LayoutInv
<1>10. \A i \in 1..Len(lines) : HasPart(lines, Payloads(ThisFile), i)
  <2>1. \A i \in 1..Len(lines) : HasPart(lines, contents, i)
    BY <1>1, <1>9 DEF PartsMade, ContentsMade
  <2>2. \A i \in 1..Len(lines) : Payloads(ThisFile)[lines[i].section] =
                                    contents[lines[i].section]
    BY <1>1, <1>2, <1>3, <1>7, LineNumbers DEF Payloads
  <2>3. QED
    BY <2>1, <2>2 DEF HasPart
<1>11. SymbolsMade(lines, symbols, Len(lines) + 1, ExportedBy(ThisFile), Imported)
  BY <1>1, <1>2 DEF PartsMade, ExportedBy, Exported
<1>12. RelocationsMade(lines, object.sections, symbols, relocations, Len(lines) + 1)
  <2>1. RelocationsMade(lines, sections, symbols, relocations, Len(lines) + 1)
    BY <1>1 DEF PartsMade
  <2>2. \A i \in RemoteBefore(lines, Len(lines) + 1) :
          object.sections[lines[i].section].type = sections[lines[i].section].type
    BY <1>1, <1>3, <1>9, LineNumbers DEF RemoteBefore
  <2>3. QED
    BY <2>1, <2>2 DEF RelocationsMade
<1>13. IsList(globals)
  BY DEF ObjectInv, DeclaredNames, IsList
<1>14. QED
  BY <1>1, <1>2, <1>5, <1>6, <1>8, <1>9, <1>10, <1>11, <1>12, <1>13 DEF FileMade

-----------------------------------------------------------------------------
(* A file is assembled from an assembler without an error.                 *)
Clean == stage # "done" \/ output # NoOutput => error = "NONE"

FilesMade(list) == IsList(list) /\ \A f \in 1..Len(list) : FileMade(list[f])

ObjectsOf(list) == [f \in 1..Len(list) |-> list[f].object]

(* While a file is assembled, those before it have been, and the linker has*)
(* not begun.                                                              *)
Waiting ==
  /\ Len(files) \in Nat /\ Len(files) < Len(build.sources)
  /\ source = build.sources[Len(files) + 1]
  /\ linkObject = 1 /\ linkSource = 1 /\ cursor = Link!FIRST_ADDRESS
  /\ placed = << >> /\ linkSymbols = << >> /\ linkError = "NONE"
  /\ executable = NoImage

(* Afterwards it has what was made of the files, and keeps its invariant.  *)
Called ==
  /\ LinkKeeps
  /\ request.objects = ObjectsOf(files)

BuildInv ==
  /\ build \in Builds
  /\ ObjectInv /\ LabelsNamed /\ Clean
  /\ FilesMade(files)
  /\ linkStage = "waiting" => Waiting
  /\ linkStage # "waiting" => Called

LEMMA CleanNext ==
  ASSUME RawInv, Clean, [Next]_vars
  PROVE  Clean'
<1>1. output # NoOutput => stage = "done"
  BY DEF RawInv
<1>2. CASE UNCHANGED vars
  BY <1>2 DEF Clean, vars
<1>3. CASE \E code : Fail(code) /\ stage # "done"
  BY <1>1, <1>3 DEF Fail, Clean
<1>4. CASE UNCHANGED error /\ stage # "done"
  BY <1>4 DEF Clean
<1>5. ASSUME Next
      PROVE  \/ \E code : Fail(code) /\ stage # "done"
             \/ UNCHANGED error /\ stage # "done"
  <2>1. CASE \/ ReadStatement \/ ReadData \/ SelectSection \/ AlignSection \/ Locate
             \/ DeclareSymbol \/ BeginProcedure \/ EndProcedure
    <3>1. UNCHANGED error /\ Reading
      BY <2>1 DEF ReadStatement, ReadData, SelectSection, AlignSection, Locate,
                  DeclareSymbol, BeginProcedure, EndProcedure, AtDirective, Accepted,
                  Record, LineRead
    <3>2. QED
      BY <3>1 DEF Reading
  <2>2. CASE \/ NumberLine \/ Translate \/ LabelSymbol \/ PassUnlabelled
             \/ ExportSymbol \/ ImportSymbol \/ EmitData \/ EmitInstruction
             \/ EmitReference
    BY <2>2 DEF NumberLine, Translate, LabelSymbol, PassUnlabelled, ExportSymbol,
                ImportSymbol, EmitData, EmitInstruction, EmitReference, AddSymbol,
                Emitting, InLoop, NextItem
  <2>3. CASE EndLoop \/ ReturnRaw \/ Encode
    BY <2>3 DEF EndLoop, ReturnRaw, Encode
  <2>4. CASE RejectLine
    BY <2>4, Zenon DEF RejectLine, Reading
  <2>5. CASE DuplicateLabel \/ RejectRaw \/ UndefinedGlobal \/ RejectObject
    <3>1. PICK code : Fail(code)
      BY <2>5, Zenon DEF DuplicateLabel, RejectRaw, UndefinedGlobal, RejectObject
    <3>2. stage # "done"
      BY <2>5 DEF DuplicateLabel, RejectRaw, UndefinedGlobal, RejectObject, InLoop
    <3>3. QED
      BY <3>1, <3>2
  <2>6. CASE OutOfMemory
    BY <2>6, Zenon DEF OutOfMemory
  <2>7. QED
    BY <1>5, <2>1, <2>2, <2>3, <2>4, <2>5, <2>6 DEF Next, Proceed
<1>6. QED
  BY <1>2, <1>3, <1>4, <1>5

LEMMA BuildBegins ==
  ASSUME NamesSuffice, BuildInit
  PROVE  BuildInv
<1>1. ObjectInv
  BY ObjectInit DEF BuildInit
<1>2. LabelsNamed
  BY DEF BuildInit, Init, LabelsNamed, LabelNames
<1>3. Clean
  BY DEF BuildInit, Init, Clean
<1>4. FilesMade(files)
  <2>1. files \in Seq({})
    BY DEF BuildInit
  <2>2. IsList(files) /\ Len(files) = 0
    BY <2>1 DEF IsList, BuildInit
  <2>3. QED
    BY <2>2 DEF FilesMade
<1>5. build.sources \in Seq(Sources) \ {<< >>}
  BY BuildsAssumption DEF BuildInit
<1>6. Waiting
  BY <1>5 DEF BuildInit, Waiting
<1>7. QED
  BY <1>1, <1>2, <1>3, <1>4, <1>6 DEF BuildInv, BuildInit

LEMMA FilesGrow ==
  ASSUME NEW list, FilesMade(list), NEW file, FileMade(file)
  PROVE  /\ FilesMade(Append(list, file))
         /\ Len(list) \in Nat /\ Len(Append(list, file)) = Len(list) + 1
<1>1. PICK T : list \in Seq(T)
  BY DEF FilesMade, IsList
<1> DEFINE U == T \cup {file}
<1>2. list \in Seq(U) /\ file \in U
  BY <1>1
<1> HIDE DEF U
<1> DEFINE more == Append(list, file)
<1>3. /\ more \in Seq(U) /\ Len(more) = Len(list) + 1 /\ Len(list) \in Nat
      /\ \A f \in 1..Len(list) : more[f] = list[f]
      /\ more[Len(list) + 1] = file
  BY <1>2
<1> HIDE DEF more
<1>4. \A f \in 1..Len(more) : FileMade(more[f])
  BY <1>3 DEF FilesMade
<1>5. QED
  BY <1>3, <1>4 DEF FilesMade, IsList, more

LEMMA LinkCalled == LinkKeeps => linkStage # "waiting"
BY DEF LinkKeeps, Link!IInv, Link!TypeOK, Link!Loops

(* The objects of the files are a call of the linker.                      *)
LEMMA FilesAreCall ==
  ASSUME NEW list, FilesMade(list), list # << >>, NEW e \in Names \cup {NoName}
  PROVE  [objects |-> ObjectsOf(list), entry |-> e] \in Calls
<1>1. Len(list) \in Nat
  BY DEF FilesMade, IsList
<1>2. Len(list) # 0
  BY DEF FilesMade, IsList
<1>3. \A f \in 1..Len(list) : list[f].object \in ObjectFiles
  BY DEF FilesMade, FileMade
<1>4. ObjectsOf(list) \in [1..Len(list) -> ObjectFiles]
  BY <1>3 DEF ObjectsOf
<1>5. ObjectsOf(list) \in Seq(ObjectFiles)
  BY <1>1, <1>4
<1>6. ObjectsOf(list) # << >>
  <2>1. Len(ObjectsOf(list)) = Len(list)
    BY <1>1, <1>4
  <2>2. QED
    BY <1>2, <2>1
<1>7. QED
  BY <1>5, <1>6 DEF Calls

(* The call of the assembler stays.                                        *)
LEMMA SourceStays ==
  ASSUME Next
  PROVE  source' = source
<1>1. CASE \/ ReadStatement \/ ReadData \/ SelectSection \/ AlignSection \/ Locate
           \/ DeclareSymbol \/ BeginProcedure \/ EndProcedure
  BY <1>1 DEF ReadStatement, ReadData, SelectSection, AlignSection, Locate,
              DeclareSymbol, BeginProcedure, EndProcedure, Record, LineRead
<1>2. CASE \/ NumberLine \/ Translate \/ LabelSymbol \/ PassUnlabelled
           \/ ExportSymbol \/ ImportSymbol \/ EmitData \/ EmitInstruction
           \/ EmitReference
  BY <1>2 DEF NumberLine, Translate, LabelSymbol, PassUnlabelled, ExportSymbol,
              ImportSymbol, EmitData, EmitInstruction, EmitReference, AddSymbol,
              NextItem
<1>3. CASE EndLoop \/ ReturnRaw \/ Encode
  BY <1>3 DEF EndLoop, ReturnRaw, Encode
<1>4. CASE \/ RejectLine \/ DuplicateLabel \/ RejectRaw \/ UndefinedGlobal
           \/ RejectObject \/ OutOfMemory
  <2>1. PICK code : Fail(code)
    BY <1>4, Zenon DEF RejectLine, DuplicateLabel, RejectRaw, UndefinedGlobal,
                       RejectObject, OutOfMemory
  <2>2. QED
    BY <2>1 DEF Fail
<1>5. QED
  BY <1>1, <1>2, <1>3, <1>4 DEF Next, Proceed

(* A step of the assembler.                                                *)
LEMMA AssemblingKeeps ==
  ASSUME NamesSuffice, BuildInv, Assembling
  PROVE  BuildInv'
<1>1. ObjectInv' /\ LabelsNamed' /\ Clean'
  BY ObjectNext, LabelsNamedNext, CleanNext
     DEF BuildInv, Assembling, ObjectInv, RawInv
<1>2. source' = source
  BY SourceStays DEF Assembling
<1>3. UNCHANGED <<build, files, link>> /\ linkStage = "waiting"
  BY DEF Assembling
<1>4. Waiting'
  BY <1>2, <1>3 DEF BuildInv, Waiting, link
<1>5. FilesMade(files)'
  BY <1>3 DEF BuildInv
<1>6. (build \in Builds)' /\ (linkStage = "waiting")'
  BY <1>3 DEF BuildInv, link
<1>7. QED
  BY <1>1, <1>4, <1>5, <1>6 DEF BuildInv

(* The file that was assembled is kept.                                    *)
LEMMA SavedMade ==
  ASSUME NamesSuffice, BuildInv, Returned(TRUE), Waiting, files' = Saved
  PROVE  /\ FilesMade(files')
         /\ Len(files') = Len(files) + 1
<1>1. FileMade(ThisFile)
  BY FileIsMade DEF BuildInv
<1>2. files' = Append(files, ThisFile)
  BY DEF Saved, ThisFile
<1>3. QED
  BY <1>1, <1>2, FilesGrow DEF BuildInv

LEMMA NextFileBegins ==
  ASSUME NamesSuffice, BuildInv, NextFile
  PROVE  BuildInv'
<1>1. Waiting /\ linkStage = "waiting" /\ Len(files) \in Nat
  BY DEF BuildInv, NextFile, Waiting
<1>2. /\ build.sources \in Seq(Sources)
      /\ Len(build.sources) > 1 =>
           \A f \in 1..Len(build.sources) : build.sources[f].object
  BY BuildsAssumption DEF BuildInv
<1>3. /\ Len(build.sources) \in Nat
      /\ Len(files) + 1 < Len(build.sources)
      /\ Len(files) + 1 \in 1..Len(build.sources)
      /\ Len(files) + 2 \in 1..Len(build.sources)
  BY <1>1, <1>2 DEF NextFile
<1>4. Returned(TRUE)
  <2>1. source.object
    BY <1>1, <1>2, <1>3 DEF Waiting
  <2>2. source.object \in BOOLEAN
    BY DEF BuildInv, ObjectInv, RawInv
  <2>3. QED
    BY <2>1, <2>2 DEF Returned, NextFile
<1>5. FilesMade(files') /\ Len(files') = Len(files) + 1
  BY <1>1, <1>4, SavedMade DEF NextFile
<1>6. source' \in Sources /\ source' = build.sources[Len(files) + 2]
  BY <1>2, <1>3 DEF NextFile
<1>7. error' = "NONE"
  BY DEF BuildInv, Clean, NextFile
<1>8. Init'
  BY <1>6, <1>7 DEF Init, NextFile, NewSection
<1>9. ObjectInv'
  <2>1. (Init => ObjectInv)'
    BY ObjectInit, PTL
  <2>2. QED
    BY <1>8, <2>1
<1>10. LabelsNamed'
  BY <1>8 DEF Init, LabelsNamed, LabelNames
<1>11. Clean'
  BY <1>7 DEF Clean
<1>12. build' = build /\ UNCHANGED link
  BY DEF NextFile
<1>13. Waiting'
  <2>1. /\ Len(files') \in Nat /\ Len(files') < Len(build'.sources)
        /\ source' = build'.sources[Len(files') + 1]
    BY <1>1, <1>3, <1>5, <1>6, <1>12
  <2>2. QED
    BY <1>1, <1>12, <2>1 DEF Waiting, link
<1>14. linkStage' = "waiting" /\ build' \in Builds
  BY <1>1, <1>12 DEF link, BuildInv
<1>15. QED
  BY <1>5, <1>9, <1>10, <1>11, <1>13, <1>14 DEF BuildInv

(* What the assembler has made is unchanged by the linker.                 *)
LEMMA AssembledStays ==
  ASSUME BuildInv, UNCHANGED vars, UNCHANGED build
  PROVE  build' \in Builds /\ ObjectInv' /\ LabelsNamed' /\ Clean'
<1>1. ObjectInv'
  BY ObjectNext DEF BuildInv
<1>2. LabelsNamed'
  BY DEF BuildInv, LabelsNamed, vars, context
<1>3. QED
  BY <1>1, <1>2 DEF BuildInv, Clean, vars

LEMMA LinkStarts ==
  ASSUME NamesSuffice, BuildInv, StartLink
  PROVE  BuildInv'
<1>1. Waiting /\ linkStage = "waiting" /\ Len(files) \in Nat
  BY DEF BuildInv, StartLink, Waiting
<1>2. Returned(TRUE)
  BY DEF StartLink, Returned, BuildInv, ObjectInv, RawInv
<1>3. FilesMade(files') /\ Len(files') = Len(files) + 1 /\ files' = Saved
  BY <1>1, <1>2, SavedMade DEF StartLink
<1>4. files' # << >>
  BY <1>1, <1>3
<1>5. build.entry \in Names \cup {NoName}
  BY BuildsAssumption DEF BuildInv
<1>6. request' = [objects |-> ObjectsOf(files'), entry |-> build.entry]
  BY <1>3 DEF StartLink, ObjectsOf
<1>7. request' \in Calls /\ request'.objects = ObjectsOf(files')
  BY <1>3, <1>4, <1>5, <1>6, FilesAreCall
<1>8. (Link!Init)'
  BY <1>1, <1>7 DEF Link!Init, StartLink, Waiting
<1>9. LinkKeeps'
  <2>1. (Link!Init => LinkKeeps)'
    BY LinkBegins, PTL
  <2>2. QED
    BY <1>8, <2>1
<1>10. Called' /\ linkStage' # "waiting"
  BY <1>7, <1>9 DEF Called, StartLink
<1>11. build' \in Builds /\ ObjectInv' /\ LabelsNamed' /\ Clean'
  BY AssembledStays DEF StartLink
<1>12. QED
  BY <1>3, <1>10, <1>11 DEF BuildInv

LEMMA LinkingKeeps ==
  ASSUME BuildInv, Linking
  PROVE  BuildInv'
<1>1. LinkKeeps' /\ request' = request /\ files' = files
  BY LinkGoesOn DEF BuildInv, Linking, Called
<1>2. linkStage' # "waiting"
  <2>1. (LinkKeeps => linkStage # "waiting")'
    BY LinkCalled, PTL
  <2>2. QED
    BY <1>1, <2>1
<1>3. Called'
  BY <1>1 DEF BuildInv, Linking, Called
<1>4. build' \in Builds /\ ObjectInv' /\ LabelsNamed' /\ Clean'
  BY AssembledStays DEF Linking
<1>5. QED
  BY <1>1, <1>2, <1>3, <1>4 DEF BuildInv

LEMMA BuildGoesOn ==
  ASSUME NamesSuffice, BuildInv, [BuildNext]_buildVars
  PROVE  BuildInv'
<1>1. CASE UNCHANGED buildVars
  <2>1. build' \in Builds /\ ObjectInv' /\ LabelsNamed' /\ Clean'
    BY <1>1, AssembledStays DEF buildVars
  <2>2. linkStage # "waiting" => LinkKeeps'
    BY <1>1, LinkGoesOn DEF BuildInv, Called, buildVars
  <2>3. UNCHANGED <<build, files, source, link>>
    BY <1>1 DEF buildVars, vars
  <2>4. linkStage # "waiting" => Called'
    BY <2>2, <2>3 DEF BuildInv, Called, link
  <2>5. linkStage = "waiting" => Waiting'
    BY <2>3 DEF BuildInv, Waiting, link
  <2>6. FilesMade(files)' /\ linkStage' = linkStage
    BY <2>3 DEF BuildInv, link
  <2>7. QED
    BY <2>1, <2>4, <2>5, <2>6 DEF BuildInv
<1>2. QED
  BY <1>1, AssemblingKeeps, NextFileBegins, LinkStarts, LinkingKeeps DEF BuildNext

-----------------------------------------------------------------------------
(* What a file that was assembled says of its own lines.                   *)
FileRemote(file) == RemoteBefore(file.lines, Len(file.lines) + 1)
RelocationsOf(file) == 1..Len(file.object.relocations)
RelocatesLine(file, r, i) ==
  Relocates(file.object.symbols, file.object.relocations[r], file.lines[i])

LEMMA UsedIsName ==
  ASSUME NEW line, LineMade(line), UsesLabel(line)
  PROVE  UsedLabel(line) # NoName /\ line.size = 8
<1>1. IsStatement(line.statement) /\ line.size = 8
  BY DEF LineMade, UsesLabel, INSTRUCTION_SIZE
<1> DEFINE imm == line.statement.imm
<1>2. imm \in ImmediateTokens /\ imm.type = "use"
  BY <1>1 DEF IsStatement, UsesLabel, IsUse
<1> HIDE DEF imm
<1>3. imm.value \in STRING
  BY <1>2 DEF ImmediateTokens, IntTokens, CharTokens
<1>4. QED
  BY <1>1, <1>3, AssemblerAssumption DEF UsedLabel, imm

LEMMA FileLists ==
  ASSUME NEW file, FileMade(file)
  PROVE  /\ Len(file.lines) \in Nat
         /\ Len(file.object.relocations) \in Nat
         /\ Len(file.object.symbols) \in Nat
         /\ Len(file.object.sections) \in Nat
         /\ FileRemote(file) \subseteq 1..Len(file.lines)
         /\ \A i \in FileRemote(file) : IsRemoteIn(file.lines, file.lines[i])
<1>1. Len(file.lines) \in Nat
  BY DEF FileMade, IsList
<1>2. /\ Len(file.object.relocations) \in Nat /\ Len(file.object.symbols) \in Nat
      /\ Len(file.object.sections) \in Nat
  BY DEF FileMade, ObjectFiles
<1>3. QED
  BY <1>1, <1>2 DEF FileRemote, RemoteBefore

(* Two lines of a section are apart.                                       *)
LEMMA TwoApart ==
  ASSUME NEW file, FileMade(file),
         NEW i \in 1..Len(file.lines), NEW j \in 1..Len(file.lines), i # j,
         file.lines[i].section = file.lines[j].section
  PROVE  /\ file.lines[i].offset \in Nat /\ file.lines[j].offset \in Nat
         /\ file.lines[i].size \in Nat /\ file.lines[j].size \in Nat
         /\ \/ file.lines[i].offset + file.lines[i].size <= file.lines[j].offset
            \/ file.lines[j].offset + file.lines[j].size <= file.lines[i].offset
<1>1. Len(file.lines) \in Nat
  BY FileLists
<1>2. i \in 1..(j - 1) \/ j \in 1..(i - 1)
  BY <1>1
<1>3. LinesApart(file.lines, file.object.sections)
  BY DEF FileMade
<1>4. QED
  BY <1>2, <1>3 DEF LinesApart

(* The lines that use a label from elsewhere are instructions.             *)
LEMMA RemoteLine ==
  ASSUME NEW file, FileMade(file), NEW i \in FileRemote(file)
  PROVE  /\ i \in 1..Len(file.lines)
         /\ file.lines[i].size = 8
         /\ UsesLabel(file.lines[i])
         /\ LocalIn(file.lines, file.lines[i]) = {}
         /\ file.lines[i].offset \in Nat
         /\ UsedLabel(file.lines[i]) # NoName
<1>1. i \in 1..Len(file.lines) /\ IsRemoteIn(file.lines, file.lines[i])
  BY FileLists
<1>2. LineMade(file.lines[i]) /\ file.lines[i].offset \in Nat
  BY <1>1 DEF FileMade, LinesApart
<1>3. QED
  BY <1>1, <1>2, UsedIsName DEF IsRemoteIn

LEMMA RelocationHasLine ==
  ASSUME NEW file, FileMade(file), NEW r \in RelocationsOf(file)
  PROVE  \E i \in FileRemote(file) : RelocatesLine(file, r, i)
BY DEF FileMade, RelocationsMade, FileRemote, RelocationsOf, RelocatesLine

LEMMA LineHasRelocation ==
  ASSUME NEW file, FileMade(file), NEW i \in FileRemote(file)
  PROVE  \E r \in RelocationsOf(file) : RelocatesLine(file, r, i)
BY DEF FileMade, RelocationsMade, FileRemote, RelocationsOf, RelocatesLine

LEMMA RelocationIsAt ==
  ASSUME NEW file, NEW r, NEW i, RelocatesLine(file, r, i)
  PROVE  /\ file.object.relocations[r].section = file.lines[i].section
         /\ file.object.relocations[r].offset = file.lines[i].offset + 4
         /\ ~file.object.relocations[r].pcRelative
         /\ file.object.relocations[r].addend = 0
         /\ file.object.relocations[r].symbol \in 1..Len(file.object.symbols)
         /\ file.object.symbols[file.object.relocations[r].symbol].name =
              UsedLabel(file.lines[i])
BY DEF RelocatesLine, Relocates, RelocationAt

(* A relocation is of one line, and a line has one relocation: there are   *)
(* as many of both.                                                        *)
LEMMA LineOfRelocation ==
  ASSUME NEW file, FileMade(file), NEW r \in RelocationsOf(file),
         NEW i \in FileRemote(file), NEW j \in FileRemote(file),
         RelocatesLine(file, r, i), RelocatesLine(file, r, j)
  PROVE  i = j
<1>1. /\ file.lines[i].section = file.lines[j].section
      /\ file.lines[i].offset + 4 = file.lines[j].offset + 4
  BY RelocationIsAt
<1>2. /\ i \in 1..Len(file.lines) /\ j \in 1..Len(file.lines)
      /\ file.lines[i].size = 8 /\ file.lines[j].size = 8
      /\ file.lines[i].offset \in Nat /\ file.lines[j].offset \in Nat
  BY RemoteLine
<1>3. SUFFICES ASSUME i # j PROVE FALSE
  OBVIOUS
<1>4. \/ file.lines[i].offset + file.lines[i].size <= file.lines[j].offset
      \/ file.lines[j].offset + file.lines[j].size <= file.lines[i].offset
  BY <1>1, <1>2, <1>3, TwoApart
<1> DEFINE a == file.lines[i].offset
           b == file.lines[j].offset
<1>5. a \in Nat /\ b \in Nat /\ a + 4 = b + 4
  BY <1>1, <1>2
<1>6. a + 8 <= b \/ b + 8 <= a
  BY <1>2, <1>4
<1> HIDE DEF a, b
<1>7. QED
  BY <1>5, <1>6

LEMMA RelocationOfLine ==
  ASSUME NEW file, FileMade(file), NEW i \in FileRemote(file),
         NEW r \in RelocationsOf(file), NEW t \in RelocationsOf(file),
         RelocatesLine(file, r, i), RelocatesLine(file, t, i)
  PROVE  r = t
<1> DEFINE Rel == RelocationsOf(file)
           Rem == FileRemote(file)
           LineAt[x \in Rel] == CHOOSE j \in Rem : RelocatesLine(file, x, j)
<1>1. \A x \in Rel : LineAt[x] \in Rem /\ RelocatesLine(file, x, LineAt[x])
  BY RelocationHasLine
<1>2. LineAt \in [Rel -> Rem]
  BY <1>1
<1> HIDE DEF LineAt
<1>3. \A x \in Rel : \A j \in Rem : RelocatesLine(file, x, j) => LineAt[x] = j
  BY <1>1, LineOfRelocation
<1>4. LineAt \in Surjection(Rel, Rem)
  BY <1>2, <1>3, LineHasRelocation DEF Surjection
<1>5. IsFiniteSet(Rel) /\ Cardinality(Rel) = Cardinality(Rem)
  <2>1. Len(file.object.relocations) \in Nat
    BY FileLists
  <2>2. Len(file.object.relocations) = Cardinality(Rem)
    BY DEF FileMade, RelocationsMade, FileRemote
  <2>3. IsFiniteSet(Rel) /\ Cardinality(Rel) = Len(file.object.relocations)
    <3> DEFINE n == Len(file.object.relocations)
    <3>1. Rel = 1..n /\ n \in Nat
      BY <2>1 DEF RelocationsOf
    <3> HIDE DEF n, Rel
    <3>2. IsFiniteSet(1..n) /\ Cardinality(1..n) = n
      BY <3>1, FS_Interval
    <3>3. QED
      BY <3>1, <3>2 DEF n
  <2>4. QED
    BY <2>2, <2>3
<1>6. LineAt \in Injection(Rel, Rem)
  BY <1>4, <1>5, FS_Surjection
<1>7. LineAt[r] = LineAt[t]
  BY <1>3
<1>8. DOMAIN LineAt = Rel /\ IsInjective(LineAt)
  BY <1>2, <1>6 DEF Injection
<1>9. QED
  BY <1>7, <1>8 DEF IsInjective

(* No other relocation reaches into the field of one.                      *)
LEMMA FieldsDiffer ==
  ASSUME NEW file, FileMade(file), NEW r \in RelocationsOf(file),
         NEW t \in RelocationsOf(file), r # t,
         file.object.relocations[r].section = file.object.relocations[t].section
  PROVE  file.object.relocations[r].offset - file.object.relocations[t].offset
           \notin (-3)..3
<1>1. PICK i \in FileRemote(file) : RelocatesLine(file, r, i)
  BY RelocationHasLine
<1>2. PICK j \in FileRemote(file) : RelocatesLine(file, t, j)
  BY RelocationHasLine
<1>3. i # j
  BY <1>1, <1>2, RelocationOfLine
<1>4. /\ file.lines[i].section = file.lines[j].section
      /\ file.object.relocations[r].offset = file.lines[i].offset + 4
      /\ file.object.relocations[t].offset = file.lines[j].offset + 4
  BY <1>1, <1>2, RelocationIsAt
<1>5. /\ i \in 1..Len(file.lines) /\ j \in 1..Len(file.lines)
      /\ file.lines[i].size = 8 /\ file.lines[j].size = 8
      /\ file.lines[i].offset \in Nat /\ file.lines[j].offset \in Nat
  BY RemoteLine
<1>6. \/ file.lines[i].offset + file.lines[i].size <= file.lines[j].offset
      \/ file.lines[j].offset + file.lines[j].size <= file.lines[i].offset
  BY <1>3, <1>4, <1>5, TwoApart
<1> DEFINE a == file.lines[i].offset
           b == file.lines[j].offset
<1>7. /\ a \in Nat /\ b \in Nat /\ (a + 8 <= b \/ b + 8 <= a)
      /\ file.object.relocations[r].offset = a + 4
      /\ file.object.relocations[t].offset = b + 4
  BY <1>4, <1>5, <1>6
<1> HIDE DEF a, b
<1>8. (a + 4) - (b + 4) \notin (-3)..3
  BY <1>7
<1>9. QED
  BY <1>7, <1>8

(* A relocation reaches into no line but its own, and there into the       *)
(* immediate.                                                              *)
Touched(file, s, k) ==
  \E r \in RelocationsOf(file) :
    /\ file.object.relocations[r].section = s
    /\ k - 1 - file.object.relocations[r].offset \in 0..3

LEMMA LinesUntouched ==
  ASSUME NEW file, FileMade(file), NEW i \in 1..Len(file.lines),
         NEW k \in (file.lines[i].offset + 1)..(file.lines[i].offset + file.lines[i].size),
         i \in FileRemote(file) => k <= file.lines[i].offset + 4
  PROVE  ~Touched(file, file.lines[i].section, k)
<1> SUFFICES ASSUME NEW r \in RelocationsOf(file),
                    file.object.relocations[r].section = file.lines[i].section
             PROVE  k - 1 - file.object.relocations[r].offset \notin 0..3
  BY DEF Touched
<1>1. PICK j \in FileRemote(file) : RelocatesLine(file, r, j)
  BY RelocationHasLine
<1>2. /\ file.lines[j].section = file.lines[i].section
      /\ file.object.relocations[r].offset = file.lines[j].offset + 4
  BY <1>1, RelocationIsAt
<1>3. /\ j \in 1..Len(file.lines) /\ file.lines[j].size = 8
      /\ file.lines[j].offset \in Nat
  BY RemoteLine
<1>4. file.lines[i].offset \in Nat /\ file.lines[i].size \in Nat
  BY DEF FileMade, LinesApart
<1>5. CASE i = j
  <2> DEFINE b == file.lines[j].offset
  <2>1. /\ b \in Nat /\ k \in Nat /\ k <= b + 4
        /\ file.object.relocations[r].offset = b + 4
    BY <1>2, <1>3, <1>5
  <2> HIDE DEF b
  <2>2. k - 1 - (b + 4) \notin 0..3
    BY <2>1
  <2>3. QED
    BY <2>1, <2>2
<1>6. CASE i # j
  <2>1. \/ file.lines[i].offset + file.lines[i].size <= file.lines[j].offset
        \/ file.lines[j].offset + file.lines[j].size <= file.lines[i].offset
    BY <1>2, <1>3, <1>6, TwoApart
  <2> DEFINE a == file.lines[i].offset
             n == file.lines[i].size
             b == file.lines[j].offset
  <2>2. /\ a \in Nat /\ b \in Nat /\ n \in Nat /\ (a + n <= b \/ b + 8 <= a)
        /\ k \in (a + 1)..(a + n)
        /\ file.object.relocations[r].offset = b + 4
    BY <1>2, <1>3, <1>4, <2>1
  <2> HIDE DEF a, b, n
  <2>3. k - 1 - (b + 4) \notin 0..3
    BY <2>2
  <2>4. QED
    BY <2>2, <2>3
<1>7. QED
  BY <1>5, <1>6

-----------------------------------------------------------------------------
(* A symbol with a section is the label of a line, ...                     *)
LEMMA SymbolIsLabel ==
  ASSUME NEW file, FileMade(file), NEW x \in 1..Len(file.object.symbols),
         file.object.symbols[x].section # 0
  PROVE  \E i \in 1..Len(file.lines) :
           /\ file.lines[i].label # NoName
           /\ file.object.symbols[x] = LabelDefinition(file.lines[i], ExportedBy(file))
<1>1. PICK imported : SymbolsMade(file.lines, file.object.symbols, Len(file.lines) + 1,
                                  ExportedBy(file), imported)
  BY DEF FileMade
<1>2. Len(file.lines) + 1 - 1 = Len(file.lines)
  BY FileLists
<1>3. ~RefersOutside(file.lines, file.object.symbols[x], imported)
  BY DEF RefersOutside, ExternalReference
<1>4. DefinesLabel(file.lines, file.object.symbols[x], Len(file.lines) + 1,
                   ExportedBy(file))
  BY <1>1, <1>3 DEF SymbolsMade
<1>5. QED
  BY <1>2, <1>4 DEF DefinesLabel

(* ... and one without is not the label of any.                            *)
LEMMA SymbolIsOutside ==
  ASSUME NEW file, FileMade(file), NEW x \in 1..Len(file.object.symbols),
         file.object.symbols[x].section = 0
  PROVE  \A i \in 1..Len(file.lines) : file.lines[i].label # file.object.symbols[x].name
<1>1. PICK imported : SymbolsMade(file.lines, file.object.symbols, Len(file.lines) + 1,
                                  ExportedBy(file), imported)
  BY DEF FileMade
<1>2. Len(file.lines) + 1 - 1 = Len(file.lines) /\ Len(file.object.sections) \in Nat
  BY FileLists
<1>3. \A i \in 1..Len(file.lines) : file.lines[i].section # 0
  BY <1>2 DEF FileMade, LinesApart
<1>4. ~DefinesLabel(file.lines, file.object.symbols[x], Len(file.lines) + 1,
                    ExportedBy(file))
  <2>1. ASSUME NEW i \in 1..Len(file.lines),
               file.object.symbols[x] = LabelDefinition(file.lines[i], ExportedBy(file))
        PROVE  FALSE
    <3>1. file.object.symbols[x].section = file.lines[i].section
      BY <2>1 DEF LabelDefinition
    <3>2. QED
      BY <1>3, <3>1
  <2>2. QED
    BY <1>2, <2>1 DEF DefinesLabel
<1>5. RefersOutside(file.lines, file.object.symbols[x], imported)
  BY <1>1, <1>4 DEF SymbolsMade
<1>6. QED
  BY <1>5 DEF RefersOutside

LEMMA LabelHasSymbol ==
  ASSUME NEW file, FileMade(file), NEW i \in 1..Len(file.lines),
         file.lines[i].label # NoName
  PROVE  /\ \E x \in 1..Len(file.object.symbols) :
              file.object.symbols[x] = LabelDefinition(file.lines[i], ExportedBy(file))
         /\ file.lines[i].section # 0
<1>1. PICK imported : SymbolsMade(file.lines, file.object.symbols, Len(file.lines) + 1,
                                  ExportedBy(file), imported)
  BY DEF FileMade
<1>2. Len(file.lines) + 1 - 1 = Len(file.lines) /\ Len(file.object.sections) \in Nat
  BY FileLists
<1>3. file.lines[i].section # 0
  BY <1>2 DEF FileMade, LinesApart
<1>4. QED
  BY <1>1, <1>2, <1>3 DEF SymbolsMade, LabelsDefined

LEMMA SymbolsDiffer ==
  ASSUME NEW file, FileMade(file), NEW x \in 1..Len(file.object.symbols),
         NEW y \in 1..Len(file.object.symbols),
         file.object.symbols[x].name = file.object.symbols[y].name
  PROVE  x = y
BY DEF FileMade, SymbolsMade, NamesApart

-----------------------------------------------------------------------------
(* The lines of a program and what labels mean in it.                      *)
LEMMA ProgramLine ==
  ASSUME NEW p
  PROVE  p \in ProgramLines <=>
           \E f \in 1..Len(files) : \E i \in 1..Len(files[f].lines) : p = <<f, i>>
BY DEF ProgramLines

LEMMA LineAt ==
  ASSUME NEW f \in 1..Len(files), NEW i \in 1..Len(files[f].lines)
  PROVE  /\ <<f, i>> \in ProgramLines
         /\ LineOf(<<f, i>>) = files[f].lines[i]
         /\ <<f, i>>[1] = f /\ <<f, i>>[2] = i
BY ProgramLine DEF LineOf

LEMMA ExportsAre ==
  ASSUME FilesMade(files), NEW f \in 1..Len(files)
  PROVE  Exports(f) = ExportedBy(files[f])
<1>1. Len(files[f].globals) \in Nat
  BY DEF FilesMade, FileMade, IsList
<1>2. Len(files[f].globals) + 1 - 1 = Len(files[f].globals)
  BY <1>1
<1>3. QED
  <2> DEFINE n == Len(files[f].globals)
  <2>1. Exports(f) = {files[f].globals[g] : g \in 1..n}
    BY DEF Exports
  <2>2. ExportedBy(files[f]) = {files[f].globals[g] : g \in 1..(n + 1 - 1)}
    BY DEF ExportedBy, Before
  <2>3. n + 1 - 1 = n
    BY <1>2
  <2> HIDE DEF n
  <2>4. QED
    BY <2>1, <2>2, <2>3

LEMMA PublicLineIs ==
  ASSUME FilesMade(files), NEW name, NEW q
  PROVE  q \in PublicLines(name) <=>
           \E g \in 1..Len(files) : \E j \in 1..Len(files[g].lines) :
             /\ q = <<g, j>> /\ files[g].lines[j].label = name
             /\ name \in ExportedBy(files[g])
<1>1. q \in PublicLines(name) <=>
        q \in ProgramLines /\ LineOf(q).label = name /\ name \in Exports(q[1])
  BY DEF PublicLines, LinesOf
<1>2. QED
  BY <1>1, ProgramLine, LineAt, ExportsAre

LEMMA OwnMeaning ==
  ASSUME FilesMade(files), NEW f \in 1..Len(files),
         NEW j \in 1..Len(files[f].lines), files[f].lines[j].label # NoName
  PROVE  MeaningOf(f, files[f].lines[j].label) = {<<f, j>>}
<1> DEFINE name == files[f].lines[j].label
           own == {p \in LinesOf(name) : p[1] = f}
<1>1. <<f, j>> \in own
  BY LineAt DEF LinesOf
<1>2. ASSUME NEW p \in own
      PROVE  p = <<f, j>>
  <2>1. p \in ProgramLines /\ LineOf(p).label = name /\ p[1] = f
    BY <1>2 DEF LinesOf
  <2>2. PICK i \in 1..Len(files[f].lines) : p = <<f, i>> /\ LineOf(p) = files[f].lines[i]
    BY <2>1, ProgramLine, LineAt
  <2>3. UniqueLabels(files[f].lines)
    BY DEF FilesMade, FileMade
  <2>4. QED
    BY <2>1, <2>2, <2>3 DEF UniqueLabels
<1>3. own = {<<f, j>>}
  BY <1>1, <1>2
<1>4. MeaningOf(f, name) = own
  BY <1>3 DEF MeaningOf
<1>5. QED
  BY <1>3, <1>4

LEMMA OutsideMeaning ==
  ASSUME NEW f, NEW name,
         \A i \in 1..Len(files[f].lines) : files[f].lines[i].label # name
  PROVE  MeaningOf(f, name) = PublicLines(name)
<1>1. {p \in LinesOf(name) : p[1] = f} = {}
  <2>1. ASSUME NEW p \in ProgramLines, LineOf(p).label = name, p[1] = f
        PROVE  FALSE
    BY <2>1, ProgramLine, LineAt
  <2>2. QED
    BY <2>1 DEF LinesOf
<1>2. QED
  BY <1>1 DEF MeaningOf

-----------------------------------------------------------------------------
(* The linker sees the objects of the files.                               *)
Seen ==
  /\ FilesMade(files) /\ Len(files) \in Nat
  /\ Link!ObjectIndices = 1..Len(files)
  /\ \A f \in 1..Len(files) : Link!Objects[f] = files[f].object

LEMMA CalledSees ==
  ASSUME FilesMade(files), Called
  PROVE  Seen
<1>1. Len(files) \in Nat
  BY DEF FilesMade, IsList
<1>2. Link!Objects = [f \in 1..Len(files) |-> files[f].object]
  BY DEF Called, ObjectsOf, Link!Objects
<1>3. Len(Link!Objects) = Len(files)
  BY <1>1, <1>2
<1>4. QED
  BY <1>1, <1>2, <1>3 DEF Seen, Link!ObjectIndices

LEMMA SeenTables ==
  ASSUME Seen, NEW f \in 1..Len(files)
  PROVE  /\ FileMade(files[f]) /\ f \in Link!ObjectIndices
         /\ Link!Objects[f] = files[f].object
         /\ Link!SectionIndices(f) = 1..Len(files[f].object.sections)
         /\ Link!SymbolIndices(f) = 1..Len(files[f].object.symbols)
         /\ Link!RelocationIndices(f) = RelocationsOf(files[f])
         /\ \A x : Link!Definition(f, x) = files[f].object.symbols[x]
BY DEF Seen, FilesMade, Link!SectionIndices, Link!SymbolIndices, Link!RelocationIndices,
       RelocationsOf, Link!Definition

(* Symbol d[2] of file d[1] is the label of line q.                        *)
Stands(d, q) ==
  \E f \in 1..Len(files) : \E x \in 1..Len(files[f].object.symbols) :
    \E i \in 1..Len(files[f].lines) :
      /\ d = <<f, x>> /\ q = <<f, i>>
      /\ files[f].lines[i].label # NoName
      /\ files[f].object.symbols[x] =
           LabelDefinition(files[f].lines[i], ExportedBy(files[f]))
      /\ files[f].object.symbols[x].section # 0

LEMMA DefinitionStands ==
  ASSUME Seen, NEW f \in 1..Len(files), NEW x \in 1..Len(files[f].object.symbols),
         files[f].object.symbols[x].section # 0
  PROVE  \E q : Stands(<<f, x>>, q)
<1>1. FileMade(files[f])
  BY DEF Seen, FilesMade
<1>2. PICK i \in 1..Len(files[f].lines) :
        /\ files[f].lines[i].label # NoName
        /\ files[f].object.symbols[x] =
             LabelDefinition(files[f].lines[i], ExportedBy(files[f]))
  BY <1>1, SymbolIsLabel
<1>3. Stands(<<f, x>>, <<f, i>>)
  BY <1>2 DEF Stands
<1>4. QED
  BY <1>3

LEMMA LineStands ==
  ASSUME Seen, NEW f \in 1..Len(files), NEW i \in 1..Len(files[f].lines),
         files[f].lines[i].label # NoName
  PROVE  \E x \in 1..Len(files[f].object.symbols) : Stands(<<f, x>>, <<f, i>>)
<1>1. FileMade(files[f])
  BY DEF Seen, FilesMade
<1>2. PICK x \in 1..Len(files[f].object.symbols) :
        files[f].object.symbols[x] =
          LabelDefinition(files[f].lines[i], ExportedBy(files[f]))
  BY <1>1, LabelHasSymbol
<1>3. files[f].lines[i].section # 0
  BY <1>1, LabelHasSymbol
<1>4. files[f].object.symbols[x].section # 0
  BY <1>2, <1>3 DEF LabelDefinition
<1>5. Stands(<<f, x>>, <<f, i>>)
  BY <1>2, <1>4 DEF Stands
<1>6. QED
  BY <1>5

(* What is known of such a symbol.                                         *)
LEMMA StandsFor ==
  ASSUME Seen, NEW d, NEW q, Stands(d, q)
  PROVE  /\ q \in ProgramLines /\ d[1] = q[1]
         /\ d[1] \in 1..Len(files) /\ d[2] \in 1..Len(files[d[1]].object.symbols)
         /\ d = <<d[1], d[2]>>
         /\ LineOf(q).label # NoName
         /\ Link!Definition(d[1], d[2]).name = LineOf(q).label
         /\ Link!Definition(d[1], d[2]).section = LineOf(q).section
         /\ Link!Definition(d[1], d[2]).value = LineOf(q).offset
         /\ Link!Definition(d[1], d[2]).section # 0
         /\ Link!DefinesGlobal(Link!Definition(d[1], d[2])) <=>
              q \in PublicLines(LineOf(q).label)
<1>a. PICK f \in 1..Len(files) : \E x \in 1..Len(files[f].object.symbols) :
        \E i \in 1..Len(files[f].lines) :
          /\ d = <<f, x>> /\ q = <<f, i>>
          /\ files[f].lines[i].label # NoName
          /\ files[f].object.symbols[x] =
               LabelDefinition(files[f].lines[i], ExportedBy(files[f]))
          /\ files[f].object.symbols[x].section # 0
  BY DEF Stands
<1>1. PICK x \in 1..Len(files[f].object.symbols), i \in 1..Len(files[f].lines) :
        /\ d = <<f, x>> /\ q = <<f, i>>
        /\ files[f].lines[i].label # NoName
        /\ files[f].object.symbols[x] =
             LabelDefinition(files[f].lines[i], ExportedBy(files[f]))
        /\ files[f].object.symbols[x].section # 0
  BY <1>a
<1> DEFINE symbol == files[f].object.symbols[x]
           line == files[f].lines[i]
<1>2. /\ symbol.name = line.label /\ symbol.section = line.section
      /\ symbol.value = line.offset
      /\ symbol.binding = "global" <=> line.label \in ExportedBy(files[f])
  BY <1>1 DEF LabelDefinition
<1>3. Link!Definition(d[1], d[2]) = symbol /\ d[1] = f /\ d[2] = x
  BY <1>1, SeenTables
<1>4. q \in ProgramLines /\ LineOf(q) = line /\ q[1] = f
  BY <1>1, LineAt
<1>5. q \in PublicLines(line.label) <=> line.label \in ExportedBy(files[f])
  BY <1>1, PublicLineIs DEF Seen
<1> HIDE DEF symbol, line
<1>6. Link!DefinesGlobal(symbol) <=> symbol.binding = "global" /\ symbol.section # 0
  BY DEF Link!DefinesGlobal
<1>7. symbol.section # 0 /\ line.label # NoName
  BY <1>1 DEF symbol, line
<1>8. QED
  BY <1>1, <1>2, <1>3, <1>4, <1>5, <1>6, <1>7

LEMMA LinkMeanings ==
  ASSUME NEW o, NEW s
  PROVE  /\ Link!Definition(o, s).section # 0 => Link!Meanings(o, s) = {<<o, s>>}
         /\ Link!Definition(o, s).section = 0 =>
              \A d : d \in Link!Meanings(o, s) <=>
                \E p \in Link!ObjectIndices : \E t \in Link!SymbolIndices(p) :
                  /\ d = <<p, t>>
                  /\ Link!DefinesGlobal(Link!Definition(p, t))
                  /\ Link!Definition(p, t).name = Link!Definition(o, s).name
BY Link!MeaningsAre, ByteBaseAssumption, LinkAssumed DEF LinkAssumptions

(* A reference to a symbol of file f means what its name means there.      *)
LEMMA ReferenceMeans ==
  ASSUME Seen, NEW f \in 1..Len(files), NEW x \in 1..Len(files[f].object.symbols),
         files[f].object.symbols[x].name # NoName
  PROVE  LET name == files[f].object.symbols[x].name
         IN  /\ \A d \in Link!Meanings(f, x) :
                  \E q \in MeaningOf(f, name) : Stands(d, q) /\ LineOf(q).label = name
             /\ \A q \in MeaningOf(f, name) :
                  \E d \in Link!Meanings(f, x) : Stands(d, q) /\ LineOf(q).label = name
<1> DEFINE name == files[f].object.symbols[x].name
<1>1. FileMade(files[f]) /\ FilesMade(files)
  BY DEF Seen, FilesMade
<1>2. Link!Definition(f, x) = files[f].object.symbols[x]
  BY SeenTables
<1>3. CASE files[f].object.symbols[x].section # 0
  <2>1. PICK q : Stands(<<f, x>>, q)
    BY <1>3, DefinitionStands
  <2>2. q \in ProgramLines /\ q[1] = f /\ LineOf(q).label = name /\ name # NoName
    BY <2>1, <1>2, StandsFor
  <2>3. PICK i \in 1..Len(files[f].lines) : q = <<f, i>> /\ LineOf(q) = files[f].lines[i]
    BY <2>2, ProgramLine, LineAt
  <2>4. MeaningOf(f, name) = {q}
    BY <1>1, <2>2, <2>3, OwnMeaning
  <2>5. Link!Meanings(f, x) = {<<f, x>>}
    BY <1>2, <1>3, LinkMeanings
  <2>6. QED
    BY <2>1, <2>2, <2>4, <2>5
<1>4. CASE files[f].object.symbols[x].section = 0
  <2>1. MeaningOf(f, name) = PublicLines(name)
    BY <1>1, <1>4, SymbolIsOutside, OutsideMeaning
  <2>2. \A d : d \in Link!Meanings(f, x) <=>
                 \E p \in Link!ObjectIndices : \E t \in Link!SymbolIndices(p) :
                   /\ d = <<p, t>>
                   /\ Link!DefinesGlobal(Link!Definition(p, t))
                   /\ Link!Definition(p, t).name = name
    BY <1>2, <1>4, LinkMeanings
  <2>3. ASSUME NEW d \in Link!Meanings(f, x)
        PROVE  \E q \in PublicLines(name) : Stands(d, q) /\ LineOf(q).label = name
    <3>a. PICK p \in Link!ObjectIndices : \E t \in Link!SymbolIndices(p) :
            /\ d = <<p, t>>
            /\ Link!DefinesGlobal(Link!Definition(p, t))
            /\ Link!Definition(p, t).name = name
      BY <2>2, <2>3
    <3>1. PICK t \in Link!SymbolIndices(p) :
            /\ d = <<p, t>>
            /\ Link!DefinesGlobal(Link!Definition(p, t))
            /\ Link!Definition(p, t).name = name
      BY <3>a
    <3>2. p \in 1..Len(files)
      BY <3>1 DEF Seen
    <3>3. t \in 1..Len(files[p].object.symbols)
          /\ files[p].object.symbols[t] = Link!Definition(p, t)
      BY <3>1, <3>2, SeenTables
    <3>4. files[p].object.symbols[t].section # 0
      BY <3>1, <3>3 DEF Link!DefinesGlobal
    <3>5. PICK q : Stands(<<p, t>>, q)
      BY <3>2, <3>3, <3>4, DefinitionStands
    <3>6. <<p, t>>[1] = p /\ <<p, t>>[2] = t
      OBVIOUS
    <3>7. q \in PublicLines(LineOf(q).label) /\ LineOf(q).label = name
      BY <3>1, <3>5, <3>6, StandsFor
    <3>8. QED
      BY <3>1, <3>5, <3>7
  <2>4. ASSUME NEW q \in PublicLines(name)
        PROVE  \E d \in Link!Meanings(f, x) : Stands(d, q) /\ LineOf(q).label = name
    <3>a. PICK g \in 1..Len(files) : \E j \in 1..Len(files[g].lines) :
            q = <<g, j>> /\ files[g].lines[j].label = name
      BY <1>1, <2>4, PublicLineIs
    <3>1. PICK j \in 1..Len(files[g].lines) :
            q = <<g, j>> /\ files[g].lines[j].label = name
      BY <3>a
    <3>2. PICK t \in 1..Len(files[g].object.symbols) : Stands(<<g, t>>, q)
      BY <3>1, LineStands
    <3>3. LineOf(q).label = name
      BY <3>1, LineAt
    <3>4. <<g, t>>[1] = g /\ <<g, t>>[2] = t
      OBVIOUS
    <3>5. /\ Link!DefinesGlobal(Link!Definition(g, t))
          /\ Link!Definition(g, t).name = name
      BY <2>4, <3>2, <3>3, <3>4, StandsFor
    <3>6. g \in Link!ObjectIndices /\ t \in Link!SymbolIndices(g)
      BY SeenTables
    <3>7. <<g, t>> \in Link!Meanings(f, x)
      BY <2>2, <3>5, <3>6
    <3>8. QED
      BY <3>2, <3>3, <3>7
  <2>5. QED
    BY <2>1, <2>3, <2>4
<1>5. QED
  BY <1>3, <1>4

-----------------------------------------------------------------------------
(* What the linker says of an executable.                                  *)
Linked ==
  /\ Seen
  /\ executable.sections = placed
  /\ Link!AllPlaced /\ Link!TypeOK /\ Link!SectionsApart
  /\ Link!OnlyReferencesChange /\ Link!SizesKept
  /\ executable # NoImage
  /\ Link!ReferencesHold /\ Link!LinkedImageLoads /\ ~Link!HasDuplicate

LEMMA CalledIsLinked ==
  ASSUME FilesMade(files), Called, executable # NoImage
  PROVE  Linked
<1>1. Seen
  BY CalledSees
<1>2. /\ Link!TypeOK /\ Link!SectionsApart /\ Link!OnlyReferencesChange
      /\ Link!SizesKept /\ Link!IInv /\ Link!LinkInv
  BY DEF Called, LinkKeeps, Link!IInv
<1>3. executable.sections = placed /\ Link!AllPlaced
  BY <1>2 DEF Link!LinkInv, Link!EntryFound
<1>4. Link!VerdictIsTrue /\ Link!ReferencesHold /\ Link!LinkedImageLoads
  BY <1>2, Link!VerdictFollows, Link!ReferencesFollow, Link!LoadsFollows,
     ByteBaseAssumption, LinkAssumed DEF LinkAssumptions
<1>5. ~Link!HasDuplicate
  BY <1>4 DEF Link!VerdictIsTrue
<1>6. QED
  BY <1>1, <1>2, <1>3, <1>4, <1>5 DEF Linked

(* Where a section of a file is.                                           *)
HomeOf(f, s) == placed[Link!PlaceOf(f, s)]

(* What the linker carries of a section that it was given to its home.    *)
CarriedTo(file, s, home, input) ==
  /\ home.address \in 0..RomSize
  /\ home.size = input.size /\ input.size \in Nat
  /\ home.data \in Seq(Byte) /\ Len(home.data) = input.size
  /\ input.data \in Seq(Byte) /\ Len(input.data) = input.size
  /\ Link!Bytes(home) \subseteq 0..(RomSize - 1)
  /\ \A k \in 1..input.size : home.data[k] # input.data[k] => Touched(file, s, k)

LEMMA HomeIs ==
  ASSUME Linked, NEW f \in 1..Len(files),
         NEW s \in 1..Len(files[f].object.sections)
  PROVE  CarriedTo(files[f], s, HomeOf(f, s), files[f].object.sections[s])
<1> DEFINE h == Link!PlaceOf(f, s)
           home == placed[h]
           input == files[f].object.sections[s]
<1>1. FileMade(files[f]) /\ f \in Link!ObjectIndices /\ Link!Objects[f] = files[f].object
      /\ s \in Link!SectionIndices(f)
      /\ Link!RelocationIndices(f) = RelocationsOf(files[f])
  BY SeenTables DEF Linked
<1>2. Link!HasPlace(f, s)
  BY <1>1 DEF Linked, Link!AllPlaced
<1>3. h \in 1..Len(placed) /\ placed[h].object = f /\ placed[h].source = s
  BY <1>2 DEF Link!HasPlace, Link!PlaceOf
<1> HIDE DEF h
<1>4. /\ home.address \in 0..RomSize /\ home.data \in Seq(Link!Byte)
  <2>1. placed \in Seq(Link!PlacedSection)
    BY DEF Linked, Link!TypeOK
  <2>2. placed[h] \in Link!PlacedSection
    BY <1>3, <2>1
  <2>3. QED
    BY <2>2 DEF Link!PlacedSection
<1>5. home.size = input.size
  BY <1>1, <1>3 DEF Linked, Link!SizesKept
<1>6. input.data \in Seq(Byte) /\ Len(input.data) = input.size /\ input.size \in Nat
  <2>1. Decoded(files[f].object)
    BY <1>1 DEF FileMade, ObjectFiles
  <2>2. input \in ObjectSection /\ Len(input.data) = input.size
    BY <2>1 DEF Decoded
  <2>3. QED
    BY <2>2 DEF ObjectSection
<1>7. Link!Bytes(home) \subseteq 0..(RomSize - 1)
  BY <1>3 DEF Linked, Link!SectionsApart
<1>a. /\ DOMAIN home.data = DOMAIN input.data
      /\ \A k \in DOMAIN input.data :
           home.data[k] # input.data[k] =>
             \E r \in {x \in Link!RelocationIndices(f) :
                        Link!Objects[f].relocations[x].section = s} :
               k - 1 - Link!Objects[f].relocations[r].offset
                 \in 0..(Link!FIELD_SIZE - 1)
  <2> DEFINE g == placed[h].object
             x == placed[h].source
  <2>1. /\ DOMAIN home.data = DOMAIN Link!Objects[g].sections[x].data
        /\ \A k \in DOMAIN Link!Objects[g].sections[x].data :
             home.data[k] # Link!Objects[g].sections[x].data[k] =>
               \E r \in {t \in Link!RelocationIndices(g) :
                          Link!Objects[g].relocations[t].section = x} :
                 k - 1 - Link!Objects[g].relocations[r].offset
                   \in 0..(Link!FIELD_SIZE - 1)
    BY <1>3, Zenon DEF Linked, Link!OnlyReferencesChange
  <2>2. g = f /\ x = s
    BY <1>3
  <2> HIDE DEF g, x
  <2>3. QED
    BY <1>1, <2>1, <2>2
<1>b. Link!FIELD_SIZE - 1 = 3
  BY DEF Link!FIELD_SIZE
<1>8. /\ DOMAIN home.data = DOMAIN input.data
      /\ \A k \in DOMAIN input.data :
           home.data[k] # input.data[k] => Touched(files[f], s, k)
  BY <1>1, <1>a, <1>b DEF Touched
<1>9. home.data \in Seq(Byte) /\ Len(home.data) = input.size
      /\ DOMAIN input.data = 1..input.size
  BY <1>4, <1>6, <1>8, SameBytes
<1>10. HomeOf(f, s) = home
  BY DEF HomeOf, h
<1> HIDE DEF home, input
<1>11. QED
  BY <1>4, <1>5, <1>6, <1>7, <1>8, <1>9, <1>10 DEF CarriedTo, input

(* The place of a line is in its section, and in the words.                *)
LEMMA LinePlaced ==
  ASSUME Linked, NEW f \in 1..Len(files), NEW i \in 1..Len(files[f].lines)
  PROVE  LET line == files[f].lines[i]
         IN  /\ line.section \in 1..Len(files[f].object.sections)
             /\ line.offset \in Nat /\ line.size \in Nat
             /\ line.offset + line.size <= files[f].object.sections[line.section].size
             /\ Home(<<f, i>>) = HomeOf(f, line.section)
             /\ FinalPlace(<<f, i>>) = HomeOf(f, line.section).address + line.offset
             /\ FinalPlace(<<f, i>>) \in Word
<1> DEFINE line == files[f].lines[i]
           s == line.section
           home == HomeOf(f, s)
<1>1. FileMade(files[f])
  BY SeenTables DEF Linked
<1>2. /\ s \in 1..Len(files[f].object.sections)
      /\ line.offset \in Nat /\ line.size \in Nat
      /\ line.offset + line.size <= files[f].object.sections[s].size
  BY <1>1 DEF FileMade, LinesApart
<1>3. LineOf(<<f, i>>) = line /\ <<f, i>>[1] = f
  BY LineAt
<1>4. Home(<<f, i>>) = home
  BY <1>3 DEF Home, HomeOf, Linked
<1>5. FinalPlace(<<f, i>>) = home.address + line.offset
  BY <1>3, <1>4 DEF FinalPlace
<1>6. /\ home.address \in 0..RomSize /\ home.size = files[f].object.sections[s].size
      /\ home.size \in Nat
      /\ Link!Bytes(home) \subseteq 0..(RomSize - 1)
  BY <1>2, HomeIs DEF CarriedTo
<1> HIDE DEF s, home, line
<1>7. home.address + line.offset \in 0..RomSize
  <2>1. RomSize \in Nat
    BY RomSizeType
  <2>2. home.size > 0 => home.address + home.size - 1 \in Link!Bytes(home)
    <3> DEFINE a == home.address
               n == home.size
    <3>1. a \in Nat /\ n \in Nat
      BY <1>6, <2>1
    <3>2. Link!Bytes(home) = a..(a + n - 1)
      BY DEF Link!Bytes
    <3> HIDE DEF a, n
    <3>3. n > 0 => a + n - 1 \in a..(a + n - 1)
      BY <3>1
    <3>4. QED
      BY <3>2, <3>3 DEF a, n
  <2>3. home.size > 0 => home.address + home.size - 1 <= RomSize - 1
    BY <1>6, <2>1, <2>2
  <2> DEFINE a == home.address
             n == home.size
             o == line.offset
             z == line.size
  <2>4. /\ a \in 0..RomSize /\ n \in Nat /\ o \in Nat /\ z \in Nat
        /\ o + z <= n
        /\ n > 0 => a + n - 1 <= RomSize - 1
    BY <1>2, <1>6, <2>3
  <2> HIDE DEF a, n, o, z
  <2>5. a + o \in 0..RomSize
    BY <2>1, <2>4
  <2>6. QED
    BY <2>5 DEF a, o
<1>8. RomSize \in Nat /\ RomSize <= WordBase - 1 /\ WordBase \in Nat
  BY RomSizeType, Bases DEF WORD_MAX
<1>9. home.address + line.offset \in Word
  BY <1>7, <1>8 DEF Word
<1>10. QED
  BY <1>2, <1>4, <1>5, <1>9 DEF s, home, line

LEMMA PartOf ==
  ASSUME NEW data \in Seq(Byte), NEW o \in Nat, NEW z \in Nat, o + z <= Len(data)
  PROVE  /\ SubSeq(data, o + 1, o + z) \in Seq(Byte)
         /\ Len(SubSeq(data, o + 1, o + z)) = z
         /\ \A k \in 1..z : SubSeq(data, o + 1, o + z)[k] = data[o + k]
<1> DEFINE m == o + 1
           n == o + z
<1>1. m \in Int /\ n \in Int /\ n - m + 1 = z /\ (m <= n \/ z = 0)
  OBVIOUS
<1>2. \A i \in m..n : data[i] \in Byte
  OBVIOUS
<1>3. \A k \in 1..z : m + k - 1 = o + k
  OBVIOUS
<1> HIDE DEF m, n
<1>4. /\ SubSeq(data, m, n) \in Seq(Byte)
      /\ Len(SubSeq(data, m, n)) = IF m <= n THEN n - m + 1 ELSE 0
      /\ \A k \in 1..(n - m + 1) : SubSeq(data, m, n)[k] = data[m + k - 1]
  BY <1>1, <1>2, SubSeqProperties
<1>5. Len(SubSeq(data, m, n)) = z
  BY <1>1, <1>4
<1>6. \A k \in 1..z : SubSeq(data, m, n)[k] = data[o + k]
  BY <1>1, <1>3, <1>4
<1>7. QED
  BY <1>4, <1>5, <1>6 DEF m, n

(* The bytes of a line in the executable are those of its object, but for  *)
(* the immediate of an instruction that uses a label from elsewhere.       *)
LineKept(file, i, data, old, new) ==
  LET line == file.lines[i]
  IN  /\ Len(new) = line.size /\ Len(old) = line.size
      /\ \A k \in 1..line.size : new[k] = data[line.offset + k]
      /\ \A k \in 1..line.size : (i \in FileRemote(file) => k <= 4) => new[k] = old[k]
      /\ i \notin FileRemote(file) => new = old

OldBytes(file, i) ==
  SubSeq(file.object.sections[file.lines[i].section].data,
         file.lines[i].offset + 1, file.lines[i].offset + file.lines[i].size)

LEMMA LineBytes ==
  ASSUME Linked, NEW f \in 1..Len(files), NEW i \in 1..Len(files[f].lines)
  PROVE  LineKept(files[f], i, HomeOf(f, files[f].lines[i].section).data,
                  OldBytes(files[f], i), FinalBytes(<<f, i>>))
<1> DEFINE line == files[f].lines[i]
           s == line.section
           data == HomeOf(f, s).data
           input == files[f].object.sections[s].data
           o == line.offset
           z == line.size
           old == SubSeq(input, o + 1, o + z)
           new == SubSeq(data, o + 1, o + z)
<1>1. /\ s \in 1..Len(files[f].object.sections)
      /\ o \in Nat /\ z \in Nat /\ o + z <= files[f].object.sections[s].size
      /\ Home(<<f, i>>) = HomeOf(f, s)
  BY LinePlaced
<1>2. FileMade(files[f]) /\ LineOf(<<f, i>>) = line
  BY SeenTables, LineAt DEF Linked
<1>3. /\ data \in Seq(Byte) /\ Len(data) = files[f].object.sections[s].size
      /\ input \in Seq(Byte) /\ Len(input) = files[f].object.sections[s].size
      /\ files[f].object.sections[s].size \in Nat
      /\ \A k \in 1..files[f].object.sections[s].size :
           data[k] # input[k] => Touched(files[f], s, k)
  <2>1. CarriedTo(files[f], s, HomeOf(f, s), files[f].object.sections[s])
    BY <1>1, HomeIs
  <2>2. QED
    BY <2>1 DEF CarriedTo
<1>4. FinalBytes(<<f, i>>) = new
  BY <1>1, <1>2 DEF FinalBytes
<1>5. ASSUME NEW k \in 1..z, i \in FileRemote(files[f]) => k <= 4
      PROVE  data[o + k] = input[o + k]
  <2>1. o + k \in 1..files[f].object.sections[s].size /\ o + k \in (o + 1)..(o + z)
    <3> HIDE DEF o, z, s
    <3>1. QED
      BY <1>1, <1>3
  <2>2. i \in FileRemote(files[f]) => o + k <= o + 4
    <3> HIDE DEF o, z
    <3>1. QED
      BY <1>1, <1>5
  <2>3. ~Touched(files[f], s, o + k)
    BY <1>2, <2>1, <2>2, LinesUntouched
  <2> HIDE DEF o, z, s, data, input
  <2>4. QED
    BY <1>3, <2>1, <2>3
<1> DEFINE n == files[f].object.sections[s].size
<1>6. Len(data) = n /\ Len(input) = n /\ n \in Nat /\ o + z <= n
  BY <1>1, <1>3
<1> HIDE DEF line, s, data, input, o, z, n
<1>7. /\ new \in Seq(Byte) /\ old \in Seq(Byte)
      /\ Len(new) = z /\ Len(old) = z
      /\ \A k \in 1..z : new[k] = data[o + k] /\ old[k] = input[o + k]
  <2>1. /\ data \in Seq(Byte) /\ input \in Seq(Byte) /\ o \in Nat /\ z \in Nat
        /\ o + z <= Len(data) /\ o + z <= Len(input)
    BY <1>1, <1>3, <1>6
  <2>2. /\ SubSeq(data, o + 1, o + z) \in Seq(Byte)
        /\ Len(SubSeq(data, o + 1, o + z)) = z
        /\ \A k \in 1..z : SubSeq(data, o + 1, o + z)[k] = data[o + k]
    BY <2>1, PartOf
  <2>3. /\ SubSeq(input, o + 1, o + z) \in Seq(Byte)
        /\ Len(SubSeq(input, o + 1, o + z)) = z
        /\ \A k \in 1..z : SubSeq(input, o + 1, o + z)[k] = input[o + k]
    BY <2>1, PartOf
  <2>4. QED
    BY <2>2, <2>3
<1>8. \A k \in 1..z : (i \in FileRemote(files[f]) => k <= 4) => new[k] = old[k]
  BY <1>5, <1>7
<1>9. i \notin FileRemote(files[f]) => new = old
  BY <1>7, <1>8, SeqEqual
<1>10. OldBytes(files[f], i) = old
  BY DEF OldBytes, line, s, input, o, z
<1> HIDE DEF old, new
<1>11. LineKept(files[f], i, data, old, new)
  BY <1>7, <1>8, <1>9, Zenon DEF LineKept, line, o, z
<1>12. QED
  BY <1>4, <1>10, <1>11, Zenon DEF line, s, data

(* The bytes of a line in its object.                                      *)
LEMMA OldIsPart ==
  ASSUME NEW file, FileMade(file), NEW i \in 1..Len(file.lines),
         ~HasLocal(file.lines, file.lines[i])
  PROVE  BytesOf(OldBytes(file, i), file.lines[i], 0)
<1>1. HasPart(file.lines, Payloads(file), i)
  BY DEF FileMade
<1>2. file.lines[i].section \in 1..Len(file.object.sections)
  BY DEF FileMade, LinesApart
<1>3. Payloads(file)[file.lines[i].section] =
        file.object.sections[file.lines[i].section].data
  BY <1>2 DEF Payloads
<1>4. IsPart(file.lines, OldBytes(file, i), file.lines[i])
  BY <1>1, <1>3 DEF HasPart, OldBytes
<1>5. QED
  BY <1>4 DEF IsPart

LEMMA PlainLine ==
  ASSUME Linked, NEW f \in 1..Len(files), NEW i \in 1..Len(files[f].lines),
         ~UsesLabel(files[f].lines[i])
  PROVE  BytesOf(FinalBytes(<<f, i>>), files[f].lines[i], 0)
<1>1. FileMade(files[f])
  BY SeenTables DEF Linked
<1>2. BytesOf(OldBytes(files[f], i), files[f].lines[i], 0)
  BY <1>1, OldIsPart DEF HasLocal
<1>3. i \notin FileRemote(files[f])
  BY DEF FileRemote, RemoteBefore, IsRemoteIn
<1>4. FinalBytes(<<f, i>>) = OldBytes(files[f], i)
  BY <1>3, LineBytes DEF LineKept
<1>5. QED
  BY <1>2, <1>4

(* The immediate of a line that uses a label from elsewhere is the field   *)
(* of its relocation.                                                      *)
LEMMA RemoteBytes ==
  ASSUME Linked, NEW f \in 1..Len(files), NEW i \in FileRemote(files[f])
  PROVE  BytesOf(FinalBytes(<<f, i>>), files[f].lines[i],
                 Link!FieldOf(HomeOf(f, files[f].lines[i].section),
                              files[f].lines[i].offset + 4))
<1> DEFINE line == files[f].lines[i]
           home == HomeOf(f, line.section)
           new == FinalBytes(<<f, i>>)
           old == OldBytes(files[f], i)
           target == Link!FieldOf(home, line.offset + 4)
<1>1. FileMade(files[f])
  BY SeenTables DEF Linked
<1>2. /\ i \in 1..Len(files[f].lines) /\ line.size = 8 /\ UsesLabel(line)
      /\ LocalIn(files[f].lines, line) = {} /\ line.offset \in Nat
  BY <1>1, RemoteLine
<1>3. BytesOf(old, line, 0)
  BY <1>1, <1>2, OldIsPart DEF HasLocal
<1>4. LineKept(files[f], i, home.data, old, new)
  BY <1>2, LineBytes
<1>5. /\ Len(new) = 8
      /\ \A k \in 1..8 : new[k] = home.data[line.offset + k]
      /\ \A k \in 1..4 : new[k] = old[k]
  <2> DEFINE data == home.data
             o == line.offset
  <2> HIDE DEF new, old, data, o
  <2>1. /\ Len(new) = line.size
        /\ \A k \in 1..line.size : new[k] = data[o + k]
        /\ \A k \in 1..line.size : (i \in FileRemote(files[f]) => k <= 4) => new[k] = old[k]
    BY <1>4, Zenon DEF LineKept, data, o
  <2>2. \A k \in 1..4 : k \in 1..8 /\ k <= 4
    OBVIOUS
  <2>3. \A k \in 1..8 : k <= 4 => new[k] = old[k]
    BY <1>2, <2>1
  <2>4. \A k \in 1..4 : new[k] = old[k]
    BY <2>2, <2>3
  <2>5. Len(new) = 8 /\ \A k \in 1..8 : new[k] = data[o + k]
    BY <1>2, <2>1
  <2>6. QED
    BY <2>4, <2>5 DEF data, o
<1> HIDE DEF new, old
<1>6. DecodesTo(old, line.statement, 0)
  <2>1. line.statement # NoToken
    BY <1>2 DEF UsesLabel
  <2> HIDE DEF line
  <2>2. QED
    BY <1>3, <2>1 DEF BytesOf
<1>7. /\ new[1] = old[1] /\ new[2] = old[2] /\ new[3] = old[3] /\ new[4] = old[4]
      /\ new[5] = home.data[line.offset + 5] /\ new[6] = home.data[line.offset + 6]
      /\ new[7] = home.data[line.offset + 7] /\ new[8] = home.data[line.offset + 8]
  <2> DEFINE data == home.data
             o == line.offset
  <2>1. /\ \A k \in 1..8 : new[k] = data[o + k]
        /\ \A k \in 1..4 : new[k] = old[k]
    BY <1>5
  <2> HIDE DEF data, o
  <2>2. /\ new[1] = old[1] /\ new[2] = old[2] /\ new[3] = old[3] /\ new[4] = old[4]
        /\ new[5] = data[o + 5] /\ new[6] = data[o + 6]
        /\ new[7] = data[o + 7] /\ new[8] = data[o + 8]
    BY <2>1
  <2>3. QED
    BY <2>2 DEF data, o
<1>8. ImmediateIn(new) = target
  <2>1. /\ \A a, b : Link!JoinHword(a, b) = JoinHword(a, b)
        /\ \A a, b : Link!JoinWord(a, b) = JoinWord(a, b)
    BY SameWords DEF Link!JoinHword, JoinHword, Link!JoinWord, JoinWord
  <2> DEFINE o == line.offset
             data == home.data
  <2>2. /\ o + 4 + 1 = o + 5 /\ o + 4 + 2 = o + 6
        /\ o + 4 + 3 = o + 7 /\ o + 4 + 4 = o + 8
    <3>1. o \in Nat
      BY <1>2
    <3> HIDE DEF o
    <3>2. QED
      BY <3>1
  <2>3. target = Link!JoinWord(Link!JoinHword(data[o + 4 + 1], data[o + 4 + 2]),
                               Link!JoinHword(data[o + 4 + 3], data[o + 4 + 4]))
    BY DEF Link!FieldOf
  <2>4. new[5] = data[o + 5] /\ new[6] = data[o + 6] /\ new[7] = data[o + 7]
        /\ new[8] = data[o + 8]
    BY <1>7
  <2> HIDE DEF o, data, target
  <2>5. target = JoinWord(JoinHword(new[5], new[6]), JoinHword(new[7], new[8]))
    BY <2>1, <2>2, <2>3, <2>4, Zenon
  <2>6. QED
    BY <2>5 DEF ImmediateIn
<1> HIDE DEF target, home
<1>9. IsImmediate(target, line.statement.imm, target)
  BY <1>2 DEF IsImmediate, UsesLabel, IsUse
<1>10. \A j \in {1, 2} : new[j + 2] = old[j + 2]
  BY <1>7
<1>11. DecodesTo(new, line.statement, target)
  BY <1>5, <1>6, <1>7, <1>8, <1>9, <1>10 DEF DecodesTo, INSTRUCTION_SIZE
<1>12. BytesOf(new, line, target)
  BY <1>2, <1>11 DEF BytesOf, UsesLabel
<1>13. QED
  BY <1>12 DEF new, target, home

(* What a label means is one line, if the linker found no duplicate.       *)
LEMMA OneMeaning ==
  ASSUME Seen, ~Link!HasDuplicate, NEW f \in 1..Len(files), NEW name, name # NoName,
         NEW p \in MeaningOf(f, name), NEW q \in MeaningOf(f, name)
  PROVE  p = q
<1>1. FilesMade(files)
  BY DEF Seen
<1>2. CASE \E i \in 1..Len(files[f].lines) : files[f].lines[i].label = name
  <2>1. PICK i \in 1..Len(files[f].lines) : files[f].lines[i].label = name
    BY <1>2
  <2>2. MeaningOf(f, name) = {<<f, i>>}
    BY <1>1, <2>1, OwnMeaning
  <2>3. QED
    BY <2>2
<1>3. CASE ~ \E i \in 1..Len(files[f].lines) : files[f].lines[i].label = name
  <2>1. p \in PublicLines(name) /\ q \in PublicLines(name)
    BY <1>3, OutsideMeaning
  <2>2. PICK g \in 1..Len(files) : \E j \in 1..Len(files[g].lines) :
          p = <<g, j>> /\ files[g].lines[j].label = name
    BY <1>1, <2>1, PublicLineIs
  <2>3. PICK j \in 1..Len(files[g].lines) : p = <<g, j>> /\ files[g].lines[j].label = name
    BY <2>2
  <2>4. PICK h \in 1..Len(files) : \E k \in 1..Len(files[h].lines) :
          q = <<h, k>> /\ files[h].lines[k].label = name
    BY <1>1, <2>1, PublicLineIs
  <2>5. PICK k \in 1..Len(files[h].lines) : q = <<h, k>> /\ files[h].lines[k].label = name
    BY <2>4
  <2>6. PICK t \in 1..Len(files[g].object.symbols) : Stands(<<g, t>>, p)
    BY <2>3, LineStands
  <2>7. PICK u \in 1..Len(files[h].object.symbols) : Stands(<<h, u>>, q)
    BY <2>5, LineStands
  <2>8. LineOf(p).label = name /\ LineOf(q).label = name
    BY <2>3, <2>5, LineAt
  <2>9. /\ <<g, t>>[1] = g /\ <<g, t>>[2] = t /\ <<h, u>>[1] = h /\ <<h, u>>[2] = u
    OBVIOUS
  <2>10. /\ Link!DefinesGlobal(Link!Definition(g, t)) /\ Link!Definition(g, t).name = name
         /\ Link!DefinesGlobal(Link!Definition(h, u)) /\ Link!Definition(h, u).name = name
    BY <2>1, <2>6, <2>7, <2>8, <2>9, StandsFor
  <2>11. /\ g \in Link!ObjectIndices /\ t \in Link!SymbolIndices(g)
         /\ h \in Link!ObjectIndices /\ u \in Link!SymbolIndices(h)
    BY SeenTables
  <2>12. <<g, t>> = <<h, u>>
    BY <2>10, <2>11 DEF Link!HasDuplicate
  <2>13. UniqueLabels(files[g].lines) /\ g = h
    BY <1>1, <2>12 DEF FilesMade, FileMade
  <2>14. QED
    BY <2>3, <2>5, <2>13 DEF UniqueLabels
<1>4. QED
  BY <1>2, <1>3

(* A label ends up at the place of its line.                               *)
LEMMA StandsAddress ==
  ASSUME Linked, NEW d, NEW q, Stands(d, q)
  PROVE  Link!FinalAddress(d) = FinalPlace(q) /\ FinalPlace(q) \in Word
<1>1. /\ q \in ProgramLines /\ d[1] = q[1]
      /\ Link!Definition(d[1], d[2]).section = LineOf(q).section
      /\ Link!Definition(d[1], d[2]).value = LineOf(q).offset
  BY StandsFor DEF Linked
<1>2. Link!FinalAddress(d) = FinalPlace(q)
  BY <1>1 DEF Link!FinalAddress, FinalPlace, Home, Linked
<1>3. \E f \in 1..Len(files) : \E i \in 1..Len(files[f].lines) : q = <<f, i>>
  BY <1>1, ProgramLine
<1>4. FinalPlace(q) \in Word
  BY <1>3, LinePlaced
<1>5. QED
  BY <1>2, <1>4

(* No relocation of a file is overwritten by a later one.                  *)
LEMMA NotOverwritten ==
  ASSUME Seen, NEW f \in 1..Len(files), NEW r \in RelocationsOf(files[f])
  PROVE  ~Link!Overwritten(f, r)
<1>1. FileMade(files[f]) /\ Link!Objects[f] = files[f].object
  BY SeenTables
<1>2. Len(files[f].object.relocations) \in Nat
  BY <1>1, FileLists
<1>3. (1 - Link!FIELD_SIZE)..(Link!FIELD_SIZE - 1) = (-3)..3
  BY DEF Link!FIELD_SIZE
<1> DEFINE rels == files[f].object.relocations
<1>4. ASSUME NEW t \in (r + 1)..Len(rels), rels[r].section = rels[t].section
      PROVE  rels[r].offset - rels[t].offset \notin (-3)..3
  <2>1. t \in RelocationsOf(files[f]) /\ r # t
    BY <1>2 DEF RelocationsOf
  <2>2. QED
    BY <1>1, <1>4, <2>1, FieldsDiffer
<1>5. Link!Objects[f].relocations = rels
  BY <1>1
<1> HIDE DEF rels
<1>6. QED
  BY <1>3, <1>4, <1>5 DEF Link!Overwritten

(* The field of such a line holds the final address of what it uses.       *)
LEMMA RemoteTarget ==
  ASSUME Linked, NEW f \in 1..Len(files), NEW i \in FileRemote(files[f])
  PROVE  \E q \in ProgramLines :
           /\ MeaningOf(f, UsedLabel(files[f].lines[i])) = {q}
           /\ Link!FieldOf(HomeOf(f, files[f].lines[i].section),
                           files[f].lines[i].offset + 4) = FinalPlace(q)
<1> DEFINE line == files[f].lines[i]
           name == UsedLabel(line)
<1>1. FileMade(files[f]) /\ f \in Link!ObjectIndices /\ Link!Objects[f] = files[f].object
      /\ Link!RelocationIndices(f) = RelocationsOf(files[f]) /\ Seen
  BY SeenTables DEF Linked
<1>2. name # NoName
  BY <1>1, RemoteLine
<1>3. PICK r \in RelocationsOf(files[f]) : RelocatesLine(files[f], r, i)
  BY <1>1, LineHasRelocation
<1> DEFINE relocation == files[f].object.relocations[r]
           x == relocation.symbol
<1>4. /\ relocation.section = line.section /\ relocation.offset = line.offset + 4
      /\ ~relocation.pcRelative /\ relocation.addend = 0
      /\ x \in 1..Len(files[f].object.symbols)
      /\ files[f].object.symbols[x].name = name
  <2>1. relocation.section = line.section /\ relocation.offset = line.offset + 4
    BY <1>3, RelocationIsAt
  <2>2. ~relocation.pcRelative
    BY <1>3, RelocationIsAt
  <2>3. relocation.addend = 0
    BY <1>3, RelocationIsAt
  <2>4. x \in 1..Len(files[f].object.symbols)
    BY <1>3, RelocationIsAt
  <2>5. files[f].object.symbols[x].name = name
    BY <1>3, RelocationIsAt
  <2>6. QED
    BY <2>1, <2>2, <2>3, <2>4, <2>5
<1>5. ~Link!Overwritten(f, r)
  BY <1>1, NotOverwritten
<1>6. /\ Link!Meanings(f, x) # {}
      /\ \A d \in Link!Meanings(f, x) :
           Link!FieldOf(executable.sections[Link!PlaceOf(f, relocation.section)],
                        relocation.offset)
             = Link!ToWord(Link!FinalAddress(d) + relocation.addend
                             - (IF relocation.pcRelative
                                  THEN executable.sections[Link!PlaceOf(f, relocation.section)].address
                                         + relocation.offset ELSE 0))
  <2>1. Link!ReferencesHold /\ executable # NoImage
    BY DEF Linked
  <2>2. r \in Link!RelocationIndices(f) /\ Link!Objects[f].relocations[r] = relocation
    BY <1>1
  <2> HIDE DEF relocation
  <2>3. QED
    BY <1>1, <1>5, <2>1, <2>2, Zenon DEF Link!ReferencesHold, x
<1>7. PICK d \in Link!Meanings(f, x) : TRUE
  BY <1>6
<1>8. PICK q \in MeaningOf(f, name) : Stands(d, q)
  BY <1>1, <1>2, <1>4, ReferenceMeans
<1>9. MeaningOf(f, name) = {q}
  BY <1>1, <1>2, OneMeaning DEF Linked
<1>10. /\ q \in ProgramLines /\ Link!FinalAddress(d) = FinalPlace(q)
       /\ FinalPlace(q) \in Word
  BY <1>1, <1>8, StandsAddress, StandsFor
<1>11. executable.sections[Link!PlaceOf(f, relocation.section)] = HomeOf(f, line.section)
  BY <1>4 DEF Linked, HomeOf
<1>12. Link!FieldOf(HomeOf(f, line.section), line.offset + 4) =
         Link!ToWord(FinalPlace(q) + 0 - 0)
  <2>1. Link!FieldOf(executable.sections[Link!PlaceOf(f, relocation.section)],
                     relocation.offset)
          = Link!ToWord(Link!FinalAddress(d) + relocation.addend - 0)
    BY <1>4, <1>6
  <2>2. /\ relocation.addend = 0 /\ relocation.offset = line.offset + 4
        /\ Link!FinalAddress(d) = FinalPlace(q)
    BY <1>4, <1>10
  <2> HIDE DEF relocation, line
  <2>3. QED
    BY <1>11, <2>1, <2>2, Zenon
<1>13. Link!ToWord(FinalPlace(q) + 0 - 0) = FinalPlace(q)
  <2>1. Link!WordBase = WordBase
    BY SameWords
  <2>2. FinalPlace(q) \in Nat /\ FinalPlace(q) < WordBase /\ WordBase \in Nat
    BY <1>10, Bases DEF Word
  <2>3. QED
    BY <2>1, <2>2 DEF Link!ToWord
<1>14. QED
  BY <1>9, <1>10, <1>12, <1>13

LEMMA ProgramFollows ==
  ASSUME Linked
  PROVE  ProgramMeansSource
<1> SUFFICES ASSUME NEW p \in ProgramLines
             PROVE  IF ~UsesLabel(LineOf(p)) THEN BytesOf(FinalBytes(p), LineOf(p), 0)
                    ELSE \E q \in ProgramLines :
                           /\ MeaningOf(p[1], UsedLabel(LineOf(p))) = {q}
                           /\ \/ SharesSection(p, q)
                              \/ BytesOf(FinalBytes(p), LineOf(p), FinalPlace(q))
  BY DEF ProgramMeansSource
<1>1. PICK f \in 1..Len(files) : \E i \in 1..Len(files[f].lines) : p = <<f, i>>
  BY ProgramLine
<1>2. PICK i \in 1..Len(files[f].lines) : p = <<f, i>>
  BY <1>1
<1> DEFINE line == files[f].lines[i]
<1>3. LineOf(p) = line /\ p[1] = f
  BY <1>2, LineAt
<1>4. FilesMade(files) /\ FileMade(files[f])
  BY DEF Linked, Seen, FilesMade
<1>5. CASE ~UsesLabel(line)
  BY <1>2, <1>3, <1>5, PlainLine
<1>6. CASE UsesLabel(line) /\ LocalIn(files[f].lines, line) # {}
  <2>1. LineMade(line)
    BY <1>4 DEF FileMade
  <2>2. UsedLabel(line) # NoName
    BY <1>6, <2>1, UsedIsName
  <2>3. PICK j \in 1..Len(files[f].lines) :
          files[f].lines[j].label = UsedLabel(line) /\ files[f].lines[j].section = line.section
    BY <1>6 DEF LocalIn
  <2>4. MeaningOf(f, UsedLabel(line)) = {<<f, j>>}
    BY <1>4, <2>2, <2>3, OwnMeaning
  <2>5. <<f, j>> \in ProgramLines /\ SharesSection(p, <<f, j>>)
    BY <1>3, <2>3, LineAt DEF SharesSection
  <2>6. QED
    BY <1>3, <1>6, <2>4, <2>5
<1>7. CASE UsesLabel(line) /\ LocalIn(files[f].lines, line) = {}
  <2>1. i \in FileRemote(files[f])
    <3>1. Len(files[f].lines) + 1 - 1 = Len(files[f].lines)
      BY <1>4, FileLists
    <3>2. QED
      BY <1>7, <3>1 DEF FileRemote, RemoteBefore, IsRemoteIn
  <2>2. PICK q \in ProgramLines :
          /\ MeaningOf(f, UsedLabel(line)) = {q}
          /\ Link!FieldOf(HomeOf(f, line.section), line.offset + 4) = FinalPlace(q)
    BY <2>1, RemoteTarget
  <2>3. BytesOf(FinalBytes(p), line, FinalPlace(q))
    BY <1>2, <2>1, <2>2, RemoteBytes
  <2>4. QED
    BY <1>3, <1>7, <2>2, <2>3
<1>8. QED
  BY <1>5, <1>6, <1>7

LEMMA EntryFollows ==
  ASSUME Linked
  PROVE  StartsAtLabel
<1>1. PICK o \in Link!ObjectIndices : \E s \in Link!SymbolIndices(o) :
        /\ Link!Definition(o, s).section # 0
        /\ Link!Definition(o, s).name = Link!SelectedEntry
        /\ executable.entry = Link!ToWord(Link!FinalAddress(<<o, s>>))
  BY DEF Linked, Link!LinkedImageLoads
<1>2. PICK s \in Link!SymbolIndices(o) :
        /\ Link!Definition(o, s).section # 0
        /\ Link!Definition(o, s).name = Link!SelectedEntry
        /\ executable.entry = Link!ToWord(Link!FinalAddress(<<o, s>>))
  BY <1>1
<1>3. Seen /\ o \in 1..Len(files)
  BY DEF Linked, Seen
<1>4. s \in 1..Len(files[o].object.symbols) /\ files[o].object.symbols[s].section # 0
  BY <1>2, <1>3, SeenTables
<1>5. PICK q : Stands(<<o, s>>, q)
  BY <1>3, <1>4, DefinitionStands
<1>6. <<o, s>>[1] = o /\ <<o, s>>[2] = s
  OBVIOUS
<1>7. q \in ProgramLines /\ LineOf(q).label = Link!SelectedEntry
  BY <1>2, <1>3, <1>5, <1>6, StandsFor
<1>8. Link!FinalAddress(<<o, s>>) = FinalPlace(q) /\ FinalPlace(q) \in Word
  BY <1>5, StandsAddress
<1>9. Link!ToWord(FinalPlace(q)) = FinalPlace(q)
  <2>1. Link!WordBase = WordBase
    BY SameWords
  <2>2. FinalPlace(q) \in Nat /\ FinalPlace(q) < WordBase /\ WordBase \in Nat
    BY <1>8, Bases DEF Word
  <2>3. QED
    BY <2>1, <2>2 DEF Link!ToWord
<1>10. QED
  BY <1>2, <1>7, <1>8, <1>9 DEF StartsAtLabel, LinesOf

(* A link refused for a symbol: the source says so.                        *)
LEMMA UnresolvedFollows ==
  ASSUME Seen, Link!HasUnresolved
  PROVE  \E p \in ProgramLines : /\ UsesLabel(LineOf(p))
                                 /\ MeaningOf(p[1], UsedLabel(LineOf(p))) = {}
<1>1. PICK f \in Link!ObjectIndices : \E r \in Link!RelocationIndices(f) :
        Link!Meanings(f, Link!Objects[f].relocations[r].symbol) = {}
  BY DEF Link!HasUnresolved
<1>2. PICK r \in Link!RelocationIndices(f) :
        Link!Meanings(f, Link!Objects[f].relocations[r].symbol) = {}
  BY <1>1
<1>3. f \in 1..Len(files)
  BY DEF Seen
<1>4. /\ FileMade(files[f]) /\ r \in RelocationsOf(files[f])
      /\ Link!Objects[f] = files[f].object
  BY <1>3, SeenTables
<1>5. PICK i \in FileRemote(files[f]) : RelocatesLine(files[f], r, i)
  BY <1>4, RelocationHasLine
<1> DEFINE x == files[f].object.relocations[r].symbol
           name == UsedLabel(files[f].lines[i])
<1>6. x \in 1..Len(files[f].object.symbols) /\ files[f].object.symbols[x].name = name
  BY <1>5, RelocationIsAt
<1>7. name # NoName /\ i \in 1..Len(files[f].lines) /\ UsesLabel(files[f].lines[i])
  <2>1. FileMade(files[f])
    BY <1>4
  <2> DEFINE file == files[f]
  <2> HIDE DEF file
  <2>2. FileMade(file) /\ i \in FileRemote(file)
    BY <1>5, <2>1 DEF file
  <2>3. UsedLabel(file.lines[i]) # NoName /\ i \in 1..Len(file.lines)
        /\ UsesLabel(file.lines[i])
    BY <2>2, RemoteLine
  <2>4. QED
    BY <2>3 DEF file
<1>8. Link!Meanings(f, x) = {}
  BY <1>2, <1>4
<1> HIDE DEF x
<1>9. MeaningOf(f, name) = {}
  BY <1>3, <1>6, <1>7, <1>8, ReferenceMeans
<1>10. /\ <<f, i>> \in ProgramLines /\ LineOf(<<f, i>>) = files[f].lines[i]
       /\ <<f, i>>[1] = f
  BY <1>3, <1>7, LineAt
<1>11. QED
  BY <1>7, <1>9, <1>10

LEMMA DuplicateFollows ==
  ASSUME Seen, Link!HasDuplicate
  PROVE  \E p, q \in ProgramLines :
           /\ p # q
           /\ LineOf(p).label = LineOf(q).label
           /\ p \in PublicLines(LineOf(q).label)
           /\ q \in PublicLines(LineOf(q).label)
<1>1. PICK o \in Link!ObjectIndices, h \in Link!ObjectIndices :
        \E s \in Link!SymbolIndices(o), t \in Link!SymbolIndices(h) :
          /\ <<o, s>> # <<h, t>>
          /\ Link!DefinesGlobal(Link!Definition(o, s))
          /\ Link!DefinesGlobal(Link!Definition(h, t))
          /\ Link!Definition(o, s).name = Link!Definition(h, t).name
  BY DEF Link!HasDuplicate
<1>2. PICK s \in Link!SymbolIndices(o), t \in Link!SymbolIndices(h) :
        /\ <<o, s>> # <<h, t>>
        /\ Link!DefinesGlobal(Link!Definition(o, s))
        /\ Link!DefinesGlobal(Link!Definition(h, t))
        /\ Link!Definition(o, s).name = Link!Definition(h, t).name
  BY <1>1
<1>3. o \in 1..Len(files) /\ h \in 1..Len(files)
  BY DEF Seen
<1>4. /\ FileMade(files[o]) /\ s \in 1..Len(files[o].object.symbols)
      /\ t \in 1..Len(files[h].object.symbols)
      /\ Link!Definition(o, s) = files[o].object.symbols[s]
      /\ Link!Definition(h, t) = files[h].object.symbols[t]
  BY <1>3, SeenTables
<1>5. files[o].object.symbols[s].section # 0 /\ files[h].object.symbols[t].section # 0
  BY <1>2, <1>4 DEF Link!DefinesGlobal
<1>6. PICK p : Stands(<<o, s>>, p)
  BY <1>3, <1>4, <1>5, DefinitionStands
<1>7. PICK q : Stands(<<h, t>>, q)
  BY <1>3, <1>4, <1>5, DefinitionStands
<1>8. <<o, s>>[1] = o /\ <<o, s>>[2] = s /\ <<h, t>>[1] = h /\ <<h, t>>[2] = t
  OBVIOUS
<1>9. /\ p \in ProgramLines /\ q \in ProgramLines /\ p[1] = o /\ q[1] = h
      /\ LineOf(p).label = LineOf(q).label
      /\ p \in PublicLines(LineOf(p).label) /\ q \in PublicLines(LineOf(q).label)
  BY <1>2, <1>6, <1>7, <1>8, StandsFor
<1>10. p # q
  <2>1. SUFFICES ASSUME p = q PROVE FALSE
    OBVIOUS
  <2>2. o = h
    BY <1>9, <2>1
  <2>3. files[o].object.symbols[s].name = files[o].object.symbols[t].name
    BY <1>2, <1>4, <2>2
  <2>4. s = t
    BY <1>4, <2>2, <2>3, SymbolsDiffer
  <2>5. QED
    BY <1>2, <2>2, <2>4
<1>11. QED
  BY <1>9, <1>10

LEMMA BuildMeans ==
  ASSUME BuildInv
  PROVE  ExecutableIsProgram /\ RefusedForSource
<1>1. CASE linkStage = "waiting"
  <2>1. executable = NoImage /\ linkError = "NONE"
    BY <1>1 DEF BuildInv, Waiting
  <2>2. QED
    BY <2>1 DEF ExecutableIsProgram, ProgramMeansSource, StartsAtLabel, RefusedForSource
<1>2. CASE linkStage # "waiting"
  <2>1. FilesMade(files) /\ Called
    BY <1>2 DEF BuildInv
  <2>2. executable = NoImage => ExecutableIsProgram
    BY DEF ExecutableIsProgram, ProgramMeansSource, StartsAtLabel
  <2>3. executable # NoImage => Linked
    BY <2>1, CalledIsLinked
  <2>4. ExecutableIsProgram
    BY <2>2, <2>3, ProgramFollows, EntryFollows DEF ExecutableIsProgram
  <2>5. Seen
    BY <2>1, CalledSees, Zenon
  <2>6. Link!VerdictIsTrue
    BY <2>1, Link!VerdictFollows, ByteBaseAssumption, LinkAssumed
       DEF Called, LinkKeeps, LinkAssumptions
  <2>7. RefusedForSource
    BY <2>5, <2>6, UnresolvedFollows, DuplicateFollows
       DEF Link!VerdictIsTrue, RefusedForSource
  <2>8. QED
    BY <2>4, <2>7
<1>3. QED
  BY <1>1, <1>2

(* Whatever files are built, and wherever .align, .locate and the linker   *)
(* put their sections, the executable has the bytes of every line at its   *)
(* place, and an instruction that uses a label of another section or file  *)
(* holds the final address of the one line that has it; it starts at the   *)
(* label that was asked for.                                               *)
(* Code: assemble_source and zl_link_objects, from zlasm to zllink.        *)
THEOREM ExecutableIsProgramAlways ==
  ASSUME NamesSuffice
  PROVE  BuildSpec => []ExecutableIsProgram
<1>1. BuildInit => BuildInv
  BY BuildBegins
<1>2. BuildInv /\ [BuildNext]_buildVars => BuildInv'
  BY BuildGoesOn
<1>3. BuildInv => ExecutableIsProgram
  BY BuildMeans
<1>4. QED
  BY <1>1, <1>2, <1>3, PTL DEF BuildSpec

(* The link of objects of the assembler is refused for a symbol only if    *)
(* the files themselves use a label that none exports, or export one twice.*)
(* Code: the error paths of zl_link_objects, on objects of the assembler.  *)
THEOREM RefusedForSourceAlways ==
  ASSUME NamesSuffice
  PROVE  BuildSpec => []RefusedForSource
<1>1. BuildInit => BuildInv
  BY BuildBegins
<1>2. BuildInv /\ [BuildNext]_buildVars => BuildInv'
  BY BuildGoesOn
<1>3. BuildInv => RefusedForSource
  BY BuildMeans
<1>4. QED
  BY <1>1, <1>2, <1>3, PTL DEF BuildSpec
=============================================================================
