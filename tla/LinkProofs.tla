----------------------------- MODULE LinkProofs -----------------------------
(***************************************************************************)
(* The linker keeps its sections apart and changes only the fields it is   *)
(* asked to, whatever objects it is given.                                 *)
(***************************************************************************)
EXTENDS LinkProperties, WordProofs, SequenceTheorems

HasPlace(o, s) ==
  \E i \in 1..Len(placed) : placed[i].object = o /\ placed[i].source = s

(* Once the call has got past the decoder, every object is acceptable.     *)
Accepted ==
  stage \notin {"call", "done"} => \A o \in ObjectIndices : Acceptable(Objects[o])

(* How far the placement loop has come.                                    *)
Reached(o, s) ==
  \/ stage \in {"collect", "relocate", "entry", "encode"}
  \/ stage = "place" /\ (o < object \/ (o = object /\ s < source))

AllReachedPlaced ==
  \A o \in ObjectIndices : \A s \in SectionIndices(o) :
    Reached(o, s) => HasPlace(o, s)

Counters == stage = "call" => object = 1 /\ source = 1

(* The inductive invariant: sections that the loops have passed are placed,*)
(* so that find_section finds them.                                        *)
IInv ==
  /\ TypeOK
  /\ Accepted
  /\ Counters
  /\ AllReachedPlaced
  /\ SectionsApart
  /\ OnlyReferencesChange

-----------------------------------------------------------------------------
(* What the decoder guarantees of an object of the request.                *)
LEMMA ObjectType ==
  ASSUME TypeOK, Accepted, stage \notin {"call", "done"},
         NEW o \in ObjectIndices
  PROVE  Decoded(Objects[o])
BY LinkerAssumption DEF TypeOK, Accepted, Acceptable, Objects, ObjectIndices

(* The number of objects is a number.                                      *)
LEMMA ObjectCount ==
  ASSUME TypeOK
  PROVE  Len(Objects) \in Nat \ {0}
BY LinkerAssumption DEF TypeOK, Objects

(* find_section finds a section that is placed.                            *)
LEMMA Found ==
  ASSUME NEW o, NEW s, HasPlace(o, s)
  PROVE  /\ PlaceOf(o, s) \in 1..Len(placed)
         /\ placed[PlaceOf(o, s)].object = o
         /\ placed[PlaceOf(o, s)].source = s
BY DEF HasPlace, PlaceOf

(* align_address returns a multiple of the alignment.                      *)
LEMMA AlignedIsAligned ==
  ASSUME NEW value \in Nat, NEW alignment \in Nat, alignment > 0
  PROVE  /\ Aligned(value, alignment) \in Nat
         /\ Aligned(value, alignment) % alignment = 0
<1> DEFINE k == (value + alignment - 1) \div alignment
<1>1. value + alignment - 1 \in Nat
  OBVIOUS
<1>2. k \in Nat
  BY <1>1, DivisionOfNats
<1> HIDE DEF k
<1>3. k * alignment \in Nat
  BY <1>2
<1>4. k * alignment = k * alignment + 0
  BY <1>3
<1>5. (k * alignment) % alignment = 0
  BY <1>2, <1>3, <1>4, RemainderIsUnique
<1>6. QED
  BY <1>3, <1>5 DEF Aligned, k

(* A link begins with nothing placed.                                      *)
LEMMA InitOK == Init => IInv
<1> SUFFICES ASSUME Init
             PROVE  IInv
  OBVIOUS
<1>1. << >> \in Seq(PlacedSection) /\ << >> \in Seq(Symbol)
  OBVIOUS
<1>2. TypeOK
  BY <1>1, LinkerAssumption DEF Init, TypeOK, FIRST_ADDRESS, Errors, Word, Loops
<1>3. Accepted /\ Counters /\ AllReachedPlaced
  BY DEF Init, Accepted, Counters, AllReachedPlaced, Reached
<1>4. SectionsApart /\ OnlyReferencesChange
  BY DEF Init, SectionsApart, OnlyReferencesChange
<1>5. QED
  BY <1>2, <1>3, <1>4 DEF IInv

(* A step that neither places nor relocates leaves the sections as they    *)
(* were, and with them what is claimed of them.                            *)
LEMMA SameSections ==
  ASSUME UNCHANGED <<request, placed>>, SectionsApart, OnlyReferencesChange
  PROVE  SectionsApart' /\ OnlyReferencesChange'
<1>1. UNCHANGED Objects
  BY DEF Objects
<1>2. SectionsApart'
  BY <1>1 DEF SectionsApart, Automatic, Bytes
<1>3. OnlyReferencesChange'
  BY <1>1 DEF OnlyReferencesChange, RelocationIndices
<1>4. QED
  BY <1>2, <1>3

(* A refusal ends the call with an error code of ZlLinkError.              *)
LEMMA FailOK ==
  ASSUME IInv, NEW e \in Errors, Fail(e)
  PROVE  IInv'
<1>1. UNCHANGED <<request, object, source, cursor, placed, symbols, output>>
      /\ stage' = "done" /\ error' = e
  BY DEF Fail, position
<1>2. TypeOK'
  BY <1>1 DEF IInv, TypeOK
<1>3. Accepted' /\ Counters' /\ AllReachedPlaced'
  BY <1>1 DEF Accepted, Counters, AllReachedPlaced, Reached
<1>4. SectionsApart' /\ OnlyReferencesChange'
  BY <1>1, SameSections DEF IInv
<1>5. QED
  BY <1>2, <1>3, <1>4 DEF IInv

-----------------------------------------------------------------------------
(* Every refusal keeps the invariant.                                      *)
LEMMA RefusalsOK ==
  ASSUME IInv,
         \/ IncompatibleObject \/ OutOfMemory \/ PlacementFault
         \/ DuplicateSymbol \/ UnresolvedSymbol \/ RelocationOverflow
         \/ NoEntry \/ EncodeRefused
  PROVE  IInv'
<1>1. \E e \in Errors : Fail(e)
  BY DEF Errors, IncompatibleObject, OutOfMemory, PlacementFault,
         DuplicateSymbol, UnresolvedSymbol, RelocationOverflow, NoEntry,
         EncodeRefused
<1>2. QED
  BY <1>1, FailOK

(* Entering and leaving a loop, and going to the next object.              *)
LEMMA WalkOK ==
  ASSUME IInv, BeginLink \/ NextObject \/ EndLoop \/ SelectEntry
  PROVE  IInv'
<1>1. UNCHANGED <<request, cursor, placed, symbols, error, output>>
  BY DEF BeginLink, NextObject, EndLoop, SelectEntry
<1>2. UNCHANGED Objects
  BY <1>1 DEF Objects
<1>3. TypeOK'
  BY <1>1 DEF IInv, TypeOK, BeginLink, NextObject, EndLoop, SelectEntry,
              position, Loops
<1>4. SectionsApart' /\ OnlyReferencesChange'
  BY <1>1, SameSections DEF IInv
<1>5. Accepted' /\ Counters' /\ AllReachedPlaced'
  <2>1. CASE BeginLink
    <3>1. stage' = "place" /\ object' = 1 /\ source' = 1
      BY <2>1 DEF BeginLink, position, IInv, Counters
    <3>2. \A o \in ObjectIndices : Acceptable(Objects[o])
      BY <2>1 DEF BeginLink, ObjectIndices
    <3>3. Accepted' /\ Counters'
      BY <1>2, <3>1, <3>2 DEF Accepted, Counters, ObjectIndices, Acceptable
    <3>4. AllReachedPlaced'
      <4> SUFFICES ASSUME NEW o \in ObjectIndices, NEW s \in SectionIndices(o)
                   PROVE  ~Reached(o, s)'
        BY <1>2 DEF AllReachedPlaced, ObjectIndices, SectionIndices
      <4>1. o \in Nat \ {0}
        BY ObjectCount DEF IInv, ObjectIndices
      <4>2. Len(Objects[o].sections) \in Nat
        <5>1. Decoded(Objects[o])
          BY <3>2, LinkerAssumption
             DEF IInv, TypeOK, Objects, ObjectIndices, Acceptable
        <5>2. QED
          BY <5>1 DEF Decoded
      <4>3. s \in Nat \ {0}
        BY <4>2 DEF SectionIndices
      <4>4. QED
        BY <3>1, <4>1, <4>3 DEF Reached
    <3>5. QED
      BY <3>3, <3>4
  <2>2. CASE NextObject
    <3>1. /\ stage' = stage /\ stage \in Loops
          /\ object' = object + 1 /\ object \in ObjectIndices
          /\ source' = 1 /\ source > Len(Items)
      BY <2>2, ObjectCount DEF NextObject, IInv, TypeOK, ObjectIndices
    <3>2. Accepted' /\ Counters'
      BY <1>2, <3>1
         DEF IInv, Accepted, Counters, Loops, ObjectIndices, Acceptable
    <3>3. AllReachedPlaced'
      <4> SUFFICES ASSUME NEW o \in ObjectIndices, NEW s \in SectionIndices(o),
                          Reached(o, s)'
                   PROVE  HasPlace(o, s)
        BY <1>1, <1>2 DEF AllReachedPlaced, ObjectIndices, SectionIndices, HasPlace
      <4>1. CASE stage # "place"
        BY <3>1, <4>1 DEF Reached, IInv, AllReachedPlaced
      <4>2. CASE stage = "place"
        <5>1. Decoded(Objects[o])
          BY <4>2, ObjectType DEF IInv
        <5>2. s \in Nat /\ s >= 1 /\ s <= Len(Objects[o].sections)
              /\ Len(Objects[o].sections) \in Nat
          BY <5>1 DEF Decoded, SectionIndices
        <5>3. o \in Nat /\ object \in Nat /\ source \in Nat
          BY ObjectCount DEF IInv, ObjectIndices, TypeOK
        <5>4. o < object \/ o = object
          BY <3>1, <4>2, <5>2, <5>3 DEF Reached
        <5>5. o = object => s < source
          BY <3>1, <4>2, <5>2, <5>3 DEF Items, Current
        <5>6. Reached(o, s)
          BY <4>2, <5>4, <5>5 DEF Reached
        <5>7. QED
          BY <5>6 DEF IInv, AllReachedPlaced
      <4>3. QED
        BY <4>1, <4>2
    <3>4. QED
      BY <3>2, <3>3
  <2>3. CASE EndLoop
    <3>1. /\ stage \in Loops /\ object > Len(Objects)
          /\ stage' \in {"collect", "relocate", "entry"}
      BY <2>3 DEF EndLoop
    <3>2. Accepted' /\ Counters'
      BY <1>2, <3>1
         DEF IInv, Accepted, Counters, Loops, ObjectIndices, Acceptable
    <3>3. AllReachedPlaced'
      <4> SUFFICES ASSUME NEW o \in ObjectIndices, NEW s \in SectionIndices(o)
                   PROVE  HasPlace(o, s)
        BY <1>1, <1>2 DEF AllReachedPlaced, ObjectIndices, SectionIndices, HasPlace
      <4>1. o < object
        BY <3>1, ObjectCount DEF IInv, TypeOK, ObjectIndices
      <4>2. Reached(o, s)
        BY <3>1, <4>1 DEF Reached, Loops
      <4>3. QED
        BY <4>2 DEF IInv, AllReachedPlaced
    <3>4. QED
      BY <3>2, <3>3
  <2>4. CASE SelectEntry
    <3>1. stage = "entry" /\ stage' = "encode"
      BY <2>4 DEF SelectEntry
    <3>2. QED
      BY <1>1, <1>2, <3>1
         DEF IInv, Accepted, Counters, AllReachedPlaced, Reached, ObjectIndices,
             SectionIndices, HasPlace, Acceptable
  <2>5. QED
    BY <2>1, <2>2, <2>3, <2>4
<1>6. QED
  BY <1>3, <1>4, <1>5 DEF IInv

-----------------------------------------------------------------------------
(* The item a loop is at, of an object the decoder has accepted.           *)
LEMMA ItemType ==
  ASSUME IInv, NEW s \in Loops, InLoop(s)
  PROVE  /\ object \in ObjectIndices
         /\ Decoded(Current)
         /\ source \in 1..Len(Items)
         /\ Len(Items) \in Nat
<1>1. object \in ObjectIndices /\ stage \notin {"call", "done"}
  BY ObjectCount DEF InLoop, IInv, TypeOK, ObjectIndices, Loops
<1>2. Decoded(Current)
  BY <1>1, ObjectType DEF IInv, Current
<1>3. Len(Items) \in Nat
  BY <1>2 DEF Items, Decoded
<1>4. QED
  BY <1>1, <1>2, <1>3 DEF InLoop, IInv, TypeOK

(* Sections of which one begins at or after the end of the other share no  *)
(* byte.                                                                   *)
LEMMA ApartBytes ==
  ASSUME NEW s, NEW t,
         s.address \in Nat, s.size \in Nat, t.address \in Nat, t.size \in Nat,
         s.address >= t.address + t.size \/ t.address >= s.address + s.size
  PROVE  Bytes(s) \cap Bytes(t) = {}
<1> SUFFICES ASSUME NEW b \in Bytes(s), b \in Bytes(t)
             PROVE  FALSE
  OBVIOUS
<1>1. /\ b \in Int /\ s.address <= b /\ b <= s.address + s.size - 1
      /\ t.address <= b /\ b <= t.address + t.size - 1
  BY DEF Bytes
<1>2. QED
  BY <1>1

(* An index of a sequence that has grown by one is an old one or the last. *)
LEMMA OldOrLast ==
  ASSUME NEW n \in Nat, NEW i \in 1..(n + 1)
  PROVE  i \in 1..n \/ i = n + 1
OBVIOUS

(* The placement of a section keeps the invariant.                         *)
LEMMA PlaceOK ==
  ASSUME IInv, PlaceSection
  PROVE  IInv'
<1> DEFINE section == Current.sections[source]
           address == AddressOf(section)
           new == [object |-> object, source |-> source,
                   type |-> section.type, address |-> address,
                   size |-> section.size, data |-> section.data]
<1>1. /\ InLoop("place") /\ stage = "place" /\ Item = section
      /\ Items = Current.sections
  BY DEF PlaceSection, InLoop, Item, Items
<1>2. /\ object \in ObjectIndices /\ Decoded(Current)
      /\ source \in SectionIndices(object)
  BY <1>1, ItemType DEF Loops, SectionIndices, Current
<1>3. section \in ObjectSection /\ Len(section.data) = section.size
  BY <1>1, <1>2 DEF Decoded, SectionIndices, Current
<1>4. /\ section.type \in SectionTypes /\ section.size \in Nat
      /\ section.data \in Seq(Byte) /\ section.address \in Nat
      /\ section.alignment \in Nat /\ section.alignment > 0
  BY <1>3, Bases DEF ObjectSection, Word
<1>5. /\ ~OutsideRom(address, section.size)
      /\ ~Overlaps(address, section.size)
      /\ placed' = Append(placed, new)
      /\ cursor' = address + section.size
      /\ source' = source + 1
      /\ UNCHANGED <<request, stage, object, symbols, error, output>>
  BY <1>1 DEF PlaceSection
<1>6. /\ address \in Nat
      /\ IF Automatic(section) THEN address % section.alignment = 0
                               ELSE address = section.address
  <2>1. cursor \in Nat
    BY LinkerAssumption, Bases DEF Word, IInv, TypeOK
  <2>2. CASE Automatic(section)
    <3>1. address = Aligned(cursor, section.alignment)
      BY <2>2 DEF AddressOf
    <3>2. QED
      BY <1>4, <2>1, <2>2, <3>1, AlignedIsAligned
  <2>3. CASE ~Automatic(section)
    BY <1>4, <2>3 DEF AddressOf
  <2>4. QED
    BY <2>2, <2>3
<1>7. RomSize \in Nat
  BY LinkerAssumption, Bases DEF Word
<1> HIDE DEF address
<1>8. address + section.size <= RomSize
  BY <1>4, <1>5, <1>6, <1>7 DEF OutsideRom
<1>9. new \in PlacedSection
  <2>1. address \in 0..RomSize
    BY <1>4, <1>6, <1>7, <1>8
  <2>2. QED
    BY <1>2, <1>4, <2>1 DEF PlacedSection, IInv, TypeOK
<1> DEFINE n == Len(placed)
<1>10. /\ placed \in Seq(PlacedSection) /\ n \in Nat
       /\ placed' \in Seq(PlacedSection)
       /\ Len(placed') = n + 1
       /\ \A i \in 1..n : placed'[i] = placed[i]
       /\ placed'[n + 1] = new
  BY <1>5, <1>9, AppendProperties DEF IInv, TypeOK
<1>11. UNCHANGED Objects
  BY <1>5 DEF Objects
<1> HIDE DEF section
<1>12. TypeOK'
  <2>1. address + section.size \in 0..RomSize
    BY <1>4, <1>6, <1>7, <1>8
  <2>2. source \in Nat \ {0}
    BY DEF IInv, TypeOK
  <2>3. cursor' \in 0..RomSize /\ source' \in Nat \ {0}
    BY <1>5, <2>1, <2>2
  <2>4. QED
    BY <1>5, <1>10, <2>3 DEF IInv, TypeOK
<1>13. Accepted' /\ Counters'
  BY <1>1, <1>5, <1>11 DEF IInv, Accepted, Counters, ObjectIndices, Acceptable
<1>14. AllReachedPlaced'
  <2> SUFFICES ASSUME NEW o \in ObjectIndices, NEW s \in SectionIndices(o),
                      Reached(o, s)'
               PROVE  HasPlace(o, s)'
    BY <1>11 DEF AllReachedPlaced, ObjectIndices, SectionIndices
  <2>1. CASE Reached(o, s)
    <3>1. HasPlace(o, s)
      BY <2>1 DEF IInv, AllReachedPlaced
    <3>2. PICK i \in 1..n : placed[i].object = o /\ placed[i].source = s
      BY <3>1 DEF HasPlace
    <3>3. i \in 1..(n + 1) /\ placed'[i] = placed[i]
      BY <1>10
    <3>4. QED
      BY <1>10, <3>2, <3>3 DEF HasPlace
  <2>2. CASE ~Reached(o, s)
    <3>1. Decoded(Objects[o])
      BY <1>1, ObjectType DEF IInv
    <3>2. s \in Nat
      BY <3>1 DEF Decoded, SectionIndices
    <3>3. o = object /\ s = source
      BY <1>1, <1>5, <2>2, <3>2 DEF Reached, IInv, TypeOK
    <3>4. n + 1 \in 1..Len(placed')
      BY <1>10
    <3>5. QED
      BY <1>10, <3>3, <3>4 DEF HasPlace
  <2>3. QED
    BY <2>1, <2>2
<1>15. \A i \in 1..n : placed[i].address \in Nat /\ placed[i].size \in Nat
  <2> SUFFICES ASSUME NEW i \in 1..n
               PROVE  placed[i].address \in Nat /\ placed[i].size \in Nat
    OBVIOUS
  <2>1. placed[i] \in PlacedSection
    BY <1>10, ElementOfSeq
  <2>2. QED
    BY <1>7, <2>1 DEF PlacedSection
<1>16. SectionsApart'
  <2> SUFFICES
        ASSUME NEW i \in 1..(n + 1)
        PROVE  LET it    == placed'[i]
                   asked == Objects[it.object].sections[it.source]
               IN  /\ Bytes(it) \subseteq 0..(RomSize - 1)
                   /\ \A j \in 1..(i - 1) : Bytes(it) \cap Bytes(placed'[j]) = {}
                   /\ IF Automatic(asked) THEN it.address % asked.alignment = 0
                                          ELSE it.address = asked.address
    BY <1>10, <1>11 DEF SectionsApart, Automatic, Bytes
  <2>1. CASE i \in 1..n
    <3>1. \A j \in 1..i : placed'[j] = placed[j]
      BY <1>10, <2>1
    <3>2. \A j \in 1..(i - 1) : placed'[j] = placed[j]
      BY <3>1
    <3>3. placed'[i] = placed[i]
      BY <3>1
    <3>4. QED
      BY <2>1, <3>2, <3>3 DEF IInv, SectionsApart
  <2>2. CASE i = n + 1
    <3>1. placed'[i] = new /\ \A j \in 1..(i - 1) : placed'[j] = placed[j]
      BY <1>10, <2>2
    <3>2. Bytes(new) \subseteq 0..(RomSize - 1)
      BY <1>4, <1>6, <1>7, <1>8 DEF Bytes
    <3>3. \A j \in 1..n : Bytes(new) \cap Bytes(placed[j]) = {}
      <4> SUFFICES ASSUME NEW j \in 1..n
                   PROVE  Bytes(new) \cap Bytes(placed[j]) = {}
        OBVIOUS
      <4>1. /\ new.address = address /\ new.size = section.size
            /\ address \in Nat /\ section.size \in Nat
            /\ placed[j].address \in Nat /\ placed[j].size \in Nat
        BY <1>4, <1>6, <1>15
      <4>2. ~(/\ address < placed[j].address + placed[j].size
              /\ placed[j].address < address + section.size)
        BY <1>5, Zenon DEF Overlaps
      <4>3. \/ address >= placed[j].address + placed[j].size
            \/ placed[j].address >= address + section.size
        BY <4>1, <4>2
      <4>4. QED
        BY <4>1, <4>3, ApartBytes
    <3>4. Objects[new.object].sections[new.source] = section
      BY DEF section, Current
    <3>5. \A j \in 1..(i - 1) : Bytes(new) \cap Bytes(placed'[j]) = {}
      <4>1. 1..(i - 1) = 1..n
        BY <1>10, <2>2
      <4>2. QED
        BY <3>1, <3>3, <4>1, Zenon
    <3>6. new.address = address
      OBVIOUS
    <3>7. QED
      BY <1>6, <3>1, <3>2, <3>4, <3>5, <3>6, Zenon
  <2>3. i \in 1..n \/ i = n + 1
    BY <1>10, OldOrLast
  <2>4. QED
    BY <2>1, <2>2, <2>3, Zenon
<1>17. OnlyReferencesChange'
  <2>1. \A o : RelocationIndices(o)' = RelocationIndices(o)
    BY <1>11 DEF RelocationIndices
  <2> SUFFICES
        ASSUME NEW i \in 1..(n + 1)
        PROVE  LET it     == placed'[i]
                   input  == Objects[it.object].sections[it.source]
                   fields == {r \in RelocationIndices(it.object) :
                                Objects[it.object].relocations[r].section =
                                  it.source}
               IN  /\ DOMAIN it.data = DOMAIN input.data
                   /\ \A k \in DOMAIN input.data :
                        it.data[k] # input.data[k] =>
                          \E r \in fields :
                            k - 1 - Objects[it.object].relocations[r].offset
                              \in 0..(FIELD_SIZE - 1)
    BY <1>10, <1>11, <2>1 DEF OnlyReferencesChange
  <2>2. CASE i \in 1..n
    <3>1. placed'[i] = placed[i]
      BY <1>10, <2>2
    <3>2. QED
      BY <2>2, <3>1 DEF IInv, OnlyReferencesChange
  <2>3. CASE i = n + 1
    <3>1. placed'[i] = new
      BY <1>10, <2>3, Zenon
    <3>2. /\ new.data = section.data
          /\ section = Objects[new.object].sections[new.source]
      BY DEF section, Current
    <3>3. QED
      BY <3>1, <3>2, Zenon
  <2>4. i \in 1..n \/ i = n + 1
    BY <1>10, OldOrLast
  <2>5. QED
    BY <2>2, <2>3, <2>4, Zenon
<1>18. QED
  BY <1>12, <1>13, <1>14, <1>16, <1>17 DEF IInv

(* A collected symbol has the type of a symbol.                            *)
LEMMA LinkedType ==
  ASSUME IInv, InLoop("collect")
  PROVE  Linked(Item) \in Symbol
<1>1. /\ stage = "collect" /\ object \in ObjectIndices /\ Decoded(Current)
      /\ source \in 1..Len(Current.symbols) /\ Item = Current.symbols[source]
  BY ItemType DEF Loops, Items, Item, InLoop
<1>2. /\ Item \in Symbol
      /\ Item.section \in 0..Len(Current.sections)
      /\ Len(Current.sections) \in Nat
  BY <1>1 DEF Decoded
<1>3. CASE Item.section = 0
  BY <1>2, <1>3 DEF Linked
<1>4. CASE Item.section # 0
  <2> DEFINE i == PlaceOf(object, Item.section)
  <2>1. Item.section \in SectionIndices(object)
    BY <1>2, <1>4 DEF SectionIndices, Current
  <2>2. HasPlace(object, Item.section)
    BY <1>1, <2>1 DEF IInv, AllReachedPlaced, Reached
  <2>3. i \in 1..Len(placed)
    BY <2>2, Found
  <2> HIDE DEF i
  <2>4. placed \in Seq(PlacedSection) /\ Len(placed) \in Nat
    BY DEF IInv, TypeOK
  <2>5. placed[i] \in PlacedSection
    BY <2>3, <2>4, ElementOfSeq
  <2>6. placed[i].address \in Int
    BY <2>5, LinkerAssumption, Bases DEF PlacedSection, Word
  <2>7. Item.value \in Word /\ Item.value \in Int
    BY <1>2, Bases DEF Symbol, Word
  <2>8. ToWord(Item.value + placed[i].address) \in Word
    BY <2>6, <2>7, ToWordType
  <2>9. i \in Nat
    BY <2>3, <2>4
  <2>10. Linked(Item) = [Item EXCEPT !.value = ToWord(@ + placed[i].address),
                                     !.section = i]
    BY <1>4 DEF Linked, i
  <2>11. QED
    BY <1>2, <2>8, <2>9, <2>10 DEF Symbol
<1>5. QED
  BY <1>3, <1>4

(* The collection of a symbol keeps the invariant.                         *)
LEMMA CollectOK ==
  ASSUME IInv, CollectSymbol
  PROVE  IInv'
<1>1. /\ InLoop("collect") /\ stage = "collect"
      /\ symbols' = Append(symbols, Linked(Item))
      /\ source' = source + 1
      /\ UNCHANGED <<request, stage, object, cursor, placed, error, output>>
  BY DEF CollectSymbol, InLoop
<1>2. UNCHANGED Objects
  BY <1>1 DEF Objects
<1>3. TypeOK'
  <2>1. symbols' \in Seq(Symbol)
    BY <1>1, LinkedType, AppendProperties DEF IInv, TypeOK
  <2>2. QED
    BY <1>1, <2>1 DEF IInv, TypeOK
<1>4. Accepted' /\ Counters' /\ AllReachedPlaced'
  BY <1>1, <1>2
     DEF IInv, Accepted, Counters, AllReachedPlaced, Reached, ObjectIndices,
         SectionIndices, HasPlace, Acceptable
<1>5. SectionsApart' /\ OnlyReferencesChange'
  BY <1>1, SameSections DEF IInv
<1>6. QED
  BY <1>3, <1>4, <1>5 DEF IInv

-----------------------------------------------------------------------------
(* write32 puts bytes into four places and leaves the others.              *)
LEMMA WrittenType ==
  ASSUME NEW data \in Seq(Byte), NEW offset \in Nat, NEW value \in Word
  PROVE  /\ Written(data, offset, value) \in Seq(Byte)
         /\ DOMAIN Written(data, offset, value) = DOMAIN data
         /\ \A k \in DOMAIN data :
              Written(data, offset, value)[k] # data[k] =>
                k - 1 - offset \in 0..(FIELD_SIZE - 1)
<1>1. Len(data) \in Nat /\ DOMAIN data = 1..Len(data)
  OBVIOUS
<1>2. \A k \in DOMAIN data :
        k \in (offset + 1)..(offset + FIELD_SIZE) =>
          ByteOf(value, k - offset - 1) \in Byte
  <2> SUFFICES ASSUME NEW k \in DOMAIN data,
                      k \in (offset + 1)..(offset + FIELD_SIZE)
               PROVE  ByteOf(value, k - offset - 1) \in Byte
    OBVIOUS
  <2>1. k - offset - 1 \in 0..3
    BY <1>1 DEF FIELD_SIZE
  <2>2. QED
    BY <2>1, ByteOfType
<1>3. \A k \in DOMAIN data : data[k] \in Byte
  BY <1>1, ElementOfSeq
<1>4. Written(data, offset, value) \in [1..Len(data) -> Byte]
  BY <1>1, <1>2, <1>3 DEF Written
<1>5. QED
  BY <1>1, <1>4, SeqDef DEF Written, FIELD_SIZE

(* The application of a relocation keeps the invariant: it only changes    *)
(* the contents of a section, in the field of that relocation.             *)
LEMMA RelocateOK ==
  ASSUME IInv, ApplyRelocation
  PROVE  IInv'
<1> DEFINE relocation == Current.relocations[source]
           D     == Destination
           value == ToWord(RelocatedValue)
           data  == Written(placed[D].data, relocation.offset, value)
           new   == [placed[D] EXCEPT !.data = data]
           n     == Len(placed)
<1>1. /\ InLoop("relocate") /\ stage = "relocate"
      /\ Items = Current.relocations /\ Item = relocation
  BY DEF ApplyRelocation, InLoop, Items, Item
<1>2. /\ object \in ObjectIndices /\ Decoded(Current)
      /\ source \in RelocationIndices(object)
      /\ source \in 1..Len(Current.relocations)
  BY <1>1, ItemType DEF Loops, RelocationIndices, Current
<1>3. /\ relocation.section \in SectionIndices(object)
      /\ relocation.offset \in Nat
  <2>1. Current.relocations \in Seq(Relocation)
    BY <1>2 DEF Decoded
  <2>2. relocation \in Relocation
    BY <1>2, <2>1, ElementOfSeq
  <2>3. relocation.section \in 1..Len(Current.sections)
    BY <1>2 DEF Decoded
  <2>4. QED
    BY <2>2, <2>3 DEF Relocation, SectionIndices, Current
<1>4. HasPlace(object, relocation.section)
  BY <1>1, <1>2, <1>3 DEF IInv, AllReachedPlaced, Reached
<1>5. /\ D \in 1..n
      /\ placed[D].object = object
      /\ placed[D].source = relocation.section
  BY <1>1, <1>4, Found DEF Destination
<1>6. /\ source' = source + 1
      /\ placed' = [placed EXCEPT ![D] = new]
      /\ FitsField(RelocatedValue)
      /\ UNCHANGED <<request, stage, object, cursor, symbols, error, output>>
  BY <1>1 DEF ApplyRelocation
<1>7. value \in Word
  <2>1. RelocatedValue \in Int
    BY <1>6, Bases DEF FitsField, Word, SWORD_MIN, SWORD_MAX
  <2>2. QED
    BY <2>1, ToWordType
<1> HIDE DEF relocation, D, value
<1>8. placed \in Seq(PlacedSection) /\ n \in Nat
  BY DEF IInv, TypeOK
<1>9. placed[D] \in PlacedSection
  BY <1>5, <1>8, ElementOfSeq
<1>10. /\ data \in Seq(Byte)
       /\ DOMAIN data = DOMAIN placed[D].data
       /\ \A k \in DOMAIN placed[D].data :
            data[k] # placed[D].data[k] =>
              k - 1 - relocation.offset \in 0..(FIELD_SIZE - 1)
  <2>1. placed[D].data \in Seq(Byte)
    BY <1>9 DEF PlacedSection
  <2>2. QED
    BY <1>3, <1>7, <2>1, WrittenType
<1> HIDE DEF data
<1>11. /\ new \in PlacedSection /\ new.data = data
       /\ new.object = placed[D].object /\ new.source = placed[D].source
       /\ new.address = placed[D].address /\ new.size = placed[D].size
  BY <1>9, <1>10 DEF PlacedSection
<1> HIDE DEF new
<1>12. /\ placed' \in Seq(PlacedSection) /\ Len(placed') = n
       /\ \A j \in 1..n : placed'[j] = IF j = D THEN new ELSE placed[j]
  BY <1>5, <1>6, <1>8, <1>11, ExceptSeq
<1>13. \A j \in 1..n : /\ placed'[j].object = placed[j].object
                       /\ placed'[j].source = placed[j].source
                       /\ placed'[j].address = placed[j].address
                       /\ placed'[j].size = placed[j].size
  BY <1>11, <1>12
<1>14. UNCHANGED Objects
  BY <1>6 DEF Objects
<1>15. TypeOK'
  BY <1>6, <1>12 DEF IInv, TypeOK
<1>16. Accepted' /\ Counters'
  BY <1>1, <1>6, <1>14 DEF IInv, Accepted, Counters, ObjectIndices, Acceptable
<1>17. AllReachedPlaced'
  <2> SUFFICES ASSUME NEW o \in ObjectIndices, NEW s \in SectionIndices(o)
               PROVE  HasPlace(o, s)'
    BY <1>14 DEF AllReachedPlaced, ObjectIndices, SectionIndices
  <2>1. HasPlace(o, s)
    BY <1>1 DEF IInv, AllReachedPlaced, Reached
  <2>2. QED
    BY <1>12, <1>13, <2>1 DEF HasPlace
<1>18. SectionsApart'
  <2> SUFFICES
        ASSUME NEW i \in 1..n
        PROVE  LET it    == placed'[i]
                   asked == Objects[it.object].sections[it.source]
               IN  /\ Bytes(it) \subseteq 0..(RomSize - 1)
                   /\ \A j \in 1..(i - 1) : Bytes(it) \cap Bytes(placed'[j]) = {}
                   /\ IF Automatic(asked) THEN it.address % asked.alignment = 0
                                          ELSE it.address = asked.address
    BY <1>12, <1>14 DEF SectionsApart, Automatic, Bytes
  <2>1. \A j \in 1..i : Bytes(placed'[j]) = Bytes(placed[j])
    BY <1>8, <1>13 DEF Bytes
  <2>2. /\ Bytes(placed'[i]) = Bytes(placed[i])
        /\ \A j \in 1..(i - 1) : Bytes(placed'[j]) = Bytes(placed[j])
    BY <1>8, <2>1
  <2>3. QED
    BY <1>13, <2>2 DEF IInv, SectionsApart
<1>19. OnlyReferencesChange'
  <2>1. \A o : RelocationIndices(o)' = RelocationIndices(o)
    BY <1>14 DEF RelocationIndices
  <2> SUFFICES
        ASSUME NEW i \in 1..n
        PROVE  LET it     == placed'[i]
                   input  == Objects[it.object].sections[it.source]
                   fields == {r \in RelocationIndices(it.object) :
                                Objects[it.object].relocations[r].section =
                                  it.source}
               IN  /\ DOMAIN it.data = DOMAIN input.data
                   /\ \A k \in DOMAIN input.data :
                        it.data[k] # input.data[k] =>
                          \E r \in fields :
                            k - 1 - Objects[it.object].relocations[r].offset
                              \in 0..(FIELD_SIZE - 1)
    BY <1>12, <1>14, <2>1 DEF OnlyReferencesChange
  <2>2. CASE i # D
    <3>1. placed'[i] = placed[i]
      BY <1>12, <2>2
    <3>2. QED
      BY <3>1 DEF IInv, OnlyReferencesChange
  <2>3. CASE i = D
    <3> DEFINE input == Objects[object].sections[relocation.section]
    <3>1. /\ placed'[i].data = data
          /\ placed'[i].object = object
          /\ placed'[i].source = relocation.section
      BY <1>5, <1>11, <1>12, <2>3
    <3>2. /\ source \in RelocationIndices(object)
          /\ Objects[object].relocations[source] = relocation
      BY <1>2 DEF relocation, Current
    <3>3. DOMAIN placed[D].data = DOMAIN input.data
      BY <1>5 DEF IInv, OnlyReferencesChange
    <3>4. ASSUME NEW k \in DOMAIN input.data, data[k] # input.data[k]
          PROVE  \E r \in {r \in RelocationIndices(object) :
                            Objects[object].relocations[r].section =
                              relocation.section} :
                   k - 1 - Objects[object].relocations[r].offset
                     \in 0..(FIELD_SIZE - 1)
      <4>1. CASE data[k] # placed[D].data[k]
        BY <1>10, <3>2, <3>3, <3>4, <4>1
      <4>2. CASE data[k] = placed[D].data[k]
        BY <1>5, <3>4, <4>2 DEF IInv, OnlyReferencesChange
      <4>3. QED
        BY <4>1, <4>2
    <3>5. QED
      BY <1>10, <3>1, <3>3, <3>4
  <2>4. QED
    BY <2>2, <2>3
<1>20. QED
  BY <1>15, <1>16, <1>17, <1>18, <1>19 DEF IInv

(* The executable has the sections as they were placed and relocated.      *)
LEMMA EncodeOK ==
  ASSUME IInv, Encode
  PROVE  IInv'
<1>1. /\ output'.sections = placed /\ stage' = "done"
      /\ UNCHANGED <<request, object, source, cursor, placed, symbols, error>>
  BY DEF Encode, position
<1>2. TypeOK'
  BY <1>1 DEF IInv, TypeOK
<1>3. Accepted' /\ Counters' /\ AllReachedPlaced'
  BY <1>1 DEF Accepted, Counters, AllReachedPlaced, Reached
<1>4. SectionsApart' /\ OnlyReferencesChange'
  BY <1>1, SameSections DEF IInv
<1>5. QED
  BY <1>2, <1>3, <1>4 DEF IInv

-----------------------------------------------------------------------------
(* The invariant is inductive.                                             *)
LEMMA NextOK == IInv /\ [Next]_vars => IInv'
<1> SUFFICES ASSUME IInv, [Next]_vars
             PROVE  IInv'
  OBVIOUS
<1>1. CASE Next
  BY <1>1, RefusalsOK, WalkOK, PlaceOK, CollectOK, RelocateOK, EncodeOK
     DEF Next, Proceed
<1>2. CASE UNCHANGED vars
  <2>1. UNCHANGED <<request, stage, object, source, cursor, placed, symbols,
                    error, output>>
    BY <1>2 DEF vars, position
  <2>2. UNCHANGED Objects
    BY <2>1 DEF Objects
  <2>3. SectionsApart' /\ OnlyReferencesChange'
    BY <2>1, SameSections DEF IInv
  <2>4. QED
    BY <2>1, <2>2, <2>3
       DEF IInv, TypeOK, Accepted, Counters, AllReachedPlaced, Reached,
           ObjectIndices, SectionIndices, HasPlace, Acceptable
<1>3. QED
  BY <1>1, <1>2

(* Whatever objects are linked, the invariant holds at every step.         *)
THEOREM Invariance == Spec => []IInv
BY InitOK, NextOK, PTL DEF Spec

(* The variables of zl_link_objects hold values of their types, for any    *)
(* objects that the decoder accepts and any size of the ROM.               *)
THEOREM TypeCorrect == Spec => []TypeOK
BY Invariance, PTL DEF IInv

(* For any objects, in any order: placed sections lie in the ROM, share no *)
(* byte and are aligned or where they were asked for.                      *)
(* Code: the placement loop, align_address and overlaps.                   *)
THEOREM SectionsApartAlways == Spec => []SectionsApart
BY Invariance, PTL DEF IInv

(* For any objects: a byte of a placed section differs from its object's   *)
(* only inside the field of a relocation of that section.                  *)
(* Code: write32 and its use in the relocation loop.                       *)
THEOREM OnlyReferencesChangeAlways == Spec => []OnlyReferencesChange
BY Invariance, PTL DEF IInv

-----------------------------------------------------------------------------
(* What the linker has collected and relocated so far.  The three loops    *)
(* walk the objects in the same order.                                     *)
Passed(o, k) == o < object \/ (o = object /\ k < source)

Collected(o, t) ==
  \/ stage \in {"relocate", "entry", "encode"}
  \/ output # NoImage
  \/ stage = "collect" /\ Passed(o, t)

Relocated(o, r) ==
  \/ stage \in {"entry", "encode"}
  \/ output # NoImage
  \/ stage = "relocate" /\ Passed(o, r)

(* The sections seen from outside of the linker: section s of object o is  *)
(* the one at p, and a is where its symbol t ended up.                     *)
IsPlace(sections, p, o, s) == sections[p].object = o /\ sections[p].source = s

Located(sections, o, t, a) ==
  \E p \in 1..Len(sections) :
    /\ IsPlace(sections, p, o, Definition(o, t).section)
    /\ a = sections[p].address + Definition(o, t).value

ComesFrom(symbol, sections, o, t) ==
  /\ symbol.name = Definition(o, t).name
  /\ symbol.binding = Definition(o, t).binding
  /\ symbol.section = 0 <=> Definition(o, t).section = 0
  /\ Definition(o, t).section # 0 =>
       \E a \in Int : Located(sections, o, t, a) /\ symbol.value = ToWord(a)

(* A field holds what its relocation asks for.                             *)
FieldHolds(sections, o, r) ==
  LET relocation == Objects[o].relocations[r]
      meanings   == Meanings(o, relocation.symbol)
  IN  /\ meanings # {}
      /\ \E p \in 1..Len(sections) :
           /\ IsPlace(sections, p, o, relocation.section)
           /\ ~Overwritten(o, r) =>
                \A d \in meanings :
                  \E a \in Int :
                    /\ Located(sections, d[1], d[2], a)
                    /\ FieldOf(sections[p], relocation.offset) =
                         ToWord(a + relocation.addend -
                                  (IF relocation.pcRelative
                                     THEN sections[p].address + relocation.offset
                                     ELSE 0))

-----------------------------------------------------------------------------
(* The parts of the invariant behind the verdict and the references.       *)
SymbolsCome ==
  \A i \in 1..Len(symbols) :
    \E o \in ObjectIndices : \E t \in SymbolIndices(o) :
      Collected(o, t) /\ ComesFrom(symbols[i], placed, o, t)

GlobalsKept ==
  \A o \in ObjectIndices : \A t \in SymbolIndices(o) :
    Collected(o, t) /\ DefinesGlobal(Definition(o, t)) =>
      \E i \in 1..Len(symbols) : /\ DefinesGlobal(symbols[i])
                                 /\ symbols[i].name = Definition(o, t).name

GlobalsDiffer ==
  \A o, p \in ObjectIndices : \A s \in SymbolIndices(o), t \in SymbolIndices(p) :
    /\ Collected(o, s) /\ DefinesGlobal(Definition(o, s))
    /\ Collected(p, t) /\ DefinesGlobal(Definition(p, t))
    /\ Definition(o, s).name = Definition(p, t).name
    => o = p /\ s = t

PlacesDiffer ==
  \A i, j \in 1..Len(placed) :
    placed[i].object = placed[j].object /\ placed[i].source = placed[j].source
      => i = j

FieldsHold ==
  \A o \in ObjectIndices : \A r \in RelocationIndices(o) :
    Relocated(o, r) => FieldHolds(placed, o, r)

(* Before the symbols are collected.                                       *)
Placing ==
  /\ stage = "call" => placed = << >>
  /\ stage \in {"call", "place"} => symbols = << >>
  /\ stage = "place" =>
       \A i \in 1..Len(placed) : Passed(placed[i].object, placed[i].source)
  /\ stage = "place" /\ ~HasExplicitAddress =>
       \A i \in 1..Len(placed) : placed[i].address + placed[i].size <= cursor

Verdict ==
  /\ stage # "done" => error = "NONE" /\ output = NoImage
  /\ error = "DUPLICATE_SYMBOL"  => HasDuplicate
  /\ error = "UNRESOLVED_SYMBOL" => HasUnresolved
  /\ error = "OVERLAP"           => HasExplicitAddress

AllPlaced == \A o \in ObjectIndices : \A s \in SectionIndices(o) : HasPlace(o, s)

EntryFound ==
  /\ stage = "encode" => Entry # 0
  /\ output # NoImage =>
       /\ error = "NONE"
       /\ output.sections = placed
       /\ output.entry = Entry
       /\ Entry # 0
       /\ EntryInText
       /\ AllPlaced

Tables == SymbolsCome /\ GlobalsKept /\ GlobalsDiffer /\ PlacesDiffer
            /\ FieldsHold /\ Placing

LinkInv ==
  /\ Verdict
  /\ EntryFound
  /\ stage # "done" \/ output # NoImage => Tables

-----------------------------------------------------------------------------
(* find_section finds the one place.                                       *)
LEMMA FoundThere ==
  ASSUME PlacesDiffer, NEW p \in 1..Len(placed), NEW o, NEW s,
         IsPlace(placed, p, o, s)
  PROVE  PlaceOf(o, s) = p
<1>1. HasPlace(o, s)
  BY DEF HasPlace, IsPlace
<1>2. /\ PlaceOf(o, s) \in 1..Len(placed)
      /\ placed[PlaceOf(o, s)].object = o
      /\ placed[PlaceOf(o, s)].source = s
  BY <1>1, Found
<1>3. QED
  BY <1>2 DEF PlacesDiffer, IsPlace

(* The final address of a definition is that of its place and its value.   *)
LEMMA FinalAddressIs ==
  ASSUME PlacesDiffer, NEW o, NEW t, NEW a, Located(placed, o, t, a)
  PROVE  FinalAddress(<<o, t>>) = a
<1>1. PICK p \in 1..Len(placed) :
        /\ IsPlace(placed, p, o, Definition(o, t).section)
        /\ a = placed[p].address + Definition(o, t).value
  BY DEF Located
<1>2. PlaceOf(o, Definition(o, t).section) = p
  BY <1>1, FoundThere
<1>3. QED
  BY <1>1, <1>2 DEF FinalAddress

(* The first of a set of indices is one of them.                           *)
LEMMA FirstIsMember ==
  ASSUME NEW n \in Nat, NEW S, S \subseteq 1..n, S # {}
  PROVE  FirstOf(S) \in S
<1>1. S \subseteq Nat
  OBVIOUS
<1>2. \E x \in S : \A y \in S : x <= y
  BY <1>1, LeastMember
<1>3. QED
  BY <1>2 DEF FirstOf

(* A conversion in between does not change what is left of a sum.          *)
LEMMA ToWordAbsorbs ==
  ASSUME NEW a \in Int, NEW b \in Int
  PROVE  ToWord(ToWord(a) + b) = ToWord(a + b)
<1> DEFINE q == a \div WordBase
           m == a % WordBase
<1>1. q \in Int /\ m \in Int /\ a = WordBase * q + m
  BY Bases
<1> HIDE DEF q, m
<1>2. a + b = (m + b) + q * WordBase
  BY <1>1, Bases
<1>3. ToWord((m + b) + q * WordBase) = ToWord(m + b)
  BY <1>1, ToWordTurns
<1>4. ToWord(a) = m
  BY DEF ToWord, m
<1>5. QED
  BY <1>2, <1>3, <1>4

(* align_address never goes back.                                          *)
LEMMA AlignedIsBehind ==
  ASSUME NEW value \in Nat, NEW alignment \in Nat, alignment > 0
  PROVE  Aligned(value, alignment) >= value
<1> DEFINE v == value + alignment - 1
           k == v \div alignment
           m == v % alignment
           x == alignment * k
<1>1. v \in Nat
  OBVIOUS
<1>2. k \in Nat /\ m \in Nat /\ m < alignment /\ v = x + m
  BY <1>1, DivisionOfNats
<1> HIDE DEF k, m
<1>3. x \in Nat /\ k * alignment = x
  BY <1>2
<1>4. Aligned(value, alignment) = x
  BY <1>3 DEF Aligned, k
<1> HIDE DEF x
<1>5. QED
  BY <1>2, <1>3, <1>4

(* What a reference to an undefined symbol may mean.                       *)
LEMMA MeaningsAre ==
  ASSUME NEW o, NEW s, NEW d
  PROVE  /\ Definition(o, s).section # 0 => Meanings(o, s) = {<<o, s>>}
         /\ Definition(o, s).section = 0 =>
              (d \in Meanings(o, s) <=>
                 \E p \in ObjectIndices : \E t \in SymbolIndices(p) :
                   /\ d = <<p, t>>
                   /\ DefinesGlobal(Definition(p, t))
                   /\ Definition(p, t).name = Definition(o, s).name)
<1>1. Definition(o, s).section # 0 => Meanings(o, s) = {<<o, s>>}
  BY DEF Meanings
<1>2. ASSUME Definition(o, s).section = 0
      PROVE  Meanings(o, s) =
               {e \in UNION {{p} \X SymbolIndices(p) : p \in ObjectIndices} :
                  /\ DefinesGlobal(Definition(e[1], e[2]))
                  /\ Definition(e[1], e[2]).name = Definition(o, s).name}
  BY <1>2, Zenon DEF Meanings
<1>3. \A e : e \in UNION {{p} \X SymbolIndices(p) : p \in ObjectIndices} <=>
             \E p \in ObjectIndices : \E t \in SymbolIndices(p) : e = <<p, t>>
  OBVIOUS
<1>4. QED
  BY <1>1, <1>2, <1>3

-----------------------------------------------------------------------------
(* What only depends on the request does not change.                       *)
LEMMA SameRequest ==
  ASSUME UNCHANGED request
  PROVE  /\ UNCHANGED <<Objects, ObjectIndices, HasDuplicate, HasUnresolved,
                        HasExplicitAddress, SelectedEntry>>
         /\ \A o : /\ SymbolIndices(o)' = SymbolIndices(o)
                   /\ RelocationIndices(o)' = RelocationIndices(o)
         /\ \A o, t : /\ Definition(o, t)' = Definition(o, t)
                      /\ Meanings(o, t)' = Meanings(o, t)
                      /\ Overwritten(o, t)' = Overwritten(o, t)
<1>1. UNCHANGED Objects
  BY DEF Objects
<1>2. UNCHANGED ObjectIndices
  BY <1>1 DEF ObjectIndices
<1>3. \A o : /\ SymbolIndices(o)' = SymbolIndices(o)
             /\ SectionIndices(o)' = SectionIndices(o)
             /\ RelocationIndices(o)' = RelocationIndices(o)
  BY <1>1 DEF SymbolIndices, RelocationIndices, SectionIndices
<1>4. \A o, t : Definition(o, t)' = Definition(o, t)
  BY <1>1 DEF Definition
<1>5. \A o, t : Meanings(o, t)' = Meanings(o, t)
  BY <1>2, <1>3, <1>4 DEF Meanings
<1>6. \A o, t : Overwritten(o, t)' = Overwritten(o, t)
  BY <1>1 DEF Overwritten
<1>7. UNCHANGED <<HasDuplicate, HasUnresolved, HasExplicitAddress>>
  BY <1>1, <1>2, <1>3, <1>4, <1>5
     DEF HasDuplicate, HasUnresolved, HasExplicitAddress
<1>8. UNCHANGED SelectedEntry
  BY <1>1 DEF SelectedEntry, WithEntry
<1>9. QED
  BY <1>1, <1>2, <1>3, <1>4, <1>5, <1>6, <1>7, <1>8

(* A step that leaves the tables alone and passes nothing new keeps them.  *)
LEMMA SameTables ==
  ASSUME Tables, UNCHANGED <<request, placed, symbols>>, Placing',
         \A o \in ObjectIndices : \A t \in SymbolIndices(o) :
           Collected(o, t)' <=> Collected(o, t),
         \A o \in ObjectIndices : \A r \in RelocationIndices(o) :
           Relocated(o, r)' <=> Relocated(o, r)
  PROVE  Tables'
<1> USE SameRequest
<1>1. \A s : \A o, t : ComesFrom(s, placed, o, t)' <=> ComesFrom(s, placed, o, t)
  BY DEF ComesFrom, Located, IsPlace
<1>2. SymbolsCome'
  BY <1>1 DEF Tables, SymbolsCome, ComesFrom, Located, IsPlace
<1>3. GlobalsKept'
  BY DEF Tables, GlobalsKept, DefinesGlobal
<1>4. GlobalsDiffer'
  BY DEF Tables, GlobalsDiffer, DefinesGlobal
<1>5. PlacesDiffer'
  BY DEF Tables, PlacesDiffer
<1>6. FieldsHold'
  <2>1. \A o, r : FieldHolds(placed, o, r)' <=> FieldHolds(placed, o, r)
    <3> TAKE o, r
    <3>1. \A p, t, a : Located(placed, p, t, a)' <=> Located(placed, p, t, a)
      BY DEF Located, IsPlace
    <3>2. (Objects[o].relocations[r])' = Objects[o].relocations[r]
      OBVIOUS
    <3>3. /\ Overwritten(o, r)' <=> Overwritten(o, r)
          /\ \A t : Meanings(o, t)' = Meanings(o, t)
      OBVIOUS
    <3>4. \A p, t : IsPlace(placed, p, o, t)' <=> IsPlace(placed, p, o, t)
      BY DEF IsPlace
    <3>5. \A p, x : FieldOf(placed[p], x)' = FieldOf(placed[p], x)
      BY DEF FieldOf
    <3>6. QED
      BY <3>1, <3>2, <3>3, <3>4, <3>5 DEF FieldHolds
  <2>2. QED
    BY <2>1 DEF Tables, FieldsHold
<1>7. QED
  BY <1>2, <1>3, <1>4, <1>5, <1>6 DEF Tables

(* The lists of an object the decoder has accepted.                        *)
LEMMA Lists ==
  ASSUME TypeOK, NEW o \in ObjectIndices, Acceptable(Objects[o])
  PROVE  /\ o \in Nat \ {0}
         /\ Decoded(Objects[o])
         /\ Len(Objects[o].symbols) \in Nat
         /\ Len(Objects[o].relocations) \in Nat
         /\ SymbolIndices(o) \subseteq Nat \ {0}
         /\ RelocationIndices(o) \subseteq Nat \ {0}
<1>1. o \in Nat \ {0}
  BY ObjectCount DEF ObjectIndices
<1>2. Decoded(Objects[o])
  BY LinkerAssumption DEF TypeOK, Objects, ObjectIndices, Acceptable
<1>3. Len(Objects[o].symbols) \in Nat /\ Len(Objects[o].relocations) \in Nat
  BY <1>2 DEF Decoded
<1>4. QED
  BY <1>1, <1>2, <1>3 DEF SymbolIndices, RelocationIndices

(* Going to the next object, or to the next loop, passes nothing.          *)
LEMMA WalkKeeps ==
  ASSUME IInv, LinkInv, BeginLink \/ NextObject \/ EndLoop \/ SelectEntry
  PROVE  LinkInv'
<1>1. UNCHANGED <<request, cursor, placed, symbols, error, output>>
      /\ stage # "done" /\ stage' # "done"
  BY DEF BeginLink, NextObject, EndLoop, SelectEntry, Loops
<1>2. error = "NONE" /\ output = NoImage
  BY <1>1 DEF LinkInv, Verdict
<1>3. \A o \in ObjectIndices : Acceptable(Objects[o])
  BY <1>1 DEF BeginLink, ObjectIndices, IInv, Accepted, NextObject, EndLoop,
              SelectEntry, Loops
<1>4. TypeOK /\ object \in Nat \ {0} /\ source \in Nat \ {0}
  BY DEF IInv, TypeOK
<1>5. \A o \in ObjectIndices :
        /\ o \in Nat \ {0}
        /\ SymbolIndices(o) \subseteq Nat \ {0}
        /\ RelocationIndices(o) \subseteq Nat \ {0}
  BY <1>3, <1>4, Lists
<1>6. \A o \in ObjectIndices : \A t \in SymbolIndices(o) :
        Collected(o, t)' <=> Collected(o, t)
  <2> TAKE o \in ObjectIndices
  <2> TAKE t \in SymbolIndices(o)
  <2>1. o \in Nat \ {0} /\ t \in Nat \ {0}
    BY <1>5
  <2>2. CASE BeginLink \/ SelectEntry
    BY <1>1, <1>2, <2>2 DEF Collected, BeginLink, SelectEntry
  <2>3. CASE NextObject
    <3>1. /\ object' = object + 1 /\ source' = 1 /\ stage' = stage
          /\ source > Len(Items)
      BY <2>3 DEF NextObject
    <3>2. CASE stage = "collect"
      <4>1. o = object => t < source
        <5>1. Len(Objects[o].symbols) \in Nat
          BY <1>3, <1>4, Lists
        <5>2. o = object => Items = Objects[o].symbols
          BY <3>2 DEF Items, Current
        <5>3. t <= Len(Objects[o].symbols)
          BY <5>1 DEF SymbolIndices
        <5>4. QED
          BY <1>4, <2>1, <3>1, <5>1, <5>2, <5>3
      <4>2. Passed(o, t)' <=> Passed(o, t)
        BY <1>4, <2>1, <3>1, <4>1 DEF Passed
      <4>3. QED
        BY <1>1, <3>1, <3>2, <4>2 DEF Collected
    <3>3. CASE stage # "collect"
      BY <1>1, <3>1, <3>3 DEF Collected
    <3>4. QED
      BY <3>2, <3>3
  <2>4. CASE EndLoop
    <3>1. /\ stage \in Loops /\ object > Len(Objects) /\ object' = 1 /\ source' = 1
          /\ stage' = IF stage = "place" THEN "collect"
                      ELSE IF stage = "collect" THEN "relocate" ELSE "entry"
      BY <2>4 DEF EndLoop
    <3>2. Passed(o, t) /\ ~Passed(o, t)'
      BY <1>4, <2>1, <3>1, ObjectCount DEF Passed, ObjectIndices
    <3>3. QED
      BY <1>1, <1>2, <3>1, <3>2 DEF Collected, Loops
  <2>5. QED
    BY <2>2, <2>3, <2>4
<1>7. \A o \in ObjectIndices : \A r \in RelocationIndices(o) :
        Relocated(o, r)' <=> Relocated(o, r)
  <2> TAKE o \in ObjectIndices
  <2> TAKE r \in RelocationIndices(o)
  <2>1. o \in Nat \ {0} /\ r \in Nat \ {0}
    BY <1>5
  <2>2. CASE BeginLink \/ SelectEntry
    BY <1>1, <1>2, <2>2 DEF Relocated, BeginLink, SelectEntry
  <2>3. CASE NextObject
    <3>1. /\ object' = object + 1 /\ source' = 1 /\ stage' = stage
          /\ source > Len(Items)
      BY <2>3 DEF NextObject
    <3>2. CASE stage = "relocate"
      <4>1. o = object => r < source
        <5>1. Len(Objects[o].relocations) \in Nat
          BY <1>3, <1>4, Lists
        <5>2. o = object => Items = Objects[o].relocations
          BY <3>2 DEF Items, Current
        <5>3. r <= Len(Objects[o].relocations)
          BY <5>1 DEF RelocationIndices
        <5>4. QED
          BY <1>4, <2>1, <3>1, <5>1, <5>2, <5>3
      <4>2. Passed(o, r)' <=> Passed(o, r)
        BY <1>4, <2>1, <3>1, <4>1 DEF Passed
      <4>3. QED
        BY <1>1, <3>1, <3>2, <4>2 DEF Relocated
    <3>3. CASE stage # "relocate"
      BY <1>1, <3>1, <3>3 DEF Relocated
    <3>4. QED
      BY <3>2, <3>3
  <2>4. CASE EndLoop
    <3>1. /\ stage \in Loops /\ object > Len(Objects) /\ object' = 1 /\ source' = 1
          /\ stage' = IF stage = "place" THEN "collect"
                      ELSE IF stage = "collect" THEN "relocate" ELSE "entry"
      BY <2>4 DEF EndLoop
    <3>2. Passed(o, r) /\ ~Passed(o, r)'
      BY <1>4, <2>1, <3>1, ObjectCount DEF Passed, ObjectIndices
    <3>3. QED
      BY <1>1, <1>2, <3>1, <3>2 DEF Relocated, Loops
  <2>5. QED
    BY <2>2, <2>3, <2>4
<1>8. Placing'
  <2>1. Placing /\ UNCHANGED HasExplicitAddress
    BY <1>1, SameRequest DEF LinkInv, Tables
  <2>2. CASE BeginLink
    <3>1. placed' = << >> /\ symbols' = << >> /\ stage' = "place"
      BY <1>1, <2>1, <2>2 DEF Placing, BeginLink
    <3>2. QED
      BY <3>1 DEF Placing
  <2>3. CASE NextObject
    <3>1. /\ stage' = stage /\ stage \in Loops
          /\ object' = object + 1 /\ source' = 1 /\ source > Len(Items)
      BY <2>3 DEF NextObject
    <3>2. ASSUME stage = "place", NEW i \in 1..Len(placed)
          PROVE  Passed(placed[i].object, placed[i].source)'
      <4>1. Passed(placed[i].object, placed[i].source)
        BY <2>1, <3>2 DEF Placing
      <4>2. placed[i].object \in Nat
        <5>1. placed \in Seq(PlacedSection)
          BY DEF IInv, TypeOK
        <5>2. placed[i] \in PlacedSection
          BY <3>2, <5>1, ElementOfSeq
        <5>3. QED
          BY <5>2 DEF PlacedSection
      <4>3. QED
        BY <1>1, <1>4, <3>1, <4>1, <4>2 DEF Passed
    <3>3. QED
      BY <1>1, <2>1, <3>1, <3>2 DEF Placing, Loops
  <2>4. CASE EndLoop \/ SelectEntry
    <3>1. stage' \in {"collect", "relocate", "entry", "encode"}
      BY <2>4 DEF EndLoop, SelectEntry
    <3>2. QED
      BY <3>1 DEF Placing
  <2>5. QED
    BY <2>2, <2>3, <2>4
<1>9. Tables'
  BY <1>1, <1>6, <1>7, <1>8, SameTables DEF LinkInv
<1>10. Verdict'
  BY <1>1, <1>2 DEF Verdict
<1>11. EntryFound'
  <2>1. stage' = "encode" => Entry' # 0
    <3>1. stage' = "encode" => SelectEntry
      BY DEF BeginLink, NextObject, EndLoop, SelectEntry, Loops
    <3>2. UNCHANGED Entry
      BY <1>1, SameRequest DEF Entry, EntrySymbols
    <3>3. QED
      BY <3>1, <3>2 DEF SelectEntry
  <2>2. QED
    BY <1>1, <1>2, <2>1 DEF EntryFound
<1>12. QED
  BY <1>9, <1>10, <1>11 DEF LinkInv

-----------------------------------------------------------------------------
(* A refusal is as good as its reason.                                     *)
LEMMA FailKeeps ==
  ASSUME LinkInv, stage # "done", NEW e, Fail(e),
         e = "DUPLICATE_SYMBOL" => HasDuplicate,
         e = "UNRESOLVED_SYMBOL" => HasUnresolved,
         e = "OVERLAP" => HasExplicitAddress
  PROVE  LinkInv'
<1>1. /\ stage' = "done" /\ error' = e
      /\ UNCHANGED <<request, object, source, cursor, placed, symbols, output>>
  BY DEF Fail, position
<1>2. output = NoImage /\ output' = NoImage
  BY <1>1 DEF LinkInv, Verdict
<1>3. Verdict'
  BY <1>1, SameRequest DEF Verdict
<1>4. QED
  BY <1>1, <1>2, <1>3 DEF LinkInv, EntryFound

(* The refusals whose reason the verdict says nothing of.                  *)
LEMMA PlainRefusals ==
  ASSUME LinkInv,
         \/ IncompatibleObject \/ OutOfMemory \/ RelocationOverflow
         \/ NoEntry \/ EncodeRefused
  PROVE  LinkInv'
<1>1. /\ stage # "done"
      /\ \E e \in {"INCOMPATIBLE_OBJECT", "OUT_OF_MEMORY", "OVERFLOW", "NO_ENTRY"} :
           Fail(e)
  BY DEF IncompatibleObject, OutOfMemory, RelocationOverflow, NoEntry,
         EncodeRefused, InLoop
<1>2. QED
  BY <1>1, FailKeeps

(* The item that placement is at.                                          *)
LEMMA PlacedItem ==
  ASSUME IInv, InLoop("place")
  PROVE  /\ Item = Objects[object].sections[source]
         /\ object \in ObjectIndices /\ source \in SectionIndices(object)
         /\ object \in Nat \ {0} /\ source \in Nat \ {0}
         /\ Item.alignment \in Nat /\ Item.alignment > 0
         /\ Item.size \in Nat /\ Item.address \in Nat /\ cursor \in Nat
         /\ AddressOf(Item) \in Nat
<1>1. /\ Items = Current.sections /\ Item = Objects[object].sections[source]
      /\ object \in ObjectIndices /\ Decoded(Current)
      /\ source \in 1..Len(Current.sections) /\ source \in SectionIndices(object)
  BY ItemType DEF Loops, InLoop, Items, Item, Current, SectionIndices
<1>2. Item \in ObjectSection
  BY <1>1 DEF Decoded, Current
<1>3. /\ Item.alignment \in Nat /\ Item.alignment > 0
      /\ Item.size \in Nat /\ Item.address \in Nat
  BY <1>2, Bases DEF ObjectSection, Word
<1>4. cursor \in Nat /\ object \in Nat \ {0} /\ source \in Nat \ {0}
  BY LinkerAssumption, Bases DEF Word, IInv, TypeOK
<1>5. AddressOf(Item) \in Nat
  BY <1>3, <1>4, AlignedIsAligned DEF AddressOf
<1>6. QED
  BY <1>1, <1>3, <1>4, <1>5

(* Sections overlap only if one has an address of its own.                 *)
LEMMA OverlapIsTrue ==
  ASSUME IInv, LinkInv, PlacementFault
  PROVE  LinkInv'
<1>1. InLoop("place") /\ stage = "place"
  BY DEF PlacementFault, InLoop
<1>2. ASSUME Overlaps(AddressOf(Item), Item.size), ~HasExplicitAddress
      PROVE  FALSE
  <2>1. Automatic(Item)
    BY <1>1, <1>2, PlacedItem DEF HasExplicitAddress
  <2>2. AddressOf(Item) >= cursor
    BY <1>1, <2>1, PlacedItem, AlignedIsBehind DEF AddressOf
  <2>3. PICK i \in 1..Len(placed) :
          AddressOf(Item) < placed[i].address + placed[i].size
    BY <1>2 DEF Overlaps
  <2>4. placed[i].address + placed[i].size <= cursor
    BY <1>1, <1>2 DEF LinkInv, Tables, Placing
  <2>5. placed[i].address \in Int /\ placed[i].size \in Int
    <3>1. placed \in Seq(PlacedSection)
      BY DEF IInv, TypeOK
    <3>2. placed[i] \in PlacedSection
      BY <3>1, ElementOfSeq
    <3>3. QED
      BY <3>2, LinkerAssumption, Bases DEF PlacedSection, Word
  <2>6. QED
    BY <1>1, <2>2, <2>3, <2>4, <2>5, PlacedItem
<1>3. \/ Fail("OVERLAP") /\ HasExplicitAddress
      \/ Fail("OVERFLOW")
  BY <1>1, <1>2 DEF PlacementFault
<1>4. QED
  BY <1>1, <1>3, FailKeeps

-----------------------------------------------------------------------------
(* The placement of a section.                                             *)
LEMMA PlaceKeeps ==
  ASSUME IInv, LinkInv, PlaceSection
  PROVE  LinkInv'
<1> DEFINE address == AddressOf(Item)
           new == [object |-> object, source |-> source, type |-> Item.type,
                   address |-> address, size |-> Item.size, data |-> Item.data]
           n == Len(placed)
<1>1. /\ InLoop("place") /\ stage = "place" /\ stage' = "place"
      /\ placed' = Append(placed, new)
      /\ cursor' = address + Item.size
      /\ source' = source + 1
      /\ UNCHANGED <<request, object, symbols, error, output>>
  BY DEF PlaceSection, InLoop
<1>2. /\ symbols' = << >> /\ output' = NoImage /\ error' = "NONE"
      /\ PlacesDiffer /\ Placing
  BY <1>1 DEF LinkInv, Tables, Placing, Verdict
<1>3. /\ object \in Nat \ {0} /\ source \in Nat \ {0} /\ cursor \in Nat
      /\ address \in Nat /\ Item.size \in Nat
      /\ object \in ObjectIndices /\ source \in SectionIndices(object)
      /\ Item = Objects[object].sections[source]
      /\ Item.alignment \in Nat /\ Item.alignment > 0
  BY <1>1, PlacedItem
<1> HIDE DEF address
<1>4. /\ n \in Nat /\ Len(placed') = n + 1
      /\ \A i \in 1..n : placed'[i] = placed[i]
      /\ placed'[n + 1].object = object /\ placed'[n + 1].source = source
      /\ placed'[n + 1].address = address /\ placed'[n + 1].size = Item.size
  BY <1>1, AppendProperties DEF IInv, TypeOK
<1>5. \A i \in 1..n : /\ placed[i].object \in Nat /\ placed[i].source \in Nat
                      /\ placed[i].address \in Int /\ placed[i].size \in Int
                      /\ Passed(placed[i].object, placed[i].source)
  <2> TAKE i \in 1..n
  <2>1. placed \in Seq(PlacedSection)
    BY DEF IInv, TypeOK
  <2>2. placed[i] \in PlacedSection
    BY <2>1, ElementOfSeq
  <2>3. Passed(placed[i].object, placed[i].source)
    BY <1>1, <1>2 DEF Placing
  <2>4. QED
    BY <2>2, <2>3, LinkerAssumption, Bases DEF PlacedSection, Word
<1> HIDE DEF n
<1>6. PlacesDiffer'
  <2> SUFFICES ASSUME NEW i \in 1..(n + 1), NEW j \in 1..(n + 1),
                      placed'[i].object = placed'[j].object,
                      placed'[i].source = placed'[j].source
               PROVE  i = j
    BY <1>4 DEF PlacesDiffer
  <2>1. ASSUME NEW k \in 1..n
        PROVE  ~(placed[k].object = object /\ placed[k].source = source)
    BY <1>3, <1>5 DEF Passed
  <2>2. (i \in 1..n \/ i = n + 1) /\ (j \in 1..n \/ j = n + 1)
    BY <1>4, OldOrLast
  <2>3. CASE i \in 1..n /\ j \in 1..n
    BY <1>2, <1>4, <2>3 DEF PlacesDiffer, n
  <2>4. CASE i \in 1..n /\ j = n + 1
    BY <1>4, <2>1, <2>4
  <2>5. CASE i = n + 1 /\ j \in 1..n
    BY <1>4, <2>1, <2>5
  <2>6. QED
    BY <2>2, <2>3, <2>4, <2>5
<1>7. Placing'
  <2>1. ASSUME NEW i \in 1..(n + 1)
        PROVE  Passed(placed[i].object, placed[i].source)'
    <3>1. CASE i \in 1..n
      <4>1. placed'[i] = placed[i]
        BY <1>4, <3>1
      <4>2. Passed(placed[i].object, placed[i].source)
        BY <1>5, <3>1
      <4>3. placed[i].object \in Nat /\ placed[i].source \in Nat
        BY <1>5, <3>1
      <4>4. object' = object /\ source' = source + 1 /\ source \in Nat
        BY <1>1, <1>3
      <4>5. QED
        BY <4>1, <4>2, <4>3, <4>4 DEF Passed
    <3>2. CASE i = n + 1
      <4>1. placed'[i].object = object /\ placed'[i].source = source
        BY <1>4, <3>2
      <4>2. object' = object /\ source < source'
        BY <1>1, <1>3
      <4>3. QED
        BY <4>1, <4>2 DEF Passed
    <3>3. QED
      BY <1>4, <3>1, <3>2, OldOrLast
  <2>2. ASSUME ~HasExplicitAddress, NEW i \in 1..(n + 1)
        PROVE  placed'[i].address + placed'[i].size <= cursor'
    <3>1. Automatic(Item)
      BY <1>3, <2>2 DEF HasExplicitAddress
    <3>2. address >= cursor
      BY <1>3, <3>1, AlignedIsBehind DEF AddressOf, address
    <3>3. CASE i \in 1..n
      <4>1. placed[i].address + placed[i].size <= cursor
        BY <1>1, <1>2, <2>2, <3>3 DEF Placing, n
      <4>2. placed'[i] = placed[i]
        BY <1>4, <3>3
      <4>3. placed[i].address \in Int /\ placed[i].size \in Int
        BY <1>5, <3>3
      <4>4. /\ cursor' = address + Item.size
            /\ cursor \in Nat /\ address \in Nat /\ Item.size \in Nat
        BY <1>1, <1>3
      <4>5. placed[i].address + placed[i].size <= address + Item.size
        BY <3>2, <4>1, <4>3, <4>4
      <4>6. QED
        BY <4>2, <4>4, <4>5
    <3>4. CASE i = n + 1
      <4>1. placed'[i].address = address /\ placed'[i].size = Item.size
        BY <1>4, <3>4
      <4>2. cursor' = address + Item.size
        BY <1>1
      <4>3. QED
        BY <1>3, <4>1, <4>2
    <3>5. QED
      BY <1>4, <3>3, <3>4, OldOrLast
  <2>3. UNCHANGED HasExplicitAddress
    BY <1>1, SameRequest
  <2>4. \A i \in 1..Len(placed') : Passed(placed[i].object, placed[i].source)'
    BY <1>4, <2>1
  <2>5. ~HasExplicitAddress =>
          \A i \in 1..Len(placed') : placed'[i].address + placed'[i].size <= cursor'
    BY <1>4, <2>2
  <2>6. QED
    BY <1>1, <1>2, <2>3, <2>4, <2>5 DEF Placing
<1>8. /\ \A o, t : ~Collected(o, t)' /\ ~Relocated(o, t)'
  BY <1>1, <1>2 DEF Collected, Relocated
<1>9. Tables'
  BY <1>2, <1>6, <1>7, <1>8
     DEF Tables, SymbolsCome, GlobalsKept, GlobalsDiffer, FieldsHold
<1>10. Verdict' /\ EntryFound'
  BY <1>1, <1>2 DEF Verdict, EntryFound
<1>11. QED
  BY <1>9, <1>10 DEF LinkInv

-----------------------------------------------------------------------------
(* The collection of a symbol.                                             *)
LEMMA CollectedItem ==
  ASSUME IInv, InLoop("collect")
  PROVE  /\ object \in ObjectIndices /\ source \in SymbolIndices(object)
         /\ object \in Nat /\ source \in Nat
         /\ Item = Definition(object, source)
         /\ Item \in Symbol
         /\ Item.section # 0 => HasPlace(object, Item.section)
<1>1. /\ stage = "collect" /\ object \in ObjectIndices /\ Decoded(Current)
      /\ source \in 1..Len(Current.symbols) /\ Item = Current.symbols[source]
  BY ItemType DEF Loops, Items, Item, InLoop
<1>2. /\ Item \in Symbol
      /\ Item.section \in 0..Len(Current.sections)
      /\ Len(Current.sections) \in Nat
  BY <1>1 DEF Decoded
<1>3. Item.section # 0 => Item.section \in SectionIndices(object)
  BY <1>2 DEF SectionIndices, Current
<1>4. Item.section # 0 => HasPlace(object, Item.section)
  BY <1>1, <1>3 DEF IInv, AllReachedPlaced, Reached
<1>5. object \in Nat /\ source \in Nat
  BY DEF IInv, TypeOK
<1>6. QED
  BY <1>1, <1>2, <1>4, <1>5 DEF Definition, SymbolIndices, Current

(* The value of a placed section's symbol.                                 *)
LEMMA LinkedComes ==
  ASSUME IInv, InLoop("collect")
  PROVE  /\ ComesFrom(Linked(Item), placed, object, source)
         /\ DefinesGlobal(Linked(Item)) <=> DefinesGlobal(Item)
<1>1. /\ Item = Definition(object, source) /\ Item \in Symbol
      /\ Item.section # 0 => HasPlace(object, Item.section)
  BY CollectedItem
<1>2. CASE Item.section = 0
  BY <1>1, <1>2 DEF Linked, ComesFrom
<1>3. CASE Item.section # 0
  <2> DEFINE p == PlaceOf(object, Item.section)
             value == Item.value + placed[p].address
  <2>1. /\ p \in 1..Len(placed)
        /\ IsPlace(placed, p, object, Item.section)
    BY <1>1, <1>3, Found DEF IsPlace
  <2>2. /\ Linked(Item) = [Item EXCEPT !.value = ToWord(value), !.section = p]
    BY <1>3 DEF Linked
  <2> HIDE DEF p
  <2>3. placed \in Seq(PlacedSection) /\ Len(placed) \in Nat
    BY DEF IInv, TypeOK
  <2>4. placed[p] \in PlacedSection
    BY <2>1, <2>3, ElementOfSeq
  <2>5. placed[p].address \in Int /\ Item.value \in Int
    BY <1>1, <2>4, LinkerAssumption, Bases DEF PlacedSection, Word, Symbol
  <2>6. value \in Int /\ value = placed[p].address + Item.value
    BY <2>5
  <2>7. Located(placed, object, source, value)
    BY <1>1, <2>1, <2>6 DEF Located
  <2> HIDE DEF value
  <2>8. /\ Linked(Item).name = Item.name
        /\ Linked(Item).binding = Item.binding
        /\ Linked(Item).section = p
        /\ Linked(Item).value = ToWord(value)
    BY <1>1, <2>2 DEF Symbol
  <2>9. p # 0
    BY <2>1, <2>3
  <2>10. QED
    BY <1>1, <1>3, <2>6, <2>7, <2>8, <2>9 DEF ComesFrom, DefinesGlobal
<1>4. QED
  BY <1>2, <1>3

(* The collection of a symbol.                                             *)
LEMMA CollectKeeps ==
  ASSUME IInv, LinkInv, CollectSymbol
  PROVE  LinkInv'
<1> DEFINE symbol == Linked(Item)
           n == Len(symbols)
<1>1. /\ InLoop("collect") /\ stage = "collect" /\ ~IsDuplicate(Item)
      /\ symbols' = Append(symbols, symbol) /\ source' = source + 1
      /\ UNCHANGED <<request, stage, object, cursor, placed, error, output>>
  BY DEF CollectSymbol, InLoop
<1>2. Tables /\ output = NoImage /\ error = "NONE"
  BY <1>1 DEF LinkInv, Verdict
<1>3. /\ object \in ObjectIndices /\ source \in SymbolIndices(object)
      /\ object \in Nat /\ source \in Nat
      /\ Item = Definition(object, source)
  BY <1>1, CollectedItem
<1>4. /\ ComesFrom(symbol, placed, object, source)
      /\ DefinesGlobal(symbol) <=> DefinesGlobal(Item)
      /\ symbol.name = Item.name
  BY <1>1, <1>3, LinkedComes DEF ComesFrom
<1> HIDE DEF symbol
<1>5. /\ n \in Nat /\ Len(symbols') = n + 1
      /\ \A i \in 1..n : symbols'[i] = symbols[i]
      /\ symbols'[n + 1] = symbol
  BY <1>1, <1>4, LinkedType, AppendProperties DEF IInv, TypeOK, symbol
<1> HIDE DEF n
<1>6. \A o \in ObjectIndices : \A t \in SymbolIndices(o) :
        Collected(o, t)' <=> Collected(o, t) \/ (o = object /\ t = source)
  <2> TAKE o \in ObjectIndices
  <2> TAKE t \in SymbolIndices(o)
  <2>1. Acceptable(Objects[o]) /\ TypeOK
    BY <1>1 DEF IInv, Accepted
  <2>2. t \in Nat
    BY <2>1, Lists
  <2>3. Passed(o, t)' <=> Passed(o, t) \/ (o = object /\ t = source)
    <3>1. object' = object /\ source' = source + 1
      BY <1>1
    <3>2. o = object => (t < source + 1 <=> t < source \/ t = source)
      BY <1>3, <2>2
    <3>3. o < object => o # object
      BY <1>3, <2>1, Lists
    <3>4. QED
      BY <3>1, <3>2, <3>3 DEF Passed
  <2>4. QED
    BY <1>1, <1>2, <2>3 DEF Collected
<1>7. ~Collected(object, source)
  BY <1>1, <1>2, <1>3 DEF Collected, Passed
<1>8. \A i, o, t : ComesFrom(symbols[i], placed, o, t)' <=>
                     ComesFrom(symbols'[i], placed, o, t)
  <2> TAKE i, o, t
  <2>1. Definition(o, t)' = Definition(o, t) /\ placed' = placed
    BY <1>1, SameRequest
  <2>2. \A a : Located(placed, o, t, a)' <=> Located(placed, o, t, a)
    BY <2>1 DEF Located, IsPlace
  <2>3. QED
    BY <2>1, <2>2 DEF ComesFrom
<1>9. SymbolsCome'
  <2> SUFFICES ASSUME NEW i \in 1..(n + 1)
               PROVE  \E o \in ObjectIndices : \E t \in SymbolIndices(o) :
                        Collected(o, t)' /\ ComesFrom(symbols'[i], placed, o, t)
    <3>1. /\ UNCHANGED ObjectIndices
          /\ \A o : SymbolIndices(o)' = SymbolIndices(o)
      BY <1>1, SameRequest
    <3>2. QED
      BY <1>5, <1>8, <3>1 DEF SymbolsCome
  <2>1. CASE i \in 1..n
    BY <1>2, <1>5, <1>6, <2>1 DEF Tables, SymbolsCome, n
  <2>2. CASE i = n + 1
    BY <1>3, <1>4, <1>5, <1>6, <2>2
  <2>3. QED
    BY <1>5, <2>1, <2>2, OldOrLast
<1>10. GlobalsKept'
  <2> SUFFICES ASSUME NEW o \in ObjectIndices, NEW t \in SymbolIndices(o),
                      Collected(o, t)', DefinesGlobal(Definition(o, t))
               PROVE  \E i \in 1..(n + 1) : /\ DefinesGlobal(symbols'[i])
                                            /\ symbols'[i].name =
                                                 Definition(o, t).name
    BY <1>1, <1>5, SameRequest DEF GlobalsKept, DefinesGlobal
  <2>1. CASE Collected(o, t)
    <3>1. PICK i \in 1..n : /\ DefinesGlobal(symbols[i])
                            /\ symbols[i].name = Definition(o, t).name
      BY <1>2, <2>1 DEF Tables, GlobalsKept, n
    <3>2. i \in 1..(n + 1) /\ symbols'[i] = symbols[i]
      BY <1>5
    <3>3. QED
      BY <3>1, <3>2
  <2>2. CASE o = object /\ t = source
    <3>1. n + 1 \in 1..(n + 1)
      BY <1>5
    <3>2. QED
      BY <1>3, <1>4, <1>5, <2>2, <3>1
  <2>3. QED
    BY <1>6, <2>1, <2>2
<1>11. GlobalsDiffer'
  <2>1. ASSUME NEW o \in ObjectIndices, NEW s \in SymbolIndices(o),
               Collected(o, s), DefinesGlobal(Definition(o, s)),
               DefinesGlobal(Item), Definition(o, s).name = Item.name
        PROVE  FALSE
    <3>1. PICK i \in 1..Len(symbols) : /\ DefinesGlobal(symbols[i])
                                       /\ symbols[i].name = Item.name
      BY <1>2, <2>1 DEF Tables, GlobalsKept
    <3>2. QED
      BY <1>1, <2>1, <3>1 DEF IsDuplicate
  <2> SUFFICES ASSUME NEW o \in ObjectIndices, NEW s \in SymbolIndices(o),
                      NEW p \in ObjectIndices, NEW t \in SymbolIndices(p),
                      Collected(o, s)', DefinesGlobal(Definition(o, s)),
                      Collected(p, t)', DefinesGlobal(Definition(p, t)),
                      Definition(o, s).name = Definition(p, t).name
               PROVE  o = p /\ s = t
    BY <1>1, SameRequest DEF GlobalsDiffer, DefinesGlobal
  <2>2. CASE Collected(o, s) /\ Collected(p, t)
    BY <1>2, <2>2 DEF Tables, GlobalsDiffer
  <2>3. CASE Collected(o, s) /\ p = object /\ t = source
    BY <1>3, <2>1, <2>3
  <2>4. CASE o = object /\ s = source /\ Collected(p, t)
    BY <1>3, <2>1, <2>4
  <2>5. QED
    BY <1>6, <2>2, <2>3, <2>4
<1>12. PlacesDiffer' /\ Placing'
  BY <1>1, <1>2 DEF Tables, PlacesDiffer, Placing
<1>13. FieldsHold'
  BY <1>1, <1>2 DEF FieldsHold, Relocated
<1>14. Verdict' /\ EntryFound'
  BY <1>1, <1>2 DEF Verdict, EntryFound
<1>15. QED
  BY <1>9, <1>10, <1>11, <1>12, <1>13, <1>14 DEF LinkInv, Tables

-----------------------------------------------------------------------------
(* write32 fills the field that it is given and no other.                  *)
LEMMA FieldWritten ==
  ASSUME NEW data, NEW offset \in Nat, NEW value \in Word, NEW section,
         section.data = Written(data, offset, value),
         \A k \in 1..4 : offset + k \in DOMAIN data
  PROVE  FieldOf(section, offset) = value
<1>1. \A k \in 1..4 : section.data[offset + k] = ByteOf(value, k - 1)
  <2> TAKE k \in 1..4
  <2>1. /\ offset + k \in DOMAIN data
        /\ offset + k \in (offset + 1)..(offset + FIELD_SIZE)
        /\ (offset + k) - offset - 1 = k - 1
    BY DEF FIELD_SIZE
  <2>2. section.data[offset + k] = ByteOf(value, (offset + k) - offset - 1)
    BY <2>1 DEF Written
  <2>3. QED
    BY <2>1, <2>2
<1>2. /\ 1 \in 1..4 /\ 2 \in 1..4 /\ 3 \in 1..4 /\ 4 \in 1..4
      /\ 1 - 1 = 0 /\ 2 - 1 = 1 /\ 3 - 1 = 2 /\ 4 - 1 = 3
  OBVIOUS
<1>3. /\ section.data[offset + 1] = ByteOf(value, 0)
      /\ section.data[offset + 2] = ByteOf(value, 1)
      /\ section.data[offset + 3] = ByteOf(value, 2)
      /\ section.data[offset + 4] = ByteOf(value, 3)
  BY <1>1, <1>2
<1>4. QED
  BY <1>3, WordRejoins DEF FieldOf

(* write32 leaves a field alone that it does not reach.                    *)
LEMMA OtherFieldKept ==
  ASSUME NEW old, NEW section, NEW offset \in Nat, NEW value, NEW other \in Nat,
         section.data = Written(old.data, offset, value),
         \A k \in 1..4 : other + k \in DOMAIN old.data,
         other - offset \notin (1 - FIELD_SIZE)..(FIELD_SIZE - 1)
  PROVE  FieldOf(section, other) = FieldOf(old, other)
<1>1. \A k \in 1..4 : section.data[other + k] = old.data[other + k]
  <2> TAKE k \in 1..4
  <2>1. /\ other + k \in DOMAIN old.data
        /\ other + k \notin (offset + 1)..(offset + FIELD_SIZE)
    BY DEF FIELD_SIZE
  <2>2. QED
    BY <2>1 DEF Written
<1>2. 1 \in 1..4 /\ 2 \in 1..4 /\ 3 \in 1..4 /\ 4 \in 1..4
  OBVIOUS
<1>3. QED
  BY <1>1, <1>2 DEF FieldOf

(* The relocations of an object that is accepted, and their fields.        *)
LEMMA RelocationType ==
  ASSUME IInv, NEW o \in ObjectIndices, Acceptable(Objects[o]),
         NEW r \in RelocationIndices(o)
  PROVE  LET relocation == Objects[o].relocations[r]
         IN  /\ relocation.offset \in Nat /\ relocation.addend \in Int
             /\ relocation.section \in SectionIndices(o)
             /\ relocation.symbol \in SymbolIndices(o)
             /\ \A p \in 1..Len(placed) :
                  IsPlace(placed, p, o, relocation.section) =>
                    \A k \in 1..4 :
                      relocation.offset + k \in DOMAIN placed[p].data
<1> DEFINE relocation == Objects[o].relocations[r]
           section    == Objects[o].sections[relocation.section]
<1>1. Decoded(Objects[o]) /\ r \in 1..Len(Objects[o].relocations)
  BY Lists DEF IInv, RelocationIndices
<1>2. /\ Objects[o].relocations \in Seq(Relocation)
      /\ Objects[o].sections \in Seq(ObjectSection)
      /\ relocation.section \in 1..Len(Objects[o].sections)
      /\ relocation.symbol \in 1..Len(Objects[o].symbols)
      /\ relocation.offset + FIELD_SIZE <= section.size
      /\ Len(section.data) = section.size
  BY <1>1 DEF Decoded
<1>3. relocation \in Relocation /\ section \in ObjectSection
  BY <1>1, <1>2, ElementOfSeq
<1>4. relocation.offset \in Nat /\ relocation.addend \in Int
  BY <1>3, Bases DEF Relocation, SWORD_MIN, SWORD_MAX
<1>5. section.data \in Seq(Byte) /\ section.size \in Nat
  BY <1>3 DEF ObjectSection
<1> HIDE DEF relocation, section
<1>6. \A k \in 1..4 : relocation.offset + k \in DOMAIN section.data
  <2>1. DOMAIN section.data = 1..section.size
    BY <1>2, <1>5
  <2>2. QED
    BY <1>2, <1>4, <1>5, <2>1 DEF FIELD_SIZE
<1>7. ASSUME NEW p \in 1..Len(placed), IsPlace(placed, p, o, relocation.section)
      PROVE  DOMAIN placed[p].data = DOMAIN section.data
  BY <1>7 DEF IInv, OnlyReferencesChange, IsPlace, section
<1>8. QED
  BY <1>2, <1>4, <1>6, <1>7
     DEF SectionIndices, SymbolIndices, relocation

(* The relocation that the loop is at.                                     *)
LEMMA RelocatedItem ==
  ASSUME IInv, InLoop("relocate")
  PROVE  /\ object \in ObjectIndices /\ Acceptable(Objects[object])
         /\ source \in RelocationIndices(object)
         /\ object \in Nat /\ source \in Nat
         /\ Item = Objects[object].relocations[source]
         /\ Reference = Definition(object, Item.symbol)
         /\ Reference \in Symbol
         /\ HasPlace(object, Item.section)
         /\ Reference.section # 0 => HasPlace(object, Reference.section)
<1>1. /\ stage = "relocate" /\ object \in ObjectIndices /\ Decoded(Current)
      /\ source \in 1..Len(Current.relocations)
      /\ Item = Current.relocations[source]
  BY ItemType DEF Loops, Items, Item, InLoop
<1>2. Acceptable(Objects[object]) /\ source \in RelocationIndices(object)
  BY <1>1 DEF IInv, Accepted, RelocationIndices, Current
<1>3. Item.section \in SectionIndices(object) /\ Item.symbol \in SymbolIndices(object)
  BY <1>1, <1>2, RelocationType DEF Current
<1>4. Reference \in Symbol /\ Reference.section \in 0..Len(Current.sections)
      /\ Len(Current.sections) \in Nat
  <2>1. Item.symbol \in 1..Len(Current.symbols)
    BY <1>3 DEF SymbolIndices, Current
  <2>2. QED
    BY <1>1, <2>1, ElementOfSeq DEF Decoded, Reference
<1>5. Reference.section # 0 => Reference.section \in SectionIndices(object)
  BY <1>4 DEF SectionIndices, Current
<1>6. \A s \in SectionIndices(object) : HasPlace(object, s)
  BY <1>1 DEF IInv, AllReachedPlaced, Reached
<1>7. object \in Nat /\ source \in Nat
  BY DEF IInv, TypeOK
<1>8. QED
  BY <1>1, <1>2, <1>3, <1>4, <1>5, <1>6, <1>7
     DEF Reference, Definition, Current

(* A symbol that is found has all the meanings of the reference: there is  *)
(* one, and the target is its address, if not before then after wrapping.  *)
LEMMA TargetIsMeant ==
  ASSUME IInv, Tables, InLoop("relocate"), ~Unresolved
  PROVE  /\ TargetAddress \in Int
         /\ Meanings(object, Item.symbol) # {}
         /\ \A d \in Meanings(object, Item.symbol) :
              \E a \in Int : /\ Located(placed, d[1], d[2], a)
                             /\ \A x \in Int :
                                  ToWord(TargetAddress + x) = ToWord(a + x)
<1>1. /\ Reference = Definition(object, Item.symbol) /\ Reference \in Symbol
      /\ Reference.section # 0 => HasPlace(object, Reference.section)
      /\ stage = "relocate"
  BY RelocatedItem DEF InLoop
<1>2. CASE Reference.section # 0
  <2> DEFINE p == PlaceOf(object, Reference.section)
  <2>1. p \in 1..Len(placed) /\ IsPlace(placed, p, object, Reference.section)
    BY <1>1, <1>2, Found DEF IsPlace
  <2>2. TargetAddress = placed[p].address + Reference.value
    BY <1>2 DEF TargetAddress
  <2> HIDE DEF p
  <2>3. placed[p].address \in Int /\ Reference.value \in Int
    <3>1. placed \in Seq(PlacedSection)
      BY DEF IInv, TypeOK
    <3>2. placed[p] \in PlacedSection
      BY <2>1, <3>1, ElementOfSeq
    <3>3. QED
      BY <1>1, <3>2, LinkerAssumption, Bases DEF PlacedSection, Word, Symbol
  <2>4. Meanings(object, Item.symbol) = {<<object, Item.symbol>>}
    BY <1>1, <1>2, MeaningsAre
  <2>5. Located(placed, object, Item.symbol, TargetAddress)
    BY <1>1, <2>1, <2>2 DEF Located
  <2>6. TargetAddress \in Int
    BY <2>2, <2>3
  <2>7. QED
    BY <2>4, <2>5, <2>6
<1>3. CASE Reference.section = 0
  <2> DEFINE S == Definitions(Reference.name)
             i == FirstOf(S)
  <2>1. S # {} /\ S \subseteq 1..Len(symbols) /\ Len(symbols) \in Nat
    BY <1>3 DEF Unresolved, Definitions, IInv, TypeOK
  <2>2. i \in S
    BY <2>1, FirstIsMember
  <2>3. /\ i \in 1..Len(symbols) /\ DefinesGlobal(symbols[i])
        /\ symbols[i].name = Reference.name
    BY <2>2 DEF Definitions
  <2>4. TargetAddress = symbols[i].value
    BY <1>3 DEF TargetAddress
  <2> HIDE DEF i, S
  <2>5. PICK o \in ObjectIndices : \E t \in SymbolIndices(o) :
          Collected(o, t) /\ ComesFrom(symbols[i], placed, o, t)
    BY <2>3 DEF Tables, SymbolsCome
  <2>6. PICK t \in SymbolIndices(o) :
          Collected(o, t) /\ ComesFrom(symbols[i], placed, o, t)
    BY <2>5
  <2>7. /\ DefinesGlobal(Definition(o, t)) /\ Definition(o, t).section # 0
        /\ Definition(o, t).name = Reference.name
    BY <2>3, <2>6 DEF ComesFrom, DefinesGlobal
  <2>8. PICK a \in Int : Located(placed, o, t, a) /\ symbols[i].value = ToWord(a)
    BY <2>6, <2>7 DEF ComesFrom
  <2>9. ToWord(a) \in Int
    BY <2>8, ToWordType, Bases DEF Word
  <2>10. \A x \in Int : ToWord(TargetAddress + x) = ToWord(a + x)
    BY <2>4, <2>8, ToWordAbsorbs
  <2>11. <<o, t>> \in Meanings(object, Item.symbol)
    BY <1>1, <1>3, <2>7, MeaningsAre
  <2>12. ASSUME NEW d \in Meanings(object, Item.symbol)
         PROVE  d = <<o, t>>
    <3>1. PICK p \in ObjectIndices : \E u \in SymbolIndices(p) :
            /\ d = <<p, u>>
            /\ DefinesGlobal(Definition(p, u))
            /\ Definition(p, u).name = Reference.name
      BY <1>1, <1>3, <2>12, MeaningsAre
    <3>2. PICK u \in SymbolIndices(p) :
            /\ d = <<p, u>>
            /\ DefinesGlobal(Definition(p, u))
            /\ Definition(p, u).name = Reference.name
      BY <3>1
    <3>3. Collected(p, u)
      BY <1>1 DEF Collected
    <3>4. QED
      BY <2>6, <2>7, <3>2, <3>3 DEF Tables, GlobalsDiffer
  <2>13. QED
    BY <2>4, <2>8, <2>9, <2>10, <2>11, <2>12
<1>4. QED
  BY <1>2, <1>3

(* A symbol is unresolved only if no object defines it.                    *)
LEMMA UnresolvedIsTrue ==
  ASSUME IInv, LinkInv, UnresolvedSymbol
  PROVE  LinkInv'
<1>1. /\ InLoop("relocate") /\ stage = "relocate" /\ Unresolved
      /\ Fail("UNRESOLVED_SYMBOL")
  BY DEF UnresolvedSymbol, InLoop
<1>2. /\ object \in ObjectIndices /\ source \in RelocationIndices(object)
      /\ Item = Objects[object].relocations[source]
      /\ Reference = Definition(object, Item.symbol)
  BY <1>1, RelocatedItem
<1>3. Meanings(object, Item.symbol) = {}
  <2> SUFFICES ASSUME NEW d \in Meanings(object, Item.symbol)
               PROVE  FALSE
    OBVIOUS
  <2>1. PICK p \in ObjectIndices : \E u \in SymbolIndices(p) :
          /\ DefinesGlobal(Definition(p, u))
          /\ Definition(p, u).name = Reference.name
    BY <1>1, <1>2, MeaningsAre DEF Unresolved
  <2>2. PICK u \in SymbolIndices(p) :
          /\ DefinesGlobal(Definition(p, u))
          /\ Definition(p, u).name = Reference.name
    BY <2>1
  <2>3. Collected(p, u)
    BY <1>1 DEF Collected
  <2>4. \E i \in 1..Len(symbols) : /\ DefinesGlobal(symbols[i])
                                   /\ symbols[i].name = Reference.name
    BY <1>1, <2>2, <2>3 DEF LinkInv, Tables, GlobalsKept
  <2>5. QED
    BY <1>1, <2>4 DEF Unresolved, Definitions
<1>4. HasUnresolved
  BY <1>2, <1>3 DEF HasUnresolved
<1>5. QED
  BY <1>1, <1>4, FailKeeps

(* A symbol is a duplicate only of another definition.                     *)
LEMMA DuplicateIsTrue ==
  ASSUME IInv, LinkInv, DuplicateSymbol
  PROVE  LinkInv'
<1>1. /\ InLoop("collect") /\ stage = "collect" /\ IsDuplicate(Item)
      /\ Fail("DUPLICATE_SYMBOL")
  BY DEF DuplicateSymbol, InLoop
<1>2. /\ object \in ObjectIndices /\ source \in SymbolIndices(object)
      /\ Item = Definition(object, source) /\ object \in Nat /\ source \in Nat
  BY <1>1, CollectedItem
<1>3. PICK i \in 1..Len(symbols) :
        DefinesGlobal(symbols[i]) /\ symbols[i].name = Item.name
  BY <1>1 DEF IsDuplicate
<1>4. PICK o \in ObjectIndices : \E t \in SymbolIndices(o) :
        Collected(o, t) /\ ComesFrom(symbols[i], placed, o, t)
  BY <1>1 DEF LinkInv, Tables, SymbolsCome
<1>5. PICK t \in SymbolIndices(o) :
        Collected(o, t) /\ ComesFrom(symbols[i], placed, o, t)
  BY <1>4
<1>6. DefinesGlobal(Definition(o, t)) /\ Definition(o, t).name = Item.name
  BY <1>3, <1>5 DEF ComesFrom, DefinesGlobal
<1>7. <<o, t>> # <<object, source>>
  <2>1. output = NoImage
    BY <1>1 DEF LinkInv, Verdict
  <2>2. Passed(o, t)
    BY <1>1, <1>5, <2>1 DEF Collected
  <2>3. QED
    BY <1>2, <2>2 DEF Passed
<1>8. HasDuplicate
  BY <1>1, <1>2, <1>6, <1>7 DEF HasDuplicate, IsDuplicate
<1>9. QED
  BY <1>1, <1>8, FailKeeps

-----------------------------------------------------------------------------
(* The application of a relocation.                                        *)
LEMMA ApplyKeeps ==
  ASSUME IInv, LinkInv, ApplyRelocation
  PROVE  LinkInv'
<1> DEFINE relocation == Objects[object].relocations[source]
           D     == Destination
           value == ToWord(RelocatedValue)
           n     == Len(placed)
           new   == [placed[D] EXCEPT !.data =
                       Written(placed[D].data, relocation.offset, value)]
<1>1. /\ InLoop("relocate") /\ stage = "relocate" /\ ~Unresolved
      /\ FitsField(RelocatedValue) /\ source' = source + 1
      /\ placed' = [placed EXCEPT ![Destination].data =
                      Written(@, Item.offset, ToWord(RelocatedValue))]
      /\ UNCHANGED <<request, stage, object, cursor, symbols, error, output>>
  BY DEF ApplyRelocation, InLoop
<1>2. Tables /\ output = NoImage /\ error = "NONE"
  BY <1>1 DEF LinkInv, Verdict
<1>3. /\ object \in ObjectIndices /\ Acceptable(Objects[object])
      /\ source \in RelocationIndices(object)
      /\ object \in Nat /\ source \in Nat /\ Item = relocation
      /\ HasPlace(object, Item.section)
  BY <1>1, RelocatedItem
<1>4. /\ relocation.offset \in Nat /\ relocation.addend \in Int
      /\ \A p \in 1..n : IsPlace(placed, p, object, relocation.section) =>
           \A k \in 1..4 : relocation.offset + k \in DOMAIN placed[p].data
  BY <1>3, RelocationType
<1>5. D \in 1..n /\ IsPlace(placed, D, object, relocation.section)
  BY <1>3, Found DEF Destination, IsPlace
<1>6. value \in Word
  <2>1. RelocatedValue \in Int
    BY <1>1, Bases DEF FitsField, Word, SWORD_MIN, SWORD_MAX
  <2>2. QED
    BY <2>1, ToWordType
<1>7. placed' = [placed EXCEPT ![D] = new]
  BY <1>1, <1>3
<1> HIDE DEF D, value, relocation
<1>8. placed \in Seq(PlacedSection) /\ n \in Nat
  BY DEF IInv, TypeOK
<1>9. placed[D] \in PlacedSection
  BY <1>5, <1>8, ElementOfSeq
<1>10. /\ new.data = Written(placed[D].data, relocation.offset, value)
       /\ new.object = placed[D].object /\ new.source = placed[D].source
       /\ new.address = placed[D].address /\ new.size = placed[D].size
       /\ new.type = placed[D].type
  BY <1>9 DEF PlacedSection
<1> HIDE DEF new
<1>11. /\ Len(placed') = n
       /\ \A j \in 1..n : placed'[j] = IF j = D THEN new ELSE placed[j]
  BY <1>5, <1>7, <1>8
<1>12. \A j \in 1..n : /\ placed'[j].object = placed[j].object
                       /\ placed'[j].source = placed[j].source
                       /\ placed'[j].address = placed[j].address
  BY <1>10, <1>11
<1> HIDE DEF n
<1>13. /\ \A j, o, s : j \in 1..n => (IsPlace(placed', j, o, s) <=>
                                      IsPlace(placed, j, o, s))
       /\ \A o, t, a : Located(placed', o, t, a) <=> Located(placed, o, t, a)
  BY <1>11, <1>12 DEF IsPlace, Located, n
<1>14. \A o \in ObjectIndices : \A t : Collected(o, t) /\ Collected(o, t)'
  BY <1>1 DEF Collected
<1>15. \A o \in ObjectIndices : \A r \in RelocationIndices(o) :
         Relocated(o, r)' => Relocated(o, r) \/ (o = object /\ r = source)
  <2> SUFFICES ASSUME NEW o \in ObjectIndices, NEW r \in RelocationIndices(o),
                      Relocated(o, r)'
               PROVE  Relocated(o, r) \/ (o = object /\ r = source)
    OBVIOUS
  <2>1. Passed(o, r)'
    BY <1>1, <1>2 DEF Relocated
  <2>2. r \in Nat
    <3>1. Acceptable(Objects[o]) /\ TypeOK
      BY <1>1 DEF IInv, Accepted
    <3>2. QED
      BY <3>1, Lists
  <2>3. Passed(o, r) \/ (o = object /\ r = source)
    BY <1>1, <1>3, <2>1, <2>2 DEF Passed
  <2>4. QED
    BY <1>1, <2>3 DEF Relocated
<1>16. SymbolsCome' /\ GlobalsKept' /\ GlobalsDiffer'
  <2>1. \A o, t : Definition(o, t)' = Definition(o, t)
    BY <1>1, SameRequest
  <2>2. \A o, t, a : Located(placed, o, t, a)' <=> Located(placed', o, t, a)
    BY <2>1 DEF Located, IsPlace
  <2>3. \A s : \A o, t : ComesFrom(symbols[s], placed, o, t)' <=>
                         ComesFrom(symbols[s], placed, o, t)
    <3> SUFFICES ASSUME NEW s, NEW o, NEW t
                 PROVE  ComesFrom(symbols[s], placed, o, t)' <=>
                        ComesFrom(symbols[s], placed, o, t)
      OBVIOUS
    <3>1. symbols' = symbols
      BY <1>1
    <3>2. \A a : Located(placed, o, t, a)' <=> Located(placed, o, t, a)
      BY <1>13, <2>2
    <3>3. QED
      BY <2>1, <3>1, <3>2 DEF ComesFrom
  <2>4. SymbolsCome'
    <3>1. UNCHANGED <<symbols, ObjectIndices>>
          /\ \A o : SymbolIndices(o)' = SymbolIndices(o)
      BY <1>1, SameRequest
    <3>2. \A i \in 1..Len(symbols) :
            \E o \in ObjectIndices : \E t \in SymbolIndices(o) :
              Collected(o, t)' /\ ComesFrom(symbols[i], placed, o, t)'
      BY <1>2, <1>14, <2>3 DEF Tables, SymbolsCome
    <3>3. QED
      BY <3>1, <3>2 DEF SymbolsCome
  <2>5. GlobalsKept' /\ GlobalsDiffer'
    BY <1>1, <1>2, <1>14, SameRequest
       DEF Tables, GlobalsKept, GlobalsDiffer, DefinesGlobal
  <2>6. QED
    BY <2>4, <2>5
<1>17. PlacesDiffer'
  BY <1>2, <1>11, <1>12 DEF Tables, PlacesDiffer, n
<1>18. Placing'
  BY <1>1 DEF Placing
<1>19. ASSUME NEW o \in ObjectIndices, NEW r \in RelocationIndices(o),
              Relocated(o, r)'
       PROVE  FieldHolds(placed', o, r)
  <2> DEFINE that == Objects[o].relocations[r]
  <2>1. CASE o = object /\ r = source
    <3>1. /\ TargetAddress \in Int
          /\ Meanings(o, relocation.symbol) # {}
          /\ \A d \in Meanings(o, relocation.symbol) :
               \E a \in Int : /\ Located(placed, d[1], d[2], a)
                              /\ \A x \in Int :
                                   ToWord(TargetAddress + x) = ToWord(a + x)
      BY <1>1, <1>2, <1>3, <2>1, TargetIsMeant
    <3>2. /\ D \in 1..Len(placed') /\ IsPlace(placed', D, o, relocation.section)
          /\ placed'[D] = new /\ placed'[D].address = placed[D].address
      BY <1>5, <1>10, <1>11, <1>13, <2>1
    <3>3. FieldOf(placed'[D], relocation.offset) = value
      BY <1>4, <1>5, <1>6, <1>10, <3>2, FieldWritten
    <3> DEFINE place == IF relocation.pcRelative
                          THEN placed'[D].address + relocation.offset ELSE 0
    <3>4. place \in Int /\ RelocatedValue = TargetAddress + relocation.addend - place
      <4>1. placed[D].address \in Int
        BY <1>9, LinkerAssumption, Bases DEF PlacedSection, Word
      <4>2. Place = placed[D].address + relocation.offset
        BY <1>3 DEF Place, D
      <4>3. QED
        BY <1>3, <1>4, <3>2, <4>1, <4>2 DEF RelocatedValue
    <3> HIDE DEF place
    <3>5. ASSUME NEW d \in Meanings(o, relocation.symbol)
          PROVE  \E a \in Int : /\ Located(placed', d[1], d[2], a)
                                /\ value = ToWord(a + relocation.addend - place)
      <4>1. PICK a \in Int : /\ Located(placed, d[1], d[2], a)
                             /\ \A x \in Int :
                                  ToWord(TargetAddress + x) = ToWord(a + x)
        BY <3>1
      <4>2. ToWord(TargetAddress + (relocation.addend - place)) =
              ToWord(a + (relocation.addend - place))
        BY <1>4, <3>4, <4>1
      <4>3. /\ RelocatedValue = TargetAddress + (relocation.addend - place)
            /\ a + relocation.addend - place = a + (relocation.addend - place)
        BY <1>4, <3>1, <3>4, <4>1
      <4>4. value = ToWord(a + relocation.addend - place)
        BY <4>2, <4>3 DEF value
      <4>5. QED
        BY <1>13, <4>1, <4>4
    <3>6. Objects[o].relocations[r] = relocation
      BY <2>1 DEF relocation
    <3>7. QED
      BY <3>1, <3>2, <3>3, <3>5, <3>6 DEF FieldHolds, place
  <2>2. CASE ~(o = object /\ r = source)
    <3>1. Relocated(o, r) /\ Acceptable(Objects[o])
      BY <1>1, <1>15, <1>19, <2>2 DEF IInv, Accepted
    <3>2. FieldHolds(placed, o, r)
      BY <1>2, <3>1 DEF Tables, FieldsHold
    <3>3. /\ that.offset \in Nat
          /\ \A p \in 1..n : IsPlace(placed, p, o, that.section) =>
               \A k \in 1..4 : that.offset + k \in DOMAIN placed[p].data
      BY <3>1, RelocationType DEF n
    <3>4. PICK p \in 1..n :
            /\ IsPlace(placed, p, o, that.section)
            /\ ~Overwritten(o, r) =>
                 \A d \in Meanings(o, that.symbol) :
                   \E a \in Int :
                     /\ Located(placed, d[1], d[2], a)
                     /\ FieldOf(placed[p], that.offset) =
                          ToWord(a + that.addend -
                                   (IF that.pcRelative
                                      THEN placed[p].address + that.offset
                                      ELSE 0))
      BY <3>2 DEF FieldHolds, n
    <3>5. ASSUME ~Overwritten(o, r)
          PROVE  FieldOf(placed'[p], that.offset) = FieldOf(placed[p], that.offset)
      <4>1. CASE p = D
        <5>1. o = object /\ that.section = relocation.section
          BY <1>5, <3>4, <4>1 DEF IsPlace
        <5>2. source \in (r + 1)..Len(Objects[o].relocations)
          <6>1. r < source
            BY <1>1, <1>2, <1>3, <3>1, <5>1 DEF Relocated, Passed
          <6>2. Len(Objects[o].relocations) \in Nat /\ r \in Nat
            BY <3>1, Lists DEF IInv
          <6>3. source <= Len(Objects[o].relocations)
            BY <1>3, <5>1, <6>2 DEF RelocationIndices
          <6>4. QED
            BY <1>3, <6>1, <6>2, <6>3
        <5>3. that.offset - relocation.offset
                \notin (1 - FIELD_SIZE)..(FIELD_SIZE - 1)
          BY <3>5, <5>1, <5>2 DEF Overwritten, relocation
        <5>4. placed'[p].data = Written(placed[p].data, relocation.offset, value)
          BY <1>5, <1>10, <1>11, <4>1
        <5>5. /\ relocation.offset \in Nat /\ that.offset \in Nat
              /\ \A k \in 1..4 : that.offset + k \in DOMAIN placed[p].data
          BY <1>4, <3>3, <3>4
        <5>6. QED
          BY <1>6, <5>3, <5>4, <5>5, OtherFieldKept
      <4>2. CASE p # D
        <5>1. placed'[p] = placed[p]
          BY <1>11, <4>2
        <5>2. QED
          BY <5>1
      <4>3. QED
        BY <4>1, <4>2
    <3>6. /\ p \in 1..Len(placed') /\ IsPlace(placed', p, o, that.section)
          /\ placed'[p].address = placed[p].address
      BY <1>11, <1>12, <1>13, <3>4
    <3>7. Meanings(o, that.symbol) # {}
      BY <3>2 DEF FieldHolds
    <3>8. ~Overwritten(o, r) =>
            \A d \in Meanings(o, that.symbol) :
              \E a \in Int :
                /\ Located(placed', d[1], d[2], a)
                /\ FieldOf(placed'[p], that.offset) =
                     ToWord(a + that.addend -
                              (IF that.pcRelative
                                 THEN placed'[p].address + that.offset
                                 ELSE 0))
      BY <1>13, <3>4, <3>5, <3>6
    <3>9. QED
      BY <3>6, <3>7, <3>8 DEF FieldHolds
  <2>3. QED
    BY <2>1, <2>2
<1>20. FieldsHold'
  <2>1. \A o, r : FieldHolds(placed, o, r)' <=> FieldHolds(placed', o, r)
    <3> TAKE o, r
    <3>1. \A p, t, a : Located(placed, p, t, a)' <=> Located(placed', p, t, a)
      <4>1. \A p, t : Definition(p, t)' = Definition(p, t)
        BY <1>1, SameRequest
      <4>2. QED
        BY <4>1 DEF Located, IsPlace
    <3>2. Objects' = Objects
      BY <1>1, SameRequest
    <3>3. /\ Overwritten(o, r)' <=> Overwritten(o, r)
          /\ \A t : Meanings(o, t)' = Meanings(o, t)
      BY <1>1, SameRequest
    <3>4. \A p, t : IsPlace(placed, p, o, t)' <=> IsPlace(placed', p, o, t)
      BY DEF IsPlace
    <3>5. \A p, x : FieldOf(placed[p], x)' = FieldOf(placed'[p], x)
      BY DEF FieldOf
    <3>6. QED
      BY <3>1, <3>2, <3>3, <3>4, <3>5 DEF FieldHolds
  <2>2. ObjectIndices' = ObjectIndices
        /\ \A o : RelocationIndices(o)' = RelocationIndices(o)
    BY <1>1, SameRequest
  <2>3. QED
    BY <1>19, <2>1, <2>2 DEF FieldsHold
<1>21. Verdict' /\ EntryFound'
  BY <1>1, <1>2 DEF Verdict, EntryFound
<1>22. QED
  BY <1>16, <1>17, <1>18, <1>20, <1>21 DEF LinkInv, Tables

-----------------------------------------------------------------------------
(* The encoder adds the verdict and changes no table.                      *)
LEMMA EncodeKeeps ==
  ASSUME IInv, LinkInv, Encode
  PROVE  LinkInv'
<1>1. /\ stage = "encode" /\ stage' = "done" /\ EntryInText
      /\ output' = [kind |-> "executable", entry |-> Entry, sections |-> placed]
      /\ UNCHANGED <<request, object, source, cursor, placed, symbols, error>>
  BY DEF Encode, position
<1>2. Tables /\ output = NoImage /\ error = "NONE" /\ Entry # 0
  BY <1>1 DEF LinkInv, Verdict, EntryFound
<1>3. UNCHANGED Entry
  BY <1>1, SameRequest DEF Entry, EntrySymbols
<1>4. UNCHANGED EntryInText
  BY <1>1, <1>3 DEF EntryInText
<1>5. Verdict' /\ EntryFound'
  <2>1. AllPlaced
    BY <1>1 DEF IInv, AllReachedPlaced, Reached, AllPlaced
  <2>2. AllPlaced'
    BY <1>1, <2>1 DEF AllPlaced, ObjectIndices, SectionIndices, Objects, HasPlace
  <2>3. QED
    BY <1>1, <1>2, <1>3, <1>4, <2>2 DEF Verdict, EntryFound
<1>6. CASE output' # NoImage
  <2>1. Placing'
    BY <1>1 DEF Placing
  <2>2. /\ \A o, t : Collected(o, t)' <=> Collected(o, t)
        /\ \A o, r : Relocated(o, r)' <=> Relocated(o, r)
    BY <1>1, <1>6 DEF Collected, Relocated
  <2>3. Tables'
    BY <1>1, <1>2, <2>1, <2>2, SameTables
  <2>4. QED
    BY <1>5, <2>3 DEF LinkInv
<1>7. CASE output' = NoImage
  BY <1>1, <1>5, <1>7 DEF LinkInv
<1>8. QED
  BY <1>6, <1>7

(* Before the call nothing is collected, placed or relocated.              *)
LEMMA InitKeeps == Init => LinkInv
<1> SUFFICES ASSUME Init
             PROVE  LinkInv
  OBVIOUS
<1>1. /\ stage = "call" /\ output = NoImage /\ error = "NONE"
      /\ placed = << >> /\ symbols = << >> /\ Len(placed) = 0 /\ Len(symbols) = 0
  BY DEF Init
<1>2. \A o, t : ~Collected(o, t) /\ ~Relocated(o, t)
  BY <1>1 DEF Collected, Relocated
<1>3. SymbolsCome /\ GlobalsKept /\ GlobalsDiffer
  BY <1>1, <1>2 DEF SymbolsCome, GlobalsKept, GlobalsDiffer
<1>4. PlacesDiffer /\ FieldsHold
  BY <1>1, <1>2 DEF PlacesDiffer, FieldsHold
<1>5. Placing
  BY <1>1 DEF Placing
<1>6. QED
  BY <1>1, <1>3, <1>4, <1>5 DEF LinkInv, Tables, Verdict, EntryFound

(* Nothing changes without a step.                                         *)
LEMMA StutterKeeps ==
  ASSUME LinkInv, UNCHANGED vars
  PROVE  LinkInv'
<1>1. /\ UNCHANGED <<request, stage, object, source, cursor, placed, symbols,
                     error, output>>
  BY DEF vars, position
<1>2. /\ \A o, t : Collected(o, t)' <=> Collected(o, t)
      /\ \A o, r : Relocated(o, r)' <=> Relocated(o, r)
  BY <1>1 DEF Collected, Relocated, Passed
<1>3. Placing' <=> Placing
  BY <1>1, SameRequest DEF Placing, Passed
<1>4. Tables => Tables'
  BY <1>1, <1>2, <1>3, SameTables DEF Tables
<1>5. UNCHANGED Entry
  BY <1>1, SameRequest DEF Entry, EntrySymbols
<1>6. UNCHANGED EntryInText
  BY <1>1, <1>5 DEF EntryInText
<1>7. Verdict' <=> Verdict
  BY <1>1, SameRequest DEF Verdict
<1>8. EntryFound' <=> EntryFound
  <2>1. UNCHANGED AllPlaced
    BY <1>1 DEF AllPlaced, ObjectIndices, SectionIndices, Objects, HasPlace
  <2>2. QED
    BY <1>1, <1>5, <1>6, <2>1 DEF EntryFound
<1>9. QED
  BY <1>1, <1>4, <1>7, <1>8 DEF LinkInv

(* The arguments of the call stay.                                         *)
LEMMA RequestStays == [Next]_vars => request' = request
BY DEF Next, Proceed, vars, IncompatibleObject, BeginLink, NextObject, EndLoop,
       PlacementFault, PlaceSection, DuplicateSymbol, CollectSymbol,
       UnresolvedSymbol, RelocationOverflow, ApplyRelocation, NoEntry,
       SelectEntry, EncodeRefused, Encode, OutOfMemory, Fail

(* A section that is placed has the size it has in its object.             *)
SizesKept ==
  \A i \in 1..Len(placed) :
    placed[i].size = Objects[placed[i].object].sections[placed[i].source].size

LEMMA SizesInit == Init => SizesKept
<1> SUFFICES ASSUME Init
             PROVE  SizesKept
  OBVIOUS
<1>1. Len(placed) = 0
  BY DEF Init
<1>2. QED
  BY <1>1 DEF SizesKept

LEMMA SizesNext ==
  ASSUME TypeOK, SizesKept, [Next]_vars
  PROVE  SizesKept'
<1>1. Objects' = Objects
  BY RequestStays DEF Objects
<1>2. CASE UNCHANGED placed
  BY <1>1, <1>2 DEF SizesKept
<1>3. CASE PlaceSection
  <2>1. PICK address : placed' = Append(placed, [object |-> object, source |-> source,
                                   type |-> Item.type, address |-> address,
                                   size |-> Item.size, data |-> Item.data])
    BY <1>3 DEF PlaceSection
  <2>2. Item = Objects[object].sections[source]
    BY <1>3 DEF PlaceSection, InLoop, Item, Items, Current
  <2> DEFINE new == [object |-> object, source |-> source, type |-> Item.type,
                     address |-> address, size |-> Item.size, data |-> Item.data]
  <2>3. new.object = object /\ new.source = source /\ new.size = Item.size
    OBVIOUS
  <2>4. placed' = Append(placed, new)
    BY <2>1
  <2> HIDE DEF new
  <2>5. ASSUME NEW i \in 1..Len(placed')
        PROVE  placed'[i] = new \/ (i \in 1..Len(placed) /\ placed'[i] = placed[i])
    <3> DEFINE T == PlacedSection \cup {new}
    <3>1. placed \in Seq(T) /\ new \in T
      BY DEF TypeOK
    <3> HIDE DEF T
    <3>2. /\ Len(placed) \in Nat /\ Len(placed') = Len(placed) + 1
          /\ placed'[Len(placed) + 1] = new
          /\ \A k \in 1..Len(placed) : placed'[k] = placed[k]
      BY <2>4, <3>1
    <3>3. i \in 1..Len(placed) \/ i = Len(placed) + 1
      BY <3>2, OldOrLast
    <3>4. QED
      BY <3>2, <3>3
  <2>6. QED
    BY <1>1, <2>2, <2>3, <2>5 DEF SizesKept
<1>4. CASE ApplyRelocation
  <2>1. placed \in Seq(PlacedSection)
    BY DEF TypeOK
  <2>2. PICK data : placed' = [placed EXCEPT ![Destination].data = data]
    BY <1>4 DEF ApplyRelocation
  <2>3. Len(placed') = Len(placed)
    BY <2>1, <2>2
  <2>4. ASSUME NEW i \in 1..Len(placed)
        PROVE  /\ placed'[i].object = placed[i].object
               /\ placed'[i].source = placed[i].source
               /\ placed'[i].size = placed[i].size
    <3>1. placed[i] \in PlacedSection
      BY <2>1
    <3>2. placed'[i] = IF i = Destination THEN [placed[i] EXCEPT !.data = data]
                                          ELSE placed[i]
      BY <2>1, <2>2
    <3>3. QED
      BY <3>1, <3>2 DEF PlacedSection
  <2>5. QED
    BY <1>1, <2>3, <2>4 DEF SizesKept
<1>5. QED
  BY <1>2, <1>3, <1>4
     DEF Next, Proceed, vars, IncompatibleObject, BeginLink, NextObject, EndLoop,
         PlacementFault, DuplicateSymbol, CollectSymbol, UnresolvedSymbol,
         RelocationOverflow, NoEntry, SelectEntry, EncodeRefused, Encode,
         OutOfMemory, Fail

(* Every step keeps what the tables mean.                                  *)
LEMMA NextKeeps == IInv /\ LinkInv /\ [Next]_vars => LinkInv'
<1> SUFFICES ASSUME IInv, LinkInv, [Next]_vars
             PROVE  LinkInv'
  OBVIOUS
<1>1. CASE BeginLink \/ NextObject \/ EndLoop \/ SelectEntry
  BY <1>1, WalkKeeps
<1>2. CASE \/ IncompatibleObject \/ OutOfMemory \/ RelocationOverflow
           \/ NoEntry \/ EncodeRefused
  BY <1>2, PlainRefusals
<1>3. CASE PlacementFault
  BY <1>3, OverlapIsTrue
<1>4. CASE PlaceSection
  BY <1>4, PlaceKeeps
<1>5. CASE DuplicateSymbol
  BY <1>5, DuplicateIsTrue
<1>6. CASE CollectSymbol
  BY <1>6, CollectKeeps
<1>7. CASE UnresolvedSymbol
  BY <1>7, UnresolvedIsTrue
<1>8. CASE ApplyRelocation
  BY <1>8, ApplyKeeps
<1>9. CASE Encode
  BY <1>9, EncodeKeeps
<1>10. CASE UNCHANGED vars
  BY <1>10, StutterKeeps
<1>11. QED
  BY <1>1, <1>2, <1>3, <1>4, <1>5, <1>6, <1>7, <1>8, <1>9, <1>10
     DEF Next, Proceed

-----------------------------------------------------------------------------
(* What the invariant says of an executable.                               *)
LEMMA VerdictFollows == LinkInv => VerdictIsTrue
<1> SUFFICES ASSUME LinkInv
             PROVE  VerdictIsTrue
  OBVIOUS
<1>1. ASSUME output # NoImage
      PROVE  ~HasDuplicate /\ ~HasUnresolved
  <2>1. Tables
    BY <1>1 DEF LinkInv
  <2>2. ~HasDuplicate
    BY <1>1, <2>1 DEF Tables, GlobalsDiffer, HasDuplicate, Collected
  <2>3. ~HasUnresolved
    BY <1>1, <2>1
       DEF Tables, FieldsHold, FieldHolds, HasUnresolved, Relocated
  <2>4. QED
    BY <2>2, <2>3
<1>2. QED
  BY <1>1 DEF LinkInv, Verdict, VerdictIsTrue

(* A field that holds, holds the address of all that it may mean.          *)
LEMMA ReferencesFollow == LinkInv => ReferencesHold
<1> SUFFICES ASSUME LinkInv, output # NoImage,
                    NEW o \in ObjectIndices, NEW r \in RelocationIndices(o)
             PROVE  LET relocation == Objects[o].relocations[r]
                        home  == output.sections[PlaceOf(o, relocation.section)]
                        place == IF relocation.pcRelative
                                   THEN home.address + relocation.offset ELSE 0
                        meanings == Meanings(o, relocation.symbol)
                    IN  /\ meanings # {}
                        /\ ~Overwritten(o, r) =>
                             \A d \in meanings :
                               FieldOf(home, relocation.offset) =
                                 ToWord(FinalAddress(d) + relocation.addend
                                          - place)
  BY DEF ReferencesHold
<1> DEFINE relocation == Objects[o].relocations[r]
           meanings   == Meanings(o, relocation.symbol)
<1>1. Tables /\ output.sections = placed
  BY DEF LinkInv, EntryFound
<1>2. FieldHolds(placed, o, r)
  BY <1>1 DEF Tables, FieldsHold, Relocated
<1>3. PICK p \in 1..Len(placed) :
        /\ IsPlace(placed, p, o, relocation.section)
        /\ ~Overwritten(o, r) =>
             \A d \in meanings :
               \E a \in Int :
                 /\ Located(placed, d[1], d[2], a)
                 /\ FieldOf(placed[p], relocation.offset) =
                      ToWord(a + relocation.addend -
                               (IF relocation.pcRelative
                                  THEN placed[p].address + relocation.offset
                                  ELSE 0))
  BY <1>2 DEF FieldHolds
<1>4. PlaceOf(o, relocation.section) = p
  BY <1>1, <1>3, FoundThere DEF Tables
<1>5. meanings # {}
  BY <1>2 DEF FieldHolds
<1>6. ASSUME NEW d \in meanings, NEW a \in Int, Located(placed, d[1], d[2], a)
      PROVE  FinalAddress(d) = a
  <2>1. d = <<d[1], d[2]>>
    BY <1>6, MeaningsAre
  <2>2. FinalAddress(<<d[1], d[2]>>) = a
    BY <1>1, <1>6, FinalAddressIs DEF Tables
  <2>3. QED
    BY <2>1, <2>2
<1>7. QED
  BY <1>1, <1>3, <1>4, <1>5, <1>6

(* The entry is the value of a collected symbol.                           *)
LEMMA LoadsFollows == IInv /\ LinkInv => LinkedImageLoads
<1> SUFFICES ASSUME IInv, LinkInv, output # NoImage
             PROVE  LinkedImageLoads
  BY DEF LinkedImageLoads
<1>1. /\ Tables /\ error = "NONE" /\ output.sections = placed
      /\ output.entry = Entry /\ Entry # 0 /\ EntryInText
  BY DEF LinkInv, EntryFound
<1>2. \A i \in 1..Len(placed) : Bytes(placed[i]) \subseteq 0..(RomSize - 1)
  BY DEF IInv, SectionsApart
<1>3. \E i \in 1..Len(placed) :
        placed[i].type = "text" /\ Entry \in Bytes(placed[i])
  BY <1>1 DEF EntryInText, Bytes
<1>4. \E o \in ObjectIndices : \E s \in SymbolIndices(o) :
        /\ Definition(o, s).section # 0
        /\ Definition(o, s).name = SelectedEntry
        /\ Entry = ToWord(FinalAddress(<<o, s>>))
  <2>1. /\ EntrySymbols # {} /\ Entry = symbols[FirstOf(EntrySymbols)].value
    BY <1>1 DEF Entry
  <2>2. EntrySymbols \subseteq 1..Len(symbols) /\ Len(symbols) \in Nat
    BY DEF EntrySymbols, IInv, TypeOK
  <2>3. FirstOf(EntrySymbols) \in EntrySymbols
    BY <2>1, <2>2, FirstIsMember
  <2>4. PICK i \in 1..Len(symbols) :
          /\ symbols[i].section # 0 /\ symbols[i].name = SelectedEntry
          /\ Entry = symbols[i].value
    BY <2>1, <2>3 DEF EntrySymbols
  <2>5. PICK o \in ObjectIndices : \E t \in SymbolIndices(o) :
          ComesFrom(symbols[i], placed, o, t)
    BY <1>1 DEF Tables, SymbolsCome
  <2>6. PICK s \in SymbolIndices(o) : ComesFrom(symbols[i], placed, o, s)
    BY <2>5
  <2>7. PICK a \in Int : Located(placed, o, s, a) /\ symbols[i].value = ToWord(a)
    BY <2>4, <2>6 DEF ComesFrom
  <2>8. FinalAddress(<<o, s>>) = a
    BY <1>1, <2>7, FinalAddressIs DEF Tables
  <2>9. Definition(o, s).section # 0 /\ Definition(o, s).name = SelectedEntry
    BY <2>4, <2>6 DEF ComesFrom
  <2>10. QED
    BY <2>4, <2>7, <2>8, <2>9
<1>5. QED
  BY <1>1, <1>2, <1>3, <1>4 DEF LinkedImageLoads

-----------------------------------------------------------------------------
(* The tables of the linker mean what the objects say, at every step.      *)
(* Code: the symbol table and the section contents of zl_link_objects.     *)
THEOREM TablesAlways == Spec => [](IInv /\ LinkInv)
<1>1. Init => IInv /\ LinkInv
  BY InitOK, InitKeeps
<1>2. IInv /\ LinkInv /\ [Next]_vars => (IInv /\ LinkInv)'
  BY NextOK, NextKeeps
<1>3. QED
  BY <1>1, <1>2, PTL DEF Spec

(* A link is refused for a duplicate, an unresolved symbol or an overlap   *)
(* only for a reason the objects give, and never accepted in spite of one. *)
(* Code: the error paths of zl_link_objects.                               *)
THEOREM VerdictIsTrueAlways == Spec => []VerdictIsTrue
<1>1. IInv /\ LinkInv => VerdictIsTrue
  BY VerdictFollows
<1>2. QED
  BY <1>1, TablesAlways, PTL

(* Every field of an executable that is not overwritten by a later         *)
(* relocation holds the final address of what it refers to.                *)
(* Code: the symbol and relocation loops, find_section and write32.        *)
THEOREM ReferencesHoldAlways == Spec => []ReferencesHold
<1>1. IInv /\ LinkInv => ReferencesHold
  BY ReferencesFollow
<1>2. QED
  BY <1>1, TablesAlways, PTL

(* What is linked fits the ROM and starts at a symbol of the entry's name, *)
(* in the text.                                                            *)
(* Code: the ROM check of the placement loop, the selection of the entry.  *)
THEOREM LinkedImageLoadsAlways == Spec => []LinkedImageLoads
<1>1. IInv /\ LinkInv => LinkedImageLoads
  BY LoadsFollows
<1>2. QED
  BY <1>1, TablesAlways, PTL
=============================================================================
