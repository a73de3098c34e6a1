--------------------------- MODULE LinkProperties ---------------------------
(***************************************************************************)
(* What a caller of zl_link_objects may rely on, whatever the objects are. *)
(***************************************************************************)
EXTENDS Linker

ObjectIndices         == 1..Len(Objects)
SectionIndices(o)     == 1..Len(Objects[o].sections)
SymbolIndices(o)      == 1..Len(Objects[o].symbols)
RelocationIndices(o)  == 1..Len(Objects[o].relocations)

PlacedSection ==
  [object : Nat \ {0}, source : Nat \ {0}, type : SectionTypes,
   address : 0..RomSize, size : Nat, data : Seq(Byte)]

Errors == {"NONE", "OUT_OF_MEMORY", "INCOMPATIBLE_OBJECT", "DUPLICATE_SYMBOL",
           "UNRESOLVED_SYMBOL", "OVERLAP", "OVERFLOW", "NO_ENTRY"}

(* The variables hold values of their C types.                             *)
(* Code: struct LinkSection, ZlImageSymbol and the locals of               *)
(* zl_link_objects.                                                        *)
TypeOK ==
  /\ request \in Requests
  /\ stage \in Loops \cup {"call", "entry", "encode", "done"}
  /\ object \in Nat \ {0}
  /\ source \in Nat \ {0}
  /\ cursor \in 0..RomSize
  /\ placed \in Seq(PlacedSection)
  /\ symbols \in Seq(Symbol)
  /\ error \in Errors
  /\ output = NoImage \/ output.sections \in Seq(PlacedSection)

-----------------------------------------------------------------------------
Bytes(section) == section.address..(section.address + section.size - 1)

(* The sections that are placed lie in the ROM and share no byte, and a    *)
(* section without an address of its own is aligned as it asks, although   *)
(* explicit addresses come in any order and move the cursor back.          *)
(* Code: the placement loop, align_address and overlaps.                   *)
SectionsApart ==
  \A i \in 1..Len(placed) :
    LET section == placed[i]
        asked   == Objects[section.object].sections[section.source]
    IN  /\ Bytes(section) \subseteq 0..(RomSize - 1)
        /\ \A j \in 1..(i - 1) : Bytes(section) \cap Bytes(placed[j]) = {}
        /\ IF Automatic(asked) THEN section.address % asked.alignment = 0
                               ELSE section.address = asked.address

(* Relocation reaches only the fields it was asked to fill: every other    *)
(* byte of a placed section is that of its object, at every step.          *)
(* Code: write32 and its uses in the relocation loop.                      *)
OnlyReferencesChange ==
  \A i \in 1..Len(placed) :
    LET section == placed[i]
        input   == Objects[section.object].sections[section.source]
        fields  == {r \in RelocationIndices(section.object) :
                      Objects[section.object].relocations[r].section =
                        section.source}
    IN  /\ DOMAIN section.data = DOMAIN input.data
        /\ \A k \in DOMAIN input.data :
             section.data[k] # input.data[k] =>
               \E r \in fields :
                 k - 1 - Objects[section.object].relocations[r].offset
                   \in 0..(FIELD_SIZE - 1)

-----------------------------------------------------------------------------
Definition(o, s) == Objects[o].symbols[s]

(* What a reference of object o to its symbol s means, as <<object, index  *)
(* of the symbol>>.                                                        *)
Meanings(o, s) ==
  IF Definition(o, s).section # 0 THEN {<<o, s>>}
  ELSE {d \in UNION {{p} \X SymbolIndices(p) : p \in ObjectIndices} :
          /\ DefinesGlobal(Definition(d[1], d[2]))
          /\ Definition(d[1], d[2]).name = Definition(o, s).name}

FinalAddress(d) ==
  placed[PlaceOf(d[1], Definition(d[1], d[2]).section)].address
    + Definition(d[1], d[2]).value

FieldOf(section, offset) ==
  JoinWord(JoinHword(section.data[offset + 1], section.data[offset + 2]),
           JoinHword(section.data[offset + 3], section.data[offset + 4]))

(* A later relocation of the same section writes into the field, too.      *)
Overwritten(o, r) ==
  \E later \in (r + 1)..Len(Objects[o].relocations) :
    LET this == Objects[o].relocations[r]
        that == Objects[o].relocations[later]
    IN  /\ this.section = that.section
        /\ this.offset - that.offset \in (1 - FIELD_SIZE)..(FIELD_SIZE - 1)

(* In an executable every relocated field that no later one overwrites     *)
(* holds the final address of the one thing it refers to, plus the addend, *)
(* absolute or relative to the field, modulo the width of a word.          *)
(* Code: the relocation loop with find_section and the symbol lookup.      *)
ReferencesHold ==
  output # NoImage =>
    \A o \in ObjectIndices : \A r \in RelocationIndices(o) :
      LET relocation == Objects[o].relocations[r]
          home       == output.sections[PlaceOf(o, relocation.section)]
          place      == IF relocation.pcRelative
                          THEN home.address + relocation.offset ELSE 0
          meanings   == Meanings(o, relocation.symbol)
      IN  /\ meanings # {}
          /\ ~Overwritten(o, r) =>
               \A d \in meanings :
                 FieldOf(home, relocation.offset) =
                   ToWord(FinalAddress(d) + relocation.addend - place)

-----------------------------------------------------------------------------
HasDuplicate ==
  \E o, p \in ObjectIndices : \E s \in SymbolIndices(o), t \in SymbolIndices(p) :
    /\ <<o, s>> # <<p, t>>
    /\ DefinesGlobal(Definition(o, s))
    /\ DefinesGlobal(Definition(p, t))
    /\ Definition(o, s).name = Definition(p, t).name

HasUnresolved ==
  \E o \in ObjectIndices : \E r \in RelocationIndices(o) :
    Meanings(o, Objects[o].relocations[r].symbol) = {}

HasExplicitAddress ==
  \E o \in ObjectIndices : \E s \in SectionIndices(o) :
    ~Automatic(Objects[o].sections[s])

(* The verdict fits the objects, in whatever order they are given: a link  *)
(* is refused for a duplicate or unresolved symbol only if there is one,   *)
(* for an overlap only if an address was asked for, and it does not        *)
(* succeed in spite of a duplicate or unresolved symbol.                   *)
(* Code: the error paths of the symbol, relocation and placement loops.    *)
VerdictIsTrue ==
  /\ error = "DUPLICATE_SYMBOL"  => HasDuplicate
  /\ error = "UNRESOLVED_SYMBOL" => HasUnresolved
  /\ error = "OVERLAP"           => HasExplicitAddress
  /\ output # NoImage            => ~HasDuplicate /\ ~HasUnresolved

(* What is linked can be loaded and started: vm_loadImage finds every      *)
(* section inside the ROM, and the entry is not zero, lies in a text       *)
(* section and is where a symbol of the selected name ended up.            *)
(* Code: the ROM check of the placement loop, the selection of the entry.  *)
LinkedImageLoads ==
  output # NoImage =>
    /\ error = "NONE"
    /\ \A i \in 1..Len(output.sections) :
         Bytes(output.sections[i]) \subseteq 0..(RomSize - 1)
    /\ output.entry # 0
    /\ \E i \in 1..Len(output.sections) :
         /\ output.sections[i].type = "text"
         /\ output.entry \in Bytes(output.sections[i])
    /\ \E o \in ObjectIndices : \E s \in SymbolIndices(o) :
         /\ Definition(o, s).section # 0
         /\ Definition(o, s).name = SelectedEntry
         /\ output.entry = ToWord(FinalAddress(<<o, s>>))

(* The linker comes back, with a verdict, for every list of objects.       *)
(* Code: the three nested loops of zl_link_objects.                        *)
LinkReturns == <>(stage = "done")

(* "rejects overlaps and 32-bit overflow" (docs/ISA.md): an absolute field *)
(* of an executable would hold the very address it refers to.  Not so for  *)
(* a symbol of another object, whose address has wrapped before it is used.*)
(* Code: symbol.value += ..., against the 64 bits of a reference's own.    *)
NoAddressWraps ==
  output # NoImage =>
    \A o \in ObjectIndices : \A r \in RelocationIndices(o) :
      LET relocation == Objects[o].relocations[r]
          home       == output.sections[PlaceOf(o, relocation.section)]
      IN  ~relocation.pcRelative /\ ~Overwritten(o, r) =>
            \A d \in Meanings(o, relocation.symbol) :
              FieldOf(home, relocation.offset) =
                FinalAddress(d) + relocation.addend
=============================================================================
