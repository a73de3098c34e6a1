------------------------------- MODULE Linker -------------------------------
(***************************************************************************)
(* The static linker, zl_link_objects (emulator/src/Linker.c): one call,   *)
(* with a step for every turn of its loops.  It places the sections of all *)
(* objects, collects their symbols, applies their relocations and selects  *)
(* the entry.                                                              *)
(***************************************************************************)
EXTENDS ObjectFile

CONSTANTS
  RomSize,     \* ZLVM_ROM_SIZE
  Requests,    \* the calls: objects, as decoded, and the --entry or NoName
  NoName,      \* no entry symbol
  NoImage      \* no output (yet)

FIRST_ADDRESS == 8

ASSUME LinkerAssumption ==
  /\ RomSize \in Word
  /\ RomSize >= FIRST_ADDRESS
  /\ \A request \in Requests :
       /\ Len(request.objects) \in Nat \ {0}
       /\ \A o \in 1..Len(request.objects) :
            request.objects[o].valid => Decoded(request.objects[o])

VARIABLES
  request,   \* the arguments of the call
  stage,     \* the part of the function that runs
  object,    \* the counters of the loop it is in
  source,
  cursor,    \* where the next section goes by itself
  placed,    \* sections: the placed ones, in order, with their contents
  symbols,   \* symbols: those collected, with their final values
  error,     \* *error
  output     \* *output

position == <<object, source>>
vars == <<request, stage, object, source, cursor, placed, symbols, error,
          output>>

Loops   == {"place", "collect", "relocate"}
Objects == request.objects
Current == Objects[object]

(* The list the loop of this stage walks through, and its current item.    *)
Items == IF stage = "place" THEN Current.sections
         ELSE IF stage = "collect" THEN Current.symbols ELSE Current.relocations
InLoop(s) == stage = s /\ object <= Len(Objects) /\ source <= Len(Items)
Item == Items[source]

Fail(e) ==
  /\ error' = e
  /\ stage' = "done"
  /\ UNCHANGED <<request, position, cursor, placed, symbols, output>>

-----------------------------------------------------------------------------
(* Every object must decode, as an object, before anything is linked.      *)
Acceptable(obj) == obj.valid /\ obj.kind = "object"

IncompatibleObject ==
  /\ stage = "call"
  /\ \E o \in 1..Len(Objects) : ~Acceptable(Objects[o])
  /\ Fail("INCOMPATIBLE_OBJECT")

BeginLink ==
  /\ stage = "call"
  /\ \A o \in 1..Len(Objects) : Acceptable(Objects[o])
  /\ stage' = "place"
  /\ UNCHANGED <<request, position, cursor, placed, symbols, error, output>>

(* The stages begin with an allocation.  One that fails in the decoder or  *)
(* in the encoder is reported like any other failure of theirs.            *)
OutOfMemory ==
  /\ stage \in {"call", "place", "collect", "encode"}
  /\ position = <<1, 1>>
  /\ \/ Fail("OUT_OF_MEMORY")
     \/ stage \in {"call", "encode"} /\ Fail("INCOMPATIBLE_OBJECT")

(* Faulty variant: the outer loop forgets to advance.                      *)
NextObjectStuck ==
  /\ stage \in Loops
  /\ object <= Len(Objects)
  /\ source > Len(Items)
  /\ source' = 1
  /\ UNCHANGED <<request, stage, object, cursor, placed, symbols, error, output>>

NextObject ==
  /\ stage \in Loops
  /\ object <= Len(Objects)
  /\ source > Len(Items)
  /\ object' = object + 1
  /\ source' = 1
  /\ UNCHANGED <<request, stage, cursor, placed, symbols, error, output>>

EndLoop ==
  /\ stage \in Loops
  /\ object > Len(Objects)
  /\ stage' = IF stage = "place" THEN "collect"
              ELSE IF stage = "collect" THEN "relocate" ELSE "entry"
  /\ object' = 1
  /\ source' = 1
  /\ UNCHANGED <<request, cursor, placed, symbols, error, output>>

-----------------------------------------------------------------------------
(* Placement.  A section goes to its own address if it has one, which may  *)
(* be zero if it was located there, and otherwise to the next aligned one. *)
Automatic(section) == section.address = 0 /\ ~section.located

Aligned(value, alignment) ==
  ((value + alignment - 1) \div alignment) * alignment

AddressOf(section) ==
  IF Automatic(section) THEN Aligned(cursor, section.alignment)
                        ELSE section.address

(* Faulty variant: misses an earlier section inside of the new one.        *)
OverlapsInside(address, size) ==
  \E i \in 1..Len(placed) :
    /\ address < placed[i].address + placed[i].size
    /\ placed[i].address <= address

Overlaps(address, size) ==
  \E i \in 1..Len(placed) :
    /\ address < placed[i].address + placed[i].size
    /\ placed[i].address < address + size

(* Faulty variant: the size of the section is forgotten.                   *)
OutsideRomStart(address, size) == address > RomSize

OutsideRom(address, size) == address + size > RomSize

(* An aligned address that exceeds a word (align_address fails) would be   *)
(* outside of the ROM and past all sections: an overflow as well.          *)
PlacementFault ==
  /\ InLoop("place")
  /\ LET address == AddressOf(Item)
     IN  /\ OutsideRom(address, Item.size) \/ Overlaps(address, Item.size)
         /\ Fail(IF Overlaps(address, Item.size) THEN "OVERLAP"
                                                 ELSE "OVERFLOW")

PlaceSection ==
  /\ InLoop("place")
  /\ LET address == AddressOf(Item)
     IN  /\ ~OutsideRom(address, Item.size)
         /\ ~Overlaps(address, Item.size)
         /\ placed' = Append(placed, [object |-> object, source |-> source,
                                      type |-> Item.type, address |-> address,
                                      size |-> Item.size, data |-> Item.data])
         /\ cursor' = address + Item.size
  /\ source' = source + 1
  /\ UNCHANGED <<request, stage, object, symbols, error, output>>

(* find_section.  A section that is asked for has been placed by then, so  *)
(* the refusal of one without a place cannot be reached.                   *)
PlaceOf(o, s) ==
  CHOOSE i \in 1..Len(placed) : placed[i].object = o /\ placed[i].source = s

-----------------------------------------------------------------------------
(* Symbols.  Values become addresses, in the width of the symbol's field.  *)

(* Faulty variant: an import counts as a definition.                       *)
DefinesOrImports(symbol) == symbol.binding = "global"

DefinesGlobal(symbol) == symbol.binding = "global" /\ symbol.section # 0

(* Faulty variant: only the symbol before is looked at.                    *)
IsDuplicateNext(symbol) ==
  /\ DefinesGlobal(symbol)
  /\ symbols # << >>
  /\ DefinesGlobal(symbols[Len(symbols)])
  /\ symbols[Len(symbols)].name = symbol.name

IsDuplicate(symbol) ==
  /\ DefinesGlobal(symbol)
  /\ \E i \in 1..Len(symbols) :
       DefinesGlobal(symbols[i]) /\ symbols[i].name = symbol.name

DuplicateSymbol ==
  /\ InLoop("collect")
  /\ IsDuplicate(Item)
  /\ Fail("DUPLICATE_SYMBOL")

(* Faulty variant: a value stays relative to its section.                  *)
LinkedUnmoved(symbol) ==
  IF symbol.section = 0 THEN symbol
  ELSE [symbol EXCEPT !.section = PlaceOf(object, symbol.section)]

Linked(symbol) ==
  IF symbol.section = 0 THEN symbol
  ELSE LET i == PlaceOf(object, symbol.section)
       IN  [symbol EXCEPT !.value = ToWord(@ + placed[i].address),
                          !.section = i]

CollectSymbol ==
  /\ InLoop("collect")
  /\ ~IsDuplicate(Item)
  /\ symbols' = Append(symbols, Linked(Item))
  /\ source' = source + 1
  /\ UNCHANGED <<request, stage, object, cursor, placed, error, output>>

-----------------------------------------------------------------------------
(* Relocations.  A reference to a symbol that its object defines means     *)
(* that one; otherwise a defined global symbol of that name.               *)
Reference == Current.symbols[Item.symbol]

Definitions(name) ==
  {i \in 1..Len(symbols) : DefinesGlobal(symbols[i]) /\ symbols[i].name = name}

FirstOf(S) == CHOOSE i \in S : \A j \in S : i <= j

TargetAddress ==
  IF Reference.section # 0
    THEN placed[PlaceOf(object, Reference.section)].address + Reference.value
    ELSE symbols[FirstOf(Definitions(Reference.name))].value

Destination == PlaceOf(object, Item.section)

(* Faulty variant: relative to the section instead of to the field.        *)
PlaceStart == placed[Destination].address

Place == placed[Destination].address + Item.offset

RelocatedValue ==
  TargetAddress + Item.addend - (IF Item.pcRelative THEN Place ELSE 0)

FitsField(value) == IF Item.pcRelative THEN value \in SWORD_MIN..SWORD_MAX
                                       ELSE value \in Word

(* Faulty variant: write32 starts one byte late.                           *)
WrittenLate(data, offset, value) ==
  [k \in DOMAIN data |-> IF k \in (offset + 2)..(offset + FIELD_SIZE + 1)
                           THEN ByteOf(value, k - offset - 2) ELSE data[k]]

(* write32.                                                                *)
Written(data, offset, value) ==
  [k \in DOMAIN data |-> IF k \in (offset + 1)..(offset + FIELD_SIZE)
                           THEN ByteOf(value, k - offset - 1) ELSE data[k]]

Unresolved == Reference.section = 0 /\ Definitions(Reference.name) = {}

UnresolvedSymbol ==
  /\ InLoop("relocate")
  /\ Unresolved
  /\ Fail("UNRESOLVED_SYMBOL")

(* The decoder has checked that the field lies in its section.             *)
RelocationOverflow ==
  /\ InLoop("relocate")
  /\ ~Unresolved
  /\ ~FitsField(RelocatedValue)
  /\ Fail("OVERFLOW")

ApplyRelocation ==
  /\ InLoop("relocate")
  /\ ~Unresolved
  /\ FitsField(RelocatedValue)
  /\ placed' = [placed EXCEPT ![Destination].data =
                  Written(@, Item.offset, ToWord(RelocatedValue))]
  /\ source' = source + 1
  /\ UNCHANGED <<request, stage, object, cursor, symbols, error, output>>

-----------------------------------------------------------------------------
(* The entry: that of the call, or of the first object that has one, or    *)
(* "start"; the first defined symbol of the name, whatever its binding.    *)
WithEntry == {o \in 1..Len(Objects) : Objects[o].entrySymbol # NoName}

SelectedEntry ==
  IF request.entry # NoName THEN request.entry
  ELSE IF WithEntry # {} THEN Objects[FirstOf(WithEntry)].entrySymbol
  ELSE "start"

EntrySymbols ==
  {i \in 1..Len(symbols) :
     symbols[i].section # 0 /\ symbols[i].name = SelectedEntry}

Entry == IF EntrySymbols = {} THEN 0 ELSE symbols[FirstOf(EntrySymbols)].value

NoEntry ==
  /\ stage = "entry"
  /\ Entry = 0
  /\ Fail("NO_ENTRY")

SelectEntry ==
  /\ stage = "entry"
  /\ Entry # 0
  /\ stage' = "encode"
  /\ UNCHANGED <<request, position, cursor, placed, symbols, error, output>>

(* The encoder takes an executable only with its entry in the text; what   *)
(* else it checks, the decoder has checked of the objects.                 *)
EntryInText ==
  \E i \in 1..Len(placed) :
    /\ placed[i].type = "text"
    /\ Entry \in placed[i].address..(placed[i].address + placed[i].size - 1)

EncodeRefused ==
  /\ stage = "encode"
  /\ ~EntryInText
  /\ Fail("INCOMPATIBLE_OBJECT")

Encode ==
  /\ stage = "encode"
  /\ EntryInText
  /\ output' = [kind |-> "executable", entry |-> Entry, sections |-> placed]
  /\ stage' = "done"
  /\ UNCHANGED <<request, position, cursor, placed, symbols, error>>

-----------------------------------------------------------------------------
Init ==
  /\ request \in Requests
  /\ stage = "call"
  /\ object = 1
  /\ source = 1
  /\ cursor = FIRST_ADDRESS
  /\ placed = << >>
  /\ symbols = << >>
  /\ error = "NONE"
  /\ output = NoImage

Proceed ==
  \/ IncompatibleObject \/ BeginLink \/ NextObject \/ EndLoop
  \/ PlacementFault \/ PlaceSection
  \/ DuplicateSymbol \/ CollectSymbol
  \/ UnresolvedSymbol \/ RelocationOverflow \/ ApplyRelocation
  \/ NoEntry \/ SelectEntry \/ EncodeRefused \/ Encode

Next == Proceed \/ OutOfMemory

Spec == Init /\ [][Next]_vars

(* The call runs by itself until it returns; no allocation need ever fail. *)
FairSpec == Spec /\ WF_vars(Proceed)
=============================================================================
