----------------------------- MODULE ImageCodec -----------------------------
(***************************************************************************)
(* The codec of objects and executables (emulator/src/Image.c).  A file is *)
(* a sequence of cells: a number of any width, a character and a byte of   *)
(* payload are a cell each, so the sizes below count fields where the code *)
(* counts bytes.  Offsets and indices count from 0, as in the code, and    *)
(* the size of a size_t is enough for every sum of two offsets.            *)
(***************************************************************************)
EXTENDS ObjectFile, SequencesExt

CONSTANTS
  Images,    \* what zl_image_encode is called with
  Files,     \* what zl_image_decode is called with, besides encoded images
  NoName,    \* no entry symbol (NULL)
  NoImage    \* the file does not come from the encoder

Fields == <<"magic", "version", "kind", "reserved", "headerSize",
            "sectionCount", "symbolCount", "relocationCount", "entry",
            "sectionOffset", "symbolOffset", "relocationOffset",
            "stringOffset", "stringSize", "payloadOffset">>

HEADER_SIZE       == Len(Fields)
SECTION_RECORD    == 7
SYMBOL_RECORD     == 7
RELOCATION_RECORD == 5

MAGIC   == 2
VERSION == 1
OBJECT     == 1
EXECUTABLE == 2
TEXT == 1
DATA == 2
BSS  == 3
WEAK     == 2
FUNCTION == 2
ABSOLUTE32    == 1
PC_RELATIVE32 == 2
UNDEFINED_SECTION == WORD_MAX

(* The structures of an image, and what the assembler and the linker have  *)
(* to encode: a name is a string that ends with its first 0, a section     *)
(* that is not bss has as many bytes as it says, the other fields have the *)
(* values of their C types (include/Image.h).                              *)
CString == Seq(Word \ {0})

ImageSection ==
  {section \in [name : CString, type : Word, flags : Word, alignment : Word,
                address : Word, size : Nat, data : Seq(Byte)] :
     section.type # BSS => Len(section.data) = section.size}
ImageSymbol ==
  [name : CString, section : Word, value : Word, size : Word, binding : Word,
   type : Word]
ImageRelocation ==
  [section : Word, offset : Word, type : Word, symbol : Word,
   addend : SWORD_MIN..SWORD_MAX]

IsImage(img) ==
  img \in [kind : Word, entry : Word, entrySymbol : CString \cup {NoName},
           sections : Seq(ImageSection), symbols : Seq(ImageSymbol),
           relocations : Seq(ImageRelocation)]

ASSUME CodecAssumption ==
  /\ \A img \in Images : IsImage(img)
  /\ NoImage \notin Images
  /\ Files \subseteq Seq(Word)

NoDecoded == [kind |-> 0, entry |-> 0, entrySymbol |-> NoName,
              sections |-> << >>, symbols |-> << >>, relocations |-> << >>]

VARIABLES
  origin,    \* the image that was encoded, or NoImage
  file,      \* input
  stage,     \* the part of the functions that runs
  index,     \* the counter of the loop it is in
  image,     \* *image
  blocks,    \* the allocations of the decoder that have not been freed
  touched,   \* the offsets of the cells that the last step read
  error      \* *error

vars == <<origin, file, stage, index, image, blocks, touched, error>>

-----------------------------------------------------------------------------
(* Encoding.                                                               *)
Name(name) == Append(name, 0)

AllNames(img) ==
  [i \in 1..Len(img.sections) |-> Name(img.sections[i].name)]
    \o [i \in 1..Len(img.symbols) |-> Name(img.symbols[i].name)]
    \o (IF img.kind = OBJECT /\ img.entrySymbol # NoName
          THEN <<Name(img.entrySymbol)>> ELSE << >>)

(* The string table begins with an empty string.                           *)
Strings(img) == <<0>> \o FlattenSeq(AllNames(img))

NameOffset(img, i) == 1 + Len(FlattenSeq(SubSeq(AllNames(img), 1, i - 1)))

(* Faulty variant: bytes are stored for bss, too.                          *)
PayloadOfAll(section) == [k \in 1..section.size |-> 0]

Payload(section) == IF section.type = BSS THEN << >> ELSE section.data

Payloads(sections) ==
  FlattenSeq([i \in 1..Len(sections) |-> Payload(sections[i])])

Records(img) == Len(img.sections) * SECTION_RECORD
                  + Len(img.symbols) * SYMBOL_RECORD
                  + Len(img.relocations) * RELOCATION_RECORD

PayloadStart(img) == HEADER_SIZE + Records(img) + Len(Strings(img))

HeaderCells(img) ==
  LET sections == HEADER_SIZE
      syms     == sections + Len(img.sections) * SECTION_RECORD
      relocs   == syms + Len(img.symbols) * SYMBOL_RECORD
      strings  == relocs + Len(img.relocations) * RELOCATION_RECORD
      entry    == IF img.kind = EXECUTABLE \/ img.entrySymbol = NoName
                    THEN img.entry ELSE NameOffset(img, Len(AllNames(img)))
  IN  <<MAGIC, VERSION, img.kind, 0, HEADER_SIZE, Len(img.sections),
        Len(img.symbols), Len(img.relocations), entry, sections, syms, relocs,
        strings, Len(Strings(img)), PayloadStart(img)>>

SectionCells(img, i) ==
  LET s == img.sections[i]
  IN  <<NameOffset(img, i), s.type, s.flags, s.alignment, s.address,
        PayloadStart(img) + Len(Payloads(SubSeq(img.sections, 1, i - 1))),
        s.size>>

SymbolCells(img, i) ==
  LET s == img.symbols[i]
  IN  <<NameOffset(img, Len(img.sections) + i), s.section, s.value, s.size,
        s.binding, s.type, 0>>

RelocationCells(r) == <<r.section, r.offset, r.type, r.symbol, ToWord(r.addend)>>

Encoded(img) ==
  HeaderCells(img)
    \o FlattenSeq([i \in 1..Len(img.sections) |-> SectionCells(img, i)])
    \o FlattenSeq([i \in 1..Len(img.symbols) |-> SymbolCells(img, i)])
    \o FlattenSeq([i \in 1..Len(img.relocations) |->
                     RelocationCells(img.relocations[i])])
    \o Strings(img)
    \o Payloads(img.sections)

(* What both directions check of a section, a symbol and a relocation.     *)
BadSection(type, alignment, address, size) ==
  \/ ~PowerOfTwo(alignment)
  \/ type \notin TEXT..BSS
  \/ size > WORD_MAX - address

BadSymbol(section, binding, type, count) ==
  \/ section # UNDEFINED_SECTION /\ section >= count
  \/ binding > WEAK
  \/ type > FUNCTION

(* Faulty variant: the field may begin anywhere in the section.            *)
BadRelocationEnd(r, sections, symbolCount) ==
  ~ /\ r.section < Len(sections)
    /\ r.symbol < symbolCount
    /\ r.type \in {ABSOLUTE32, PC_RELATIVE32}
    /\ sections[r.section + 1].type # BSS
    /\ r.offset <= sections[r.section + 1].size

BadRelocation(r, sections, symbolCount) ==
  ~ /\ r.section < Len(sections)
    /\ r.symbol < symbolCount
    /\ r.type \in {ABSOLUTE32, PC_RELATIVE32}
    /\ sections[r.section + 1].type # BSS
    /\ r.offset <= sections[r.section + 1].size
    /\ sections[r.section + 1].size - r.offset >= FIELD_SIZE

EntryInText(entry, sections) ==
  \E i \in 1..Len(sections) :
    /\ sections[i].type = TEXT
    /\ entry >= sections[i].address
    /\ entry - sections[i].address < sections[i].size

EncodeError(img) ==
  IF img.kind \notin {OBJECT, EXECUTABLE} THEN "INVALID_KIND"
  ELSE IF \/ img.kind = EXECUTABLE /\ img.relocations # << >>
          \/ \E i \in 1..Len(img.sections) :
               BadSection(img.sections[i].type, img.sections[i].alignment,
                          img.sections[i].address, img.sections[i].size)
          \/ \E i \in 1..Len(img.symbols) :
               BadSymbol(img.symbols[i].section, img.symbols[i].binding,
                         img.symbols[i].type, Len(img.sections))
          \/ \E i \in 1..Len(img.relocations) :
               BadRelocation(img.relocations[i], img.sections,
                             Len(img.symbols))
    THEN "MALFORMED"
  ELSE IF Len(Encoded(img)) > WORD_MAX THEN "OVERFLOW"
  ELSE IF \/ img.kind = OBJECT /\ img.entry # 0
          \/ img.kind = EXECUTABLE
               /\ (img.entry = 0 \/ ~EntryInText(img.entry, img.sections))
    THEN "MALFORMED"
  ELSE "NONE"

Encode ==
  /\ stage = "encode"
  /\ EncodeError(origin) = "NONE"
  /\ file' = Encoded(origin)
  /\ stage' = "header"
  /\ UNCHANGED <<origin, index, image, blocks, touched, error>>

EncodeRefused ==
  /\ stage = "encode"
  /\ error' = IF EncodeError(origin) = "NONE" THEN "OUT_OF_MEMORY"
                                              ELSE EncodeError(origin)
  /\ stage' = "refused"
  /\ UNCHANGED <<origin, file, index, image, blocks, touched>>

-----------------------------------------------------------------------------
(* Decoding.  What lies behind the buffer could be anything.               *)
Get(offset) == IF offset < Len(file) THEN file[offset + 1] ELSE 0

Header(name) == Get((CHOOSE i \in 1..HEADER_SIZE : Fields[i] = name) - 1)

(* Faulty variant: only the beginning of the range is looked at.           *)
InRangeStart(offset, size) == offset <= Len(file)

InRange(offset, size) == offset <= Len(file) /\ size <= Len(file) - offset

IsExecutable == Header("kind") = EXECUTABLE

SectionBytes    == Header("sectionCount") * SECTION_RECORD
SymbolBytes     == Header("symbolCount") * SYMBOL_RECORD
RelocationBytes == Header("relocationCount") * RELOCATION_RECORD

OutOfBounds ==
  \/ ~InRange(Header("sectionOffset"), SectionBytes)
  \/ ~InRange(Header("symbolOffset"), SymbolBytes)
  \/ ~InRange(Header("relocationOffset"), RelocationBytes)
  \/ ~InRange(Header("stringOffset"), Header("stringSize"))
  \/ Header("payloadOffset") > Len(file)
  \/ Header("sectionOffset") < HEADER_SIZE
  \/ Header("symbolOffset") < Header("sectionOffset") + SectionBytes
  \/ Header("relocationOffset") < Header("symbolOffset") + SymbolBytes
  \/ Header("stringOffset") < Header("relocationOffset") + RelocationBytes
  \/ Header("stringOffset") + Header("stringSize") > Header("payloadOffset")

TooShort == Len(file) < HEADER_SIZE

(* The checks of the header, in their order.                               *)
HeaderError ==
  IF TooShort \/ Header("magic") # MAGIC THEN "BAD_MAGIC"
  ELSE IF Header("version") # VERSION THEN "UNSUPPORTED_VERSION"
  ELSE IF \/ Header("kind") \notin {OBJECT, EXECUTABLE}
          \/ Header("reserved") # 0
          \/ Header("headerSize") # HEADER_SIZE
    THEN "MALFORMED"
  ELSE IF OutOfBounds THEN "BOUNDS"
  ELSE IF Header("stringSize") = 0 \/ Get(Header("stringOffset")) # 0
    THEN "MALFORMED"
  ELSE "NONE"

HeaderTouched ==
  IF TooShort THEN {}
  ELSE 0..(HEADER_SIZE - 1) \cup
         (IF OutOfBounds \/ Header("stringSize") = 0
            THEN {} ELSE {Header("stringOffset")})

WithKind == [NoDecoded EXCEPT !.kind  = Header("kind"),
                              !.entry = IF IsExecutable THEN Header("entry")
                                                        ELSE 0]

HeaderRefused ==
  /\ stage = "header"
  /\ HeaderError # "NONE"
  /\ error' = HeaderError
  /\ touched' = HeaderTouched
  /\ stage' = "done"
  /\ UNCHANGED <<origin, file, index, image, blocks>>

(* By now the kind has been stored; it stays in the image that is refused. *)
NotExecutable ==
  IsExecutable /\ (Header("entry") = 0 \/ Header("relocationCount") # 0)

ExecutableRefused ==
  /\ stage = "header"
  /\ HeaderError = "NONE"
  /\ NotExecutable
  /\ image' = WithKind
  /\ error' = "MALFORMED"
  /\ touched' = HeaderTouched
  /\ stage' = "done"
  /\ UNCHANGED <<origin, file, index, blocks>>

HeaderAccepted ==
  /\ stage = "header"
  /\ HeaderError = "NONE"
  /\ ~NotExecutable
  /\ image' = WithKind
  /\ touched' = HeaderTouched
  /\ stage' = "tables"
  /\ UNCHANGED <<origin, file, index, blocks, error>>

-----------------------------------------------------------------------------
(* Allocations, by what they are for.  zl_image_free goes through the      *)
(* tables in their full length, of which the rest is still zero.           *)
Tables == {"sections", "symbols", "relocations"}

Count(table) ==
  Header(IF table = "sections" THEN "sectionCount"
         ELSE IF table = "symbols" THEN "symbolCount" ELSE "relocationCount")

Table(t)     == <<"table", t, 0>>
NameOf(t, i) == <<"name", t, i>>
DataOf(i)    == <<"data", "sections", i>>
EntryName    == <<"name", "entry", 0>>

(* Faulty variant: the names of the symbols are forgotten.                 *)
ReachableNoNames ==
  {Table(t) : t \in Tables} \cup {EntryName}
    \cup {NameOf("sections", i) : i \in 0..(Count("sections") - 1)}
    \cup {DataOf(i) : i \in 0..(Count("sections") - 1)}

Reachable ==
  {Table(t) : t \in Tables} \cup {EntryName}
    \cup {NameOf("sections", i) : i \in 0..(Count("sections") - 1)}
    \cup {NameOf("symbols", i) : i \in 0..(Count("symbols") - 1)}
    \cup {DataOf(i) : i \in 0..(Count("sections") - 1)}

(* The decoder gives up, with some allocations of this step made.          *)
Refuse(e, made) ==
  /\ error' = e
  /\ stage' = "done"
  /\ image' = NoDecoded
  /\ blocks' = (blocks \cup made) \ Reachable
  /\ UNCHANGED <<origin, file, index>>

AllocateTables ==
  /\ stage = "tables"
  /\ blocks' = {Table(t) : t \in Tables}
  /\ touched' = {}
  /\ stage' = "entrySymbol"
  /\ UNCHANGED <<origin, file, index, image, error>>

TablesOutOfMemory ==
  /\ stage = "tables"
  /\ \E t \in Tables : \E made \in SUBSET (Tables \ {t}) :
       /\ Count(t) # 0
       /\ Refuse("OUT_OF_MEMORY", {Table(m) : m \in made})
  /\ touched' = {}

-----------------------------------------------------------------------------
(* get_string: a name must end inside the string table.                    *)
Ends(offset) ==
  {k \in offset..(Header("stringSize") - 1) :
     Get(Header("stringOffset") + k) = 0}

HasString(offset) == Ends(offset) # {}

StringAt(offset) ==
  [k \in 1..(Min(Ends(offset)) - offset) |->
     Get(Header("stringOffset") + offset + k - 1)]

StringTouched(offset) ==
  {Header("stringOffset") + k :
     k \in offset..(IF HasString(offset) THEN Min(Ends(offset))
                                         ELSE Header("stringSize") - 1)}

WithEntrySymbol == ~IsExecutable /\ Header("entry") # 0

NoEntrySymbol ==
  /\ stage = "entrySymbol"
  /\ ~WithEntrySymbol
  /\ touched' = {}
  /\ stage' = "sections"
  /\ UNCHANGED <<origin, file, index, image, blocks, error>>

ReadEntrySymbol ==
  /\ stage = "entrySymbol"
  /\ WithEntrySymbol
  /\ touched' = StringTouched(Header("entry"))
  /\ \/ /\ HasString(Header("entry"))
        /\ image' = [image EXCEPT !.entrySymbol = StringAt(Header("entry"))]
        /\ blocks' = blocks \cup {EntryName}
        /\ stage' = "sections"
        /\ UNCHANGED <<origin, file, index, error>>
     \/ HasString(Header("entry")) /\ Refuse("OUT_OF_MEMORY", {})
     \/ ~HasString(Header("entry")) /\ Refuse("MALFORMED", {})

(* The end of a table, and of its loop.                                    *)
EndTable ==
  /\ stage \in Tables
  /\ index >= Count(stage)
  /\ stage' = IF stage = "sections" THEN "symbols"
              ELSE IF stage = "symbols" THEN "relocations" ELSE "entry"
  /\ index' = 0
  /\ touched' = {}
  /\ UNCHANGED <<origin, file, image, blocks, error>>

InTable(table) == stage = table /\ index < Count(table)

-----------------------------------------------------------------------------
(* A section: its record, its name and its payload.                        *)
SectionCell(k) == Get(Header("sectionOffset") + index * SECTION_RECORD + k)

ReadSectionRecord ==
  LET type == SectionCell(1)
      size == SectionCell(6)
  IN  [name |-> StringAt(SectionCell(0)), type |-> type,
       flags |-> SectionCell(2), alignment |-> SectionCell(3),
       address |-> SectionCell(4), size |-> size,
       data |-> [k \in 1..size |->
                   IF type = BSS THEN 0 ELSE Get(SectionCell(5) + k - 1)]]

SectionMalformed ==
  \/ ~HasString(SectionCell(0))
  \/ BadSection(SectionCell(1), SectionCell(3), SectionCell(4), SectionCell(6))
  \/ SectionCell(1) = BSS /\ SectionCell(5) > Len(file)
  \/ /\ SectionCell(1) # BSS
     /\ \/ SectionCell(5) < Header("payloadOffset")
        \/ ~InRange(SectionCell(5), SectionCell(6))

RecordTouched(offset, size) ==
  LET start == Header(offset) + index * size IN start..(start + size - 1)

PayloadTouched ==
  IF SectionCell(1) = BSS THEN {}
  ELSE SectionCell(5)..(SectionCell(5) + SectionCell(6) - 1)

ReadSection ==
  /\ InTable("sections")
  /\ ~SectionMalformed
  /\ image' = [image EXCEPT !.sections = Append(@, ReadSectionRecord)]
  /\ blocks' = blocks \cup {NameOf("sections", index), DataOf(index)}
  /\ touched' = RecordTouched("sectionOffset", SECTION_RECORD)
                  \cup StringTouched(SectionCell(0)) \cup PayloadTouched
  /\ index' = index + 1
  /\ UNCHANGED <<origin, file, stage, error>>

SectionRefused ==
  /\ InTable("sections")
  /\ touched' = RecordTouched("sectionOffset", SECTION_RECORD)
                  \cup StringTouched(SectionCell(0))
  /\ \/ SectionMalformed /\ Refuse("MALFORMED", {})
     \/ /\ ~SectionMalformed
        /\ \/ Refuse("OUT_OF_MEMORY", {DataOf(index)})
           \/ /\ SectionCell(6) # 0
              /\ Refuse("OUT_OF_MEMORY", {NameOf("sections", index)})

-----------------------------------------------------------------------------
(* A symbol, which is stored before it is checked to the end.              *)
SymbolCell(k) == Get(Header("symbolOffset") + index * SYMBOL_RECORD + k)

ReadSymbolRecord ==
  [name |-> StringAt(SymbolCell(0)), section |-> SymbolCell(1),
   value |-> SymbolCell(2), size |-> SymbolCell(3),
   binding |-> SymbolCell(4), type |-> SymbolCell(5)]

SymbolTouched == RecordTouched("symbolOffset", SYMBOL_RECORD)
                   \cup StringTouched(SymbolCell(0))

SymbolNamed ==
  /\ HasString(SymbolCell(0))
  /\ \/ SymbolCell(1) = UNDEFINED_SECTION
     \/ SymbolCell(1) < Header("sectionCount")

SymbolMalformed ==
  \/ BadSymbol(SymbolCell(1), SymbolCell(4), SymbolCell(5),
               Header("sectionCount"))
  \/ SymbolCell(6) # 0

ReadSymbol ==
  /\ InTable("symbols")
  /\ SymbolNamed
  /\ ~SymbolMalformed
  /\ image' = [image EXCEPT !.symbols = Append(@, ReadSymbolRecord)]
  /\ blocks' = blocks \cup {NameOf("symbols", index)}
  /\ touched' = SymbolTouched
  /\ index' = index + 1
  /\ UNCHANGED <<origin, file, stage, error>>

SymbolRefused ==
  /\ InTable("symbols")
  /\ touched' = SymbolTouched
  /\ \/ ~SymbolNamed /\ Refuse("MALFORMED", {})
     \/ SymbolNamed /\ Refuse("OUT_OF_MEMORY", {})
     \/ /\ SymbolNamed
        /\ SymbolMalformed
        /\ Refuse("MALFORMED", {NameOf("symbols", index)})

-----------------------------------------------------------------------------
RelocationCell(k) ==
  Get(Header("relocationOffset") + index * RELOCATION_RECORD + k)

ReadRelocationRecord ==
  [section |-> RelocationCell(0), offset |-> RelocationCell(1),
   type |-> RelocationCell(2), symbol |-> RelocationCell(3),
   addend |-> Signed(RelocationCell(4))]

RelocationMalformed ==
  BadRelocation(ReadRelocationRecord, image.sections, Header("symbolCount"))

ReadRelocation ==
  /\ InTable("relocations")
  /\ ~RelocationMalformed
  /\ image' = [image EXCEPT !.relocations = Append(@, ReadRelocationRecord)]
  /\ touched' = RecordTouched("relocationOffset", RELOCATION_RECORD)
  /\ index' = index + 1
  /\ UNCHANGED <<origin, file, stage, blocks, error>>

RelocationRefused ==
  /\ InTable("relocations")
  /\ RelocationMalformed
  /\ touched' = RecordTouched("relocationOffset", RELOCATION_RECORD)
  /\ Refuse("MALFORMED", {})

-----------------------------------------------------------------------------
(* An executable must have its entry in a text section.                    *)
EntryAccepted == IsExecutable => EntryInText(image.entry, image.sections)

CheckEntry ==
  /\ stage = "entry"
  /\ touched' = {}
  /\ \/ /\ EntryAccepted
        /\ stage' = "done"
        /\ UNCHANGED <<origin, file, index, image, blocks, error>>
     \/ ~EntryAccepted /\ Refuse("MALFORMED", {})

(* The caller, vm_loadImage or zl_link_objects, frees what it was given.   *)
Free ==
  /\ stage = "done"
  /\ blocks' = blocks \ Reachable
  /\ image' = NoDecoded
  /\ stage' = "freed"
  /\ UNCHANGED <<origin, file, index, touched, error>>

Init ==
  /\ \/ origin \in Images /\ file = << >> /\ stage = "encode"
     \/ origin = NoImage /\ file \in Files /\ stage = "header"
  /\ index = 0
  /\ image = NoDecoded
  /\ blocks = {}
  /\ touched = {}
  /\ error = "NONE"

Next ==
  \/ Encode \/ EncodeRefused
  \/ HeaderRefused \/ ExecutableRefused \/ HeaderAccepted
  \/ AllocateTables \/ TablesOutOfMemory
  \/ NoEntrySymbol \/ ReadEntrySymbol \/ EndTable
  \/ ReadSection \/ SectionRefused \/ ReadSymbol \/ SymbolRefused
  \/ ReadRelocation \/ RelocationRefused
  \/ CheckEntry \/ Free

Spec == Init /\ [][Next]_vars
=============================================================================
