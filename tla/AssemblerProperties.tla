------------------------ MODULE AssemblerProperties ------------------------
(***************************************************************************)
(* What a program may rely on when it is assembled, to a raw image or to   *)
(* an object.                                                              *)
(***************************************************************************)
EXTENDS Assembler, FiniteSets

LineIndices    == 1..Len(lines)
SectionIndices == 1..Len(sections)

AsmSection ==
  [name : SectionNames, address : 0..RomSize, located : BOOLEAN,
   alignment : 1..WORD_MAX, size : 0..RomSize, type : SectionTypes]

Stages == {"directives", "labels", "translate", "symbols", "globals",
           "externals", "emit", "encode", "done"}

(* The sections and the places of the lines have the types of their        *)
(* fields, and an index of a section is one.                               *)
(* Code: AsmSection, Line and AssemblerContext (asm/Assembler.h).          *)
TypeOK ==
  /\ stage \in Stages
  /\ at \in Nat \ {0}
  /\ address \in Nat
  /\ sections \in Seq(AsmSection)
  /\ current \in SectionIndices
  /\ \A i \in LineIndices : /\ lines[i].section \in SectionIndices
                            /\ lines[i].offset \in Nat
                            /\ lines[i].size \in Nat

(* However sections are selected, aligned and moved in between, the lines  *)
(* of a section lie in it in their order and share no byte of it, and the  *)
(* whole of it is in the ROM.                                              *)
(* Code: record_line, select_section and validate_section_range, against   *)
(* the padding of .align and .locate.                                      *)
LayoutApart ==
  /\ \A s \in SectionIndices : sections[s].address + sections[s].size <= RomSize
  /\ \A i \in LineIndices :
       /\ lines[i].offset + lines[i].size <= sections[lines[i].section].size
       /\ \A j \in 1..(i - 1) :
            lines[j].section = lines[i].section =>
              lines[j].offset + lines[j].size <= lines[i].offset

(* "Locations must not move backwards" (docs/ISA.md): the place where a    *)
(* section continues never goes back, and what the section has already     *)
(* been given stays where it was.                                          *)
(* Code: DIR_LOCATE and DIR_ALIGN in asm_processDirectives.                *)
LocationsNeverMoveBack ==
  [][stage = "directives" => \A s \in SectionIndices :
       /\ sections'[s].address + sections'[s].size >=
            sections[s].address + sections[s].size
       /\ sections[s].size > 0 => sections'[s].address = sections[s].address]_vars

-----------------------------------------------------------------------------
(* Instructions read back.                                                 *)
ImmediateIn(bytes) ==
  JoinWord(JoinHword(bytes[5], bytes[6]), JoinHword(bytes[7], bytes[8]))

IsImmediate(w, imm, target) ==
  \/ imm = NoToken /\ w = 0
  \/ /\ imm # NoToken
     /\ \/ imm.type = "use"  /\ w = target
        \/ imm.type = "char" /\ Signed(w) = CharValue(imm.value)
        \/ imm.type = "int"  /\ w = imm.value

DecodesTo(bytes, statement, target) ==
  /\ Len(bytes) = INSTRUCTION_SIZE
  /\ OpcodeOf(bytes[1]) = statement.opcode
  /\ ConditionOf(bytes[2]) = IF statement.cond = NoToken THEN "UNCONDITIONAL"
                             ELSE ConditionNames[statement.cond]
  /\ \A i \in {1, 2} : bytes[i + 2] = RegisterCode(statement, i)
  /\ IsImmediate(ImmediateIn(bytes), statement.imm, target)

(* These are the bytes of the line, with that word for a label it uses.    *)
BytesOf(bytes, line, target) ==
  IF line.statement = NoToken THEN bytes = line.bytes
                              ELSE DecodesTo(bytes, line.statement, target)

UsesLabel(line)  == line.statement # NoToken /\ IsUse(line.statement)
UsedLabel(line)  == line.statement.imm.value
Labelled(name)   == {i \in LineIndices : lines[i].label = name}
Returned(object) == output # NoOutput /\ source.object = object

(* The bytes that the first k lines of a list make.                        *)
SizeOfFirst(list) ==
  LET total[k \in 0..Len(list)] ==
        IF k = 0 THEN 0 ELSE total[k - 1] + list[k].size
  IN  total

(* Where the raw image has the bytes of line i.                            *)
RawStart(i) == SizeOfFirst(lines)[i - 1]

(* The passes agree on the place of every line: the bytes are those of the *)
(* lines one after the other, and an instruction that uses a label holds   *)
(* the position that the bytes of the one line with that label have there. *)
LinesInARow ==
  /\ Len(output) = RawStart(Len(lines) + 1)
  /\ \A i \in LineIndices :
       LET bytes == SubSeq(output, RawStart(i) + 1, RawStart(i + 1))
       IN  IF ~UsesLabel(lines[i]) THEN BytesOf(bytes, lines[i], 0)
           ELSE \E j \in LineIndices :
                  /\ Labelled(UsedLabel(lines[i])) = {j}
                  /\ BytesOf(bytes, lines[i], RawStart(j))

(* The directives for which docs/ISA.md promises padding.                  *)
AsksForPadding ==
  \E i \in 1..Len(source.lines) :
    /\ source.lines[i].type = "dir"
    /\ source.lines[i].name \in {"align", "locate"}

(* A raw image of a source without .align and .locate is its lines one     *)
(* after the other, with every label where it is.  With these directives   *)
(* the code lays it out in the same way, and leaves out the padding that   *)
(* docs/ISA.md speaks of; of such an image nothing is claimed here.        *)
(* Code: asm_processLabels against asm_translate.                          *)
RawImageHolds == Returned(FALSE) /\ ~AsksForPadding => LinesInARow

-----------------------------------------------------------------------------
InLine(s, k, i) ==
  /\ lines[i].section = s
  /\ k \in (lines[i].offset + 1)..(lines[i].offset + lines[i].size)

LocalTo(line)  == {i \in Labelled(UsedLabel(line)) : lines[i].section = line.section}
IsLocal(line)  == UsesLabel(line) /\ LocalTo(line) # {}
IsRemote(line) == UsesLabel(line) /\ LocalTo(line) = {}

(* An object has the bytes of each line at the line's offset, with the     *)
(* offset of the label for a label of the same section and zero for any    *)
(* other one, and zeros wherever .align and .locate left a gap.            *)
(* Code: the last loop of asm_translate_object, with record_line.          *)
ObjectHoldsLines ==
  Returned(TRUE) =>
    \A s \in SectionIndices :
      LET data == output.sections[s].data
      IN  /\ Len(data) = sections[s].size
          /\ \A k \in 1..Len(data) :
               (\A i \in LineIndices : ~InLine(s, k, i)) => data[k] = 0
          /\ \A i \in LineIndices :
               LET line  == lines[i]
                   bytes == SubSeq(data, line.offset + 1, line.offset + line.size)
               IN  line.section = s =>
                     IF ~IsLocal(line) THEN BytesOf(bytes, line, 0)
                     ELSE \E j \in LocalTo(line) :
                            BytesOf(bytes, line, lines[j].offset)

(* The symbols and relocations of an object say the same as its source:    *)
(* every label is defined where its line is, and seen by other objects if  *)
(* it was declared global; and the instructions that use a label of        *)
(* another section or object are the relocated ones, each at its immediate *)
(* and to the one symbol of that name.                                     *)
(* Code: the symbol loops of asm_translate_object and its relocations.     *)
ReferencesMeanLabels ==
  Returned(TRUE) =>
    LET Ids == 1..Len(output.symbols)
        Rel == 1..Len(output.relocations)
        Remote == {i \in LineIndices : IsRemote(lines[i])}
    IN  /\ \A x, y \in Ids : output.symbols[x].name = output.symbols[y].name => x = y
        /\ \A i \in LineIndices : lines[i].label # NoName =>
             \E x \in Ids :
               output.symbols[x] =
                 [name |-> lines[i].label, section |-> lines[i].section,
                  value |-> lines[i].offset,
                  binding |-> IF \E g \in DOMAIN globals : globals[g] = lines[i].label
                                THEN "global" ELSE "local"]
        /\ \A x \in Ids : output.symbols[x].section = 0 =>
             /\ Labelled(output.symbols[x].name) = {}
             /\ \E e \in DOMAIN externals : externals[e] = output.symbols[x].name
        /\ Cardinality(Rel) = Cardinality(Remote)
        /\ \A i \in Remote : \E r \in Rel :
             /\ output.relocations[r].section = lines[i].section
             /\ output.relocations[r].offset = lines[i].offset + 4
             /\ output.symbols[output.relocations[r].symbol].name =
                  UsedLabel(lines[i])

(* The encoder has nothing to refuse, and the linker gets what it takes    *)
(* for granted: contents of the size of their section, inside of the       *)
(* words, and relocations inside of contents and to symbols that exist.    *)
(* Code: zl_image_encode at the end of asm_translate_object.               *)
ObjectDecodes == stage = "encode" => Decoded(AssembledObject)

(* An object says what its lines say: by its contents, by its symbols and  *)
(* relocations, and in a form that the linker can read.                    *)
(* Code: asm_translate_object.                                             *)
ObjectMeansLines == ObjectHoldsLines /\ ReferencesMeanLabels /\ ObjectDecodes

(* Assembling comes back, with an output or an error.                      *)
(* Code: the loops of assemble_source behind the parser.                   *)
AssemblerReturns == <>(stage = "done")
=============================================================================
