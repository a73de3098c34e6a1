----------------------------- MODULE Assembler -----------------------------
(***************************************************************************)
(* The assembler behind the parser (asm/src/Assembler.c): one call of      *)
(* assemble_source, with a step for every line of each pass.  The first    *)
(* pass lays the lines out in sections, the second one numbers the labels, *)
(* and the third one encodes, to a raw ROM image or to an object.          *)
(***************************************************************************)
EXTENDS InstructionSet, ObjectFile

CONSTANTS
  RomSize,      \* ZLVM_ROM_SIZE
  SourceLines,  \* the lines of sources, as parsed
  NoName,       \* no label, entry or procedure
  NoToken,      \* an operand or a statement that is not there
  NoOutput

(* What the parser makes: an operand or argument has a type and a value,   *)
(* which of a malformed character literal is negative.                     *)
IntTokens       == [type : {"int"}, value : Nat]
CharTokens      == [type : {"char"}, value : (-1)..(ByteBase - 1)]
StringTokens    == [type : {"string"}, value : Seq(Byte)]
NameTokens      == [type : {"id", "use", "register"}, value : STRING]
ArgumentTokens  == IntTokens \cup CharTokens \cup StringTokens \cup NameTokens
ImmediateTokens == IntTokens \cup CharTokens \cup [type : {"use"}, value : STRING]
RegisterTokens  == [type : {"number"}, value : Nat]
                     \cup [type : {"alias"}, value : STRING]

IsStatement(line) ==
  /\ line.type = "stmt"
  /\ line = [label |-> line.label, type |-> "stmt", opcode |-> line.opcode,
             cond |-> line.cond, registers |-> line.registers, imm |-> line.imm]
  /\ line.registers \in Seq(RegisterTokens)
  /\ line.imm \in ImmediateTokens \cup {NoToken}
  /\ line # NoToken

IsDirective(line) ==
  /\ line.type = "dir"
  /\ line = [label |-> line.label, type |-> "dir", name |-> line.name,
             args |-> line.args]
  /\ line.args \in Seq(ArgumentTokens)

Parsed(line) == IsStatement(line) \/ IsDirective(line)

(* A byte holds an opcode, lines have the form that the parser gives them, *)
(* and the absence of a label (a null pointer) is no label.                *)
ASSUME AssemblerAssumption ==
  /\ RomSize \in 1..WORD_MAX
  /\ ByteBase >= OPCODE_TOTAL
  /\ \A line \in SourceLines :
       Parsed(line) /\ Parsed([line EXCEPT !.label = ""])
  /\ NoName \notin STRING

(* The calls: lines, and whether an object is wanted.                      *)
Sources == [lines : Seq(SourceLines), object : BOOLEAN]

VARIABLES
  source,      \* the call
  stage,       \* the loop that runs
  pending,     \* stream: the lines the first pass has not read
  procedure,   \* procedure_context
  sections, current, globals, externals, entry,   \* the context
  lines,       \* context->lines: those with a place in a section
  labels,      \* context->labels, from names to addresses
  at,          \* the counter of the loop
  address,     \* what the second and the third pass count bytes with
  symbols, relocations,   \* of the object
  contents,    \* the bytes made so far: of every section, or the raw image
  error,       \* diagnostic.code
  output       \* result.binary

context == <<sections, current, globals, externals, entry>>
made    == <<symbols, relocations, contents>>
vars    == <<source, stage, pending, procedure, context, lines, labels, at,
             address, made, error, output>>

Fail(code) ==
  /\ error' = code
  /\ stage' = "done"
  /\ UNCHANGED <<source, pending, procedure, context, lines, labels, at,
                 address, made, output>>

(* The code of the check that fails first.                                 *)
FirstFault(faults) ==
  LET bad == {i \in DOMAIN faults : faults[i] # "NONE"}
  IN  IF bad = {} THEN "NONE"
      ELSE faults[CHOOSE i \in bad : \A j \in bad : i <= j]

Check(condition, code) == IF condition THEN "NONE" ELSE code

-----------------------------------------------------------------------------
(* Directives.                                                             *)
SectionNames   == {"text", ".text", "data", ".data", "bss", ".bss"}
DataDirectives == {"ascii", "asciiz", "byte", "hword", "word", "dword", "space"}
ElementSize    == [byte |-> 1, hword |-> 2, word |-> 4, dword |-> 8]
ElementMax     == [byte |-> ByteBase - 1, hword |-> HwordBase - 1,
                   word |-> WORD_MAX]

ValidDirective(dir) ==
  LET Arity(n)     == Len(dir.args) = n
      AllOf(types) == \A i \in 1..Len(dir.args) : dir.args[i].type \in types
  IN  \/ dir.name \in {"section", "global", "entry", "proc"}
           /\ Arity(1) /\ AllOf({"id"})
      \/ dir.name = "extern" /\ dir.args # << >> /\ dir.args[1].type = "id"
      \/ dir.name \in {"align", "locate", "space"} /\ Arity(1) /\ AllOf({"int"})
      \/ dir.name \in {"ascii", "asciiz"}
           /\ dir.args # << >> /\ AllOf({"int", "char", "string"})
      \/ dir.name \in {"byte", "hword", "word", "dword"}
           /\ dir.args # << >> /\ AllOf({"int", "char"})
      \/ dir.name = "endproc" /\ Arity(0)

(* directive_get_raw_data.                                                 *)
ValueFault(token, max) ==
  IF token.type = "char" THEN Check(token.value >= 0, "MALFORMED_LITERAL")
  ELSE Check(token.type = "string" \/ token.value <= max, "VALUE_OUT_OF_RANGE")

DataFault(dir) ==
  IF dir.name \in {"space", "dword"}
    THEN FirstFault([i \in 1..Len(dir.args) |->
                       ValueFault(dir.args[i], dir.args[i].value)])
    ELSE LET max == IF dir.name \in {"ascii", "asciiz"} THEN ByteBase - 1
                                                       ELSE ElementMax[dir.name]
         IN  FirstFault([i \in 1..Len(dir.args) |-> ValueFault(dir.args[i], max)])

(* Any byte of a number, least significant first.                          *)
ByteAt(value, k) ==
  IF k < 4 THEN ByteOf(value, k) ELSE ByteOf(value \div WordBase, k - 4)

Numbers(args, size) ==
  [k \in 1..(Len(args) * size) |->
     ByteAt(args[(k - 1) \div size + 1].value, (k - 1) % size)]

Characters(args) ==
  LET piece(i) == IF args[i].type = "string" THEN args[i].value
                                             ELSE <<args[i].value>>
      upTo[i \in 0..Len(args)] ==
        IF i = 0 THEN << >> ELSE upTo[i - 1] \o piece(i)
  IN  upTo[Len(args)]

RawData(dir) ==
  IF dir.name = "space" THEN [k \in 1..dir.args[1].value |-> 0]
  ELSE IF dir.name = "ascii"  THEN Characters(dir.args)
  ELSE IF dir.name = "asciiz" THEN Append(Characters(dir.args), 0)
  ELSE Numbers(dir.args, ElementSize[dir.name])

-----------------------------------------------------------------------------
(* Statements.  Names of conditions and registers (parse_condition,        *)
(* parse_register); a register is an alias or the number behind "r".       *)
ConditionNames ==
  [un |-> "UNCONDITIONAL", zs |-> "ZERO_SET", eq |-> "ZERO_SET",
   zc |-> "ZERO_CLEAR", ne |-> "ZERO_CLEAR", cs |-> "CARRY_SET",
   hs |-> "CARRY_SET", cc |-> "CARRY_CLEAR", lo |-> "CARRY_CLEAR",
   ns |-> "NEGATIVE_SET", mi |-> "NEGATIVE_SET", nc |-> "NEGATIVE_CLEAR",
   pl |-> "NEGATIVE_CLEAR", vs |-> "OVERFLOW_SET", vc |-> "OVERFLOW_CLEAR",
   ss |-> "SIGNED_SET", sc |-> "SIGNED_CLEAR", uh |-> "UNSIGNED_HIGHER",
   ul |-> "UNSIGNED_LOWER_OR_SAME", gt |-> "GREATER",
   ge |-> "GREATER_OR_EQUALS", lt |-> "LESS", le |-> "LESS_OR_EQUALS"]

RegisterNames ==
  <<"zero", "at", "v0", "v1", "v2", "v3", "a0", "a1", "a2", "a3", "t0", "t1",
    "t2", "t3", "t4", "t5", "t6", "t7", "s0", "s1", "s2", "s3", "s4", "s5",
    "s6", "s7", "k0", "sc", "lp", "sp", "bp", "pc">>

KnownRegister(token) ==
  IF token.type = "number" THEN token.value < REGISTER_COUNT
  ELSE \E i \in 1..REGISTER_COUNT : RegisterNames[i] = token.value

(* The operand that is missing is $zero.                                   *)
RegisterCode(statement, i) ==
  IF i > Len(statement.registers) THEN 0
  ELSE LET token == statement.registers[i]
       IN  IF token.type = "number" THEN token.value
                                    ELSE CodeIn(RegisterNames, token.value)

(* validate_operands: opcodes by the registers and immediates they take.   *)
Plain      == {"NOP", "POP", "DUP", "SYSCALL", "RET"}
Unary      == {"POPR", "PUSHR", "NOT", "INC", "DEC"}
Immediate0 == {"PUSHI", "INT", "JMP", "JMPAL"}
Accesses   == {"LOADB", "STOREB", "LOADH", "STOREH", "LOADW", "STOREW"}
Binary     == {"MOVR", "ADDR", "SUBR", "MULR", "DIVR", "MODR", "ANDR", "ORR",
               "XORR", "NANDR", "NORR", "CMPR", "CMPSR", "ADDSR", "SUBSR",
               "MULSR", "DIVSR", "MODSR"}
Immediate1 == {"MOVI", "ADDI", "SUBI", "MULI", "DIVI", "MODI", "ANDI", "ORI",
               "XORI", "NANDI", "NORI", "CMPI", "CMPSI", "ADDSI", "SUBSI",
               "MULSI", "DIVSI", "MODSI"}
KnownOpcodes == Plain \cup Unary \cup Immediate0 \cup Accesses \cup Binary
                  \cup Immediate1

OperandsFit(statement) ==
  LET registers == Len(statement.registers)
      immediate == statement.imm # NoToken
      op        == statement.opcode
  IN  /\ registers = IF op \in Plain \cup Immediate0 THEN 0
                     ELSE IF op \in Unary \cup Immediate1 THEN 1 ELSE 2
      /\ op \notin Accesses => (immediate <=> op \in Immediate0 \cup Immediate1)

OperandFault(statement) ==
  FirstFault(<<Check(statement.opcode \in KnownOpcodes, "UNKNOWN_OPCODE"),
               Check(OperandsFit(statement), "INVALID_OPERANDS")>>)

SpellingFault(statement) ==
  FirstFault(<<Check(\/ statement.cond = NoToken
                     \/ statement.cond \in DOMAIN ConditionNames,
                     "UNKNOWN_CONDITION"),
               Check(\A i \in 1..Len(statement.registers) :
                       KnownRegister(statement.registers[i]),
                     "UNKNOWN_REGISTER")>>)

(* A character is a signed byte, and extends to a word as one.             *)
CharValue(b) == IF b < ByteBase \div 2 THEN b ELSE b - ByteBase

IsUse(statement) == statement.imm # NoToken /\ statement.imm.type = "use"

(* Where the value of an immediate comes from decides how it is checked; a *)
(* label must be in the table it is looked up in, here "known".            *)
ImmediateFault(imm, known) ==
  IF imm = NoToken THEN "NONE"
  ELSE IF imm.type = "use"  THEN Check(known, "UNKNOWN_LABEL")
  ELSE IF imm.type = "char" THEN Check(imm.value >= 0, "MALFORMED_LITERAL")
  ELSE Check(imm.value <= WORD_MAX, "VALUE_OUT_OF_RANGE")

ImmediateWord(imm, label) ==
  IF imm = NoToken THEN 0
  ELSE IF imm.type = "use"  THEN label
  ELSE IF imm.type = "char" THEN ToWord(CharValue(imm.value)) ELSE imm.value

InstructionOf(statement, label) ==
  EncodedInstruction(statement.opcode,
                     IF statement.cond = NoToken THEN "UNCONDITIONAL"
                     ELSE ConditionNames[statement.cond],
                     RegisterCode(statement, 1), RegisterCode(statement, 2),
                     ImmediateWord(statement.imm, label))

-----------------------------------------------------------------------------
(* The first pass, asm_processDirectives.                                  *)
Line  == Head(pending)
Place == sections[current]
Arg   == Line.args[1].value

(* set_label_context.                                                      *)
ScopedLabel ==
  IF procedure = NoName \/ Line.label = NoName THEN Line.label
  ELSE IF Line.label = "" THEN procedure ELSE procedure \o "." \o Line.label

NewSection(name) ==
  [name |-> name, address |-> 0, located |-> FALSE, alignment |-> 1, size |-> 0,
   type |-> IF name \in {"bss", ".bss"} THEN "bss"
            ELSE IF name \in {"data", ".data"} THEN "data" ELSE "text"]

Named(name) == {i \in 1..Len(sections) : sections[i].name = name}

(* Faulty variant: a section is measured from zero.                        *)
InRomAtZero(section) == section.size <= RomSize

(* validate_section_range.                                                 *)
InRom(section) ==
  section.address <= RomSize /\ section.size <= RomSize - section.address

Grown(size)  == [Place EXCEPT !.size = @ + size]

(* Faulty variant: the remainder is cut off instead of filled up.          *)
PaddedDown(unit) ==
  [Place EXCEPT !.size = (@ \div unit) * unit,
                !.alignment = IF @ < unit THEN unit ELSE @]

Padded(unit) ==
  [Place EXCEPT !.size = ((@ + unit - 1) \div unit) * unit,
                !.alignment = IF @ < unit THEN unit ELSE @]

MovedTo(target) ==
  IF Place.size = 0 THEN [Place EXCEPT !.address = target, !.located = TRUE]
                    ELSE [Place EXCEPT !.size = target - Place.address]

(* Faulty variant: what the section holds already is forgotten.            *)
LocationFromStart(target) == target <= WORD_MAX /\ target >= Place.address

LocationAhead(target) ==
  target <= WORD_MAX /\ target >= Place.address + Place.size

LayoutHolds ==
  /\ Line.name = "section" => Arg \in SectionNames
  /\ Line.name = "align"   => PowerOfTwo(Arg) /\ InRom(Padded(Arg))
  /\ Line.name = "locate"  => LocationAhead(Arg) /\ InRom(MovedTo(Arg))

LineFault ==
  IF Line.type = "stmt"
    THEN Check(InRom(Grown(INSTRUCTION_SIZE)), "SECTION_ERROR")
  ELSE IF ~ValidDirective(Line) THEN "INVALID_DIRECTIVE"
  ELSE IF Line.name \in DataDirectives
    THEN FirstFault(<<DataFault(Line),
                      Check(InRom(Grown(Len(RawData(Line)))), "SECTION_ERROR")>>)
  ELSE IF Line.name = "proc" THEN Check(Len(pending) > 1, "INVALID_DIRECTIVE")
  ELSE Check(LayoutHolds, "SECTION_ERROR")

Reading  == stage = "directives" /\ pending # << >>
Accepted == Reading /\ LineFault = "NONE"
AtDirective(names) == Accepted /\ Line.type = "dir" /\ Line.name \in names

LineRead ==
  /\ pending' = Tail(pending)
  /\ UNCHANGED <<source, stage, labels, at, address, made, error, output>>

(* record_line, with the bytes of the line or its statement.               *)
Record(statement, bytes, size) ==
  /\ lines' = Append(lines, [label |-> ScopedLabel, section |-> current,
                             offset |-> Place.size, size |-> size,
                             statement |-> statement, bytes |-> bytes])
  /\ sections' = [sections EXCEPT ![current] = Grown(size)]
  /\ UNCHANGED <<procedure, current, globals, externals, entry>>
  /\ LineRead

ReadStatement ==
  /\ Accepted
  /\ Line.type = "stmt"
  /\ Record(Line, << >>, INSTRUCTION_SIZE)

ReadData ==
  /\ AtDirective(DataDirectives)
  /\ LET bytes == RawData(Line) IN Record(NoToken, bytes, Len(bytes))

SelectSection ==
  /\ AtDirective({"section"})
  /\ sections' = IF Named(Arg) = {} THEN Append(sections, NewSection(Arg))
                                    ELSE sections
  /\ current' = IF Named(Arg) = {} THEN Len(sections) + 1
                ELSE CHOOSE i \in Named(Arg) : TRUE
  /\ UNCHANGED <<procedure, globals, externals, entry, lines>>
  /\ LineRead

AlignSection ==
  /\ AtDirective({"align"})
  /\ sections' = [sections EXCEPT ![current] = Padded(Arg)]
  /\ UNCHANGED <<procedure, current, globals, externals, entry, lines>>
  /\ LineRead

Locate ==
  /\ AtDirective({"locate"})
  /\ sections' = [sections EXCEPT ![current] = MovedTo(Arg)]
  /\ UNCHANGED <<procedure, current, globals, externals, entry, lines>>
  /\ LineRead

(* .global, .extern and .entry.                                            *)
DeclareSymbol ==
  /\ AtDirective({"global", "extern", "entry"})
  /\ globals'   = IF Line.name = "global" THEN Append(globals, Arg) ELSE globals
  /\ externals' = IF Line.name = "extern" THEN Append(externals, Arg)
                                          ELSE externals
  /\ entry'     = IF Line.name = "entry" THEN Arg ELSE entry
  /\ UNCHANGED <<procedure, sections, current, lines>>
  /\ LineRead

(* The line behind .proc gets the procedure's name for its label.          *)
BeginProcedure ==
  /\ AtDirective({"proc"})
  /\ procedure' = Arg
  /\ pending' = [Tail(pending) EXCEPT ![1].label = ""]
  /\ UNCHANGED <<source, stage, context, lines, labels, at, address, made,
                 error, output>>

EndProcedure ==
  /\ AtDirective({"endproc"})
  /\ procedure' = NoName
  /\ UNCHANGED <<context, lines>>
  /\ LineRead

RejectLine == Reading /\ LineFault # "NONE" /\ Fail(LineFault)

-----------------------------------------------------------------------------
(* The later loops, each over one of the lists.                            *)
Items == IF stage = "globals" THEN globals
         ELSE IF stage = "externals" THEN externals ELSE lines
InLoop(s) == stage = s /\ at <= Len(Items)
Item == Items[at]

NextItem ==
  /\ at' = at + 1
  /\ UNCHANGED <<source, stage, pending, procedure, context, lines, error,
                 output>>

(* The loops of asm_translate_object, in their order.                      *)
Following ==
  [directives |-> "labels", labels |-> "symbols", symbols |-> "globals",
   globals |-> "externals", externals |-> "emit", emit |-> "encode"]

(* The sections of an object are cleared before its first loop.            *)
EndLoop ==
  /\ \/ stage = "directives" /\ pending = << >>
     \/ stage \in {"labels", "symbols", "globals", "externals", "emit"}
           /\ at > Len(Items)
  /\ stage' = IF stage = "labels" /\ ~source.object THEN "translate"
                                                    ELSE Following[stage]
  /\ contents' = IF stage' = "symbols"
                   THEN [s \in 1..Len(sections) |->
                           [k \in 1..sections[s].size |-> 0]]
                   ELSE contents
  /\ at' = 1
  /\ UNCHANGED <<source, pending, procedure, context, lines, labels, address,
                 symbols, relocations, error, output>>

(* asm_processLabels.                                                      *)
Duplicate == Item.label # NoName /\ Item.label \in DOMAIN labels

DuplicateLabel == InLoop("labels") /\ Duplicate /\ Fail("SECTION_ERROR")

(* Faulty variant: every line counts as an instruction.                    *)
NumberInstruction ==
  /\ InLoop("labels")
  /\ ~Duplicate
  /\ labels' = IF Item.label = NoName THEN labels
               ELSE [name \in DOMAIN labels \cup {Item.label} |->
                       IF name = Item.label THEN address ELSE labels[name]]
  /\ address' = address + INSTRUCTION_SIZE
  /\ UNCHANGED made
  /\ NextItem

NumberLine ==
  /\ InLoop("labels")
  /\ ~Duplicate
  /\ labels' = IF Item.label = NoName THEN labels
               ELSE [name \in DOMAIN labels \cup {Item.label} |->
                       IF name = Item.label THEN address ELSE labels[name]]
  /\ address' = address + Item.size
  /\ UNCHANGED made
  /\ NextItem

(* asm_translate: one line after the other, whatever their sections are.   *)
RawFault ==
  LET statement == Item.statement
      imm       == statement.imm
  IN  IF statement = NoToken THEN "NONE"
      ELSE FirstFault(<<OperandFault(statement), SpellingFault(statement),
                        ImmediateFault(imm, imm.value \in DOMAIN labels),
                        Check(IsUse(statement) /\ imm.value \in DOMAIN labels =>
                                labels[imm.value] <= WORD_MAX,
                              "VALUE_OUT_OF_RANGE")>>)

RejectRaw == InLoop("translate") /\ RawFault # "NONE" /\ Fail(RawFault)

RawBytes ==
  LET statement == Item.statement
  IN  IF statement = NoToken THEN Item.bytes
      ELSE InstructionOf(statement, labels[statement.imm.value])

Translate ==
  /\ InLoop("translate")
  /\ RawFault = "NONE"
  /\ contents' = [contents EXCEPT ![1] = @ \o RawBytes]
  /\ UNCHANGED <<labels, address, symbols, relocations>>
  /\ NextItem

ReturnRaw ==
  /\ stage = "translate"
  /\ at > Len(lines)
  /\ output' = contents[1]
  /\ stage' = "done"
  /\ UNCHANGED <<source, pending, procedure, context, lines, labels, at,
                 address, made, error>>

-----------------------------------------------------------------------------
(* asm_translate_object.  Symbols are the labels, then the externals.      *)
SymbolsNamed(name) == {i \in 1..Len(symbols) : symbols[i].name = name}

AddSymbol(name, section, value, binding) ==
  /\ symbols' = IF SymbolsNamed(name) # {} THEN symbols
                ELSE Append(symbols, [name |-> name, section |-> section,
                                      value |-> value, binding |-> binding])
  /\ UNCHANGED <<labels, address, relocations, contents>>
  /\ NextItem

LabelSymbol ==
  /\ InLoop("symbols")
  /\ Item.label # NoName
  /\ AddSymbol(Item.label, Item.section, ToWord(Item.offset), "local")

(* Faulty variant: a line without a label is not left behind.              *)
PassUnlabelledNever == InLoop("symbols") /\ Item.label = NoName /\ UNCHANGED vars

PassUnlabelled ==
  /\ InLoop("symbols")
  /\ Item.label = NoName
  /\ UNCHANGED <<labels, address, made>>
  /\ NextItem

UndefinedGlobal ==
  /\ InLoop("globals")
  /\ SymbolsNamed(Item) = {}
  /\ Fail("SECTION_ERROR")

ExportSymbol ==
  /\ InLoop("globals")
  /\ \E i \in SymbolsNamed(Item) :
       symbols' = [symbols EXCEPT ![i].binding = "global"]
  /\ UNCHANGED <<labels, address, relocations, contents>>
  /\ NextItem

ImportSymbol == InLoop("externals") /\ AddSymbol(Item, 0, 0, "global")

(* Faulty variant: the section of a line is not compared.                  *)
LinesAnywhere(name, section) == {i \in 1..Len(lines) : lines[i].label = name}

(* find_symbol_line: lines of that label in that section.                  *)
LinesNamed(name, section) ==
  {i \in 1..Len(lines) : lines[i].label = name /\ lines[i].section = section}

LocalLines == LinesNamed(Item.statement.imm.value, Item.section)

(* Faulty variant: instructions are let into a bss.                        *)
ObjectFaultNoBss ==
  LET statement == Item.statement
      imm       == statement.imm
  IN  IF statement = NoToken THEN "NONE"
      ELSE FirstFault(<<SpellingFault(statement), OperandFault(statement),
                        ImmediateFault(imm, LocalLines # {}
                                            \/ SymbolsNamed(imm.value) # {})>>)

ObjectFault ==
  LET statement == Item.statement
      imm       == statement.imm
  IN  IF sections[Item.section].type = "bss" THEN "SECTION_ERROR"
      ELSE IF statement = NoToken THEN "NONE"
      ELSE FirstFault(<<SpellingFault(statement), OperandFault(statement),
                        ImmediateFault(imm, LocalLines # {}
                                            \/ SymbolsNamed(imm.value) # {})>>)

RejectObject == InLoop("emit") /\ ObjectFault # "NONE" /\ Fail(ObjectFault)

(* Faulty variant: the offset of the line is forgotten.                    *)
PutInFront(bytes) ==
  contents' = [contents EXCEPT ![Item.section] =
    [k \in DOMAIN @ |-> IF k \in 1..Len(bytes) THEN bytes[k] ELSE @[k]]]

(* memcpy into the section.                                                *)
Put(bytes) ==
  contents' = [contents EXCEPT ![Item.section] =
    [k \in DOMAIN @ |-> IF k \in (Item.offset + 1)..(Item.offset + Len(bytes))
                          THEN bytes[k - Item.offset] ELSE @[k]]]

Emitting(kind) == InLoop("emit") /\ ObjectFault = "NONE" /\ kind

EmitData ==
  /\ Emitting(Item.statement = NoToken)
  /\ Put(Item.bytes)
  /\ UNCHANGED <<labels, address, symbols, relocations>>
  /\ NextItem

(* A label of the section itself gives its offset there, ...               *)
EmitInstruction ==
  /\ Emitting(Item.statement # NoToken)
  /\ IsUse(Item.statement) => LocalLines # {}
  /\ Put(InstructionOf(Item.statement,
                       lines[CHOOSE i \in LocalLines : TRUE].offset))
  /\ UNCHANGED <<labels, address, symbols, relocations>>
  /\ NextItem

(* ... and any other symbol is left to the linker.                         *)
EmitReference ==
  /\ Emitting(Item.statement # NoToken)
  /\ IsUse(Item.statement)
  /\ LocalLines = {}
  /\ Put(InstructionOf(Item.statement, 0))
  /\ \E i \in SymbolsNamed(Item.statement.imm.value) :
       relocations' = Append(relocations,
                             [section |-> Item.section,
                              offset |-> ToWord(Item.offset + 4),
                              pcRelative |-> FALSE, symbol |-> i, addend |-> 0])
  /\ UNCHANGED <<labels, address, symbols>>
  /\ NextItem

AssembledObject ==
  [valid |-> TRUE, kind |-> "object",
   sections |-> [s \in 1..Len(sections) |->
                   [type |-> sections[s].type, located |-> sections[s].located,
                    alignment |-> sections[s].alignment,
                    address |-> sections[s].address,
                    size |-> sections[s].size, data |-> contents[s]]],
   symbols |-> symbols, relocations |-> relocations, entrySymbol |-> entry]

(* What the encoder refuses of an image, this one never has (ObjectDecodes *)
(* in AssemblerProperties), so that it fails on its allocations only.      *)
Encode ==
  /\ stage = "encode"
  /\ output' = AssembledObject
  /\ stage' = "done"
  /\ UNCHANGED <<source, pending, procedure, context, lines, labels, at,
                 address, made, error>>

(* An allocation may fail anywhere, and ends the assembly.                 *)
OutOfMemory ==
  /\ stage # "done"
  /\ Fail(IF stage = "encode" THEN "SECTION_ERROR" ELSE "OUT_OF_MEMORY")

-----------------------------------------------------------------------------
(* asm_init selects the text section.                                      *)
Init ==
  /\ source \in Sources
  /\ stage = "directives"
  /\ pending = source.lines
  /\ procedure = NoName
  /\ sections = <<NewSection("text")>>
  /\ current = 1
  /\ globals = << >>
  /\ externals = << >>
  /\ entry = NoName
  /\ lines = << >>
  /\ labels = [name \in {} |-> 0]
  /\ at = 1
  /\ address = 0
  /\ symbols = << >>
  /\ relocations = << >>
  /\ contents = <<<< >>>>
  /\ error = "NONE"
  /\ output = NoOutput

Proceed ==
  \/ ReadStatement \/ ReadData \/ SelectSection \/ AlignSection \/ Locate
  \/ DeclareSymbol \/ BeginProcedure \/ EndProcedure \/ RejectLine
  \/ EndLoop \/ DuplicateLabel \/ NumberLine
  \/ RejectRaw \/ Translate \/ ReturnRaw
  \/ LabelSymbol \/ PassUnlabelled \/ UndefinedGlobal \/ ExportSymbol
  \/ ImportSymbol \/ RejectObject \/ EmitData \/ EmitInstruction
  \/ EmitReference \/ Encode

Next == Proceed \/ OutOfMemory

Spec == Init /\ [][Next]_vars

(* The call runs by itself until it returns.                               *)
FairSpec == Spec /\ WF_vars(Proceed)
=============================================================================
