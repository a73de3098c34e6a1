# A TLA+ model of zlvm

zlvm is a toolchain for a small 32-bit machine: an assembler (`zlasm`), a static linker
(`zllink`), the object and executable format they share, and the virtual machine (`zlvm`)
that runs the result. This directory holds TLA+ modules translated from its C source, the
TLC configurations that check them on small instances, and TLAPS proofs of what holds for
every instance. Paths such as `emulator/src/ALU.c` are relative to `src/`.

## The system

| part | state it keeps | operations | talks to | what must hold |
|---|---|---|---|---|
| Words and ALU (`emulator/src/ALU.c`) | operands, result, flags N Z C V S of one operation | `alu_compute`, `alu_setFlags` | called by `vm_do_operation` | flags and conditions say what the programmer reads out of them; the two's complement variants agree |
| Conditions and decoding (`Condition.c`, `Opcode.c`, `Instruction.c`) | none | `instruction_decode`, `instruction_encode`, name tables | the machine, the assembler | an illegal encoding is refused before it has any effect |
| Virtual machine (`VirtualMachineInternal.c`) | 32 registers, CPSR, ROM, RAM, entry point | every instruction; `vm_initialize`, `vm_loadDump`, `vm_loadImage`, `vm_run`, `vm_destroy` | image codec (`vm_loadImage`), stdin/stdout through `INT` | faults are precise, writes are confined, the stack is a stack, stopped is stopped, images load wholly or not at all |
| Linker (`emulator/src/Linker.c`) | placed sections, collected symbols, a cursor | `zl_link_objects` | image codec at both ends | sections apart, references resolved, refusals justified, the result loads |
| Image codec (`emulator/src/Image.c`) | none between calls | `zl_image_encode`, `zl_image_decode`, `zl_image_free` | assembler, linker, machine | what is decoded is what was encoded; what is accepted is well formed; reads stay in the buffer |
| Assembler (`asm/src/Assembler.c`, `LabelTable.c`, `LineList.c`) | line list, label table, section table, external and global names | directives, labels, translation to raw code and to an object | parser, macro expander, codec | both passes agree on addresses; a reference means its label, also after linking |
| Macro expander (`asm/src/Macros.c`) | definitions, stack of expansions | capture, argument binding, expansion to depth 64 | between parser and assembler | expansion ends; arguments are those of the call |
| Lexer (`Lexer.c`, `Token.c`) | position, line and column in the text | tokens and their values | macro expander, parser | no character lost; places and values are those of the text |
| Parser (`Parser.c`, `Statement.c`) | position in the tokens | lines | assembler | exactly the grammar; no token lost; the diagnostic points at the culprit |
| Assembler memory and errors (`Memory.c`, `Error.c`, `zlasm.c`) | a thread-local context with a list of live allocations and a jump target | tracked allocation, error exit | all of the assembler, its callers | an assembly that fails anywhere frees everything once, whatever other threads do |
| Command lines (`*/main.c`) | none | read files, call a library, write files | all | exit status |

The tools are single-threaded, send no messages and keep nothing across runs, so there is no
crash recovery and nothing is lost or reordered on the way. The assembler is also a library
whose only global variable is thread-local, so that threads may assemble side by side: that
is the one place with interleavings. What is hard elsewhere: the order in which a host calls
the machine, several effects inside one instruction that fails half way, a jump out of the
middle of any operation of the assembler, numbers at the edges of their types, passes over
the same lines that must agree, walks over lists in which the order of the objects must not
matter, and calls that must come back. `PROJECT.json` lists each of these hazards at its line,
with the properties that cover it.

## Modules

| module | models |
|---|---|
| `ZlWord` | bytes, halfwords, words and their conversions (`Types.h`, the byte order of `vm_read_scalar`/`vm_write_scalar`), in an arbitrary even base |
| `ALU` | results, flags and conditions as operators |
| `FlagMachine` | a machine that does nothing but `vm_do_operation`; its properties relate a condition to the operands of the operation before it |
| `VirtualMachine` | the machine: an action for each kind of instruction, each fault and each host call; `vm_run` and `vm_loadImage` in steps |
| `VMProperties` | what a program and its host rely on; the refinement mapping to `BoundedStack` |
| `BoundedStack` | the abstract stack: push, pop and dup of whole words, each of which fails with no effect |
| `ObjectFile` | the form of an object that the decoder promises and the linker assumes |
| `ImageCodec` | `zl_image_encode`, `zl_image_decode` and `zl_image_free`: the layout, every check and allocation, one step for each record |
| `ImageProperties` | what the users of the codec rely on, whatever the file is |
| `Linker` | `zl_link_objects`, one step for each turn of its loops |
| `LinkProperties` | what a caller of the linker relies on, stated over the objects and the result |
| `Macros` | `macros_expand`: capture of the definitions, binding of arguments, expansion with its stack of calls |
| `MacroProperties` | what the lines of a source mean, and what its author relies on |
| `InstructionSet` | opcodes, and the eight bytes of an instruction; used by the machine, which decodes them, and by the assembler, which makes them |
| `Lexer`, `LexerProperties` | `lexer_readToken`: where each kind of token ends, what it is worth, what is refused; what the tokens say of the text |
| `Parser`, `ParserProperties` | `parser_parse`, a step for each line; the grammar |
| `Reader` | the lexer and behind it the parser, as `assemble_source` calls them |
| `Assembler`, `AssemblerProperties` | `asm_processDirectives`, `asm_processLabels` and both translations, a step for each line of each pass; what a program may rely on |
| `Toolchain` | several files assembled to objects and linked: `Assembler` and `Linker` composed; what the executable has to do with the sources |
| `Arena` | the abstract contract of the assembler's memory: a call takes free blocks, gives back its own, keeps none |
| `AsmMemory`, `AsmMemoryProperties` | `Memory.c`, `Error.c` and the skeleton of `assemble_source`, a step for each call of the allocator, for several threads; the refinement mapping to `Arena` |
| `MCAssembler` | pools of source lines, for `MCToolchain` |
| `MCMacros`, `MCReader` | pools of tokens with macros, and of texts |
| `MCFrontEnd` | both side by side: the expander or the reader has work, the other is idle |
| `MCFlagMachine`, `MCVirtualMachine`, `MCLinker`, `MCImage`, `MCFrontEnd`, `MCReader`, `MCToolchain`, `MCAsmMemory` | the instances TLC checks |
| `WordProofs`, `FlagMachineProofs`, `VMProofs`, `LinkProofs`, `ImageProofs`, `FrontEndProofs`, `AsmMemoryProofs`, `AssemblerProofs` | theorems (those of `Toolchain` are in `AssemblerProofs`, those of `Reader` and of `Macros` in `FrontEndProofs`) |

How state corresponds to code. In `VirtualMachine`, `registers`, `memory` (the ROM followed
by the RAM, as `vm_valid_address` sees them), `flags`/`ST` (the two halves of the CPSR) and
`entryPoint` are the fields of `struct VirtualMachine`; `console` is the last character
written; `phase`, `image` and `next` are the program counter of the C code: whether the host
runs, `vm_run` loops, or `vm_loadImage` is in its checking or its copying loop, and at which
section. One instruction is one step, because nothing can observe the machine inside of it;
its guard collects the early returns of the C function, so that the failing and the
succeeding way through a `case` are two actions. In `Linker`, `stage` is the part of the
function that runs, `object` and `source` are the counters of its nested loops, and `placed`,
`symbols`, `cursor` its local arrays; `error` and `output` are the results. In
`ImageCodec`, `file` is the buffer, `image` and `error` are what the C parameters point to,
`stage` and `index` are the loop and its counter, `blocks` are the allocations that nobody has
freed, and `touched` records the offsets that the last step has read. A file is a sequence of
*cells*: a number of any width, a character and a byte of payload are one cell each. The
byte order of a number inside of its cell is therefore not modelled here; that of the
machine is, in `ZlWord`. The modules meet in data: `Linker` starts from objects that satisfy
`Decoded` of `ObjectFile`, and `AcceptedIsWellFormed` of `ImageProperties` says that the
decoder delivers them. In `Macros`, `program` are the tokens of the lexer with
their place in the source (`at`), and `frames` are the activations of the recursive
`expand_range`, one for the file and one for each call in progress; its `macro` fields are the
array `stack`. A token is a kind and a spelling; a spelling is a sequence of pieces, because
the expander looks for `@` in front of an identifier and for `=` inside of it. A definition is
captured in one step, a token is copied in one step, and a call is one step.

In `Lexer`, `pos`, `line` and `col` are those of `LexerState` and `lexed` the list of tokens;
a token is read in one step, since nothing sees the middle of it. A character is one that some
rule names, or stands for a run of letters. In `Parser`, `next` is the position of the token
stream; a line is read in one step, and a label, a condition code or an immediate that is
not there is an empty sequence. In `Assembler`, `stage` is the pass and `at` its counter;
`sections`, `current`, `globals`, `externals`, `entry`, `lines` and `labels` are the fields of
`AssemblerContext`, `pending` are the lines the first pass has not reached, and `contents` the
bytes made so far. Lines are given as the parser leaves them: a statement by its opcode,
condition, registers and immediate, an argument by its kind and value. `Toolchain` adds the
variables of `Linker` and the list `files` of what has been assembled, which the C tools keep in
object files.

In `AsmMemory`, `heap` is the set of blocks that `malloc` has given out, `context` the
thread-local pointer and `allocations` the list that hangs on the context at each address;
`error`, `diagnostic`, `binary` and `code` are the locals of `assemble_source`. A block and the
node that tracks it are two allocations in two steps, either of which can fail, and the list
is released block by block; between the steps of one call other threads take theirs.

Definitions marked "Faulty variant" are not part of any specification. Each is a plausible
bug in the definition that follows it; put in its place, it makes the property that
`PROJECT.json` names with it fail, which shows that the property depends on that code.

## What the runs check

| run | instance | questions |
|---|---|---|
| `flags` | every operation after every other, on words of four two-bit bytes, with operands around 0, 1, the sign bit and the largest word | does every condition order the operands it was computed from (`ConditionsOrder`), are C and V exact (`FlagsAreExact`), do quotient and remainder belong together (`DivisionIdentity`) |
| `instructions` | one of 8 setups and any two of 53 instructions, halt | `$zero`, precise faults, confined writes and byte order (`StoresAreExact`) |
| `host` | load dumps and images, run and destroy in any order; or any four of 8 stack operations, or any two instructions with forward jumps and without input | images are checked before they are copied and in place when accepted; a stopped machine stays stopped; push, pop and dup refine `BoundedStack`; `vm_run` returns |
| `entry` | as `host` | **violation**: the documented start at address zero does not hold for a linked image |
| `image` | 19 images, eleven of which the encoder must refuse, and files that differ from a good one in a cell, in two cells of the header, or in their length | does every read stay in the buffer and a refusal leave no allocation (`MemoryIsSafe`), is what is accepted well formed, do encoder and decoder agree |
| `link` | all lists of one to three of 13 objects, three choices of the entry | placement, references, verdicts, loadability, termination |
| `link_wrap` | as `link` | **violation**: the documented rejection of 32-bit overflow misses symbols of other objects |
| `front_end` | texts of up to five tokens of six, four of seven, three of eleven, labelled statements of up to five of five; any four of twelve characters; numbers in each base. Or, for the expander, all pairs of 29 pieces, good and bad definitions and calls, and all pairs of calls behind, and each call before, a library of four macros that call each other | are the tokens those of the text (`TokensAreTheText`), are places and numbers exact, is exactly the grammar accepted with no token lost, does the diagnostic point at the token that does not fit; does expansion give what the lines mean, is no call left and does every token point at its call (`ExpansionIsFaithful`), does the stack of calls stay in its array, does expansion end |
| `comments` | the texts of `front_end` | **violation**: a `;` directly behind an identifier, a label, a directive or a register does not begin a comment |
| `toolchain` | sources of up to three of 21 lines, two of 49, five of six layout lines, each to a raw image and to an object; programs of one to three files of a pool with every error of the linker | do lines keep places of their own, do the passes agree (for raw images: of sources without `.align` and `.locate`), do objects say what their lines say, has the executable the bytes of every line and the address of every label, is a refusal the sources' fault, does the location never go back, does the assembler return |
| `local_labels` | as `toolchain` | **violation**: a label of the same section does not become an absolute address |
| `memory` | two threads, a heap of six blocks, every allocation may fail | has every block one owner (`OneOwner`), is every answer a success or a failure, is it an `Arena` |

Bounds and why they are enough. The runs of the machine use bytes of six bits, so that a word
still holds every opcode, condition, register number and interrupt code, a ROM of 24 to 40
bytes (the program plus room behind it), a RAM of 8 to 13 and a stack of two words (one in
`entry`): each boundary (end of ROM, end of stack, end of RAM, wrap of an address) lies within reach of
a single instruction of the pool. `MaxSteps` bounds the instructions executed by one
behaviour of `instructions`; the only loops of the pools are backward jumps whose repetition adds nothing after
the first turns. The runs of the linker use words of 256 values and a ROM of 40 bytes. The
pool of objects has a member for each branch: automatic, aligned, located and overlapping
sections, one that ends with the ROM and one that ends behind it, bss, local, weak, global and
undefined symbols of the same names, both kinds of relocation, overlapping fields, a value
below zero and one above a word, an object without sections, a damaged one and an executable.
Three objects are enough to put a definition before and after its use with something between.

The run of the codec uses words of 256 values. A damaged cell takes
the values around zero, the size of the header and of the file, and the largest word, which
are those that the checks compare with; a pair of header cells is damaged together because an
offset and a count, or two offsets, are checked against each other. The images have all types
of section, a name in each place, an empty name, undefined symbols and both relocations, and
sizes up to one cell below the largest file.

In `front_end`, the limit of nested calls is 3 instead of 64, so that a chain of four macros exceeds it, also
with four different ones, and a circle of two is found before it.

The runs of the assembler use bytes of 64 values and a ROM of 60 bytes, so that one or two lines
with `.locate` reach its end and one line passes it. Three lines are enough to put a
directive between a label and its use, five of the layout lines to leave a section and come back to it
twice. Three files are enough for a reference over a file in between, and for a definition in
each. The largest number of the lexer is 15 instead of 2^64 - 1: the check before the
multiplication meets its last digit after one, two and five digits, in the bases 16, 8 or 10,
and 2. Two threads and six blocks are one call that needs four (context, diagnostic, a block,
its node) and a second one that gets as far as the same blocks allow; the blocks, and the
threads, are interchangeable (`Symmetry`, for the safety properties of that run). For more, there is the proof.

Fairness. `RunsReturn` assumes that a started instruction loop goes on (`WF(Step)`,
`WF(FinishRun)`), `LinkReturns` that the function goes on (`WF(Proceed)`, where a failing
allocation does not count), `ExpansionEnds` that the expander goes on (`WF(MacroNext)`), and
`AssemblerReturns` that the passes go on (`WF(Proceed)` of `Assembler`): all
four are C functions that run on the caller's
thread and wait for nothing. The one exception is the input of `INT`, which waits for stdin. The
pool of instructions of the run `host`, with which `RunsReturn` is checked, has none, so that
nothing is assumed of who answers; reads are in the pool of `instructions`, which checks no liveness. Nothing
is assumed of the host, nor of the reader.

## What is proved

`WordProofs` proves the arithmetic: bytes cut from words and put together again, conversion
modulo the width, uniqueness of quotients and remainders, closure of every operation of the ALU;
and that a recursive function over the numbers exists (`LeastMember`, `CountingUp`). It assumes
of the base only that it is even and at least 2, and of the bitwise conjunction of two bytes
only that its value exceeds neither operand and that the disjunction computed from it is a
byte (`ByteBaseAssumption`, `ByteAndAssumption`).

`FlagMachineProofs` proves `ConditionsOrder` (its parts `UnsignedOrder` and `SignedOrder`),
`FlagsAreExact` (`CarryIsExact` and `OverflowIsExact`), `DivisionIdentity` and `TwosComplement` for every width. The inductive invariant says that the flags are those of
the last operation with its operands; the properties then are facts about that operation. The
core is `SignedDifference`: the sign of a wrapped difference is wrong exactly when it
overflows. `DivisionIdentity` multiplies two variables, which the provers do not decide; it
rests on the uniqueness of the remainder, on `TruncatedDivision` (division of magnitudes with the
signs put back) and, for the one quotient that does not fit, on the wrap-around of the product.

`VMProofs` proves of `VirtualMachine`, for all sizes of the memories, all dumps and all images:
`TypeOK`, `ZeroRegister`, `CopiesOnlyChecked` (together they are part of the inductive
invariant `IInv`, which adds that the sections before `next` have been checked), and the
action properties `FaultIsPrecise` and `StoppedForGood`. `AcceptedIsInPlace` has an invariant of
its own (`CopiedInv`): while the loader copies, the sections before `next` are in place, each
where no later one of them lies over it. `StoresAreExact` follows from what one write does: it
changes the bytes it addresses and no other (`OutsideOfWrite`), those lie in the memory or in the
stack window, because the check of the range comes first (`PushInside`, `StoreInside`), and
the same bytes read again are the value (`WriteReads`). The sizes are assumed to be what
`SizesAssumption` says (the ROM addressable, the stack window of at least a word).

The same module proves that the stack of `VirtualMachine` implements `BoundedStack`, step by step
(`StackImplementsLifo`): the words between `$bp` and `$sp` (`StackContents`) are the abstract stack; a
push appends one, a pop or `dup` reads the last, and each is refused exactly when the
stack is full or empty. The invariant (`StackInv`) says that `$sp` is a whole number of words above
`$bp`, at most as many as fit, and `$bp` the start of the window; the main lemma is that a write
behind or outside of these words leaves them. The theorem has two hypotheses. `StackFits`: the window
lies in the RAM and its addresses are words. `Disciplined`: the program does not name `$sp` or `$bp` as the
destination of an instruction, and no `storeb`, `storeh` or `storew` writes to the bytes that are on the stack; the
machine does not prevent either. Programs like that exist: TLC finds `Disciplined` and
`StackInv` true in every state of the run `host` when they are added there as invariants.

`LinkProofs` proves of `Linker`, for every size of the ROM and every list of objects that the
decoder accepts: `TypeOK`, `SectionsApart` and `OnlyReferencesChange`. The inductive invariant
is their conjunction with three facts: the list was accepted, the counters stay within the
object they walk through (`Counters`), and every section that the walk has passed has a place
(`AllReachedPlaced`). The last is what makes the relocation step defined at all: it looks the
place of a section up with `find_section`. The C code refuses the object where that fails
(`Linker.c` lines 152, 181 and 190); the invariant shows that it cannot, so `Linker` has no
action for it. That two
sections do not share a byte is needed for `OnlyReferencesChange`, too, since a field is
written into the one placed section it lies in.

The same module proves `VerdictIsTrue`, `ReferencesHold` and `LinkedImageLoads`, again for all objects in
any order. They need a second invariant on top of the first, `LinkInv`, which says what the tables
of the linker mean in the terms of the objects: every collected symbol comes from a definition, with
the address of its place (`SymbolsCome`); every global definition that has been passed is in
the table, and no two of them share a name (`GlobalsKept`, `GlobalsDiffer`); every field whose
relocation has been applied holds the address it asks for, unless a later relocation of its object
writes into it (`FieldsHold`); and while no address is given, all sections end before the cursor
(`Placing`), so that an overlap can only come from an address that was asked for. Two steps are
more than bookkeeping. A symbol value is wrapped before the addend is added to it, which does not
matter because both are taken modulo the width of a word (`ToWordAbsorbs`). And the application of a
relocation keeps all earlier fields, because it either writes to another section or is the later
relocation that `Overwritten` speaks of (`OtherFieldKept`).

`ImageProofs` proves `MemoryIsSafe`, `RoundTrip` and `AcceptedIsWellFormed` of `ImageCodec`, for every
image and every file. The invariant for the first
says: once the header has been accepted (`Sound`), the tables that it gives lie inside
the file; what is allocated is what `zl_image_free` and the error paths reach from the
image (`blocks \subseteq Reachable`), and nothing before the tables and after a refusal; and
the cells of a file are natural numbers. An offset plus a size is compared in a
type that holds both, so no sum wraps. That the
encoder makes a file of cells (`EncodedType`) is needed because what is decoded may be what was
just encoded. `CodecAssumption` says that images have the types of `ZlImage` (a name is a C string,
so it holds no zero; a section other than bss has as many bytes as its size says) and that files
are sequences of cells.

`RoundTrip` needs to know where the encoder has put everything: `EncodedParts` gives each cell of the
file by the part it lies in (the parts are computed sequences of computed lengths, so the places come
from `JoinedParts` and `JoinedRecords`, facts about sequences put together), `NamePlaces` and
`PayloadPlaces` the offsets of names and bytes. `WrittenHeader` is then what the decoder finds in the
header, `WrittenSound` that all its checks pass, and `WrittenSection`, `WrittenSymbol`,
`WrittenRelocation` and `WrittenEntry` that a record is read back as it was. The inductive invariant
(`Restoring`) says that at each stage the image is the restored one up to that table and entry
(`Partial`), and that the only error a file from the encoder can meet is a failed allocation.

`AcceptedImages` proves `AcceptedIsWellFormed`. For a file from the encoder it follows from `RoundTrip`
and the encoder's own checks (`RestoredIsWellFormed`). For any other file the invariant (`DInv`) says
that the tables read so far consist of entries that have passed their checks, as many as the counter
says, against the counts of the header (`Building`); at the end these are the lengths
of the tables, so that every index of a symbol or relocation exists. Two hypotheses say what
cells stand for: the linker takes any sequence of characters as a name (`Seq(Word) \subseteq Names`),
and the cells of a payload hold bytes (`BytesInPayload`, which TLC finds true in all states of the
run `image` when it is added there; in the code, where a cell of payload is a byte, it is nothing to check).

`AssemblerProofs` proves of `Assembler`, for every source and every size of the ROM, that lines
and sections lie apart (`LayoutApart`), that the passes keep their types (`TypeOK`), and that
locations never move back. The
invariant adds that what is still to be read are lines of the source. The work is in two
places: what the data of a directive are (`RawDataIsBytes`: the checks of the values make
bytes of them), and that a line recorded at the end of its section lies behind all others of
it (`RecordKeeps`).

The same module proves `RawImageHolds` for every source: without `.align` and `.locate`, the raw image is
the lines one after the other, each instruction decodes to its statement, and a label stands for
the place of the one line that has it. The code keeps the lines one after the other in every source
(`RawLines`, which is what the invariant says), but where one of these directives asks for
padding that is not what the documents promise (see below). The invariant follows the passes: behind the second one, every label in front
of the counter has the number of bytes in front of its line (`NumberedTo`); behind the third one,
the bytes made so far are those of the lines so far (`TranslatedTo`). The lemmas below it are
that an instruction read back is the statement it was made from (`InstructionDecodes`; it
rests on `WordRejoins` of `WordProofs`) and what the sizes of a list add up to (`Starts`).
Totals are recursive functions; that they exist and have their values is proved by taking the
least index without. `AssemblerAssumption` says that a byte
holds every opcode, that a word holds the size of the ROM, that lines have the form that
the parser gives them, and that the absence of a label (a null pointer) is not a string.

And it proves what `Assembler` says of objects. `ObjectHoldsItsSource` has no hypothesis: in every
object the bytes of a line are where the line was placed (`ObjectHoldsLines`), and its symbols and
relocations are those of the source (`ReferencesMeanLabels`: every label has its symbol, with the
place and the binding it should have; no name has two; every use of a label that is not local to a
section has exactly one relocation, to the symbol of that name). The invariant (`ObjectInv`) says what
each loop of `asm_translate_object` has made in front of its counter: `SymbolsMade` for the labels,
the globals that change the binding of a symbol made before, and the externals that come only if
there is no label of the name; `ContentsMade` and `RelocationsMade` for the lines, with as many
relocations as there are lines so far that need one. Behind the first pass it needs that no two
lines have the same label (`UniqueLabels`), since an exported symbol is looked up by its name, and
that alignments are powers of two. `ObjectMeansLinesAlways` adds `ObjectDecodes`: the encoder finds
nothing to refuse and the linker gets an object of the form it takes for granted. Its hypothesis
`NamesSuffice` is about the vocabulary only: the set `Names` of the linker has every text of a source, and
with two names also the label that `set_label_context` makes of them (in the runs `Names` is
`STRING`, with which it holds).

Under the same hypothesis, and for any number of files, it proves what `Toolchain` says of a whole
program: `ExecutableIsProgram` and `RefusedForSource`. `Toolchain` takes `Linker` as an instance of
`LinkProofs` whose requests are `Calls`, lists of objects that decode, so the theorems above about the linker hold
of the instance (the module proves that its words and tables are the assembler's, `SameWords` and
`SameTables`). The invariant (`BuildInv`) says of every file done that its object is one that the
assembler makes of its lines (`FileMade`: the lines apart, the bytes in their places, the symbols and relocations
those of the labels), that the linker is called with exactly those objects, and, while it works, what its own
invariants say. What is left is to follow one line from the source into the executable. The linker changes
no byte but the fields of relocations (`OnlyReferencesChange`) and no size (`SizesKept`); a
field of a relocation is the immediate of one line and no other line is touched by it
(`LinesUntouched`), since the lines are apart and the relocation of a line lies behind its first four bytes; a
line with a label that is not local has one relocation and no more, because there are as many
relocations as such lines (`RelocationOfLine`), so none is overwritten by a later one. The address put there is
then that of the one definition of the name: a symbol of an object is the line with that label
(`SymbolIsLabel`), and a name that is not defined in the file is the one global of that name
(`OneMeaning`). `BuildsAssumption` says what `zlasm` and `zllink` are called with: each build has at least one
file, all of them with `-c` if there are several, and the ROM is not smaller than its first usable address.

`FrontEndProofs` is about the lexer, the parser and the macro expander. Of `Reader` it proves `TokensAreTheText` and
`PlacesAreTrue` for texts of any length and any characters; what is assumed is that a source is a text with a
place (`SourcesAssumption`). The invariant (`TextInv`) says that each token lies in the part that has been read,
at a place with the line and column that counting gives (`IsPlaced`), ends where `End` says and has the kind and
value that `Kind` and `Value` give there (`IsToken`); that the tokens follow one another, and that what is between
two of them, and behind the last, is white space. That a token gets on at all is `EndIs`: its end is behind its
first character and not behind the text. The end of a word is a recursive function of the text (`WordEnd`: a
colon ends a label only if what follows is no word); that such a function exists, with the equation that defines it, is
`WordEndsExist`, by `CountingUp` from the end of the text. `ReadAlone` is then a set of facts about a token cut out of
its text: it ends at its own end (`EndAlone`, by induction on the distance from the end for a word: `WordAlone`), has the same kind and
value (`KindAlone`, `ValueAlone`), and has no flaw it did not have (`FlawAlone`). For the places, the line and column behind a
token are those in front of it moved by the newlines inside of it (`LineAfter`, `ColumnAfter`), which is what makes them right
behind a string that runs over lines.

Of the parser it proves, for sources of any length, `NoTokenLost`, `AcceptsGrammar` and `DiagnosticAtCulprit`,
behind the lexer and from the same assumption. `ParseInv` says that the lines that were read, written out
one after the other, are the tokens in front of `next` without those that stand for nothing (`Reads`). A line
more keeps it: what is read with a line is `LineTokens` (`ReadOn`), and a line that is
read and written again is these (`WrittenIs`), because its parts follow one another up to the last token (`PartsJoin`,
`EndsAre`). `LinesInv` adds that there is a line for every `Begins` so far and each is `InGrammar`,
and that `next` is where a line may begin (`AtLineEnd`): behind a comment or a newline, and not behind a label alone on a line,
which the parser has read with what follows it. From there the token at `LineStart` begins the next line (`LineBegins`), none
begins inside of it (`NoneInside`), and the next one begins where it ended, or the line is a label, a newline and
another label, which is refused (`OpenEnd`, `TwoLabels`). What the parser takes for parts has a shape of the
grammar (`TakenFits`), and with one token more no line of the grammar begins so (`NoMoreFits`): the first gives
that what is accepted is a line, the second that what is refused is none and that the diagnostic is at the first token that does not
fit. `Without` and `FlattenSeq` are recursive functions; `WithoutNext`, `WithoutJoin`, `WithoutUpTo` and `FlattenAppend` say
what they do with one element more, with two parts of a list and with a beginning of it.

Of `Macros` it proves `CallsInBounds` for every program and every limit: the calls in
progress fit into the array `Macro *stack[64]`, and none of them is there twice. Apart from that
the invariant only says that there is a stack of frames, whatever they hold, so nothing is
assumed of the tokens. That calls cannot repeat is what makes expansion end.

`AsmMemoryProofs` proves `OneOwner` and `AnswerIsClear` of `AsmMemory` for any set of threads and of
blocks, and that it implements `Arena` (`ImplementsArena`). The only assumption is that NULL is
no block. The inductive invariant adds to `TypeOK`, `NothingLeaks`, `FreedOnce` and
`AnswerIsClear` what each place in `assemble_source` has in hand (`Stages`): which locals are set, and
when there is a context. The one hard step is that of any thread against the others: it changes
its own blocks, takes free ones, and so leaves the blocks of every other thread alone; the list of
another thread's context is not touched because the contexts are different blocks. Each step
then is a call, work or return of `Arena`, or a change of the blocks of the caller.

## What is only model-checked

Liveness (`RunsReturn`, `LinkReturns`, `ExpansionEnds`, `AssemblerReturns`), which needs ENABLED;
what macros expand to (`ExpansionIsFaithful`), because its reference `Meaning` is RECURSIVE; and the values of numbers
(`NumbersAreExact`), a sum of powers.

## What the checks found

1. `vm_run` starts a linked image at its entry point; `docs/ISA.md` lines 19 and 266 say that
   the machine starts at address zero also with `.entry` (run `entry`).
1. `Linker.c` line 157 adds addresses in 32 bits. A reference from another object to a symbol
   whose address exceeds a word is linked to the wrapped address, whereas the same reference
   from the defining object is rejected, as `docs/ISA.md` line 303 promises (run `link_wrap`).
1. An instruction that uses a label of its own section gets the label's offset in the section
   (`Assembler.c` line 451) and no relocation. In an executable, whose automatically placed
   sections begin at address 8 (`Linker.c` line 109), that is not the address of the
   label; `docs/ISA.md` line 34 gives the immediate as the "absolute target address" (run `local_labels`).
1. An identifier, a label and its use, a directive and a register end at white space, a newline or a
   comma only (`Lexer.c` lines 148, 157, 166, 244), so that `nop;x` is one identifier and `.;`
   one directive; only numbers end at a `;`. `docs/ISA.md` line 237 says that "`;` begins a comment
   that continues to the end of the line", and `README.md` line 126 "`;` starts a comment" (run `comments`).

Further disagreements with the documents, seen while modelling. The modules have the behaviour of
the code, no run is about them, and no property claims what the document says:

- A raw image is the lines one after the other, without the gaps that `.align` and `.locate` ask
  for, and its labels are counted without them (`Assembler.c`, `asm_translate`); `docs/ISA.md` gives
  `.align` as "Nonzero power-of-two padding" (line 265) and says that `.locate` "creates zero padding"
  (line 267), without limiting either to objects. `RawImageHolds` therefore speaks of sources
  without these directives; in objects the gaps are there (`ObjectHoldsLines`).
- Behind a section with an explicit address below 8, automatic sections are placed below 8 too
  (`Linker.c` lines 109 to 130, where only the first value of `cursor` is 8); `docs/ISA.md` lines 303
  and 304 say that they start at `0x0008`.
- The first line of a `.proc` body loses its own label: it gets the name of the procedure as its label and the
  label it had is cleared (`Assembler.c` line 137); `docs/ISA.md` line 239 says that labels inside are
  prefixed. `ObjectMeansLines` is about the labels that are left.
- `.space` in a bss is refused when an object is made (`Assembler.c` line 424), although
  `docs/ISA.md` line 274 gives it as "Reserve zero-initialized bytes".

Other things a reader should know, of which the documents say nothing: a stopped machine ignores
every later load and run; an image's entry symbol may be a local symbol of another object, and
an entry symbol at address zero ends the search even if a later object defines the name at a
nonzero address;
an executable refused for its zero entry or its relocations leaves its kind and entry in the
decoded image (`Image.c` line 385), where every other refusal clears it, but no allocation;
a parameter on the right side of a named argument inside of a body (`inner value=parameter`) is
one token to the expander and is not replaced; a `.macro` in the middle of a line takes the
newline behind its `.endmacro` with it, which joins two lines (`ExpandsToMeaning` therefore
asks for definitions that begin a line).

In the assembler: `.align` aligns the size of a section and not its address; a label in front of a
directive that stores nothing is dropped; characters as
immediates are sign-extended; a failing encoder is reported as a section error, also when
memory is what it lacks. In the reader: a comment between a label on its own line and its
statement, or a comma at the beginning of a line, is refused.

## What is not modelled

The texts of messages, the spelling of mnemonics, conditions and registers (a line is given by
the names they stand for), the two cases of letters, the escapes and values of character
literals (the assembler's lines are given their value), the bytes of numbers inside of a cell of
an image file, and `exit` on a failed `vm_calloc`. `zl_link_objects` and `zl_image_encode` refuse null
arguments before anything else; those checks are left out, and so are counts above 2^32 in the encoder.

Of the command lines (`asm/main.c`, `linker/main.c`, `emulator/main.c`) only the calls of the
libraries are modelled, by `Toolchain` and by the host of `VirtualMachine`; the parsing of arguments and
the reading and writing of files is plain input and output with an exit status.

`AsmMemory` leaves out what is computed between two calls of the allocator, and the modules of
what is computed leave out that an allocation may fail, which ends the call in each of them.
