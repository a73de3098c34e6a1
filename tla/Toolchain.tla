----------------------------- MODULE Toolchain -----------------------------
(***************************************************************************)
(* A program of several files: each is assembled to an object (zlasm -c,   *)
(* asm/main.c) and the objects are linked (zllink, linker/main.c).  It     *)
(* puts Assembler and Linker together, one call after the other, and keeps *)
(* the lines of each file beside its object.                               *)
(***************************************************************************)
EXTENDS AssemblerProperties

CONSTANTS
  Builds,     \* sequences of sources, and the --entry of the link or NoName
  NoImage

VARIABLES
  build,      \* what is built
  files,      \* the files assembled: their objects, lines and globals
  request, linkStage, linkObject, linkSource, cursor, placed, linkSymbols,
  linkError, executable    \* the variables of Linker

(* What the linker is called with: objects of the assembler.               *)
ObjectFiles ==
  {o \in [valid : {TRUE}, kind : {"object"}, sections : Seq(ObjectSection),
          symbols : Seq(Symbol), relocations : Seq(Relocation),
          entrySymbol : Names \cup {NoName}] : Decoded(o)}
Calls == [objects : Seq(ObjectFiles) \ {<< >>}, entry : Names \cup {NoName}]

link      == <<request, linkStage, linkObject, linkSource, cursor, placed,
               linkSymbols, linkError, executable>>
buildVars == <<vars, build, files, link>>

Link == INSTANCE LinkProofs WITH
  Requests <- Calls, stage <- linkStage, object <- linkObject,
  source <- linkSource, symbols <- linkSymbols, error <- linkError,
  output <- executable

(* Only objects are built together; a raw image is alone.                  *)
ASSUME BuildsAssumption ==
  /\ RomSize >= Link!FIRST_ADDRESS
  /\ \A b \in Builds :
       /\ b.sources \in Seq(Sources) \ {<< >>}
       /\ Len(b.sources) > 1 => \A f \in 1..Len(b.sources) : b.sources[f].object
       /\ b.entry \in Names \cup {NoName}

Assembling == Next /\ linkStage = "waiting" /\ UNCHANGED <<build, files, link>>

Saved == Append(files, [object |-> output, lines |-> lines, globals |-> globals])

(* The next file begins as the first one did (Init).                       *)
NextFile ==
  /\ output # NoOutput
  /\ linkStage = "waiting"
  /\ Len(files) + 1 < Len(build.sources)
  /\ files' = Saved
  /\ source' = build.sources[Len(files) + 2]
  /\ stage' = "directives" /\ pending' = source'.lines
  /\ procedure' = NoName /\ sections' = <<NewSection("text")>> /\ current' = 1
  /\ globals' = << >> /\ externals' = << >> /\ entry' = NoName
  /\ lines' = << >> /\ labels' = [name \in {} |-> 0] /\ at' = 1 /\ address' = 0
  /\ symbols' = << >> /\ relocations' = << >> /\ contents' = <<<< >>>>
  /\ output' = NoOutput
  /\ UNCHANGED <<error, build, link>>

StartLink ==
  /\ output # NoOutput /\ source.object
  /\ linkStage = "waiting"
  /\ Len(files) + 1 = Len(build.sources)
  /\ files' = Saved
  /\ request' = [objects |-> [f \in 1..Len(Saved) |-> Saved[f].object],
                 entry   |-> build.entry]
  /\ linkStage' = "call"
  /\ UNCHANGED <<vars, build, linkObject, linkSource, cursor, placed,
                 linkSymbols, linkError, executable>>

Linking == Link!Next /\ linkStage # "waiting" /\ UNCHANGED <<vars, build, files>>

BuildInit ==
  /\ build \in Builds
  /\ source = build.sources[1]
  /\ Init
  /\ files = << >>
  /\ request = [objects |-> << >>, entry |-> NoName]
  /\ linkStage = "waiting"
  /\ linkObject = 1
  /\ linkSource = 1
  /\ cursor = Link!FIRST_ADDRESS
  /\ placed = << >>
  /\ linkSymbols = << >>
  /\ linkError = "NONE"
  /\ executable = NoImage

BuildNext == Assembling \/ NextFile \/ StartLink \/ Linking

BuildSpec     == BuildInit /\ [][BuildNext]_buildVars
BuildFairSpec == BuildSpec /\ WF_vars(Proceed)

-----------------------------------------------------------------------------
(* The lines of the program, as <<file, line>>.                            *)
ProgramLines   == UNION {{f} \X (1..Len(files[f].lines)) : f \in 1..Len(files)}
LineOf(p)      == files[p[1]].lines[p[2]]
Exports(f)     == {files[f].globals[g] : g \in 1..Len(files[f].globals)}
LinesOf(name)  == {p \in ProgramLines : LineOf(p).label = name}
PublicLines(name) == {p \in LinesOf(name) : name \in Exports(p[1])}

Home(p)         == executable.sections[Link!PlaceOf(p[1], LineOf(p).section)]
FinalPlace(p)   == Home(p).address + LineOf(p).offset
FinalBytes(p)   == SubSeq(Home(p).data, LineOf(p).offset + 1,
                          LineOf(p).offset + LineOf(p).size)

(* What a label means in file f: its line there, or a public one elsewhere.*)
MeaningOf(f, name) ==
  LET own == {p \in LinesOf(name) : p[1] = f}
  IN  IF own # {} THEN own ELSE PublicLines(name)

SharesSection(p, q) == p[1] = q[1] /\ LineOf(p).section = LineOf(q).section

(* The executable has the bytes of every line of every file at the place   *)
(* of the line, and an instruction that uses a label of another section or *)
(* file holds the final address of the line that has that label, which     *)
(* must be one.                                                            *)
(* Code: asm_translate_object and zl_link_objects, through the symbols and *)
(* relocations of the object files.                                        *)
ProgramMeansSource ==
  executable # NoImage =>
    \A p \in ProgramLines :
      LET line == LineOf(p)
      IN  IF ~UsesLabel(line) THEN BytesOf(FinalBytes(p), line, 0)
          ELSE \E q \in ProgramLines :
                 /\ MeaningOf(p[1], UsedLabel(line)) = {q}
                 /\ SharesSection(p, q) \/ BytesOf(FinalBytes(p), line, FinalPlace(q))

(* The program starts at a line with the label that was asked for: by the  *)
(* command line, by the first file with an .entry, or "start".             *)
(* Code: the selection of the entry in zl_link_objects, and .entry.        *)
StartsAtLabel ==
  executable # NoImage =>
    \E p \in LinesOf(Link!SelectedEntry) : executable.entry = FinalPlace(p)

(* The executable is the program of the sources, and starts where they say.*)
(* Code: asm_translate_object and zl_link_objects together.                *)
ExecutableIsProgram == ProgramMeansSource /\ StartsAtLabel

(* A program of objects that the assembler made is refused for a symbol    *)
(* only if its files say so: a label used where it is not defined, and     *)
(* exported by no file, or exported by two.                                *)
(* Code: the error paths of zl_link_objects, on objects of the assembler.  *)
RefusedForSource ==
  /\ linkError = "UNRESOLVED_SYMBOL" =>
       \E p \in ProgramLines : /\ UsesLabel(LineOf(p))
                               /\ MeaningOf(p[1], UsedLabel(LineOf(p))) = {}
  /\ linkError = "DUPLICATE_SYMBOL" =>
       \E p, q \in ProgramLines : /\ p # q
                                  /\ LineOf(p).label = LineOf(q).label
                                  /\ p \in PublicLines(LineOf(q).label)
                                  /\ q \in PublicLines(LineOf(q).label)

(* "Immediate value or absolute target address" (docs/ISA.md): a label of  *)
(* an instruction's own section stands for its address, too.  The code     *)
(* puts its offset in the section there and makes no relocation for it, so *)
(* that a jump inside of a linked section goes astray.                     *)
(* Code: find_symbol_line in asm_translate_object.                         *)
LocalLabelsAreAddresses ==
  executable # NoImage =>
    \A p \in ProgramLines : UsesLabel(LineOf(p)) =>
      \E q \in MeaningOf(p[1], UsedLabel(LineOf(p))) :
        BytesOf(FinalBytes(p), LineOf(p), FinalPlace(q))
=============================================================================
