-------------------------- MODULE MCVirtualMachine --------------------------
(***************************************************************************)
(* Small machines: bytes of six bits, hence words of 24, which hold every  *)
(* opcode, condition, register number and interrupt code.  A program is a  *)
(* few instructions, put together from a pool, with a halt at its end.     *)
(***************************************************************************)
EXTENDS VMProperties, FiniteSetsExt, SequencesExt

Bits == 0..5
TwoTo(i) == 2^i
ByteConjunction(a, b) ==
  MapThenSumSet(LAMBDA i : IF (a \div TwoTo(i)) % 2 = 1 /\ (b \div TwoTo(i)) % 2 = 1
                             THEN TwoTo(i) ELSE 0, Bits)
MCByteAnd == [a \in Byte |-> [b \in Byte |-> ByteConjunction(a, b)]]

-----------------------------------------------------------------------------
(* Eight bytes as they are, and the encoding of an instruction.            *)
Raw(b0, b1, r1, r2, imm) == <<b0, b1, r1, r2>> \o WordBytes(imm)

If(cond, op, r1, r2, imm) == EncodedInstruction(op, cond, r1, r2, imm)

I(op, r1, r2, imm) == If("UNCONDITIONAL", op, r1, r2, imm)

T0 == 10
T1 == 11
HaltIns == I("INT", 0, 0, 255)

RECURSIVE Concat(_)
Concat(parts) == IF parts = << >> THEN << >>
                 ELSE Head(parts) \o Concat(Tail(parts))

(* Programs of n instructions of the pool, and a halt.                     *)
ProgramsOf(pool, n) ==
  {Concat(body) \o HaltIns : body \in [1..n -> pool]}

-----------------------------------------------------------------------------
(* Run "instructions": a register or the stack is set up, then any two     *)
(* instructions follow.  The ROM holds them and the halt, the RAM the two  *)
(* words of the stack, a word behind it and a byte more.                   *)
RamStart == RomSize
Minus1   == WORD_MAX

Pool ==
  {I("NOP", 0, 0, 0), I("SYSCALL", 0, 0, 0),
   I("MOVI", T0, 0, 3), I("MOVI", T0, 0, Minus1), I("MOVI", 0, 0, 5),
   I("MOVI", T0, 0, RamStart + 1), I("MOVI", T0, 0, SignBit),
   I("MOVI", 6, 0, 70), I("MOVR", T1, T0, 0), I("MOVR", T0, 31, 0),
   I("MOVI", 29, 0, RamStart + 6), I("MOVI", 29, 0, RamStart + 12),
   I("ADDI", T0, 0, 1), I("ADDR", 31, 0, 0), I("SUBSR", T1, T0, 0),
   I("NOT", T0, 0, 0), I("DEC", T0, 0, 0), I("DIVI", T0, 0, 0),
   I("MODSR", T0, T1, 0), I("ANDI", T0, 0, 42), I("CMPI", T0, 0, 3),
   I("CMPSI", T0, 0, 3), If("LESS", "JMP", 0, 0, 16),
   If("UNSIGNED_HIGHER", "MOVI", T1, 0, 9),
   If("OVERFLOW_SET", "INT", 0, 0, 255),
   Raw(0, C_TOTAL, 0, 0, 0), Raw(OPCODE_TOTAL, 0, 0, 0, 0),
   Raw(6, 0, 40, 0, 0), Raw(6, 1, 0, 40, 0),
   I("PUSHI", 0, 0, 300), I("PUSHR", T0, 0, 0), I("POP", 0, 0, 0),
   I("POPR", 0, 0, 0), I("POPR", 31, 0, 0), I("DUP", 0, 0, 0),
   I("LOADB", T0, T0, 0), I("LOADH", T0, 0, RamStart - 1),
   I("LOADW", T1, T0, Minus1), I("LOADW", T0, 0, 1),
   I("LOADB", T0, 0, 8),
   I("STOREB", T0, 0, 16), I("STOREH", T0, T0, 0),
   I("STOREW", T0, 0, RamStart + 1), I("STOREW", T0, 0, RamStart + RamSize - 2),
   I("JMP", 0, 0, 8), I("JMPAL", 0, 0, 16), I("RET", 0, 0, 0),
   I("JMP", 0, 0, RamStart),
   I("INT", 0, 0, 1), I("INT", 0, 0, 2), I("INT", 0, 0, 16),
   I("INT", 0, 0, 255), I("INT", 0, 0, 7)}

SetupPool ==
  {I("NOP", 0, 0, 0), I("MOVI", T0, 0, 3), I("MOVI", T0, 0, Minus1),
   I("MOVI", T0, 0, RamStart + 1), I("MOVI", T0, 0, SignBit),
   I("PUSHI", 0, 0, SignBit + 300), I("JMPAL", 0, 0, 8),
   I("MOVI", 30, 0, RamStart + 8)}

InstructionDumps ==
  {setup \o program : setup \in SetupPool, program \in ProgramsOf(Pool, 2)}

-----------------------------------------------------------------------------
(* Run "host": what a program can do to the stack by push, pop and dup     *)
(* alone, four instructions to a program, two words of stack.              *)
AboveStack == RamStart + StackSize

StackPool ==
  {I("PUSHI", 0, 0, 1), I("PUSHI", 0, 0, 5000), I("PUSHR", 31, 0, 0),
   I("POP", 0, 0, 0), I("POPR", T0, 0, 0), I("DUP", 0, 0, 0),
   I("STOREW", T0, 0, AboveStack), I("PUSHR", T0, 0, 0)}

StackDumps == ProgramsOf(StackPool, 4)

-----------------------------------------------------------------------------
(* Run "host": a host that loads, runs and destroys as it likes.           *)
Text(address, bytes) ==
  [type |-> "text", address |-> address, size |-> Len(bytes), data |-> bytes]
Bss(address, size) ==
  [type |-> "bss", address |-> address, size |-> size, data |-> << >>]

Img(kind, sections, entry) ==
  [valid |-> TRUE, kind |-> kind, sections |-> sections, entry |-> entry]

HostImages ==
  {Img("executable", <<Text(8, HaltIns)>>, 8),
   Img("executable", <<Text(8, I("PUSHI", 0, 0, 1) \o HaltIns), Bss(4, 4)>>, 8),
   Img("executable", <<Text(8, I("DUP", 0, 0, 0)), Text(12, <<1, 2>>)>>, 8),
   Img("executable", <<Text(8, HaltIns), Text(RomSize - 1, <<1, 2>>)>>, 8),
   Img("executable", <<Bss(RomSize, 1), Text(8, HaltIns)>>, 8),
   Img("object", <<Text(8, HaltIns)>>, 8),
   [Img("executable", << >>, 8) EXCEPT !.valid = FALSE]}

HostDumps ==
  {HaltIns, I("STOREW", 31, 0, AboveStack), I("PUSHI", 0, 0, 9) \o I("STOREB", 31, 0, 20) \o HaltIns,
   I("JMP", 0, 0, RomSize - 8), [i \in 1..(RomSize + 1) |-> 1]}

-----------------------------------------------------------------------------
(* Run "host" again: programs whose jumps go forward only, and which do not  *)
(* read: getc may wait for ever (run "instructions" has the reads).          *)
ForwardPool ==
  {I("MOVI", T0, 0, 3), I("CMPSI", T0, 0, 4), If("LESS", "JMP", 0, 0, 16),
   I("JMP", 0, 0, RamStart), I("PUSHI", 0, 0, 0), I("POP", 0, 0, 0),
   I("JMPAL", 0, 0, 16), I("INT", 0, 0, 2), I("STOREW", T0, 0, AboveStack),
   I("STOREB", 0, 0, 16), I("DIVR", T0, T0, 0), If("ZERO_CLEAR", "DUP", 0, 0, 0)}

ForwardDumps == ProgramsOf(ForwardPool, 2)

None == {}
MCInput == {1, WORD_MAX}

-----------------------------------------------------------------------------
(* Where there are many programs, one is loaded at the start (vm_initialize, *)
(* then vm_loadDump) and the host only calls vm_run.  In run "instructions"  *)
(* at most MaxSteps of them are executed, enough for any straight-line       *)
(* program and some turns of a loop.                                         *)
VARIABLE steps

MaxSteps == 12

InitWith(dumps) ==
  /\ \E dump \in dumps :
       /\ registers = [r \in Register |-> 0]
       /\ memory = [a \in Address |-> IF a < Len(dump) THEN dump[a + 1] ELSE 0]
  /\ memorySize = RamSize
  /\ flags = NoFlags
  /\ ST = "NORMAL"
  /\ entryPoint = 0
  /\ console = -1
  /\ phase = "idle"
  /\ image = NoImage
  /\ next = 1
  /\ loaded = "none"

LoadedInit == steps = 0 /\ InitWith(Dumps)

BoundedStep == steps < MaxSteps /\ steps' = steps + 1 /\ Step

LoadedNext ==
  \/ BoundedStep
  \/ (StartRun \/ FinishRun) /\ UNCHANGED steps

LoadedSpec == LoadedInit /\ [][LoadedNext]_<<vars, steps>>

(* Run "host": either the host may do what it likes, or a program of one   *)
(* of the other two pools is there to be run.                              *)
HostRuns == 0
GivenRuns == 1

HostInit ==
  \/ steps = HostRuns /\ Init
  \/ steps = GivenRuns /\ InitWith(StackDumps \cup ForwardDumps)

HostNext ==
  /\ UNCHANGED steps
  /\ \/ Step \/ StartRun \/ FinishRun
     \/ steps = HostRuns /\ Host

HostSpec     == HostInit /\ [][HostNext]_<<vars, steps>>
HostFairSpec == HostSpec /\ WF_vars(Step) /\ WF_vars(FinishRun)
=============================================================================
