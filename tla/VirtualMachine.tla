--------------------------- MODULE VirtualMachine ---------------------------
(***************************************************************************)
(* The virtual machine (emulator/src/VirtualMachineInternal.c) and the     *)
(* host that owns it.  The host loads a program and calls vm_run, which    *)
(* executes one instruction per step until the machine halts or fails.     *)
(* ROM and RAM form one byte-addressed memory: addresses below RomSize are *)
(* the array _rom, the others _memory.                                     *)
(***************************************************************************)
EXTENDS InstructionSet

CONSTANTS
  RomSize,     \* ZLVM_ROM_SIZE
  RamSize,     \* the ram_size given to vm_initialize
  StackSize,   \* ZLVM_STACK_SIZE
  Dumps,       \* the raw programs a host may load: sequences of bytes
  Images,      \* the images a host may load, as decoded
  Input,       \* the words getc can return: bytes, or WORD_MAX for EOF
  NoImage      \* no vm_loadImage has been called yet

WORD_SIZE == 4

ASSUME SizesAssumption ==
  /\ RomSize \in Word
  /\ RamSize \in Nat
  /\ StackSize \in Word
  /\ StackSize >= WORD_SIZE
  /\ ByteBase >= 64

ASSUME DumpsAssumption == Dumps \subseteq Seq(Byte)

Section == [type : {"text", "data", "bss"}, address : Word, size : Word,
            data : Seq(Byte)]

(* What the decoder makes of the bytes of an image: whether it accepts     *)
(* them and, if so, their kind, sections and entry point.                  *)
ASSUME ImagesAssumption ==
  \A image \in Images :
    /\ image.valid \in BOOLEAN
    /\ image.kind \in {"object", "executable"}
    /\ image.sections \in Seq(Section)
    /\ \A i \in 1..Len(image.sections) :
         image.sections[i].type # "bss" =>
           Len(image.sections[i].data) = image.sections[i].size
    /\ image.entry \in Word

ASSUME InputAssumption == Input \subseteq Byte \cup {WORD_MAX}

VARIABLES
  registers,    \* _registers
  memory,       \* _rom and _memory, one byte per address
  memorySize,   \* _memorySize: the size of RAM
  flags,        \* _cpsr.N .. _cpsr.S
  ST,           \* _cpsr.ST
  entryPoint,   \* _entryPoint
  console,      \* the character written last by an interrupt, or -1
  phase,        \* the call the host is in: "run" for vm_run, "check" and
                \* "copy" for the two loops of vm_loadImage, or "idle"
  image,        \* the image given to the last vm_loadImage
  next,         \* the section at which its loop has arrived
  loaded        \* "rejected" or "accepted" once vm_loadImage returned, until
                \* the next call

machine == <<registers, memory, flags, ST, console>>
loader  == <<image, next, loaded>>
vars    == <<registers, memory, memorySize, flags, ST, entryPoint, console,
             phase, image, next, loaded>>

-----------------------------------------------------------------------------
(* Registers (include/Registers.h) and states (include/State.h).           *)
R_ZERO == 0
R_V0   == 2
R_A0   == 6
R_LP   == 28
R_SP   == 29
R_BP   == 30
R_PC   == 31

Register == 0..(REGISTER_COUNT - 1)

Errors == {"OUT_OF_MEMORY", "STACK_OVERFLOW", "STACK_UNDERFLOW",
           "DIVISION_BY_ZERO", "INVALID_CONDITION", "INVALID_OPCODE"}
States == Errors \cup {"HALTED", "NORMAL"}

HasError == ST \in Errors
Stopped  == HasError \/ ST = "HALTED"

Address   == 0..(RomSize + RamSize - 1)
MemoryEnd == RomSize + memorySize

-----------------------------------------------------------------------------
(* Memory access.  A range is checked as a whole before its first byte is  *)
(* touched; scalars are little-endian.                                     *)
ValidRange(address, size) == address + size <= MemoryEnd

HwordIn(mem, address) == JoinHword(mem[address], mem[address + 1])
WordIn(mem, address)  ==
  JoinWord(HwordIn(mem, address), HwordIn(mem, address + 2))

ReadHword(address) == HwordIn(memory, address)
ReadWord(address)  == WordIn(memory, address)

(* Faulty variant: most significant byte first.                            *)
WriteBigEndian(address, value, size) ==
  [a \in DOMAIN memory |-> IF a \in address..(address + size - 1)
                             THEN ByteOf(value, size - 1 - (a - address))
                             ELSE memory[a]]

Write(address, value, size) ==
  [a \in DOMAIN memory |-> IF a \in address..(address + size - 1)
                             THEN ByteOf(value, a - address)
                             ELSE memory[a]]

(* instruction_decode of the eight bytes at an address.                    *)
Decode(address) ==
  [op   |-> OpcodeOf(memory[address]),
   cond |-> ConditionOf(memory[address + 1]),
   r1   |-> memory[address + 2],
   r2   |-> memory[address + 3],
   imm  |-> ReadWord(address + 4)]

PC  == registers[R_PC]
Ins == Decode(PC)

(* The registers once the instruction is fetched: every byte has moved the *)
(* program counter, and $zero has been cleared.                            *)
Fetched ==
  [registers EXCEPT ![R_PC] = ToWord(@ + INSTRUCTION_SIZE), ![R_ZERO] = 0]

Reg1 == Fetched[Ins.r1]
Reg2 == Fetched[Ins.r2]
Imm  == Ins.imm
SP   == Fetched[R_SP]
BP   == Fetched[R_BP]

-----------------------------------------------------------------------------
(* One turn of the loop of vm_run: fetch, then vm_run_instruction.         *)
Loop    == phase = "run" /\ ~Stopped
Fetches == Loop /\ ValidRange(PC, INSTRUCTION_SIZE)

(* The condition is tested before the registers, these before the opcode.  *)
Passes == Fetches /\ Holds(Ins.cond, flags)

Executes(ops) ==
  /\ Passes
  /\ Ins.r1 \in Register
  /\ Ins.r2 \in Register
  /\ Ins.op \in ops

(* Faulty variant: $zero cleared only before the instruction.              *)
RetireKeeping(regs) == registers' = regs

(* An instruction ends by clearing $zero again.                            *)
Retire(regs) == registers' = [regs EXCEPT ![R_ZERO] = 0]

Fault(state) ==
  /\ ST' = state
  /\ registers' = Fetched
  /\ UNCHANGED <<memory, flags, console>>

(* Faulty variant: the fetch gives up but reports nothing.                 *)
FetchFaultSilent ==
  /\ Loop
  /\ ~ValidRange(PC, INSTRUCTION_SIZE)
  /\ UNCHANGED machine

FetchFault ==
  /\ Loop
  /\ ~ValidRange(PC, INSTRUCTION_SIZE)
  /\ ST' = "OUT_OF_MEMORY"
  /\ UNCHANGED <<registers, memory, flags, console>>

InvalidCondition ==
  /\ Fetches
  /\ Ins.cond = "INVALID"
  /\ Fault("INVALID_CONDITION")

Skip ==
  /\ Fetches
  /\ Ins.cond # "INVALID"
  /\ ~Holds(Ins.cond, flags)
  /\ registers' = Fetched
  /\ UNCHANGED <<memory, flags, ST, console>>

InvalidInstruction ==
  /\ Passes
  /\ Ins.r1 \notin Register \/ Ins.r2 \notin Register \/ Ins.op = "INVALID"
  /\ Fault("INVALID_OPCODE")

(* No system call has a service yet (vm_syscall).                          *)
Nop ==
  /\ Executes({"NOP", "SYSCALL"})
  /\ Retire(Fetched)
  /\ UNCHANGED <<memory, flags, ST, console>>

Move ==
  /\ Executes({"MOVR", "MOVI"})
  /\ Retire([Fetched EXCEPT ![Ins.r1] = IF Ins.op = "MOVR" THEN Reg2 ELSE Imm])
  /\ UNCHANGED <<memory, flags, ST, console>>

-----------------------------------------------------------------------------
(* Arithmetic and comparison: the operation of each mnemonic, and where    *)
(* its right operand comes from.                                           *)
AluOperation ==
  [ADDR  |-> "ADD",  ADDI  |-> "ADD",  SUBR  |-> "SUB",  SUBI  |-> "SUB",
   MULR  |-> "MUL",  MULI  |-> "MUL",  DIVR  |-> "DIV",  DIVI  |-> "DIV",
   MODR  |-> "MOD",  MODI  |-> "MOD",  NOT   |-> "NOT",
   ANDR  |-> "AND",  ANDI  |-> "AND",  ORR   |-> "OR",   ORI   |-> "OR",
   XORR  |-> "XOR",  XORI  |-> "XOR",  NANDR |-> "NAND", NANDI |-> "NAND",
   NORR  |-> "NOR",  NORI  |-> "NOR",  INC   |-> "INC",  DEC   |-> "DEC",
   ADDSR |-> "SADD", ADDSI |-> "SADD", SUBSR |-> "SSUB", SUBSI |-> "SSUB",
   MULSR |-> "SMUL", MULSI |-> "SMUL", DIVSR |-> "SDIV", DIVSI |-> "SDIV",
   MODSR |-> "SMOD", MODSI |-> "SMOD",
   CMPR  |-> "SUB",  CMPI  |-> "SUB",  CMPSR |-> "SSUB", CMPSI |-> "SSUB"]

Comparisons   == {"CMPR", "CMPI", "CMPSR", "CMPSI"}
UnaryForms    == {"NOT", "INC", "DEC"}
RegisterForms == {"ADDR", "SUBR", "MULR", "DIVR", "MODR", "ANDR", "ORR",
                  "XORR", "NANDR", "NORR", "ADDSR", "SUBSR", "MULSR",
                  "DIVSR", "MODSR", "CMPR", "CMPSR"}

RightOperand ==
  IF Ins.op \in RegisterForms THEN Reg2
  ELSE IF Ins.op \in UnaryForms THEN 0 ELSE Imm

AluOp == AluOperation[Ins.op]

DivisionFault ==
  /\ Executes(DOMAIN AluOperation)
  /\ DividesByZero(AluOp, RightOperand)
  /\ Fault("DIVISION_BY_ZERO")

Arithmetic ==
  /\ Executes(DOMAIN AluOperation \ Comparisons)
  /\ ~DividesByZero(AluOp, RightOperand)
  /\ flags' = Flags(AluOp, Reg1, RightOperand)
  /\ Retire([Fetched EXCEPT ![Ins.r1] = Result(AluOp, Reg1, RightOperand)])
  /\ UNCHANGED <<memory, ST, console>>

Compare ==
  /\ Executes(Comparisons)
  /\ flags' = Flags(AluOp, Reg1, RightOperand)
  /\ Retire(Fetched)
  /\ UNCHANGED <<memory, ST, console>>

-----------------------------------------------------------------------------
(* The stack grows upwards from BP; SP is the next free byte.              *)
MisplacedSP == SP < BP \/ (SP - BP) % WORD_SIZE # 0

(* vm_pop_word and vm_push_word: the state they set, NORMAL if they work.  *)
PopState ==
  IF MisplacedSP \/ SP - BP < WORD_SIZE \/ SP - BP > StackSize
    THEN "STACK_UNDERFLOW"
    ELSE IF ValidRange(SP - WORD_SIZE, WORD_SIZE) THEN "NORMAL"
                                                  ELSE "OUT_OF_MEMORY"

(* Faulty variant: the room for the word itself is forgotten.              *)
PushStateOneTooMany ==
  IF MisplacedSP \/ SP - BP > StackSize
    THEN "STACK_OVERFLOW"
    ELSE IF ValidRange(SP, WORD_SIZE) THEN "NORMAL" ELSE "OUT_OF_MEMORY"

PushState ==
  IF MisplacedSP \/ SP - BP > StackSize - WORD_SIZE
    THEN "STACK_OVERFLOW"
    ELSE IF ValidRange(SP, WORD_SIZE) THEN "NORMAL" ELSE "OUT_OF_MEMORY"

Top == ReadWord(SP - WORD_SIZE)

(* Faulty variant: SP is advanced before the word is written.              *)
PushWordAbove(value) ==
  /\ memory' = Write(SP + WORD_SIZE, value, WORD_SIZE)
  /\ Retire([Fetched EXCEPT ![R_SP] = ToWord(SP + WORD_SIZE)])

PushWord(value) ==
  /\ memory' = Write(SP, value, WORD_SIZE)
  /\ Retire([Fetched EXCEPT ![R_SP] = ToWord(SP + WORD_SIZE)])

Pop ==
  /\ Executes({"POP", "POPR"})
  /\ PopState = "NORMAL"
  /\ LET popped == [Fetched EXCEPT ![R_SP] = SP - WORD_SIZE]
     IN  Retire(IF Ins.op = "POP" THEN popped
                                  ELSE [popped EXCEPT ![Ins.r1] = Top])
  /\ UNCHANGED <<memory, flags, ST, console>>

Push ==
  /\ Executes({"PUSHR", "PUSHI"})
  /\ PushState = "NORMAL"
  /\ PushWord(IF Ins.op = "PUSHR" THEN Reg1 ELSE Imm)
  /\ UNCHANGED <<flags, ST, console>>

(* DUP pops a word and pushes it twice.  The first push puts back what was *)
(* popped, so only the second can fail, with the stack as it was.          *)
Dup ==
  /\ Executes({"DUP"})
  /\ PopState = "NORMAL"
  /\ PushState = "NORMAL"
  /\ PushWord(Top)
  /\ UNCHANGED <<flags, ST, console>>

PopFault ==
  /\ Executes({"POP", "POPR", "DUP"})
  /\ PopState # "NORMAL"
  /\ Fault(PopState)

(* Faulty variant: a DUP that fails has already popped its word.           *)
PushFaultPopped ==
  /\ Executes({"PUSHR", "PUSHI", "DUP"})
  /\ PushState # "NORMAL"
  /\ ST' = PushState
  /\ registers' = [Fetched EXCEPT ![R_SP] =
                     IF Ins.op = "DUP" THEN SP - WORD_SIZE ELSE SP]
  /\ UNCHANGED <<memory, flags, console>>

PushFault ==
  /\ \/ Executes({"PUSHR", "PUSHI"})
     \/ Executes({"DUP"}) /\ PopState = "NORMAL"
  /\ PushState # "NORMAL"
  /\ Fault(PushState)

-----------------------------------------------------------------------------
(* Loads and stores.  The effective address does not wrap around.          *)
AccessSize ==
  [LOADB  |-> 1, LOADH  |-> 2, LOADW  |-> WORD_SIZE,
   STOREB |-> 1, STOREH |-> 2, STOREW |-> WORD_SIZE]

EffectiveAddress == Reg2 + Imm
AccessInRange    == ValidRange(EffectiveAddress, AccessSize[Ins.op])

AccessFault ==
  /\ Executes(DOMAIN AccessSize)
  /\ ~AccessInRange
  /\ Fault("OUT_OF_MEMORY")

(* A narrow load keeps the upper part of the register.                     *)
Loaded ==
  CASE Ins.op = "LOADB" -> Reg1 - (Reg1 % ByteBase) + memory[EffectiveAddress]
    [] Ins.op = "LOADH" -> Reg1 - (Reg1 % HwordBase)
                             + ReadHword(EffectiveAddress)
    [] Ins.op = "LOADW" -> ReadWord(EffectiveAddress)

Load ==
  /\ Executes({"LOADB", "LOADH", "LOADW"})
  /\ AccessInRange
  /\ Retire([Fetched EXCEPT ![Ins.r1] = Loaded])
  /\ UNCHANGED <<memory, flags, ST, console>>

Store ==
  /\ Executes({"STOREB", "STOREH", "STOREW"})
  /\ AccessInRange
  /\ memory' = Write(EffectiveAddress, Reg1, AccessSize[Ins.op])
  /\ Retire(Fetched)
  /\ UNCHANGED <<flags, ST, console>>

-----------------------------------------------------------------------------
Jump ==
  /\ Executes({"JMP", "JMPAL", "RET"})
  /\ Retire(CASE Ins.op = "JMP"   -> [Fetched EXCEPT ![R_PC] = Imm]
              [] Ins.op = "JMPAL" -> [Fetched EXCEPT ![R_LP] = Fetched[R_PC],
                                                     ![R_PC] = Imm]
              [] Ins.op = "RET"   -> [Fetched EXCEPT ![R_PC] = Fetched[R_LP]])
  /\ UNCHANGED <<memory, flags, ST, console>>

(* vm_interrupt, one action per service; other codes do nothing.           *)
Interrupt(code) == Executes({"INT"}) /\ Imm = code

WriteCharacter ==
  /\ \/ /\ Interrupt(1)
        /\ console' = (Fetched[R_A0] + 96) % ByteBase
     \/ /\ Interrupt(2)
        /\ console' = Fetched[R_A0] % ByteBase
  /\ Retire(Fetched)
  /\ UNCHANGED <<memory, flags, ST>>

ReadCharacter ==
  /\ Interrupt(16)
  /\ \E w \in Input : Retire([Fetched EXCEPT ![R_V0] = w])
  /\ UNCHANGED <<memory, flags, ST, console>>

Halt ==
  /\ Interrupt(255)
  /\ ST' = "HALTED"
  /\ Retire(Fetched)
  /\ UNCHANGED <<memory, flags, console>>

UnknownInterrupt ==
  /\ Executes({"INT"})
  /\ Imm \notin {1, 2, 16, 255}
  /\ Retire(Fetched)
  /\ UNCHANGED <<memory, flags, ST, console>>

Step ==
  /\ \/ FetchFault \/ InvalidCondition \/ Skip \/ InvalidInstruction
     \/ Nop \/ Move \/ DivisionFault \/ Arithmetic \/ Compare
     \/ Pop \/ Push \/ Dup \/ PopFault \/ PushFault
     \/ AccessFault \/ Load \/ Store \/ Jump
     \/ WriteCharacter \/ ReadCharacter \/ Halt \/ UnknownInterrupt
  /\ UNCHANGED <<memorySize, entryPoint, phase, loader>>

-----------------------------------------------------------------------------
(* The host's calls: vm_run, vm_loadDump, vm_loadImage and vm_destroy.     *)
StartRun ==
  /\ phase = "idle"
  /\ phase' = "run"
  /\ loaded' = "none"
  /\ registers' = [registers EXCEPT ![R_PC] = entryPoint,
                                    ![R_BP] = RomSize, ![R_SP] = RomSize]
  /\ UNCHANGED <<memory, memorySize, flags, ST, entryPoint, console, image,
                 next>>

FinishRun ==
  /\ phase = "run"
  /\ Stopped
  /\ phase' = "idle"
  /\ UNCHANGED <<machine, memorySize, entryPoint, loader>>

(* Faulty variant: the last state set wins.                                *)
SetStateAlways(state) == ST' = state

(* vm_set_state: the first error stays.                                    *)
SetState(state) == ST' = IF HasError THEN ST ELSE state

LoadDump(dump) ==
  /\ phase = "idle"
  /\ Len(dump) <= RomSize
  /\ memory' = [a \in DOMAIN memory |->
                  IF a < Len(dump) THEN dump[a + 1] ELSE memory[a]]
  /\ entryPoint' = 0
  /\ loaded' = "none"
  /\ UNCHANGED <<registers, memorySize, flags, ST, console, phase, image,
                 next>>

RefuseDump(dump) ==
  /\ phase = "idle"
  /\ Len(dump) > RomSize
  /\ SetState("OUT_OF_MEMORY")
  /\ loaded' = "none"
  /\ UNCHANGED <<registers, memory, memorySize, flags, entryPoint, console,
                 phase, image, next>>

(* Every section is checked against the ROM before the first is copied.    *)
FitsRom(section) == section.address + section.size <= RomSize

BeginLoadImage(img) ==
  /\ phase = "idle"
  /\ image' = img
  /\ next' = 1
  /\ IF img.valid /\ img.kind = "executable"
       THEN phase' = "check" /\ loaded' = "none"
       ELSE loaded' = "rejected" /\ UNCHANGED phase
  /\ UNCHANGED <<machine, memorySize, entryPoint>>

CheckSection ==
  /\ phase = "check"
  /\ next <= Len(image.sections)
  /\ IF FitsRom(image.sections[next])
       THEN next' = next + 1 /\ UNCHANGED <<phase, loaded>>
       ELSE phase' = "idle" /\ loaded' = "rejected" /\ UNCHANGED next
  /\ UNCHANGED <<machine, memorySize, entryPoint, image>>

(* Faulty variant: the check stops one section early.                      *)
BeginCopyEarly ==
  /\ phase = "check"
  /\ next >= Len(image.sections)
  /\ phase' = "copy"
  /\ next' = 1
  /\ UNCHANGED <<machine, memorySize, entryPoint, image, loaded>>

BeginCopy ==
  /\ phase = "check"
  /\ next > Len(image.sections)
  /\ phase' = "copy"
  /\ next' = 1
  /\ UNCHANGED <<machine, memorySize, entryPoint, image, loaded>>

InSection(section, a) ==
  a \in section.address..(section.address + section.size - 1)

ContentAt(section, a) ==
  IF section.type = "bss" THEN 0 ELSE section.data[a - section.address + 1]

(* Faulty variant: only sections with a payload are copied.                *)
CopySectionNoBss ==
  /\ phase = "copy"
  /\ next <= Len(image.sections)
  /\ LET section == image.sections[next]
     IN  memory' = [a \in DOMAIN memory |->
                      IF InSection(section, a) /\ section.type # "bss"
                        THEN ContentAt(section, a) ELSE memory[a]]
  /\ next' = next + 1
  /\ UNCHANGED <<registers, memorySize, flags, ST, entryPoint, console, phase,
                 image, loaded>>

CopySection ==
  /\ phase = "copy"
  /\ next <= Len(image.sections)
  /\ LET section == image.sections[next]
     IN  memory' = [a \in DOMAIN memory |->
                      IF InSection(section, a) THEN ContentAt(section, a)
                                               ELSE memory[a]]
  /\ next' = next + 1
  /\ UNCHANGED <<registers, memorySize, flags, ST, entryPoint, console, phase,
                 image, loaded>>

FinishLoadImage ==
  /\ phase = "copy"
  /\ next > Len(image.sections)
  /\ entryPoint' = image.entry
  /\ loaded' = "accepted"
  /\ phase' = "idle"
  /\ UNCHANGED <<machine, memorySize, image, next>>

(* Afterwards there is no RAM; a machine run all the same finds only ROM.  *)
Destroy ==
  /\ phase = "idle"
  /\ memorySize' = 0
  /\ loaded' = "none"
  /\ UNCHANGED <<machine, entryPoint, phase, image, next>>

-----------------------------------------------------------------------------
(* vm_initialize.                                                          *)
Init ==
  /\ registers = [r \in Register |-> 0]
  /\ memory = [a \in Address |-> 0]
  /\ memorySize = RamSize
  /\ flags = NoFlags
  /\ ST = "NORMAL"
  /\ entryPoint = 0
  /\ console = -1
  /\ phase = "idle"
  /\ image = NoImage
  /\ next = 1
  /\ loaded = "none"

Host ==
  \/ StartRun \/ FinishRun \/ Destroy
  \/ \E dump \in Dumps : LoadDump(dump) \/ RefuseDump(dump)
  \/ \E img \in Images : BeginLoadImage(img)
  \/ CheckSection \/ BeginCopy \/ CopySection \/ FinishLoadImage

Next == Step \/ Host

Spec == Init /\ [][Next]_vars

(* vm_run loops by itself: once called, it keeps executing and returns when*)
(* the machine stops.  The host owes nothing.                              *)
FairSpec == Spec /\ WF_vars(Step) /\ WF_vars(FinishRun)
=============================================================================
