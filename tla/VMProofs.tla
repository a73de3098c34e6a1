------------------------------- MODULE VMProofs ------------------------------
(***************************************************************************)
(* The machine keeps its types, for every memory size, program and image,  *)
(* and what follows: $zero is zero, a fault has no partial effect, a       *)
(* stopped machine stays stopped, only checked images are copied, and the  *)
(* window behind the RAM is a bounded stack.                               *)
(***************************************************************************)
EXTENDS VMProperties, WordProofs, SequenceTheorems

(* While the loader checks, the sections behind it fit the ROM; while it   *)
(* copies, all of them do.                                                 *)
SectionsFit ==
  /\ phase = "check" => \A i \in 1..Len(image.sections) :
                          i < next => FitsRom(image.sections[i])
  /\ phase = "copy" => \A i \in 1..Len(image.sections) :
                         FitsRom(image.sections[i])

IInv == TypeOK /\ ZeroRegister /\ SectionsFit

-----------------------------------------------------------------------------
(* The sizes of the memories are natural numbers and the end of the ROM is *)
(* an address.                                                             *)
LEMMA Sizes ==
  /\ RomSize \in Nat /\ RamSize \in Nat /\ StackSize \in Nat
  /\ StackSize >= WORD_SIZE
  /\ RomSize \in Word
BY SizesAssumption, Bases DEF Word, WORD_SIZE

(* The constants the machine writes into registers are words.              *)
LEMMA SmallWords ==
  /\ 0 \in Word
  /\ Byte \subseteq Word
  /\ WORD_MAX \in Word
  /\ Word \subseteq Int
<1>1. ByteBase <= HwordBase /\ HwordBase > 0 /\ HwordBase \in Nat
  BY Bases, ByteBaseAssumption
<1>2. HwordBase * (HwordBase - 1) >= 0
  BY <1>1
<1>3. HwordBase * (HwordBase - 1) = HwordBase * HwordBase - HwordBase
  BY <1>1
<1>4. HwordBase <= WordBase
  BY <1>1, <1>2, <1>3 DEF WordBase
<1>5. QED
  BY <1>1, <1>4, Bases, ByteBaseAssumption DEF Byte, Word, WORD_MAX

(* Every byte of a range that passes the check is there.                   *)
LEMMA RangeIsThere ==
  ASSUME TypeOK, NEW address \in Nat, NEW size \in Nat,
         ValidRange(address, size)
  PROVE  \A i \in 0..(size - 1) : /\ address + i \in Address
                                  /\ memory[address + i] \in Byte
<1>1. memorySize \in Nat /\ memorySize <= RamSize
  BY Sizes DEF TypeOK
<1>2. \A i \in 0..(size - 1) : address + i \in Address
  BY <1>1, Sizes DEF ValidRange, MemoryEnd, Address
<1>3. QED
  BY <1>2 DEF TypeOK

(* vm_read_scalar returns a halfword for an access inside the memory.      *)
LEMMA HwordRead ==
  ASSUME TypeOK, NEW address \in Nat, ValidRange(address, 2)
  PROVE  ReadHword(address) \in Hword
<1>1. address + 0 \in Nat /\ address + 0 = address
  OBVIOUS
<1>2. memory[address] \in Byte /\ memory[address + 1] \in Byte
  BY RangeIsThere, <1>1
<1>3. QED
  BY <1>2, JoinHwordType DEF ReadHword, HwordIn

(* vm_read_scalar returns a word for an access inside the memory.          *)
LEMMA WordRead ==
  ASSUME TypeOK, NEW address \in Nat, ValidRange(address, 4)
  PROVE  ReadWord(address) \in Word
<1>1. /\ ValidRange(address, 2)
      /\ ValidRange(address + 2, 2)
      /\ address + 2 \in Nat
  BY Sizes DEF ValidRange, MemoryEnd, TypeOK
<1>2. ReadHword(address) \in Hword /\ ReadHword(address + 2) \in Hword
  BY <1>1, HwordRead
<1>3. QED
  BY <1>2, JoinWordType DEF ReadWord, WordIn, ReadHword

(* vm_write_scalar leaves a memory of bytes.                               *)
LEMMA Written ==
  ASSUME TypeOK, NEW address \in Nat, NEW value \in Word,
         NEW size \in 1..4
  PROVE  Write(address, value, size) \in [Address -> Byte]
<1>1. DOMAIN memory = Address /\ Address \subseteq Int
  BY DEF TypeOK, Address
<1>2. ASSUME NEW a \in Address
      PROVE  (IF a \in address..(address + size - 1)
                THEN ByteOf(value, a - address) ELSE memory[a]) \in Byte
  <2>1. CASE a \in address..(address + size - 1)
    <3>1. a - address \in 0..3
      BY <2>1, <1>1
    <3>2. QED
      BY <2>1, <3>1, ByteOfType
  <2>2. CASE a \notin address..(address + size - 1)
    BY <2>2 DEF TypeOK
  <2>3. QED
    BY <2>1, <2>2
<1>3. QED
  BY <1>1, <1>2 DEF Write

-----------------------------------------------------------------------------
(* The instruction that is fetched, and the registers it starts from.      *)
LEMMA RegisterNumbers ==
  /\ R_ZERO \in Register /\ R_V0 \in Register /\ R_A0 \in Register
  /\ R_LP \in Register /\ R_SP \in Register /\ R_BP \in Register
  /\ R_PC \in Register
  /\ R_ZERO # R_PC /\ R_SP # R_PC /\ R_BP # R_PC
  /\ R_SP # R_ZERO /\ R_BP # R_ZERO /\ R_SP # R_BP
  /\ R_V0 # R_ZERO /\ R_LP # R_ZERO
BY DEF Register, REGISTER_COUNT, R_ZERO, R_V0, R_A0, R_LP, R_SP, R_BP, R_PC

(* The registers after vm_fetch has advanced pc and $zero was cleared.     *)
LEMMA FetchedType ==
  ASSUME TypeOK
  PROVE  /\ Fetched \in [Register -> Word]
         /\ Fetched[R_ZERO] = 0
         /\ \A r \in Register \ {R_ZERO, R_PC} : Fetched[r] = registers[r]
         /\ Fetched[R_PC] = ToWord(PC + INSTRUCTION_SIZE)
<1>1. registers \in [Register -> Word]
  BY DEF TypeOK
<1>2. registers[R_PC] + INSTRUCTION_SIZE \in Int
  <2>1. registers[R_PC] \in Word
    BY <1>1, RegisterNumbers
  <2>2. registers[R_PC] \in Int
    BY <2>1, SmallWords
  <2>3. QED
    BY <2>2 DEF INSTRUCTION_SIZE
<1>3. ToWord(registers[R_PC] + INSTRUCTION_SIZE) \in Word
  BY <1>2, ToWordType
<1>4. QED
  BY <1>1, <1>3, RegisterNumbers, SmallWords DEF Fetched, PC

(* The immediate operand of a fetched instruction is a word.               *)
LEMMA InstructionType ==
  ASSUME TypeOK, Fetches
  PROVE  Imm \in Word
<1>1. PC \in Nat /\ ValidRange(PC, INSTRUCTION_SIZE)
  BY RegisterNumbers, Bases DEF TypeOK, PC, Word, Fetches
<1>2. PC + 4 \in Nat /\ ValidRange(PC + 4, 4)
  BY <1>1, Sizes DEF ValidRange, INSTRUCTION_SIZE, MemoryEnd, TypeOK
<1>3. QED
  BY <1>2, WordRead DEF Imm, Ins, Decode

(* The values of the operands of an instruction are words.                 *)
LEMMA OperandTypes ==
  ASSUME TypeOK, NEW ops, Executes(ops)
  PROVE  /\ Imm \in Word
         /\ Ins.r1 \in Register /\ Ins.r2 \in Register
         /\ Reg1 \in Word /\ Reg2 \in Word
         /\ SP \in Word /\ BP \in Word
         /\ RightOperand \in Word
<1>1. Imm \in Word /\ Ins.r1 \in Register /\ Ins.r2 \in Register
  BY InstructionType DEF Executes, Passes
<1>2. Reg1 \in Word /\ Reg2 \in Word /\ SP \in Word /\ BP \in Word
  BY <1>1, FetchedType, RegisterNumbers DEF Reg1, Reg2, SP, BP
<1>3. RightOperand \in Word
  BY <1>1, <1>2, SmallWords DEF RightOperand
<1>4. QED
  BY <1>1, <1>2, <1>3

(* The operation behind an arithmetic opcode is one of the unit's.         *)
LEMMA AluOpType ==
  ASSUME Ins.op \in DOMAIN AluOperation
  PROVE  AluOp \in Operations
BY DEF AluOp, AluOperation, Operations, SignedOps, UnsignedOps

(* What a load instruction puts into a register is a word.                 *)
LEMMA LoadedType ==
  ASSUME TypeOK, Executes({"LOADB", "LOADH", "LOADW"}), AccessInRange
  PROVE  Loaded \in Word
<1> DEFINE ea == EffectiveAddress
<1>1. Reg1 \in Word /\ Reg2 \in Word /\ Imm \in Word
  BY OperandTypes
<1>2. ea \in Nat
  BY <1>1, Bases DEF EffectiveAddress, Word
<1>3. Ins.op \in {"LOADB", "LOADH", "LOADW"}
  BY DEF Executes
<1>4. CASE Ins.op = "LOADB"
  <2>1. ValidRange(ea, 1)
    BY <1>4 DEF AccessInRange, AccessSize
  <2>2. memory[ea] \in Byte
    <3>1. 0 \in 0..(1 - 1) /\ ea + 0 = ea
      BY <1>2
    <3>2. QED
      BY <1>2, <2>1, <3>1, RangeIsThere
  <2> DEFINE Y == ByteBase * HwordBase
  <2>3. Y \in Nat /\ WordBase = ByteBase * Y
    BY Bases, ByteBaseAssumption DEF WordBase, HwordBase
  <2> HIDE DEF Y
  <2>4. Reg1 - (Reg1 % ByteBase) + memory[ea] \in Word
    <3>1. /\ Reg1 \in 0..(ByteBase * Y - 1)
          /\ memory[ea] \in 0..(ByteBase - 1)
          /\ ByteBase \in Nat /\ ByteBase > 0
      BY <1>1, <2>2, <2>3, ByteBaseAssumption DEF Word, Byte
    <3>2. Reg1 - (Reg1 % ByteBase) + memory[ea] \in 0..(ByteBase * Y - 1)
      BY <2>3, <3>1, Replace
    <3>3. QED
      BY <2>3, <3>2 DEF Word
  <2>5. Loaded = Reg1 - (Reg1 % ByteBase) + memory[ea]
    BY <1>4, Zenon DEF Loaded
  <2>6. QED
    BY <2>4, <2>5
<1>5. CASE Ins.op = "LOADH"
  <2>1. ValidRange(ea, 2)
    BY <1>5 DEF AccessInRange, AccessSize
  <2>2. ReadHword(ea) \in Hword
    BY <1>2, <2>1, HwordRead
  <2>3. Reg1 - (Reg1 % HwordBase) + ReadHword(ea) \in Word
    BY <1>1, <2>2, Replace, Bases, ByteBaseAssumption DEF Word, Hword, WordBase
  <2>4. Loaded = Reg1 - (Reg1 % HwordBase) + ReadHword(ea)
    BY <1>5, Zenon DEF Loaded
  <2>5. QED
    BY <2>3, <2>4
<1>6. CASE Ins.op = "LOADW"
  <2>1. ValidRange(ea, 4)
    BY <1>6 DEF AccessInRange, AccessSize, WORD_SIZE
  <2>2. ReadWord(ea) \in Word
    BY <1>2, <2>1, WordRead
  <2>3. Loaded = ReadWord(ea)
    BY <1>6, Zenon DEF Loaded
  <2>4. QED
    BY <2>2, <2>3
<1>7. QED
  BY <1>3, <1>4, <1>5, <1>6

-----------------------------------------------------------------------------
(* One instruction.                                                        *)
MachineOK ==
  /\ registers \in [Register -> Word]
  /\ registers[R_ZERO] = 0
  /\ memory \in [Address -> Byte]
  /\ flags \in FlagSet
  /\ ST \in States
  /\ console \in Byte \cup {-1}

(* The end of vm_run_instruction clears $zero and keeps words in the       *)
(* registers.                                                              *)
LEMMA Retired ==
  ASSUME NEW regs \in [Register -> Word], Retire(regs)
  PROVE  registers' \in [Register -> Word] /\ registers'[R_ZERO] = 0
BY RegisterNumbers, SmallWords DEF Retire

(* vm_set_state keeps the invariant.                                       *)
LEMMA FaultOK ==
  ASSUME TypeOK, NEW state \in States, Fault(state)
  PROVE  MachineOK'
BY FetchedType DEF TypeOK, Fault, MachineOK

(* vm_push_word and vm_pop_word set states of the machine.                 *)
LEMMA PushStates == PushState \in States /\ PopState \in States
BY DEF PushState, PopState, States, Errors

(* A word that is pushed lies in the memory.                               *)
LEMMA PushWordOK ==
  ASSUME TypeOK, NEW ops, Executes(ops), PushState = "NORMAL",
         NEW value \in Word, PushWord(value)
  PROVE  /\ registers' \in [Register -> Word]
         /\ registers'[R_ZERO] = 0
         /\ memory' \in [Address -> Byte]
<1>1. SP \in Word /\ SP \in Nat
  BY OperandTypes, Bases DEF Word
<1>2. ToWord(SP + WORD_SIZE) \in Word
  BY <1>1, ToWordType DEF WORD_SIZE
<1>3. [Fetched EXCEPT ![R_SP] = ToWord(SP + WORD_SIZE)] \in [Register -> Word]
  BY <1>2, FetchedType, RegisterNumbers
<1>4. Write(SP, value, WORD_SIZE) \in [Address -> Byte]
  BY <1>1, Written DEF WORD_SIZE
<1>5. QED
  BY <1>3, <1>4, Retired DEF PushWord

(* A word that is popped is one.                                           *)
LEMMA TopType ==
  ASSUME TypeOK, NEW ops, Executes(ops), PopState = "NORMAL"
  PROVE  Top \in Word /\ SP - WORD_SIZE \in Word
<1>1. SP \in Word /\ BP \in Word
  BY OperandTypes
<1>2. SP \in Int /\ BP \in Int /\ BP >= 0
  BY <1>1, Bases DEF Word
<1>3. ~MisplacedSP /\ ~(SP - BP < WORD_SIZE)
        /\ ValidRange(SP - WORD_SIZE, WORD_SIZE)
  BY DEF PopState
<1>4. SP - WORD_SIZE \in Nat /\ SP - WORD_SIZE \in Word
  BY <1>1, <1>2, <1>3, Bases DEF Word, WORD_SIZE
<1>5. QED
  BY <1>3, <1>4, WordRead DEF Top, WORD_SIZE

(* Every instruction keeps the invariant.                                  *)
LEMMA StepOK ==
  ASSUME TypeOK, ZeroRegister, Step
  PROVE  MachineOK'
<1> USE DEF MachineOK
<1>1. CASE FetchFault
  BY <1>1 DEF FetchFault, TypeOK, ZeroRegister, States, Errors
<1>2. CASE InvalidCondition
  BY <1>2, FaultOK DEF InvalidCondition, States, Errors
<1>3. CASE Skip
  BY <1>3, FetchedType DEF Skip, TypeOK
<1>4. CASE InvalidInstruction
  BY <1>4, FaultOK DEF InvalidInstruction, States, Errors
<1>5. CASE Nop
  BY <1>5, FetchedType, Retired DEF Nop, TypeOK
<1>6. CASE Move
  <2>1. Ins.r1 \in Register /\ Reg2 \in Word /\ Imm \in Word
    BY <1>6, OperandTypes DEF Move
  <2>2. [Fetched EXCEPT ![Ins.r1] = IF Ins.op = "MOVR" THEN Reg2 ELSE Imm]
          \in [Register -> Word]
    BY <2>1, FetchedType
  <2>3. QED
    BY <1>6, <2>2, Retired DEF Move, TypeOK
<1>7. CASE DivisionFault
  BY <1>7, FaultOK DEF DivisionFault, States, Errors
<1>8. CASE Arithmetic
  <2>1. Ins.r1 \in Register /\ Reg1 \in Word /\ RightOperand \in Word
    BY <1>8, OperandTypes DEF Arithmetic
  <2>2. AluOp \in Operations
    BY <1>8, AluOpType DEF Arithmetic, Executes
  <2>3. Result(AluOp, Reg1, RightOperand) \in Word
    BY <2>1, <2>2, ResultType
  <2>4. [Fetched EXCEPT ![Ins.r1] = Result(AluOp, Reg1, RightOperand)]
          \in [Register -> Word]
    BY <2>1, <2>3, FetchedType
  <2>5. flags' \in FlagSet
    BY <1>8, FlagsType DEF Arithmetic
  <2>6. QED
    BY <1>8, <2>4, <2>5, Retired DEF Arithmetic, TypeOK
<1>9. CASE Compare
  <2>1. flags' \in FlagSet
    BY <1>9, FlagsType DEF Compare
  <2>2. QED
    BY <1>9, <2>1, FetchedType, Retired DEF Compare, TypeOK
<1>10. CASE Pop
  <2>1. Top \in Word /\ SP - WORD_SIZE \in Word /\ Ins.r1 \in Register
    BY <1>10, TopType, OperandTypes DEF Pop
  <2> DEFINE popped == [Fetched EXCEPT ![R_SP] = SP - WORD_SIZE]
             regs == IF Ins.op = "POP" THEN popped
                     ELSE [popped EXCEPT ![Ins.r1] = Top]
  <2>2. popped \in [Register -> Word]
    BY <2>1, FetchedType, RegisterNumbers
  <2>3. regs \in [Register -> Word]
    BY <2>1, <2>2
  <2>4. Retire(regs)
    BY <1>10, Zenon DEF Pop
  <2> HIDE DEF regs
  <2>5. QED
    BY <1>10, <2>3, <2>4, Retired DEF Pop, TypeOK
<1>11. CASE Push
  <2>1. (IF Ins.op = "PUSHR" THEN Reg1 ELSE Imm) \in Word
    BY <1>11, OperandTypes DEF Push
  <2>2. QED
    BY <1>11, <2>1, PushWordOK DEF Push, TypeOK
<1>12. CASE Dup
  <2>1. Top \in Word
    BY <1>12, TopType DEF Dup
  <2>2. QED
    BY <1>12, <2>1, PushWordOK DEF Dup, TypeOK
<1>13. CASE PopFault
  BY <1>13, FaultOK, PushStates DEF PopFault
<1>14. CASE PushFault
  BY <1>14, FaultOK, PushStates DEF PushFault
<1>15. CASE AccessFault
  BY <1>15, FaultOK DEF AccessFault, States, Errors
<1>16. CASE Load
  <2>1. Ins.r1 \in Register /\ Loaded \in Word
    BY <1>16, OperandTypes, LoadedType DEF Load
  <2>2. [Fetched EXCEPT ![Ins.r1] = Loaded] \in [Register -> Word]
    BY <2>1, FetchedType
  <2>3. QED
    BY <1>16, <2>2, Retired DEF Load, TypeOK
<1>17. CASE Store
  <2>1. Reg1 \in Word /\ Reg2 \in Word /\ Imm \in Word
    BY <1>17, OperandTypes DEF Store
  <2>2. EffectiveAddress \in Nat
    BY <2>1, Bases DEF EffectiveAddress, Word
  <2>3. AccessSize[Ins.op] \in 1..4
    BY <1>17 DEF Store, Executes, AccessSize, WORD_SIZE
  <2>4. memory' \in [Address -> Byte]
    BY <1>17, <2>1, <2>2, <2>3, Written DEF Store
  <2>5. QED
    BY <1>17, <2>4, FetchedType, Retired DEF Store, TypeOK
<1>18. CASE Jump
  <2>1. Imm \in Word
    BY <1>18, OperandTypes DEF Jump
  <2>2. \A f \in [Register -> Word], v, w \in Word :
          /\ [f EXCEPT ![R_PC] = v] \in [Register -> Word]
          /\ [f EXCEPT ![R_LP] = v, ![R_PC] = w] \in [Register -> Word]
    BY RegisterNumbers
  <2>3. Fetched[R_PC] \in Word /\ Fetched[R_LP] \in Word
    BY FetchedType, RegisterNumbers
  <2>4. Ins.op \in {"JMP", "JMPAL", "RET"}
    BY <1>18 DEF Jump, Executes
  <2>5. \E regs \in [Register -> Word] : Retire(regs)
    BY <1>18, <2>1, <2>2, <2>3, <2>4, FetchedType, Zenon DEF Jump
  <2>6. QED
    BY <1>18, <2>5, Retired DEF Jump, TypeOK
<1>19. CASE WriteCharacter
  <2>1. Fetched[R_A0] \in Int
    BY FetchedType, RegisterNumbers, SmallWords
  <2>2. console' \in Byte
    BY <1>19, <2>1, ByteBaseAssumption DEF WriteCharacter, Byte
  <2>3. QED
    BY <1>19, <2>2, FetchedType, Retired DEF WriteCharacter, TypeOK
<1>20. CASE ReadCharacter
  <2>1. PICK w \in Input : Retire([Fetched EXCEPT ![R_V0] = w])
    BY <1>20 DEF ReadCharacter
  <2>2. w \in Word
    BY InputAssumption, SmallWords
  <2>3. [Fetched EXCEPT ![R_V0] = w] \in [Register -> Word]
    BY <2>2, FetchedType, RegisterNumbers
  <2>4. QED
    BY <1>20, <2>1, <2>3, Retired DEF ReadCharacter, TypeOK
<1>21. CASE Halt
  BY <1>21, FetchedType, Retired DEF Halt, TypeOK, States
<1>22. CASE UnknownInterrupt
  BY <1>22, FetchedType, Retired DEF UnknownInterrupt, TypeOK
<1>23. QED
  BY <1>1, <1>2, <1>3, <1>4, <1>5, <1>6, <1>7, <1>8, <1>9, <1>10, <1>11,
     <1>12, <1>13, <1>14, <1>15, <1>16, <1>17, <1>18, <1>19, <1>20, <1>21,
     <1>22 DEF Step

-----------------------------------------------------------------------------
(* The host.                                                               *)
LEMMA SectionType ==
  ASSUME NEW img \in Images, NEW i \in 1..Len(img.sections)
  PROVE  LET section == img.sections[i]
         IN  /\ section.address \in Nat /\ section.size \in Nat
             /\ \A a \in Int : InSection(section, a) =>
                               ContentAt(section, a) \in Byte
<1> DEFINE section == img.sections[i]
<1>1. img.sections \in Seq(Section)
  BY ImagesAssumption
<1>2. section \in Section
  BY <1>1
<1>3. section.address \in Nat /\ section.size \in Nat
  BY <1>2, Bases DEF Section, Word
<1>4. section.type # "bss" => Len(section.data) = section.size
  BY ImagesAssumption
<1>5. section.data \in Seq(Byte)
  BY <1>2 DEF Section
<1>6. ASSUME NEW a \in Int, InSection(section, a)
      PROVE  ContentAt(section, a) \in Byte
  <2>1. CASE section.type = "bss"
    BY <2>1, ByteBaseAssumption DEF ContentAt, Byte
  <2>2. CASE section.type # "bss"
    <3>1. a - section.address + 1 \in 1..Len(section.data)
      BY <1>3, <1>4, <1>6, <2>2 DEF InSection
    <3>2. section.data[a - section.address + 1] \in Byte
      BY <1>5, <3>1
    <3>3. QED
      BY <2>2, <3>2 DEF ContentAt
  <2>3. QED
    BY <2>1, <2>2
<1>7. QED
  BY <1>3, <1>6

(* Every call of the host, and every step of the loader, keeps the         *)
(* invariant.                                                              *)
LEMMA HostOK ==
  ASSUME IInv, Host
  PROVE  IInv'
<1> USE DEF IInv
<1>1. CASE StartRun
  <2>1. entryPoint \in Word /\ RomSize \in Word
    BY Sizes DEF TypeOK
  <2>2. registers' \in [Register -> Word] /\ registers'[R_ZERO] = 0
    BY <1>1, <2>1, RegisterNumbers DEF StartRun, TypeOK, ZeroRegister
  <2>3. QED
    BY <1>1, <2>2 DEF StartRun, TypeOK, ZeroRegister, SectionsFit
<1>2. CASE FinishRun
  BY <1>2 DEF FinishRun, machine, loader, TypeOK, ZeroRegister, SectionsFit
<1>3. CASE Destroy
  BY <1>3 DEF Destroy, machine, TypeOK, ZeroRegister, SectionsFit
<1>4. ASSUME NEW dump \in Dumps, LoadDump(dump)
      PROVE  IInv'
  <2>1. dump \in Seq(Byte)
    BY DumpsAssumption
  <2>2. ASSUME NEW a \in Address, a < Len(dump)
        PROVE  dump[a + 1] \in Byte
    <3>1. a + 1 \in 1..Len(dump)
      BY <2>1, <2>2 DEF Address
    <3>2. QED
      BY <2>1, <3>1
  <2>3. memory' \in [Address -> Byte]
    BY <1>4, <2>2 DEF LoadDump, TypeOK
  <2>4. QED
    BY <1>4, <2>3, SmallWords DEF LoadDump, TypeOK, ZeroRegister, SectionsFit
<1>5. ASSUME NEW dump \in Dumps, RefuseDump(dump)
      PROVE  IInv'
  <2>1. ST' \in States
    BY <1>5 DEF RefuseDump, SetState, States, Errors, TypeOK
  <2>2. QED
    BY <1>5, <2>1 DEF RefuseDump, TypeOK, ZeroRegister, SectionsFit
<1>6. ASSUME NEW img \in Images, BeginLoadImage(img)
      PROVE  IInv'
  <2>1. phase = "idle" /\ image' = img /\ next' = 1
    BY <1>6 DEF BeginLoadImage
  <2>2. \/ phase' = "check" /\ loaded' = "none"
        \/ phase' = "idle" /\ loaded' = "rejected"
    BY <1>6, <2>1 DEF BeginLoadImage
  <2>3. TypeOK' /\ ZeroRegister'
    BY <1>6, <2>1, <2>2 DEF BeginLoadImage, machine, TypeOK, ZeroRegister
  <2>4. SectionsFit'
    BY <2>1, <2>2 DEF SectionsFit
  <2>5. QED
    BY <2>3, <2>4
<1>7. CASE CheckSection
  <2>1. image \in Images /\ next \in Nat \ {0} /\ next <= Len(image.sections)
    BY <1>7 DEF CheckSection, TypeOK
  <2>2. TypeOK' /\ ZeroRegister'
    BY <1>7, <2>1 DEF CheckSection, machine, TypeOK, ZeroRegister
  <2>3. SectionsFit'
    <3>1. CASE FitsRom(image.sections[next])
      BY <1>7, <2>1, <3>1 DEF CheckSection, SectionsFit, FitsRom
    <3>2. CASE ~FitsRom(image.sections[next])
      BY <1>7, <3>2 DEF CheckSection, SectionsFit
    <3>3. QED
      BY <3>1, <3>2
  <2>4. QED
    BY <2>2, <2>3
<1>8. CASE BeginCopy
  <2>1. image \in Images /\ next > Len(image.sections) /\ phase = "check"
    BY <1>8 DEF BeginCopy, TypeOK
  <2>2. \A i \in 1..Len(image.sections) : i < next
    <3>1. image.sections \in Seq(Section)
      BY <2>1, ImagesAssumption
    <3>2. Len(image.sections) \in Nat
      BY <3>1
    <3>3. QED
      BY <2>1, <3>2 DEF TypeOK
  <2>3. SectionsFit'
    BY <1>8, <2>1, <2>2 DEF BeginCopy, SectionsFit, FitsRom
  <2>4. QED
    BY <1>8, <2>3 DEF BeginCopy, machine, TypeOK, ZeroRegister
<1>9. CASE CopySection
  <2> DEFINE section == image.sections[next]
  <2>1. image \in Images /\ next \in 1..Len(image.sections)
    <3>1. image \in Images /\ next \in Nat \ {0} /\ next <= Len(image.sections)
      BY <1>9 DEF CopySection, TypeOK
    <3>2. image.sections \in Seq(Section)
      BY <3>1, ImagesAssumption
    <3>3. Len(image.sections) \in Nat
      BY <3>2
    <3>4. QED
      BY <3>1, <3>3
  <2>2. \A a \in Address : InSection(section, a) => ContentAt(section, a) \in Byte
    BY <2>1, SectionType DEF Address
  <2> HIDE DEF section
  <2>3. memory' = [a \in Address |-> IF InSection(section, a)
                                      THEN ContentAt(section, a) ELSE memory[a]]
    BY <1>9 DEF CopySection, TypeOK, section
  <2>4. memory' \in [Address -> Byte]
    BY <2>2, <2>3 DEF TypeOK
  <2>5. TypeOK' /\ ZeroRegister'
    BY <1>9, <2>4 DEF CopySection, TypeOK, ZeroRegister
  <2>6. SectionsFit'
    BY <1>9 DEF CopySection, SectionsFit, FitsRom
  <2>7. QED
    BY <2>5, <2>6
<1>10. CASE FinishLoadImage
  <2>1. image \in Images
    BY <1>10 DEF FinishLoadImage, TypeOK
  <2>2. image.entry \in Word
    BY <2>1, ImagesAssumption
  <2>3. QED
    BY <1>10, <2>2 DEF FinishLoadImage, machine, TypeOK, ZeroRegister,
                       SectionsFit
<1>11. QED
  BY <1>1, <1>2, <1>3, <1>4, <1>5, <1>6, <1>7, <1>8, <1>9, <1>10 DEF Host

(* A machine just initialized satisfies the invariant.                     *)
LEMMA InitOK == Init => IInv
<1> SUFFICES ASSUME Init
             PROVE  IInv
  OBVIOUS
<1>1. registers \in [Register -> Word] /\ registers[R_ZERO] = 0
  BY SmallWords, RegisterNumbers DEF Init
<1>2. memory \in [Address -> Byte]
  BY ByteBaseAssumption DEF Init, Byte
<1>3. flags \in FlagSet
  BY DEF Init, NoFlags, FlagSet
<1>4. QED
  BY <1>1, <1>2, <1>3, SmallWords
     DEF Init, IInv, TypeOK, ZeroRegister, SectionsFit, States

(* The invariant is inductive.                                             *)
LEMMA NextOK == IInv /\ [Next]_vars => IInv'
<1> SUFFICES ASSUME IInv, [Next]_vars
             PROVE  IInv'
  OBVIOUS
<1>1. CASE Step
  <2>1. MachineOK'
    BY <1>1, StepOK DEF IInv
  <2>2. UNCHANGED <<memorySize, entryPoint, phase, image, next, loaded>>
    BY <1>1 DEF Step, loader
  <2>3. QED
    BY <2>1, <2>2 DEF IInv, MachineOK, TypeOK, ZeroRegister, SectionsFit, FitsRom
<1>2. CASE Host
  BY <1>2, HostOK
<1>3. CASE UNCHANGED vars
  BY <1>3 DEF vars, IInv, TypeOK, ZeroRegister, SectionsFit, FitsRom
<1>4. QED
  BY <1>1, <1>2, <1>3 DEF Next

(* The machine satisfies the invariant whatever is loaded and run.         *)
THEOREM Invariance == Spec => []IInv
BY InitOK, NextOK, PTL DEF Spec

(* Whatever program and image it is given, every part of the machine keeps *)
(* a value of its C type.  Code: struct VirtualMachine.                    *)
THEOREM TypeCorrect == Spec => []TypeOK
BY Invariance, PTL DEF IInv

(* $zero reads as zero before every instruction of every program.          *)
(* Code: the assignments to R_ZERO in vm_run_instruction.                  *)
THEOREM ZeroRegisterAlways == Spec => []ZeroRegister
BY Invariance, PTL DEF IInv

(* For any images: while one is copied, all of its sections lie in the ROM.*)
(* Code: the two loops of vm_loadImage.                                    *)
THEOREM CopiesOnlyCheckedAlways == Spec => []CopiesOnlyChecked
<1>1. IInv => CopiesOnlyChecked
  <2> SUFFICES ASSUME IInv, phase = "copy",
                      NEW i \in 1..Len(image.sections)
               PROVE  LET section == image.sections[i]
                      IN  section.size > 0 =>
                            section.address + section.size - 1 < RomSize
    BY DEF CopiesOnlyChecked
  <2>1. image \in Images
    BY DEF IInv, TypeOK
  <2>2. FitsRom(image.sections[i])
    BY DEF IInv, SectionsFit
  <2>3. QED
    BY <2>1, <2>2, SectionType, Sizes DEF FitsRom
<1>2. QED
  BY <1>1, Invariance, PTL

-----------------------------------------------------------------------------
(* An instruction that fails changes nothing but the state and the program *)
(* counter; an instruction that works sets no error.                       *)
LEMMA StepPrecise ==
  ASSUME TypeOK, ZeroRegister, Step, ~HasError, HasError'
  PROVE  /\ UNCHANGED <<memory, flags, console>>
         /\ \A r \in Register \ {R_PC} : registers'[r] = registers[r]
         /\ registers'[R_PC] \in {PC, ToWord(PC + INSTRUCTION_SIZE)}
<1> DEFINE Precise ==
             /\ UNCHANGED <<memory, flags, console>>
             /\ \A r \in Register \ {R_PC} : registers'[r] = registers[r]
             /\ registers'[R_PC] \in {PC, ToWord(PC + INSTRUCTION_SIZE)}
<1>1. ASSUME NEW state, Fault(state)
      PROVE  Precise
  <2>1. registers' = Fetched /\ UNCHANGED <<memory, flags, console>>
    BY <1>1 DEF Fault
  <2>2. \A r \in Register \ {R_PC} : Fetched[r] = registers[r]
    BY FetchedType DEF ZeroRegister
  <2>3. QED
    BY <2>1, <2>2, FetchedType
<1>2. CASE FetchFault
  BY <1>2 DEF FetchFault, PC
<1>3. CASE \/ InvalidCondition \/ InvalidInstruction \/ DivisionFault
           \/ PopFault \/ PushFault \/ AccessFault
  <2>1. \E state : Fault(state)
    BY <1>3, Zenon DEF InvalidCondition, InvalidInstruction, DivisionFault,
                       PopFault, PushFault, AccessFault
  <2>2. QED
    BY <1>1, <2>1
<1>4. CASE ST' = ST
  BY <1>4 DEF HasError
<1>5. CASE ST' = "HALTED"
  BY <1>5 DEF HasError, Errors
<1>6. QED
  BY <1>2, <1>3, <1>4, <1>5
     DEF Step, Skip, Nop, Move, Arithmetic, Compare, Pop, Push, Dup, Load,
         Store, Jump, WriteCharacter, ReadCharacter, Halt, UnknownInterrupt

(* For every program: a run that ends in an error leaves memory, flags and *)
(* registers as they were before the failing instruction, but for the      *)
(* program counter.  Code: the error paths of vm_run_instruction.          *)
THEOREM FaultIsPreciseAlways == Spec => FaultIsPrecise
<1> DEFINE Precise ==
             phase = "run" /\ ~HasError /\ HasError' =>
               /\ UNCHANGED <<memory, flags, console>>
               /\ \A r \in Register \ {R_PC} : registers'[r] = registers[r]
               /\ registers'[R_PC] \in {PC, ToWord(PC + INSTRUCTION_SIZE)}
<1>1. IInv /\ [Next]_vars => [Precise]_vars
  <2> SUFFICES ASSUME IInv, Next, phase = "run", ~HasError, HasError'
               PROVE  Precise
    OBVIOUS
  <2>1. CASE Step
    BY <2>1, StepPrecise DEF IInv
  <2>2. CASE Host
    <3>1. FinishRun
      BY <2>2 DEF Host, StartRun, Destroy, LoadDump, RefuseDump,
                  BeginLoadImage, CheckSection, BeginCopy, CopySection,
                  FinishLoadImage
    <3>2. QED
      BY <3>1 DEF FinishRun, machine, HasError
  <2>3. QED
    BY <2>1, <2>2 DEF Next
<1>2. QED
  BY <1>1, Invariance, PTL DEF Spec, FaultIsPrecise

(* For every program and host: once halted or failed, the machine never    *)
(* executes again and keeps its error, its RAM and its registers.          *)
(* Code: vm_set_state and the loop condition of vm_run.                    *)
THEOREM StoppedForGoodAlways == Spec => StoppedForGood
<1> DEFINE Kept ==
             Stopped =>
               /\ Stopped'
               /\ HasError => ST' = ST
               /\ UNCHANGED <<flags, console>>
               /\ \A r \in Register \ {R_PC, R_BP, R_SP} :
                    registers'[r] = registers[r]
               /\ \A a \in Address : a >= RomSize => memory'[a] = memory[a]
<1>1. IInv /\ [Next]_vars => [Kept]_vars
  <2> SUFFICES ASSUME IInv, Next, Stopped
               PROVE  Kept
    OBVIOUS
  <2>1. ~Step
    BY DEF Step, FetchFault, InvalidCondition, Skip, InvalidInstruction, Nop,
           Move, DivisionFault, Arithmetic, Compare, Pop, Push, Dup, PopFault,
           PushFault, AccessFault, Load, Store, Jump, WriteCharacter,
           ReadCharacter, Halt, UnknownInterrupt, Interrupt, Executes, Passes,
           Fetches, Loop
  <2>2. CASE StartRun
    BY <2>2 DEF StartRun, Stopped, HasError, IInv, TypeOK
  <2>3. CASE FinishRun \/ Destroy \/ CheckSection \/ BeginCopy \/ FinishLoadImage
    BY <2>3 DEF FinishRun, Destroy, CheckSection, BeginCopy, FinishLoadImage,
                machine, Stopped, HasError
  <2>4. ASSUME NEW img \in Images, BeginLoadImage(img)
        PROVE  Kept
    BY <2>4 DEF BeginLoadImage, machine, Stopped, HasError
  <2>5. ASSUME NEW dump \in Dumps, LoadDump(dump)
        PROVE  Kept
    <3>1. Len(dump) \in Nat
      BY DumpsAssumption
    <3>2. \A a \in Address : a >= RomSize => memory'[a] = memory[a]
      BY <2>5, <3>1, Sizes DEF LoadDump, IInv, TypeOK, Address
    <3>3. QED
      BY <2>5, <3>2 DEF LoadDump, Stopped, HasError
  <2>6. ASSUME NEW dump \in Dumps, RefuseDump(dump)
        PROVE  Kept
    BY <2>6 DEF RefuseDump, SetState, Stopped, HasError, Errors
  <2>7. CASE CopySection
    <3> DEFINE section == image.sections[next]
    <3>1. image \in Images /\ next \in 1..Len(image.sections)
      <4>1. image \in Images /\ next \in Nat \ {0} /\ next <= Len(image.sections)
        BY <2>7 DEF CopySection, IInv, TypeOK
      <4>2. image.sections \in Seq(Section)
        BY <4>1, ImagesAssumption
      <4>3. Len(image.sections) \in Nat
        BY <4>2
      <4>4. QED
        BY <4>1, <4>3
    <3>2. FitsRom(section)
      BY <2>7, <3>1 DEF CopySection, IInv, SectionsFit
    <3>3. section.address \in Nat /\ section.size \in Nat
      BY <3>1, SectionType
    <3> HIDE DEF section
    <3>4. \A a \in Address : a >= RomSize => ~InSection(section, a)
      BY <3>2, <3>3, Sizes DEF FitsRom, InSection, Address
    <3>5. memory' = [a \in Address |-> IF InSection(section, a)
                                        THEN ContentAt(section, a) ELSE memory[a]]
      BY <2>7 DEF CopySection, IInv, TypeOK, section
    <3>6. \A a \in Address : a >= RomSize => memory'[a] = memory[a]
      BY <3>4, <3>5
    <3>7. QED
      BY <2>7, <3>6 DEF CopySection, Stopped, HasError
  <2>8. QED
    BY <2>1, <2>2, <2>3, <2>4, <2>5, <2>6, <2>7 DEF Next, Host
<1>2. QED
  BY <1>1, Invariance, PTL DEF Spec, StoppedForGood

-----------------------------------------------------------------------------
(* The first k sections are in place.                                      *)
InPlaceTo(mem, sections, k) ==
  \A i \in 1..Len(sections), a \in Address :
    LET hidden == \E j \in (i + 1)..k : InSection(sections[j], a)
    IN  i <= k /\ InSection(sections[i], a) /\ ~hidden =>
          mem[a] = ContentAt(sections[i], a)

CopiedInv ==
  /\ phase # "idle" => loaded # "accepted"
  /\ phase = "copy" => /\ next <= Len(image.sections) + 1
                       /\ InPlaceTo(memory, image.sections, next - 1)
  /\ loaded = "accepted" =>
       /\ entryPoint = image.entry
       /\ InPlaceTo(memory, image.sections, Len(image.sections))

LEMMA LengthOfImage ==
  ASSUME NEW img \in Images
  PROVE  Len(img.sections) \in Nat
<1>1. img.sections \in Seq(Section)
  BY ImagesAssumption
<1>2. QED
  BY <1>1

(* The copy of a section covers those before it and nothing else.          *)
LEMMA CopyPlaces ==
  ASSUME NEW mem, NEW sections, Len(sections) \in Nat, NEW n \in Nat \ {0},
         InPlaceTo(mem, sections, n - 1)
  PROVE  InPlaceTo([a \in Address |->
                      IF InSection(sections[n], a) THEN ContentAt(sections[n], a)
                                                   ELSE mem[a]], sections, n)
<1> DEFINE s == sections[n]
           new == [a \in Address |-> IF InSection(s, a) THEN ContentAt(s, a)
                                                        ELSE mem[a]]
<1> SUFFICES ASSUME NEW i \in 1..Len(sections), NEW a \in Address,
                    i <= n, InSection(sections[i], a),
                    ~ \E j \in (i + 1)..n : InSection(sections[j], a)
             PROVE  new[a] = ContentAt(sections[i], a)
  BY DEF InPlaceTo
<1>1. CASE i = n
  BY <1>1
<1>2. CASE i # n
  <2>1. i <= n - 1 /\ n \in (i + 1)..n
    BY <1>2
  <2>2. new[a] = mem[a]
    BY <2>1
  <2>3. ~ \E j \in (i + 1)..(n - 1) : InSection(sections[j], a)
    OBVIOUS
  <2>4. mem[a] = ContentAt(sections[i], a)
    BY <2>1, <2>3 DEF InPlaceTo
  <2>5. QED
    BY <2>2, <2>4
<1>3. QED
  BY <1>1, <1>2

LEMMA CopyStep ==
  ASSUME IInv, CopiedInv, CopySection
  PROVE  CopiedInv'
<1> DEFINE n == Len(image.sections)
           s == image.sections[next]
<1>1. /\ phase = "copy" /\ next <= n /\ phase' = "copy" /\ next' = next + 1
      /\ image' = image /\ loaded' = loaded
      /\ memory' = [a \in DOMAIN memory |-> IF InSection(s, a)
                                              THEN ContentAt(s, a) ELSE memory[a]]
  BY DEF CopySection
<1>2. /\ next \in Nat \ {0} /\ image \in Images /\ DOMAIN memory = Address
      /\ loaded # "accepted" /\ InPlaceTo(memory, image.sections, next - 1)
  BY <1>1 DEF IInv, TypeOK, CopiedInv
<1>3. n \in Nat
  BY <1>2, LengthOfImage
<1>4. memory' = [a \in Address |-> IF InSection(s, a) THEN ContentAt(s, a)
                                                      ELSE memory[a]]
  BY <1>1, <1>2
<1>5. InPlaceTo(memory', image.sections, next)
  BY <1>2, <1>3, <1>4, CopyPlaces
<1>6. next' - 1 = next
  BY <1>1, <1>2
<1>7. InPlaceTo(memory', image'.sections, next' - 1)
  BY <1>1, <1>5, <1>6
<1> HIDE DEF n, s
<1>8. next' <= n + 1
  BY <1>1, <1>2, <1>3
<1>9. QED
  BY <1>1, <1>2, <1>7, <1>8 DEF CopiedInv, n

LEMMA CopiedNext == IInv /\ CopiedInv /\ [Next]_vars => CopiedInv'
<1> SUFFICES ASSUME IInv, CopiedInv, [Next]_vars
             PROVE  CopiedInv'
  OBVIOUS
<1>1. ASSUME UNCHANGED <<memory, entryPoint, phase, image, next, loaded>>
      PROVE  CopiedInv'
  BY <1>1 DEF CopiedInv
<1>2. ASSUME phase' # "copy", loaded' # "accepted"
      PROVE  CopiedInv'
  BY <1>2 DEF CopiedInv
<1>3. CASE Step
  <2>1. phase = "run"
    BY <1>3 DEF Step, FetchFault, InvalidCondition, Skip, InvalidInstruction,
         Nop, Move, DivisionFault, Arithmetic, Compare, Pop, Push, Dup, PopFault,
         PushFault, AccessFault, Load, Store, Jump, WriteCharacter,
         ReadCharacter, Halt, UnknownInterrupt, Interrupt, Executes, Passes,
         Fetches, Loop
  <2>2. UNCHANGED <<phase, loaded>>
    BY <1>3 DEF Step, loader
  <2>3. QED
    BY <1>2, <2>1, <2>2 DEF CopiedInv
<1>4. CASE StartRun
  BY <1>2, <1>4 DEF StartRun
<1>5. CASE FinishRun
  BY <1>2, <1>5 DEF FinishRun, loader, CopiedInv
<1>6. CASE Destroy
  BY <1>2, <1>6 DEF Destroy
<1>7. ASSUME NEW dump \in Dumps, LoadDump(dump) \/ RefuseDump(dump)
      PROVE  CopiedInv'
  BY <1>2, <1>7 DEF LoadDump, RefuseDump
<1>8. ASSUME NEW img \in Images, BeginLoadImage(img)
      PROVE  CopiedInv'
  BY <1>2, <1>8 DEF BeginLoadImage
<1>9. CASE CheckSection
  <2>1. phase' # "copy" /\ loaded' # "accepted"
    BY <1>9 DEF CheckSection, CopiedInv
  <2>2. QED
    BY <1>2, <2>1
<1>10. CASE BeginCopy
  <2>1. /\ phase' = "copy" /\ next' = 1 /\ loaded' # "accepted"
        /\ image' = image /\ memory' = memory /\ image \in Images
    BY <1>10 DEF BeginCopy, machine, CopiedInv, IInv, TypeOK
  <2>2. next' <= Len(image'.sections) + 1
    BY <2>1, LengthOfImage
  <2>3. InPlaceTo(memory', image'.sections, next' - 1)
    BY <2>1 DEF InPlaceTo
  <2>4. QED
    BY <2>1, <2>2, <2>3 DEF CopiedInv
<1>11. CASE CopySection
  BY <1>11, CopyStep
<1>12. CASE FinishLoadImage
  <2>1. /\ phase = "copy" /\ phase' = "idle" /\ image' = image
        /\ memory' = memory /\ entryPoint' = image.entry
        /\ next > Len(image.sections) /\ next \in Nat /\ image \in Images
    BY <1>12 DEF FinishLoadImage, machine, IInv, TypeOK
  <2>2. next - 1 = Len(image.sections)
    BY <2>1, LengthOfImage DEF CopiedInv
  <2>3. InPlaceTo(memory', image'.sections, Len(image'.sections))
    BY <2>1, <2>2 DEF CopiedInv
  <2>4. QED
    BY <2>1, <2>3 DEF CopiedInv
<1>13. CASE UNCHANGED vars
  BY <1>1, <1>13 DEF vars
<1>14. QED
  BY <1>3, <1>4, <1>5, <1>6, <1>7, <1>8, <1>9, <1>10, <1>11, <1>12, <1>13
  DEF Next, Host

(* For any image: once it is accepted, its sections are in place and the   *)
(* next run starts at its entry.  Code: the copying loop of vm_loadImage.  *)
THEOREM AcceptedIsInPlaceAlways == Spec => []AcceptedIsInPlace
<1>1. Init => CopiedInv
  BY DEF Init, CopiedInv
<1>2. CopiedInv => AcceptedIsInPlace
  BY DEF CopiedInv, AcceptedIsInPlace, InPlaceTo
<1>3. QED
  BY <1>1, <1>2, Invariance, CopiedNext, PTL DEF Spec

-----------------------------------------------------------------------------
(* What a write changes, and what is read back.                            *)
LEMMA OutsideOfWrite ==
  ASSUME TypeOK, NEW address, NEW value, NEW size, NEW a \in Address,
         a \notin address..(address + size - 1)
  PROVE  Write(address, value, size)[a] = memory[a]
BY DEF Write, TypeOK

LEMMA WriteReads ==
  ASSUME TypeOK, NEW address \in Nat, NEW value \in Word, NEW size \in 1..4,
         ValidRange(address, size)
  PROVE  LET mem == Write(address, value, size)
         IN  /\ size = 4 => WordIn(mem, address) = value
             /\ size = 2 => HwordIn(mem, address) = value % HwordBase
<1> DEFINE mem == Write(address, value, size)
<1>1. ASSUME NEW i \in 0..(size - 1)
      PROVE  mem[address + i] = ByteOf(value, i)
  <2>1. address + i \in Address
    BY RangeIsThere
  <2>2. address + i \in address..(address + size - 1)
    OBVIOUS
  <2>3. (address + i) - address = i
    OBVIOUS
  <2>4. DOMAIN memory = Address
    BY DEF TypeOK
  <2>5. mem[address + i] = ByteOf(value, (address + i) - address)
    BY <2>1, <2>2, <2>4 DEF Write
  <2>6. QED
    BY <2>3, <2>5
<1> HIDE DEF mem
<1>2. address + 0 = address /\ (address + 2) + 1 = address + 3
  OBVIOUS
<1>3. CASE size = 4
  <2>1. /\ mem[address] = ByteOf(value, 0)
        /\ mem[address + 1] = ByteOf(value, 1)
        /\ mem[address + 2] = ByteOf(value, 2)
        /\ mem[address + 3] = ByteOf(value, 3)
    <3>1. 0 \in 0..(size - 1) /\ 1 \in 0..(size - 1) /\ 2 \in 0..(size - 1)
          /\ 3 \in 0..(size - 1)
      BY <1>3
    <3>2. mem[address + 0] = ByteOf(value, 0)
      BY <1>1, <3>1
    <3>3. QED
      BY <1>1, <1>2, <3>1, <3>2
  <2>2. WordIn(mem, address) = value
    BY <1>2, <2>1, WordRejoins DEF WordIn, HwordIn
  <2>3. QED
    BY <1>3, <2>2 DEF mem
<1>4. CASE size = 2
  <2>1. /\ mem[address] = ByteOf(value, 0)
        /\ mem[address + 1] = ByteOf(value, 1)
    <3>1. 0 \in 0..(size - 1) /\ 1 \in 0..(size - 1)
      BY <1>4
    <3>2. mem[address + 0] = ByteOf(value, 0)
      BY <1>1, <3>1
    <3>3. QED
      BY <1>1, <1>2, <3>1, <3>2
  <2>2. HwordIn(mem, address) = value % HwordBase
    BY <2>1, HwordRejoins DEF HwordIn
  <2>3. QED
    BY <1>4, <2>2 DEF mem
<1>5. QED
  BY <1>3, <1>4 DEF mem

(* Only three instructions write, and the state stays the same.            *)
LEMMA WritingSteps ==
  ASSUME Step
  PROVE  \/ Push \/ Dup \/ Store \/ memory' = memory
BY DEF Step, FetchFault, InvalidCondition, Skip, InvalidInstruction, Nop, Move,
   DivisionFault, Arithmetic, Compare, Pop, PopFault, PushFault, AccessFault,
   Load, Jump, WriteCharacter, ReadCharacter, Halt, UnknownInterrupt, Fault

(* A word that is pushed goes to the stack window.                         *)
LEMMA PushInside ==
  ASSUME TypeOK, NEW ops, Executes(ops), PushState = "NORMAL"
  PROVE  /\ SP \in Nat /\ BP \in Nat
         /\ ValidRange(SP, WORD_SIZE)
         /\ SP..(SP + WORD_SIZE - 1) \subseteq BP..(BP + StackSize - 1)
<1>1. SP \in Nat /\ BP \in Nat
  BY OperandTypes, Bases DEF Word
<1>2. ~MisplacedSP /\ ~(SP - BP > StackSize - WORD_SIZE)
        /\ ValidRange(SP, WORD_SIZE)
  BY DEF PushState
<1>3. SP >= BP
  BY <1>1, <1>2 DEF MisplacedSP
<1>4. QED
  BY <1>1, <1>2, <1>3, Sizes DEF WORD_SIZE

LEMMA StoreInside ==
  ASSUME TypeOK, Store
  PROVE  /\ EffectiveAddress \in Nat
         /\ Ins.op \in {"STOREB", "STOREH", "STOREW"}
         /\ AccessSize[Ins.op] \in 1..4
         /\ ValidRange(EffectiveAddress, AccessSize[Ins.op])
<1>1. Reg2 \in Nat /\ Imm \in Nat
  BY OperandTypes, Bases DEF Word, Store
<1>2. Ins.op \in {"STOREB", "STOREH", "STOREW"}
  BY DEF Store, Executes
<1>3. AccessSize[Ins.op] \in 1..4
  BY <1>2 DEF AccessSize, WORD_SIZE
<1>4. QED
  BY <1>1, <1>2, <1>3 DEF Store, AccessInRange, EffectiveAddress

LEMMA ConfinedStep ==
  ASSUME TypeOK, Step, NEW a \in Address, memory'[a] # memory[a]
  PROVE  /\ phase = "run"
         /\ a < MemoryEnd
         /\ Ins.op \in {"PUSHR", "PUSHI", "DUP"} => a \in BP..(BP + StackSize - 1)
         /\ Ins.op \notin {"PUSHR", "PUSHI", "DUP"} =>
              a \in EffectiveAddress..
                      (EffectiveAddress + AccessSize[Ins.op] - 1)
<1>1. MemoryEnd \in Nat
  BY Sizes DEF MemoryEnd, TypeOK
<1>2. ASSUME Push \/ Dup
      PROVE  /\ phase = "run" /\ a < MemoryEnd
             /\ Ins.op \in {"PUSHR", "PUSHI", "DUP"}
             /\ a \in BP..(BP + StackSize - 1)
  <2>1. /\ Executes({"PUSHR", "PUSHI"}) \/ Executes({"DUP"})
        /\ PushState = "NORMAL"
        /\ \E value : memory' = Write(SP, value, WORD_SIZE)
    BY <1>2 DEF Push, Dup, PushWord
  <2>2. phase = "run" /\ Ins.op \in {"PUSHR", "PUSHI", "DUP"}
    BY <2>1 DEF Executes, Passes, Fetches, Loop
  <2>3. /\ SP \in Nat /\ BP \in Nat
        /\ ValidRange(SP, WORD_SIZE)
        /\ SP..(SP + WORD_SIZE - 1) \subseteq BP..(BP + StackSize - 1)
    BY <2>1, PushInside
  <2>4. a \in SP..(SP + WORD_SIZE - 1)
    BY <2>1, OutsideOfWrite
  <2>5. a < MemoryEnd
    BY <1>1, <2>3, <2>4 DEF ValidRange, WORD_SIZE
  <2>6. QED
    BY <2>2, <2>3, <2>4, <2>5
<1>3. ASSUME Store
      PROVE  /\ phase = "run" /\ a < MemoryEnd
             /\ Ins.op \notin {"PUSHR", "PUSHI", "DUP"}
             /\ a \in EffectiveAddress..
                        (EffectiveAddress + AccessSize[Ins.op] - 1)
  <2>1. phase = "run"
    BY <1>3 DEF Store, Executes, Passes, Fetches, Loop
  <2>2. memory' = Write(EffectiveAddress, Reg1, AccessSize[Ins.op])
    BY <1>3 DEF Store
  <2>3. a \in EffectiveAddress..(EffectiveAddress + AccessSize[Ins.op] - 1)
    BY <2>2, OutsideOfWrite
  <2>4. a < MemoryEnd
    BY <1>1, <1>3, <2>3, StoreInside DEF ValidRange
  <2>5. QED
    BY <1>3, <2>1, <2>3, <2>4, StoreInside
<1>4. QED
  BY <1>2, <1>3, WritingSteps

(* The host writes into the ROM only, and not while it runs the machine.   *)
LEMMA HostWrites ==
  ASSUME IInv, Host, NEW a \in Address, memory'[a] # memory[a]
  PROVE  phase # "run" /\ a < RomSize
<1>1. \/ \E dump \in Dumps : LoadDump(dump)
      \/ CopySection
  BY DEF Host, StartRun, FinishRun, Destroy, RefuseDump, BeginLoadImage,
         CheckSection, BeginCopy, FinishLoadImage, machine
<1>2. phase # "run"
  BY <1>1 DEF LoadDump, CopySection
<1>3. ASSUME NEW dump \in Dumps, LoadDump(dump)
      PROVE  a < RomSize
  <2>1. dump \in Seq(Byte) /\ Len(dump) <= RomSize
    BY <1>3, DumpsAssumption DEF LoadDump
  <2>2. a < Len(dump)
    BY <1>3 DEF LoadDump, IInv, TypeOK
  <2>3. Len(dump) \in Nat /\ a \in Int
    BY <2>1, Sizes DEF Address
  <2>4. QED
    BY <2>1, <2>2, <2>3, Sizes
<1>4. ASSUME CopySection
      PROVE  a < RomSize
  <2> DEFINE section == image.sections[next]
  <2>1. /\ image \in Images /\ next \in Nat \ {0} /\ phase = "copy"
        /\ next <= Len(image.sections)
    BY <1>4 DEF CopySection, IInv, TypeOK
  <2>2. next \in 1..Len(image.sections)
    BY <2>1, LengthOfImage
  <2>3. section.address \in Nat /\ section.size \in Nat /\ FitsRom(section)
    BY <2>1, <2>2, SectionType DEF IInv, SectionsFit
  <2>4. InSection(section, a)
    BY <1>4 DEF CopySection, IInv, TypeOK
  <2> HIDE DEF section
  <2>5. QED
    BY <2>3, <2>4, Sizes DEF FitsRom, InSection
<1>5. QED
  BY <1>1, <1>2, <1>3, <1>4

(* For every program: a push or dup writes below the end of the stack      *)
(* window, a store the bytes it addresses, a load of a program the ROM.    *)
THEOREM WritesConfinedAlways == Spec => WritesConfined
<1> DEFINE Confined ==
             \A a \in Address :
               memory'[a] # memory[a] =>
                 /\ a < MemoryEnd
                 /\ phase # "run" => a < RomSize
                 /\ phase = "run" /\ Ins.op \in {"PUSHR", "PUSHI", "DUP"} =>
                      a \in BP..(BP + StackSize - 1)
                 /\ phase = "run" /\ Ins.op \notin {"PUSHR", "PUSHI", "DUP"} =>
                      a \in EffectiveAddress..
                              (EffectiveAddress + AccessSize[Ins.op] - 1)
<1>1. IInv /\ [Next]_vars => [Confined]_vars
  <2> SUFFICES ASSUME IInv, Next, NEW a \in Address, memory'[a] # memory[a]
               PROVE  /\ a < MemoryEnd
                      /\ phase # "run" => a < RomSize
                      /\ phase = "run" /\ Ins.op \in {"PUSHR", "PUSHI", "DUP"} =>
                           a \in BP..(BP + StackSize - 1)
                      /\ phase = "run" /\ Ins.op \notin {"PUSHR", "PUSHI", "DUP"} =>
                           a \in EffectiveAddress..
                                   (EffectiveAddress + AccessSize[Ins.op] - 1)
    OBVIOUS
  <2>1. CASE Step
    BY <2>1, ConfinedStep DEF IInv
  <2>2. CASE Host
    <3>1. phase # "run" /\ a < RomSize /\ a \in Int
      BY <2>2, HostWrites, Sizes DEF Address
    <3>2. a < MemoryEnd
      BY <3>1, Sizes DEF MemoryEnd, IInv, TypeOK
    <3>3. QED
      BY <3>1, <3>2
  <2>3. QED
    BY <2>1, <2>2 DEF Next
<1>2. QED
  BY <1>1, Invariance, PTL DEF Spec, WritesConfined

(* A store, PUSHR or DUP that reports no error did its work.               *)
LEMMA FaultsSetErrors ==
  ASSUME InvalidCondition \/ InvalidInstruction \/ DivisionFault
           \/ PopFault \/ PushFault \/ AccessFault
  PROVE  ST' \in Errors
<1>1. CASE InvalidCondition
  BY <1>1 DEF InvalidCondition, Fault, Errors
<1>2. CASE InvalidInstruction
  BY <1>2 DEF InvalidInstruction, Fault, Errors
<1>3. CASE DivisionFault
  BY <1>3 DEF DivisionFault, Fault, Errors
<1>4. CASE PopFault
  BY <1>4 DEF PopFault, PopState, Fault, Errors
<1>5. CASE PushFault
  BY <1>5 DEF PushFault, PushState, Fault, Errors
<1>6. CASE AccessFault
  BY <1>6 DEF AccessFault, Fault, Errors
<1>7. QED
  BY <1>1, <1>2, <1>3, <1>4, <1>5, <1>6

LEMMA WritersWrite ==
  ASSUME Step, Passes, ST' \notin Errors,
         Ins.op \in {"STOREW", "STOREH", "PUSHR", "DUP"}
  PROVE  /\ Ins.op \in {"STOREW", "STOREH"} => Store
         /\ Ins.op = "PUSHR" => Push
         /\ Ins.op = "DUP" => Dup
<1>1. ~(InvalidCondition \/ InvalidInstruction \/ DivisionFault
          \/ PopFault \/ PushFault \/ AccessFault)
  BY FaultsSetErrors
<1>2. ~FetchFault /\ ~Skip
  BY DEF FetchFault, Skip, Passes, Fetches
<1>3. ~(Nop \/ Move \/ Compare \/ Pop \/ Load \/ Jump)
  BY DEF Nop, Move, Compare, Pop, Load, Jump, Executes, Comparisons
<1>4. ~Arithmetic
  BY DEF Arithmetic, Executes, AluOperation
<1>5. ~(WriteCharacter \/ ReadCharacter \/ Halt \/ UnknownInterrupt)
  BY DEF WriteCharacter, ReadCharacter, Halt, UnknownInterrupt, Interrupt,
         Executes
<1>6. Store \/ Push \/ Dup
  BY <1>1, <1>2, <1>3, <1>4, <1>5 DEF Step
<1>7. /\ Store => Ins.op \in {"STOREB", "STOREH", "STOREW"}
      /\ Push => Ins.op \in {"PUSHR", "PUSHI"}
      /\ Dup => Ins.op = "DUP"
  BY DEF Store, Push, Dup, Executes
<1>8. QED
  BY <1>6, <1>7

(* The word below the one that DUP writes is the word it copied.           *)
LEMMA DupKeepsTop ==
  ASSUME TypeOK, Dup
  PROVE  WordIn(Write(SP, Top, WORD_SIZE), SP - WORD_SIZE) = Top
<1> DEFINE mem == Write(SP, Top, WORD_SIZE)
           low == SP - WORD_SIZE
<1>1. /\ Executes({"DUP"}) /\ PopState = "NORMAL"
  BY DEF Dup
<1>2. low \in Nat /\ ValidRange(low, WORD_SIZE) /\ SP \in Nat
  <2>1. SP \in Nat /\ BP \in Nat
    BY <1>1, OperandTypes, Bases DEF Word
  <2>2. ~MisplacedSP /\ ~(SP - BP < WORD_SIZE) /\ ValidRange(low, WORD_SIZE)
    BY <1>1 DEF PopState
  <2>3. QED
    BY <2>1, <2>2 DEF WORD_SIZE
<1>3. \A i \in 0..(WORD_SIZE - 1) : mem[low + i] = memory[low + i]
  <2>1. TAKE i \in 0..(WORD_SIZE - 1)
  <2>2. low + i \in Address
    BY <1>2, RangeIsThere DEF WORD_SIZE
  <2>3. low + i \notin SP..(SP + WORD_SIZE - 1)
    BY <1>2 DEF WORD_SIZE
  <2>4. QED
    BY <2>2, <2>3, OutsideOfWrite
<1> HIDE DEF mem
<1>4. low + 0 = low /\ (low + 2) + 1 = low + 3
  BY <1>2
<1>5. /\ mem[low] = memory[low] /\ mem[low + 1] = memory[low + 1]
      /\ mem[low + 2] = memory[low + 2] /\ mem[low + 3] = memory[low + 3]
  <2>1. /\ 0 \in 0..(WORD_SIZE - 1) /\ 1 \in 0..(WORD_SIZE - 1)
        /\ 2 \in 0..(WORD_SIZE - 1) /\ 3 \in 0..(WORD_SIZE - 1)
    BY DEF WORD_SIZE
  <2>2. mem[low + 0] = memory[low + 0]
    BY <1>3, <2>1
  <2>3. QED
    BY <1>3, <1>4, <2>1, <2>2
<1> HIDE DEF low
<1>6. WordIn(mem, low) = WordIn(memory, low)
  BY <1>4, <1>5 DEF WordIn, HwordIn
<1>7. QED
  BY <1>6 DEF mem, low, Top, ReadWord

LEMMA ReadBackStep ==
  ASSUME TypeOK, Step, Passes, ST' \notin Errors
  PROVE  /\ Ins.op = "STOREW" => WordIn(memory', EffectiveAddress) = Reg1
         /\ Ins.op = "STOREH" =>
              HwordIn(memory', EffectiveAddress) = Reg1 % HwordBase
         /\ Ins.op = "PUSHR"  => WordIn(memory', SP) = Reg1
         /\ Ins.op = "DUP"    => WordIn(memory', SP) =
                                 WordIn(memory', SP - WORD_SIZE)
<1>1. ASSUME Store
      PROVE  /\ Ins.op = "STOREW" => WordIn(memory', EffectiveAddress) = Reg1
             /\ Ins.op = "STOREH" =>
                  HwordIn(memory', EffectiveAddress) = Reg1 % HwordBase
  <2>1. memory' = Write(EffectiveAddress, Reg1, AccessSize[Ins.op])
    BY <1>1 DEF Store
  <2>2. Reg1 \in Word
    BY <1>1, OperandTypes DEF Store
  <2>3. /\ EffectiveAddress \in Nat /\ AccessSize[Ins.op] \in 1..4
        /\ ValidRange(EffectiveAddress, AccessSize[Ins.op])
    BY <1>1, StoreInside
  <2>4. /\ Ins.op = "STOREW" => AccessSize[Ins.op] = 4
        /\ Ins.op = "STOREH" => AccessSize[Ins.op] = 2
    BY DEF AccessSize, WORD_SIZE
  <2>5. QED
    BY <2>1, <2>2, <2>3, <2>4, WriteReads
<1>2. ASSUME NEW ops, Executes(ops), PushState = "NORMAL", NEW value \in Word
      PROVE  WordIn(Write(SP, value, WORD_SIZE), SP) = value
  <2>1. SP \in Nat /\ ValidRange(SP, WORD_SIZE)
    BY <1>2, PushInside
  <2>2. QED
    BY <1>2, <2>1, WriteReads DEF WORD_SIZE
<1>3. ASSUME Push, Ins.op = "PUSHR"
      PROVE  WordIn(memory', SP) = Reg1
  <2>1. /\ Executes({"PUSHR", "PUSHI"}) /\ PushState = "NORMAL"
        /\ memory' = Write(SP, Reg1, WORD_SIZE)
    BY <1>3 DEF Push, PushWord
  <2>2. Reg1 \in Word
    BY <2>1, OperandTypes
  <2>3. QED
    BY <1>2, <2>1, <2>2
<1>4. ASSUME Dup
      PROVE  WordIn(memory', SP) = WordIn(memory', SP - WORD_SIZE)
  <2>1. /\ Executes({"DUP"}) /\ PopState = "NORMAL" /\ PushState = "NORMAL"
        /\ memory' = Write(SP, Top, WORD_SIZE)
    BY <1>4 DEF Dup, PushWord
  <2>2. Top \in Word
    BY <2>1, TopType
  <2>3. WordIn(memory', SP) = Top
    BY <1>2, <2>1, <2>2
  <2>4. WordIn(memory', SP - WORD_SIZE) = Top
    BY <1>4, <2>1, DupKeepsTop
  <2>5. QED
    BY <2>3, <2>4
<1>5. QED
  BY <1>1, <1>3, <1>4, WritersWrite

(* For every program: what is stored or pushed is read back whole, at any  *)
(* alignment.  Code: vm_write_scalar, vm_read_scalar and vm_push_word.     *)
THEOREM StoredIsReadBackAlways == Spec => StoredIsReadBack
<1> DEFINE Back ==
             phase = "run" /\ Passes /\ ~HasError' =>
               LET ea == EffectiveAddress
                   sp == SP
               IN  /\ Ins.op = "STOREW" => WordIn(memory', ea) = Reg1
                   /\ Ins.op = "STOREH" =>
                        HwordIn(memory', ea) = Reg1 % HwordBase
                   /\ Ins.op = "PUSHR"  => WordIn(memory', sp) = Reg1
                   /\ Ins.op = "DUP"    => WordIn(memory', sp) =
                                           WordIn(memory', sp - WORD_SIZE)
<1>1. IInv /\ [Next]_vars => [Back]_vars
  <2> SUFFICES ASSUME IInv, Next, phase = "run", Passes, ~HasError'
               PROVE  Back
    OBVIOUS
  <2>1. ST' \notin Errors
    BY DEF HasError, Errors
  <2>2. ~Host
    BY DEF Host, StartRun, FinishRun, Destroy, LoadDump, RefuseDump,
           BeginLoadImage, CheckSection, BeginCopy, CopySection,
           FinishLoadImage, Passes, Fetches, Loop
  <2>3. Step
    BY <2>2 DEF Next
  <2>4. QED
    BY <2>1, <2>3, ReadBackStep DEF IInv
<1>2. QED
  BY <1>1, Invariance, PTL DEF Spec, StoredIsReadBack

(* Nothing but what is to be written is, and it is read back whole.        *)
THEOREM StoresAreExactAlways == Spec => StoresAreExact
BY WritesConfinedAlways, StoredIsReadBackAlways DEF StoresAreExact
-----------------------------------------------------------------------------
(* The stack as a bounded last-in first-out list.  A program that leaves   *)
(* the stack to the machine writes SP and BP by no other instruction than  *)
(* push, pop and dup, and stores outside the bytes that are on the stack.  *)
RegisterWriters ==
  {"MOVR", "MOVI", "POPR", "LOADB", "LOADH", "LOADW"}
    \cup (DOMAIN AluOperation \ Comparisons)

Disciplined ==
  /\ Executes(RegisterWriters) => Ins.r1 \notin {R_SP, R_BP}
  /\ Executes({"STOREB", "STOREH", "STOREW"}) =>
       \A a \in EffectiveAddress..(EffectiveAddress + AccessSize[Ins.op] - 1) :
         a \notin BP..(SP - 1)

(* The stack window lies in the RAM and its addresses are words.           *)
StackFits == StackSize <= RamSize /\ RomSize + StackSize \in Word

Capacity == StackSize \div WORD_SIZE

(* SP is a whole number of words above BP, at most as many as fit.  Before *)
(* the first run both are zero.                                            *)
StackInv ==
  /\ phase = "run" => registers[R_BP] = RomSize
  /\ registers[R_BP] = RomSize \/ (registers[R_BP] = 0 /\ registers[R_SP] = 0)
  /\ \E n \in 0..Capacity : registers[R_SP] = registers[R_BP] + WORD_SIZE * n

(* The first n words of the stack window in a memory.                      *)
WordsIn(mem, n) == [i \in 1..n |-> WordIn(mem, RomSize + WORD_SIZE * (i - 1))]

AgreeBelow(mem1, mem2, n) ==
  \A a \in RomSize..(RomSize + WORD_SIZE * n - 1) : mem1[a] = mem2[a]

(* Whole words of a window, in numbers.                                    *)
LEMMA WholeWords ==
  /\ Capacity \in Nat /\ WORD_SIZE * Capacity <= StackSize
  /\ \A n \in Nat : WORD_SIZE * n <= StackSize => n <= Capacity
  /\ \A n \in Nat : (WORD_SIZE * n) \div WORD_SIZE = n
  /\ \A n \in Nat : (WORD_SIZE * n) % WORD_SIZE = 0
BY Sizes DEF Capacity, WORD_SIZE

(* A word lies in the bytes below which two memories agree.                *)
LEMMA WordsAgree ==
  ASSUME NEW mem1, NEW mem2, NEW n \in Nat, AgreeBelow(mem1, mem2, n)
  PROVE  WordsIn(mem1, n) = WordsIn(mem2, n)
<1>1. ASSUME NEW i \in 1..n
      PROVE  WordIn(mem1, RomSize + WORD_SIZE * (i - 1))
               = WordIn(mem2, RomSize + WORD_SIZE * (i - 1))
  <2> DEFINE low == RomSize + WORD_SIZE * (i - 1)
  <2>1. /\ low \in RomSize..(RomSize + WORD_SIZE * n - 1)
        /\ low + 1 \in RomSize..(RomSize + WORD_SIZE * n - 1)
        /\ low + 2 \in RomSize..(RomSize + WORD_SIZE * n - 1)
        /\ low + 2 + 1 \in RomSize..(RomSize + WORD_SIZE * n - 1)
    BY Sizes DEF WORD_SIZE
  <2> HIDE DEF low
  <2>2. /\ mem1[low] = mem2[low] /\ mem1[low + 1] = mem2[low + 1]
        /\ mem1[low + 2] = mem2[low + 2] /\ mem1[low + 2 + 1] = mem2[low + 2 + 1]
    BY <2>1 DEF AgreeBelow
  <2>3. WordIn(mem1, low) = WordIn(mem2, low)
    BY <2>2 DEF WordIn, HwordIn
  <2>4. QED
    BY <2>3 DEF low
<1>2. QED
  BY <1>1 DEF WordsIn

LEMMA WordsLength ==
  ASSUME NEW mem, NEW n \in Nat
  PROVE  /\ WordsIn(mem, n) \in Seq({WordsIn(mem, n)[i] : i \in 1..n})
         /\ Len(WordsIn(mem, n)) = n
         /\ DOMAIN WordsIn(mem, n) = 1..n
         /\ WordsIn(mem, 0) = << >>
<1>1. DOMAIN WordsIn(mem, n) = 1..n
  BY DEF WordsIn
<1>2. WordsIn(mem, n) \in [1..n -> {WordsIn(mem, n)[i] : i \in 1..n}]
  BY DEF WordsIn
<1> DEFINE S == {WordsIn(mem, n)[i] : i \in 1..n}
<1> HIDE DEF S
<1>3. WordsIn(mem, n) \in Seq(S)
  BY <1>2 DEF S
<1>4. Len(WordsIn(mem, n)) = n
  BY <1>1, <1>3
<1>5. WordsIn(mem, 0) = << >>
  BY DEF WordsIn
<1>6. QED
  BY <1>1, <1>3, <1>4, <1>5 DEF S

(* One more word on top is an element appended, one less the front.        *)
LEMMA WordsAppend ==
  ASSUME NEW mem, NEW n \in Nat
  PROVE  WordsIn(mem, n + 1) =
           Append(WordsIn(mem, n), WordIn(mem, RomSize + WORD_SIZE * n))
<1> DEFINE s == WordsIn(mem, n)
           t == WordsIn(mem, n + 1)
           v == WordIn(mem, RomSize + WORD_SIZE * n)
<1>1. t = [i \in 1..(n + 1) |-> IF i <= n THEN s[i] ELSE v]
  <2>1. ASSUME NEW i \in 1..(n + 1)
        PROVE  t[i] = IF i <= n THEN s[i] ELSE v
    <3>1. t[i] = WordIn(mem, RomSize + WORD_SIZE * (i - 1))
      BY DEF WordsIn
    <3>2. CASE i <= n
      <4>1. i \in 1..n
        BY <3>2
      <4>2. s[i] = WordIn(mem, RomSize + WORD_SIZE * (i - 1))
        BY <4>1 DEF WordsIn
      <4> HIDE DEF s, t, v
      <4>3. QED
        BY <3>1, <3>2, <4>2
    <3>3. CASE i = n + 1
      <4>1. i - 1 = n /\ ~(i <= n)
        BY <3>3
      <4>2. t[i] = v
        BY <3>1, <4>1
      <4> HIDE DEF s, t, v
      <4>3. QED
        BY <4>1, <4>2
    <3>4. QED
      BY <3>2, <3>3
  <2>2. t = [i \in 1..(n + 1) |-> t[i]]
    BY DEF WordsIn
  <2> HIDE DEF s, t, v
  <2>3. QED
    BY <2>1, <2>2
<1> DEFINE S == {s[i] : i \in 1..n} \cup {v}
<1>2. Len(s) = n /\ s \in Seq({s[i] : i \in 1..n})
  BY WordsLength
<1> HIDE DEF s, t, v
<1>3. /\ Append(s, v) \in Seq(S)
      /\ Len(Append(s, v)) = n + 1
      /\ \A i \in 1..n : Append(s, v)[i] = s[i]
      /\ Append(s, v)[n + 1] = v
  <2>1. s \in Seq(S) /\ v \in S
    BY <1>2
  <2> HIDE DEF S
  <2>2. QED
    BY <1>2, <2>1, AppendProperties
<1>4. Append(s, v) = [i \in 1..(n + 1) |-> IF i <= n THEN s[i] ELSE v]
  <2> DEFINE q == Append(s, v)
  <2> HIDE DEF S
  <2>1. q = [i \in 1..(n + 1) |-> q[i]]
    <3>1. q \in Seq(S) /\ Len(q) = n + 1
      BY <1>3
    <3> HIDE DEF q
    <3>2. q \in [1..(n + 1) -> S]
      BY <3>1
    <3>3. QED
      BY <3>2
  <2>2. ASSUME NEW i \in 1..(n + 1)
        PROVE  q[i] = IF i <= n THEN s[i] ELSE v
    BY <1>3
  <2> HIDE DEF q
  <2>3. QED
    BY <2>1, <2>2 DEF q
<1>5. QED
  BY <1>1, <1>4 DEF s, t, v

(* One less is the front.                                                  *)
LEMMA WordsFront ==
  ASSUME NEW mem, NEW n \in Nat
  PROVE  WordsIn(mem, n) =
           SubSeq(WordsIn(mem, n + 1), 1, Len(WordsIn(mem, n + 1)) - 1)
<1> DEFINE t == WordsIn(mem, n + 1)
           S == {t[i] : i \in 1..(n + 1)}
<1>1. Len(t) = n + 1 /\ t \in Seq(S)
  BY WordsLength
<1>2. \A i \in 1..n : t[i] = WordsIn(mem, n)[i]
  BY DEF WordsIn
<1> DEFINE q == SubSeq(t, 1, n)
<1> HIDE DEF t, S
<1>3. q = [i \in 1..n |-> t[i]]
  BY <1>1 DEF q
<1> HIDE DEF q
<1>4. WordsIn(mem, n) = [i \in 1..n |-> WordsIn(mem, n)[i]]
  BY DEF WordsIn
<1> DEFINE u == WordsIn(mem, n)
<1> HIDE DEF u
<1>5. u = q
  BY <1>2, <1>3, <1>4 DEF u
<1>6. (n + 1) - 1 = n
  OBVIOUS
<1>7. QED
  BY <1>1, <1>5, <1>6 DEF q, t, u

(* How many words are on the stack, and which, from the registers.         *)
ContentsOf(regs, mem) ==
  [i \in 1..((regs[R_SP] - regs[R_BP]) \div WORD_SIZE) |->
     WordIn(mem, regs[R_BP] + WORD_SIZE * (i - 1))]

LEMMA ContentsAre ==
  ASSUME NEW regs, NEW mem, NEW n \in Nat, regs[R_BP] \in Int,
         regs[R_SP] = regs[R_BP] + WORD_SIZE * n,
         regs[R_BP] = RomSize \/ n = 0
  PROVE  ContentsOf(regs, mem) = WordsIn(mem, n)
<1>1. regs[R_SP] - regs[R_BP] = WORD_SIZE * n
  BY DEF WORD_SIZE
<1>2. (regs[R_SP] - regs[R_BP]) \div WORD_SIZE = n
  BY <1>1, WholeWords
<1>3. CASE n = 0
  BY <1>2, <1>3 DEF ContentsOf, WordsIn
<1>4. CASE regs[R_BP] = RomSize
  BY <1>2, <1>4 DEF ContentsOf, WordsIn
<1>5. QED
  BY <1>3, <1>4

LEMMA ContentsNow == StackContents = ContentsOf(registers, memory)
BY DEF StackContents, WordsOnStack, ContentsOf

(* SP and BP before an instruction are those of the machine.               *)
LEMMA StackPointers ==
  ASSUME TypeOK, StackInv, phase = "run"
  PROVE  /\ SP = registers[R_SP] /\ BP = RomSize /\ registers[R_BP] = RomSize
         /\ \E n \in 0..Capacity : SP = RomSize + WORD_SIZE * n
BY FetchedType, RegisterNumbers DEF SP, BP, StackInv

(* Every instruction but a push, pop or dup that works keeps SP and BP and *)
(* the bytes between them, if the program is disciplined.                  *)
LEMMA OtherStepsKeep ==
  ASSUME TypeOK, Disciplined, Step, ~Push, ~Pop, ~Dup
  PROVE  /\ registers'[R_SP] = registers[R_SP]
         /\ registers'[R_BP] = registers[R_BP]
         /\ \A a \in Address : a \in BP..(SP - 1) => memory'[a] = memory[a]
<1> DEFINE Keeps(regs) == /\ regs[R_SP] = registers[R_SP]
                          /\ regs[R_BP] = registers[R_BP]
<1>1. Keeps(Fetched) /\ Fetched \in [Register -> Word]
  BY FetchedType, RegisterNumbers
<1>2. ASSUME NEW r \in Register \ {R_SP, R_BP}, NEW v
      PROVE  Keeps([Fetched EXCEPT ![r] = v])
  BY <1>1, RegisterNumbers
<1>3. ASSUME NEW regs, DOMAIN regs = Register, Keeps(regs), Retire(regs)
      PROVE  Keeps(registers')
  BY <1>3, RegisterNumbers DEF Retire
<1>4. ASSUME NEW r \in Register \ {R_SP, R_BP}, NEW v,
             Retire([Fetched EXCEPT ![r] = v])
      PROVE  Keeps(registers')
  BY <1>1, <1>2, <1>3, <1>4
<1>5. ASSUME Retire(Fetched)
      PROVE  Keeps(registers')
  BY <1>1, <1>3, <1>5
<1>6. ASSUME NEW ops, ops \subseteq RegisterWriters, Executes(ops)
      PROVE  Ins.r1 \in Register \ {R_SP, R_BP}
  BY <1>6 DEF Executes, Disciplined
<1> HIDE DEF Keeps
<1>7. Keeps(registers')
  <2>1. CASE UNCHANGED registers
    BY <2>1 DEF Keeps
  <2>2. CASE registers' = Fetched
    BY <1>1, <2>2
  <2>3. CASE Nop \/ Compare \/ Store \/ WriteCharacter \/ Halt
               \/ UnknownInterrupt
    BY <1>5, <2>3 DEF Nop, Compare, Store, WriteCharacter, Halt,
                      UnknownInterrupt
  <2>4. CASE Move
    BY <1>4, <1>6, <2>4 DEF Move, RegisterWriters
  <2>5. CASE Arithmetic
    BY <1>4, <1>6, <2>5 DEF Arithmetic, RegisterWriters
  <2>6. CASE Load
    BY <1>4, <1>6, <2>6 DEF Load, RegisterWriters
  <2>7. CASE ReadCharacter
    BY <1>4, <2>7, RegisterNumbers DEF ReadCharacter, R_V0, R_SP, R_BP
  <2>8. CASE Jump
    <3>1. CASE Ins.op = "JMP"
      <4>1. Retire([Fetched EXCEPT ![R_PC] = Imm])
        BY <2>8, <3>1, Zenon DEF Jump
      <4>2. QED
        BY <1>4, <4>1, RegisterNumbers
    <3>2. CASE Ins.op = "JMPAL"
      <4> DEFINE linked == [Fetched EXCEPT ![R_LP] = Fetched[R_PC]]
                 jumped == [linked EXCEPT ![R_PC] = Imm]
      <4>1. Retire(jumped)
        BY <2>8, <3>2, Zenon DEF Jump
      <4>2. jumped \in [Register -> {jumped[r] : r \in Register}]
              /\ Keeps(jumped)
        BY <1>1, RegisterNumbers DEF Keeps, R_LP, R_SP, R_BP, R_PC
      <4>3. DOMAIN jumped = Register /\ Keeps(jumped)
        BY <4>2
      <4> HIDE DEF jumped
      <4>4. QED
        BY <1>3, <4>1, <4>3
    <3>3. CASE Ins.op = "RET"
      <4>1. Retire([Fetched EXCEPT ![R_PC] = Fetched[R_LP]])
        BY <2>8, <3>3, Zenon DEF Jump
      <4>2. QED
        BY <1>4, <4>1, RegisterNumbers
    <3>4. QED
      BY <2>8, <3>1, <3>2, <3>3 DEF Jump, Executes
  <2>9. CASE FetchFault
    BY <2>1, <2>9 DEF FetchFault
  <2>10. CASE InvalidCondition \/ Skip \/ InvalidInstruction \/ DivisionFault
                \/ PopFault \/ PushFault \/ AccessFault
    BY <2>2, <2>10 DEF InvalidCondition, Skip, InvalidInstruction,
                       DivisionFault, PopFault, PushFault, AccessFault, Fault
  <2>11. QED
    BY <2>3, <2>4, <2>5, <2>6, <2>7, <2>8, <2>9, <2>10 DEF Step
<1>8. ASSUME NEW a \in Address, a \in BP..(SP - 1)
      PROVE  memory'[a] = memory[a]
  <2>1. CASE Store
    <3>1. a \notin EffectiveAddress..
                     (EffectiveAddress + AccessSize[Ins.op] - 1)
      BY <1>8, <2>1 DEF Store, Disciplined
    <3>2. memory' = Write(EffectiveAddress, Reg1, AccessSize[Ins.op])
      BY <2>1 DEF Store
    <3>3. QED
      BY <3>1, <3>2, OutsideOfWrite
  <2>2. QED
    BY <2>1, WritingSteps
<1>9. QED
  BY <1>7, <1>8 DEF Keeps

(* When vm_push_word and vm_pop_word refuse.                               *)
LEMMA PushStateIs ==
  ASSUME StackFits, TypeOK, StackInv, phase = "run", memorySize = RamSize,
         NEW n \in 0..Capacity, SP = RomSize + WORD_SIZE * n
  PROVE  PushState = IF n < Capacity THEN "NORMAL" ELSE "STACK_OVERFLOW"
<1>1. BP = RomSize /\ SP - BP = WORD_SIZE * n /\ SP >= BP
  BY StackPointers, Sizes, WholeWords DEF WORD_SIZE
<1>2. ~MisplacedSP
  BY <1>1, Sizes, WholeWords DEF MisplacedSP, WORD_SIZE
<1>3. CASE n < Capacity
  <2>1. WORD_SIZE * n <= StackSize - WORD_SIZE
    BY <1>3, WholeWords, Sizes DEF WORD_SIZE
  <2>2. ValidRange(SP, WORD_SIZE)
    BY <2>1, Sizes DEF ValidRange, MemoryEnd, StackFits, WORD_SIZE
  <2>3. ~(SP - BP > StackSize - WORD_SIZE)
    BY <1>1, <2>1, Sizes DEF WORD_SIZE
  <2>4. QED
    BY <1>2, <1>3, <2>2, <2>3 DEF PushState
<1>4. CASE n = Capacity
  <2>1. ~(WORD_SIZE * (n + 1) <= StackSize)
    BY <1>4, WholeWords
  <2>2. SP - BP > StackSize - WORD_SIZE
    BY <1>1, <2>1, Sizes DEF WORD_SIZE
  <2>3. ~(n < Capacity)
    BY <1>4, WholeWords
  <2>4. QED
    BY <2>2, <2>3 DEF PushState
<1>5. QED
  BY <1>3, <1>4, WholeWords

LEMMA PopStateIs ==
  ASSUME StackFits, TypeOK, StackInv, phase = "run", memorySize = RamSize,
         NEW n \in 0..Capacity, SP = RomSize + WORD_SIZE * n
  PROVE  PopState = IF n > 0 THEN "NORMAL" ELSE "STACK_UNDERFLOW"
<1>1. BP = RomSize /\ SP - BP = WORD_SIZE * n /\ SP >= BP
  BY StackPointers, Sizes, WholeWords DEF WORD_SIZE
<1>2. ~MisplacedSP
  BY <1>1, Sizes, WholeWords DEF MisplacedSP, WORD_SIZE
<1>3. WORD_SIZE * n <= StackSize
  BY WholeWords, Sizes DEF WORD_SIZE
<1>4. CASE n > 0
  <2>1. ~(SP - BP < WORD_SIZE) /\ ~(SP - BP > StackSize)
    BY <1>1, <1>3, <1>4, Sizes DEF WORD_SIZE
  <2>2. ValidRange(SP - WORD_SIZE, WORD_SIZE)
    BY <1>3, <1>4, Sizes DEF ValidRange, MemoryEnd, StackFits, WORD_SIZE
  <2>3. QED
    BY <1>2, <1>4, <2>1, <2>2 DEF PopState
<1>5. CASE n = 0
  <2>1. SP - BP < WORD_SIZE
    BY <1>1, <1>5 DEF WORD_SIZE
  <2>2. QED
    BY <1>5, <2>1 DEF PopState
<1>6. QED
  BY <1>4, <1>5

(* Without RAM both refuse.                                                *)
LEMMA NoRam ==
  ASSUME TypeOK, StackInv, phase = "run", memorySize = 0
  PROVE  PushState # "NORMAL" /\ PopState # "NORMAL"
<1>1. PICK n \in 0..Capacity : SP = RomSize + WORD_SIZE * n
  BY StackPointers
<1>2. BP = RomSize
  BY StackPointers
<1>3. ~ValidRange(SP, WORD_SIZE)
  BY <1>1, Sizes, WholeWords DEF ValidRange, MemoryEnd, WORD_SIZE
<1>4. PopState # "NORMAL"
  <2>1. CASE n = 0
    BY <1>1, <1>2, <2>1, Sizes DEF PopState, WORD_SIZE
  <2>2. CASE n > 0
    <3>1. ~ValidRange(SP - WORD_SIZE, WORD_SIZE)
      BY <1>1, <2>2, Sizes, WholeWords DEF ValidRange, MemoryEnd, WORD_SIZE
    <3>2. QED
      BY <3>1 DEF PopState
  <2>3. QED
    BY <2>1, <2>2, WholeWords
<1>5. QED
  BY <1>3, <1>4 DEF PushState

(* A word pushed is the last of one more.                                  *)
LEMMA PushEffect ==
  ASSUME StackFits, TypeOK, StackInv, NEW ops, Executes(ops),
         NEW n \in 0..Capacity, SP = RomSize + WORD_SIZE * n, n < Capacity,
         PushState = "NORMAL", NEW value \in Word, PushWord(value)
  PROVE  /\ registers'[R_SP] = RomSize + WORD_SIZE * (n + 1)
         /\ registers'[R_BP] = RomSize
         /\ WordsIn(memory', n + 1) = Append(WordsIn(memory, n), value)
<1>1. phase = "run"
  BY DEF Executes, Passes, Fetches, Loop
<1>2. BP = RomSize /\ SP \in Nat /\ ValidRange(SP, WORD_SIZE) /\ n \in Nat
  BY <1>1, StackPointers, PushInside, WholeWords
<1>3. SP + WORD_SIZE = RomSize + WORD_SIZE * (n + 1)
  BY <1>2, Sizes DEF WORD_SIZE
<1>4. SP + WORD_SIZE \in Word
  <2>1. WORD_SIZE * (n + 1) <= StackSize
    BY <1>2, WholeWords, Sizes DEF WORD_SIZE
  <2>2. SP + WORD_SIZE >= 0 /\ SP + WORD_SIZE <= RomSize + StackSize
    BY <1>2, <1>3, <2>1, Sizes DEF WORD_SIZE
  <2>3. QED
    BY <1>2, <2>2, Bases DEF StackFits, Word, WORD_SIZE
<1>5. ToWord(SP + WORD_SIZE) = SP + WORD_SIZE
  BY <1>4, Bases DEF ToWord, Word
<1>6. /\ registers'[R_SP] = SP + WORD_SIZE
      /\ registers'[R_BP] = BP
  BY <1>5, FetchedType, RegisterNumbers DEF PushWord, Retire, BP
<1>7. memory' = Write(SP, value, 4) /\ ValidRange(SP, 4)
  BY <1>2 DEF PushWord, WORD_SIZE
<1>8. WordIn(memory', SP) = value
  BY <1>2, <1>7, WriteReads
<1>9. AgreeBelow(memory', memory, n)
  <2>1. SUFFICES ASSUME NEW a \in RomSize..(RomSize + WORD_SIZE * n - 1)
                 PROVE  memory'[a] = memory[a]
    BY DEF AgreeBelow
  <2>2. a \in Address
    <3>1. memorySize \in Nat /\ memorySize <= RamSize
      BY Sizes DEF TypeOK
    <3>2. QED
      BY <1>2, <3>1, Sizes DEF Address, ValidRange, MemoryEnd, WORD_SIZE
  <2>3. a \notin SP..(SP + 4 - 1)
    BY Sizes, <1>2 DEF WORD_SIZE
  <2>4. QED
    BY <1>7, <2>2, <2>3, OutsideOfWrite
<1>10. WordsIn(memory', n) = WordsIn(memory, n)
  BY <1>2, <1>9, WordsAgree
<1>11. QED
  BY <1>2, <1>3, <1>6, <1>8, <1>10, WordsAppend

(* A word popped leaves the others.                                        *)
LEMMA PopEffect ==
  ASSUME StackFits, TypeOK, StackInv, Disciplined, Pop,
         NEW n \in 0..Capacity, SP = RomSize + WORD_SIZE * n, n > 0
  PROVE  /\ registers'[R_SP] = RomSize + WORD_SIZE * (n - 1)
         /\ registers'[R_BP] = RomSize
         /\ memory' = memory
<1>1. phase = "run" /\ Executes({"POP", "POPR"})
  BY DEF Pop, Executes, Passes, Fetches, Loop
<1>2. BP = RomSize /\ Fetched[R_BP] = RomSize
  BY <1>1, StackPointers DEF BP
<1>3. SP - WORD_SIZE = RomSize + WORD_SIZE * (n - 1)
  BY Sizes DEF WORD_SIZE
<1> DEFINE popped == [Fetched EXCEPT ![R_SP] = SP - WORD_SIZE]
<1>4. popped \in [Register -> {popped[r] : r \in Register}]
        /\ popped[R_SP] = SP - WORD_SIZE /\ popped[R_BP] = RomSize
  BY <1>2, FetchedType, RegisterNumbers
<1>5. Retire(IF Ins.op = "POP" THEN popped
                               ELSE [popped EXCEPT ![Ins.r1] = Top])
  BY DEF Pop
<1>6. Ins.op = "POP" \/ Ins.r1 \in Register \ {R_SP, R_BP}
  BY <1>1 DEF Executes, Disciplined, RegisterWriters
<1> HIDE DEF popped
<1>7. CASE Ins.op = "POP"
  <2>1. Retire(popped)
    BY <1>5, <1>7, Zenon
  <2>2. registers' = [popped EXCEPT ![R_ZERO] = 0]
    BY <2>1 DEF Retire
  <2>3. registers'[R_SP] = popped[R_SP] /\ registers'[R_BP] = popped[R_BP]
    BY <1>4, <2>2, RegisterNumbers
  <2>4. QED
    BY <1>3, <1>4, <2>3 DEF Pop
<1>8. CASE Ins.op # "POP"
  <2>1. Retire([popped EXCEPT ![Ins.r1] = Top])
    BY <1>5, <1>8, Zenon
  <2>2. registers' = [[popped EXCEPT ![Ins.r1] = Top] EXCEPT ![R_ZERO] = 0]
    BY <2>1 DEF Retire
  <2>3. registers'[R_SP] = popped[R_SP] /\ registers'[R_BP] = popped[R_BP]
    BY <1>4, <1>6, <1>8, <2>2, RegisterNumbers
  <2>4. QED
    BY <1>3, <1>4, <2>3 DEF Pop
<1>9. QED
  BY <1>7, <1>8

(* Which steps execute the stack instructions.                             *)
LEMMA StackSteps ==
  ASSUME Step
  PROVE  /\ Executes({"PUSHR", "PUSHI"}) =>
              Push \/ (PushState # "NORMAL" /\ PushFault)
         /\ Executes({"POP", "POPR"}) =>
              Pop \/ (PopState # "NORMAL" /\ PopFault)
         /\ Executes({"DUP"}) =>
              \/ Dup
              \/ PopState # "NORMAL" /\ PopFault
              \/ PushState # "NORMAL" /\ PushFault
<1>1. ASSUME Executes({"PUSHR", "PUSHI", "POP", "POPR", "DUP"})
      PROVE  Push \/ Pop \/ Dup \/ PopFault \/ PushFault
  <2>1. Passes /\ Ins.r1 \in Register /\ Ins.r2 \in Register
          /\ Ins.op \in {"PUSHR", "PUSHI", "POP", "POPR", "DUP"}
    BY <1>1 DEF Executes
  <2>2. ~(FetchFault \/ InvalidCondition \/ Skip \/ InvalidInstruction)
    BY <2>1 DEF FetchFault, InvalidCondition, Skip, InvalidInstruction,
                Passes, Fetches, Holds
  <2>3. ~(Nop \/ Move \/ Load \/ Store \/ AccessFault \/ Jump \/ Compare)
    BY <2>1 DEF Nop, Move, Load, Store, AccessFault, Jump, Compare, Executes,
                Comparisons, AccessSize
  <2>4. ~(Arithmetic \/ DivisionFault)
    BY <2>1 DEF Arithmetic, DivisionFault, Executes, AluOperation
  <2>5. ~(WriteCharacter \/ ReadCharacter \/ Halt \/ UnknownInterrupt)
    BY <2>1 DEF WriteCharacter, ReadCharacter, Halt, UnknownInterrupt,
                Interrupt, Executes
  <2>6. QED
    BY <2>2, <2>3, <2>4, <2>5 DEF Step
<1>2. /\ Push => Ins.op \in {"PUSHR", "PUSHI"}
      /\ Pop => Ins.op \in {"POP", "POPR"}
      /\ Dup => Ins.op = "DUP"
      /\ PopFault => Ins.op \in {"POP", "POPR", "DUP"} /\ PopState # "NORMAL"
      /\ PushFault => Ins.op \in {"PUSHR", "PUSHI", "DUP"}
                        /\ PushState # "NORMAL"
  BY DEF Push, Pop, Dup, PopFault, PushFault, Executes
<1>3. QED
  BY <1>1, <1>2 DEF Executes

(* What the program is about to do to the stack.                           *)
LEMMA Requests ==
  /\ memorySize = 0 => StackRequest = [op |-> "none"]
  /\ ~Executes({"PUSHR", "PUSHI", "POP", "POPR", "DUP"}) =>
       StackRequest = [op |-> "none"]
  /\ memorySize # 0 =>
       /\ Executes({"PUSHR"}) => StackRequest = [op |-> "push", value |-> Reg1]
       /\ Executes({"PUSHI"}) => StackRequest = [op |-> "push", value |-> Imm]
       /\ Executes({"POP", "POPR"}) => StackRequest = [op |-> "pop"]
       /\ Executes({"DUP"}) => StackRequest = [op |-> "dup"]
<1>1. /\ ~(Executes({"PUSHR"}) /\ Executes({"PUSHI"}))
      /\ ~(Executes({"PUSHR"}) /\ Executes({"POP", "POPR"}))
      /\ ~(Executes({"PUSHR"}) /\ Executes({"DUP"}))
      /\ ~(Executes({"PUSHI"}) /\ Executes({"POP", "POPR"}))
      /\ ~(Executes({"PUSHI"}) /\ Executes({"DUP"}))
      /\ ~(Executes({"POP", "POPR"}) /\ Executes({"DUP"}))
  BY DEF Executes
<1>2. /\ Executes({"PUSHR"}) => Executes({"PUSHR", "PUSHI", "POP", "POPR", "DUP"})
      /\ Executes({"PUSHI"}) => Executes({"PUSHR", "PUSHI", "POP", "POPR", "DUP"})
      /\ Executes({"POP", "POPR"}) =>
           Executes({"PUSHR", "PUSHI", "POP", "POPR", "DUP"})
      /\ Executes({"DUP"}) => Executes({"PUSHR", "PUSHI", "POP", "POPR", "DUP"})
  BY DEF Executes
<1>3. memorySize = 0 => StackRequest = [op |-> "none"]
  BY DEF StackRequest
<1>4. QED
  BY <1>1, <1>2, <1>3 DEF StackRequest

(* A step that leaves m words on the stack.                                *)
LEMMA LeavesWords ==
  ASSUME NEW m \in 0..Capacity,
         registers'[R_BP] = RomSize \/ (registers'[R_BP] = 0 /\ m = 0),
         phase' = "run" => registers'[R_BP] = RomSize,
         registers'[R_SP] = registers'[R_BP] + WORD_SIZE * m
  PROVE  StackInv' /\ StackContents' = WordsIn(memory', m)
<1>1. m \in Nat /\ registers'[R_BP] \in Int
  BY Sizes, WholeWords
<1>2. ContentsOf(registers', memory') = WordsIn(memory', m)
  BY <1>1, ContentsAre
<1>3. StackContents' = WordsIn(memory', m)
  BY <1>2 DEF StackContents, WordsOnStack, ContentsOf
<1>4. m = 0 => WORD_SIZE * m = 0
  BY DEF WORD_SIZE
<1>5. registers'[R_BP] = RomSize
        \/ (registers'[R_BP] = 0 /\ registers'[R_SP] = 0)
  BY <1>4
<1>6. QED
  BY <1>3, <1>5 DEF StackInv

(* What is on the stack now.                                               *)
LEMMA HoldsWords ==
  ASSUME TypeOK, StackInv
  PROVE  \E n \in 0..Capacity :
           /\ registers[R_SP] = registers[R_BP] + WORD_SIZE * n
           /\ registers[R_BP] = RomSize \/ (registers[R_BP] = 0 /\ n = 0)
           /\ StackContents = WordsIn(memory, n)
           /\ Len(StackContents) = n
<1>1. PICK n \in 0..Capacity :
        registers[R_SP] = registers[R_BP] + WORD_SIZE * n
  BY DEF StackInv
<1>2. n \in Nat /\ registers[R_BP] \in Int
  <2>1. n \in Nat
    BY WholeWords
  <2>2. registers[R_BP] \in Word
    BY RegisterNumbers DEF TypeOK
  <2>3. QED
    BY <2>1, <2>2, SmallWords
<1>3. registers[R_BP] = RomSize \/ (registers[R_BP] = 0 /\ n = 0)
  BY <1>1, <1>2 DEF StackInv, WORD_SIZE
<1>4. StackContents = WordsIn(memory, n)
  BY <1>1, <1>2, <1>3, ContentsAre, ContentsNow
<1>5. QED
  BY <1>1, <1>2, <1>3, <1>4, WordsLength

(* Abstract!Push, Pop, Dup and Other, with the helpers expanded.           *)
LEMMA AbstractSteps ==
  /\ /\ StackRequest.op = "push"
     /\ StackContents' = IF Len(StackContents) = Capacity THEN StackContents
                         ELSE Append(StackContents, StackRequest.value)
     => Abstract!Next
  /\ /\ StackRequest.op = "pop"
     /\ StackContents' = IF StackContents = << >> THEN StackContents
                         ELSE SubSeq(StackContents, 1, Len(StackContents) - 1)
     => Abstract!Next
  /\ /\ StackRequest.op = "dup"
     /\ StackContents' =
          IF StackContents = << >> \/ Len(StackContents) = Capacity
            THEN StackContents
            ELSE Append(StackContents, StackContents[Len(StackContents)])
     => Abstract!Next
  /\ /\ StackRequest.op = "none"
     /\ StackContents' = StackContents \/ StackContents' = << >>
     => Abstract!Next
BY DEF Abstract!Next, Abstract!Push, Abstract!Pop, Abstract!Dup,
       Abstract!Other, Abstract!Full, Abstract!Empty, Abstract!Front,
       Abstract!Last, Capacity

(* Every step keeps SP in place and is a step of the bounded stack.        *)
LEMMA StackStep ==
  ASSUME StackFits, IInv, StackInv, Disciplined, Step
  PROVE  StackInv' /\ Abstract!Next
<1>1. TypeOK /\ phase = "run" /\ phase' = phase /\ memorySize' = memorySize
  BY DEF IInv, Step, FetchFault, InvalidCondition, Skip, InvalidInstruction,
         Nop, Move, DivisionFault, Arithmetic, Compare, Pop, Push, Dup,
         PopFault, PushFault, AccessFault, Load, Store, Jump, WriteCharacter,
         ReadCharacter, Halt, UnknownInterrupt, Interrupt, Executes, Passes,
         Fetches, Loop
<1>2. PICK n \in 0..Capacity :
        /\ registers[R_SP] = registers[R_BP] + WORD_SIZE * n
        /\ StackContents = WordsIn(memory, n)
        /\ Len(StackContents) = n
  BY <1>1, HoldsWords
<1>3. /\ BP = RomSize /\ registers[R_BP] = RomSize
      /\ SP = registers[R_SP] /\ SP = RomSize + WORD_SIZE * n /\ n \in Nat
  BY <1>1, <1>2, StackPointers, WholeWords
<1>4. ASSUME NEW m \in 0..Capacity,
             registers'[R_SP] = RomSize + WORD_SIZE * m,
             registers'[R_BP] = RomSize
      PROVE  StackInv' /\ StackContents' = WordsIn(memory', m)
  BY <1>4, LeavesWords
<1>5. ASSUME ~Push, ~Pop, ~Dup
      PROVE  StackInv' /\ StackContents' = StackContents
  <2>1. /\ registers'[R_SP] = RomSize + WORD_SIZE * n
        /\ registers'[R_BP] = RomSize
        /\ \A a \in Address : a \in BP..(SP - 1) => memory'[a] = memory[a]
    BY <1>1, <1>3, <1>5, OtherStepsKeep
  <2>2. AgreeBelow(memory', memory, n)
    <3>1. SUFFICES ASSUME NEW a \in RomSize..(RomSize + WORD_SIZE * n - 1)
                   PROVE  memory'[a] = memory[a]
      BY DEF AgreeBelow
    <3>2. WORD_SIZE * n <= StackSize
      BY WholeWords, Sizes DEF WORD_SIZE
    <3>3. a \in Address
      BY <3>2, Sizes DEF Address, StackFits, WORD_SIZE
    <3>4. a \in BP..(SP - 1)
      <4>1. SP - 1 = RomSize + (WORD_SIZE * n - 1)
        BY <1>3, Sizes DEF WORD_SIZE
      <4>2. QED
        BY <1>3, <4>1
    <3>5. QED
      BY <2>1, <3>3, <3>4
  <2>3. WordsIn(memory', n) = WordsIn(memory, n)
    BY <1>3, <2>2, WordsAgree
  <2>4. QED
    BY <1>2, <1>4, <2>1, <2>3
<1>6. Push \/ Dup => memorySize = RamSize /\ memorySize # 0
  BY <1>1, NoRam DEF Push, Dup, IInv, TypeOK
<1>7. ASSUME memorySize = RamSize
      PROVE  /\ PushState = "NORMAL" <=> n < Capacity
             /\ PopState = "NORMAL" <=> n > 0
  BY <1>1, <1>3, <1>7, PushStateIs, PopStateIs
<1>8. ASSUME NEW ops, Executes(ops), NEW value \in Word, PushWord(value),
             n < Capacity, PushState = "NORMAL"
      PROVE  StackInv' /\ StackContents' = Append(StackContents, value)
  <2>1. /\ registers'[R_SP] = RomSize + WORD_SIZE * (n + 1)
        /\ registers'[R_BP] = RomSize
        /\ WordsIn(memory', n + 1) = Append(WordsIn(memory, n), value)
    BY <1>1, <1>3, <1>8, PushEffect
  <2>2. n + 1 \in 0..Capacity
    BY <1>3, <1>8, WholeWords
  <2>3. QED
    BY <1>2, <1>4, <2>1, <2>2
<1>9. Pop => memorySize = RamSize /\ memorySize # 0
  BY <1>1, NoRam DEF Pop, IInv, TypeOK
<1>10. CASE Executes({"PUSHR", "PUSHI"}) /\ memorySize # 0
  <2>1. /\ StackRequest.op = "push"
        /\ StackRequest.value = IF Ins.op = "PUSHR" THEN Reg1 ELSE Imm
    <3>1. \/ Ins.op = "PUSHR" /\ Executes({"PUSHR"})
          \/ Ins.op = "PUSHI" /\ Executes({"PUSHI"})
      BY <1>10 DEF Executes
    <3>2. QED
      BY <1>10, <3>1, Requests
  <2>2. memorySize = RamSize
    BY <1>1, <1>10 DEF TypeOK
  <2>3. CASE Push
    <3> DEFINE value == IF Ins.op = "PUSHR" THEN Reg1 ELSE Imm
    <3>1. PushWord(value) /\ PushState = "NORMAL"
      BY <2>3 DEF Push
    <3>2. value \in Word
      BY <1>1, <1>10, OperandTypes
    <3> HIDE DEF value
    <3>3. n < Capacity
      BY <1>7, <2>2, <3>1
    <3>4. StackInv' /\ StackContents' = Append(StackContents, value)
      BY <1>8, <1>10, <3>1, <3>2, <3>3
    <3>5. Len(StackContents) # Capacity
      BY <1>2, <1>3, <3>3, WholeWords
    <3>6. QED
      BY <2>1, <3>4, <3>5, AbstractSteps DEF value
  <2>4. CASE ~Push
    <3>1. PushState # "NORMAL" /\ ~Pop /\ ~Dup
      BY <1>10, <2>4, StackSteps DEF Pop, Dup, Executes
    <3>2. StackInv' /\ StackContents' = StackContents
      BY <1>5, <2>4, <3>1
    <3>3. Len(StackContents) = Capacity
      BY <1>2, <1>3, <1>7, <2>2, <3>1, WholeWords
    <3>4. QED
      BY <2>1, <3>2, <3>3, AbstractSteps
  <2>5. QED
    BY <2>3, <2>4
<1>11. CASE Executes({"POP", "POPR"}) /\ memorySize # 0
  <2>1. StackRequest.op = "pop"
    BY <1>11, Requests
  <2>2. memorySize = RamSize
    BY <1>1, <1>11 DEF TypeOK
  <2>3. CASE Pop
    <3>1. n > 0
      BY <1>7, <2>2, <2>3 DEF Pop
    <3>2. /\ registers'[R_SP] = RomSize + WORD_SIZE * (n - 1)
          /\ registers'[R_BP] = RomSize
          /\ memory' = memory
      BY <1>1, <1>3, <2>3, <3>1, PopEffect
    <3>3. n - 1 \in 0..Capacity /\ n - 1 \in Nat /\ (n - 1) + 1 = n
      BY <1>3, <3>1, WholeWords
    <3>4. StackInv' /\ StackContents' = WordsIn(memory, n - 1)
      BY <1>4, <3>2, <3>3
    <3>5. WordsIn(memory, n - 1) =
            SubSeq(StackContents, 1, Len(StackContents) - 1)
      BY <1>2, <3>3, WordsFront
    <3>6. StackContents # << >>
      BY <1>2, <3>1
    <3>7. QED
      BY <2>1, <3>4, <3>5, <3>6, AbstractSteps
  <2>4. CASE ~Pop
    <3>1. PopState # "NORMAL" /\ ~Push /\ ~Dup
      BY <1>11, <2>4, StackSteps DEF Push, Dup, Executes
    <3>2. StackInv' /\ StackContents' = StackContents
      BY <1>5, <2>4, <3>1
    <3>3. n = 0
      BY <1>3, <1>7, <2>2, <3>1
    <3>4. StackContents = << >>
      BY <1>2, <3>3, WordsLength
    <3>5. QED
      BY <2>1, <3>2, <3>4, AbstractSteps
  <2>5. QED
    BY <2>3, <2>4
<1>12. CASE Executes({"DUP"}) /\ memorySize # 0
  <2>1. StackRequest.op = "dup"
    BY <1>12, Requests
  <2>2. memorySize = RamSize
    BY <1>1, <1>12 DEF TypeOK
  <2>3. CASE Dup
    <3>1. PopState = "NORMAL" /\ PushState = "NORMAL" /\ PushWord(Top)
      BY <2>3 DEF Dup
    <3>2. n < Capacity /\ n > 0
      BY <1>7, <2>2, <3>1
    <3>3. Top \in Word
      BY <1>1, <1>12, <3>1, TopType
    <3>4. StackInv' /\ StackContents' = Append(StackContents, Top)
      BY <1>8, <1>12, <3>1, <3>2, <3>3
    <3>5. Top = StackContents[Len(StackContents)]
      <4>1. SP - WORD_SIZE = RomSize + WORD_SIZE * (n - 1)
        BY <1>3, Sizes DEF WORD_SIZE
      <4>2. n \in 1..n
        BY <1>3, <3>2
      <4>3. WordsIn(memory, n)[n] = WordIn(memory, RomSize + WORD_SIZE * (n - 1))
        BY <4>2 DEF WordsIn
      <4>4. QED
        BY <1>2, <4>1, <4>3 DEF Top, ReadWord
    <3>6. StackContents # << >> /\ Len(StackContents) # Capacity
      BY <1>2, <1>3, <3>2, WholeWords
    <3>7. QED
      BY <2>1, <3>4, <3>5, <3>6, AbstractSteps
  <2>4. CASE ~Dup
    <3>1. /\ PopState # "NORMAL" \/ PushState # "NORMAL"
          /\ ~Push /\ ~Pop
      BY <1>12, <2>4, StackSteps DEF Push, Pop, Executes
    <3>2. StackInv' /\ StackContents' = StackContents
      BY <1>5, <2>4, <3>1
    <3>3. n = 0 \/ n = Capacity
      BY <1>3, <1>7, <2>2, <3>1, WholeWords
    <3>4. StackContents = << >> \/ Len(StackContents) = Capacity
      BY <1>2, <3>3, WordsLength
    <3>5. QED
      BY <2>1, <3>2, <3>4, AbstractSteps
  <2>5. QED
    BY <2>3, <2>4
<1>13. CASE \/ memorySize = 0
            \/ ~Executes({"PUSHR", "PUSHI", "POP", "POPR", "DUP"})
  <2>1. StackRequest.op = "none"
    BY <1>13, Requests
  <2>2. ~Push /\ ~Pop /\ ~Dup
    BY <1>6, <1>9, <1>13 DEF Push, Pop, Dup, Executes
  <2>3. StackInv' /\ StackContents' = StackContents
    BY <1>5, <2>2
  <2>4. QED
    BY <2>1, <2>3, AbstractSteps
<1>14. QED
  BY <1>10, <1>11, <1>12, <1>13 DEF Executes

(* The host only ever writes the ROM, and a run starts with no stack.      *)
LEMMA HostStack ==
  ASSUME StackFits, IInv, StackInv, Host
  PROVE  StackInv' /\ Abstract!Next
<1>1. StackRequest.op = "none"
  <2>1. ~Loop
    BY DEF Host, StartRun, FinishRun, Destroy, LoadDump, RefuseDump,
           BeginLoadImage, CheckSection, BeginCopy, CopySection,
           FinishLoadImage, Loop
  <2>2. QED
    BY <2>1, Requests DEF Executes, Passes, Fetches
<1>2. PICK n \in 0..Capacity :
        /\ registers[R_SP] = registers[R_BP] + WORD_SIZE * n
        /\ registers[R_BP] = RomSize \/ (registers[R_BP] = 0 /\ n = 0)
        /\ StackContents = WordsIn(memory, n)
  BY HoldsWords DEF IInv
<1>3. CASE StartRun
  <2>1. registers'[R_SP] = RomSize /\ registers'[R_BP] = RomSize
    BY <1>3, RegisterNumbers DEF StartRun, IInv, TypeOK
  <2>2. 0 \in 0..Capacity /\ WORD_SIZE * 0 = 0
    BY WholeWords DEF WORD_SIZE
  <2>3. registers'[R_SP] = registers'[R_BP] + WORD_SIZE * 0
    BY <2>1, <2>2, Sizes
  <2>4. StackInv' /\ StackContents' = WordsIn(memory', 0)
    BY <2>1, <2>2, <2>3, LeavesWords
  <2>5. StackContents' = << >>
    BY <2>4, WordsLength
  <2>6. QED
    BY <1>1, <2>4, <2>5, AbstractSteps
<1>4. CASE ~StartRun
  <2>1. registers' = registers /\ (phase' = "run" => phase = "run")
    BY <1>4 DEF Host, FinishRun, Destroy, LoadDump, RefuseDump,
                BeginLoadImage, CheckSection, BeginCopy, CopySection,
                FinishLoadImage, machine
  <2>2. AgreeBelow(memory', memory, n)
    <3>1. SUFFICES ASSUME NEW a \in RomSize..(RomSize + WORD_SIZE * n - 1)
                   PROVE  memory'[a] = memory[a]
      BY DEF AgreeBelow
    <3>2. a \in Address /\ ~(a < RomSize)
      <4>1. WORD_SIZE * n <= StackSize
        BY WholeWords, Sizes DEF WORD_SIZE
      <4>2. QED
        BY <4>1, Sizes DEF Address, StackFits, WORD_SIZE
    <3>3. QED
      BY <3>2, HostWrites
  <2>3. n \in Nat
    BY WholeWords
  <2>4. WordsIn(memory', n) = WordsIn(memory, n)
    BY <2>2, <2>3, WordsAgree
  <2>5. StackInv' /\ StackContents' = WordsIn(memory', n)
    BY <1>2, <2>1, LeavesWords DEF StackInv
  <2>6. QED
    BY <1>1, <1>2, <2>4, <2>5, AbstractSteps
<1>5. QED
  BY <1>3, <1>4

(* Pushes, pops and dups are those of a last-in first-out stack of         *)
(* Capacity words, failing exactly when it is full or empty, for every     *)
(* program that leaves SP, BP and the bytes of the stack to the machine,   *)
(* on a machine whose RAM holds the stack.                                 *)
(* Code: vm_push_word, vm_pop_word and the case DUP.                       *)
THEOREM StackImplementsLifo ==
  ASSUME StackFits
  PROVE  Spec /\ []Disciplined => StackIsLifo
<1>1. Init => StackInv /\ Abstract!Init
  <2> SUFFICES ASSUME Init
               PROVE  StackInv /\ Abstract!Init
    OBVIOUS
  <2>1. registers[R_SP] = 0 /\ registers[R_BP] = 0 /\ phase # "run"
    BY RegisterNumbers DEF Init
  <2>2. 0 \in 0..Capacity /\ 0 = 0 + WORD_SIZE * 0
    BY WholeWords DEF WORD_SIZE
  <2>3. StackInv
    BY <2>1, <2>2 DEF StackInv
  <2>4. StackContents = << >>
    <3>1. ContentsOf(registers, memory) = WordsIn(memory, 0)
      BY <2>1, <2>2, ContentsAre
    <3>2. QED
      BY <3>1, ContentsNow, WordsLength
  <2>5. StackRequest.op = "none"
    BY <2>1, Requests DEF Executes, Passes, Fetches, Loop
  <2>6. QED
    BY <2>3, <2>4, <2>5 DEF Abstract!Init, Abstract!Empty
<1>2. IInv /\ StackInv /\ Disciplined /\ [Next]_vars
        => StackInv' /\ [Abstract!Next]_(Abstract!vars)
  <2> SUFFICES ASSUME IInv, StackInv, Disciplined, [Next]_vars
               PROVE  StackInv' /\ [Abstract!Next]_(Abstract!vars)
    OBVIOUS
  <2>1. CASE Step
    BY <2>1, StackStep
  <2>2. CASE Host
    BY <2>2, HostStack
  <2>3. CASE UNCHANGED vars
    <3>1. StackInv'
      BY <2>3 DEF vars, StackInv
    <3>2. StackContents' = StackContents
      BY <2>3 DEF vars, StackContents, WordsOnStack
    <3>3. StackRequest' = StackRequest
      BY <2>3 DEF vars, StackRequest, Executes, Passes, Fetches, Loop, Stopped,
                  HasError, ValidRange, MemoryEnd, PC, Ins, Decode, ReadWord,
                  Reg1, Imm, Fetched
    <3>4. QED
      BY <3>1, <3>2, <3>3 DEF Abstract!vars
  <2>4. QED
    BY <2>1, <2>2, <2>3 DEF Next
<1>3. QED
  BY <1>1, <1>2, Invariance, PTL DEF Spec, StackIsLifo, Abstract!Spec
=============================================================================
