---------------------------- MODULE VMProperties ----------------------------
(***************************************************************************)
(* What a program and its host may rely on, whatever the program is.       *)
(***************************************************************************)
EXTENDS VirtualMachine

(* Every part of the machine holds a value of its C type, and the loader   *)
(* is inside an image only while it loads one.                             *)
(* Code: struct VirtualMachine (include/VirtualMachine.h).                 *)
TypeOK ==
  /\ registers \in [Register -> Word]
  /\ memory \in [Address -> Byte]
  /\ memorySize \in {0, RamSize}
  /\ flags \in FlagSet
  /\ ST \in States
  /\ entryPoint \in Word
  /\ console \in Byte \cup {-1}
  /\ phase \in {"idle", "run", "check", "copy"}
  /\ image \in Images \cup {NoImage}
  /\ phase \in {"check", "copy"} => image \in Images
  /\ next \in Nat \ {0}
  /\ loaded \in {"none", "rejected", "accepted"}

(* $zero reads as zero before every instruction, whatever was popped,      *)
(* loaded or computed into it.  Code: the two assignments to R_ZERO around *)
(* the switch of vm_run_instruction.                                       *)
ZeroRegister == registers[R_ZERO] = 0

(* An instruction that fails has no effect: when a run ends in an error    *)
(* the memory, the flags and all registers are as they were before the     *)
(* failing instruction, except that the program counter may have passed    *)
(* it.  DUP is the hard case: it has popped and pushed before it fails.    *)
(* Code: the error paths of vm_run_instruction and what they call.         *)
FaultIsPrecise ==
  [][phase = "run" /\ ~HasError /\ HasError' =>
       /\ UNCHANGED <<memory, flags, console>>
       /\ \A r \in Register \ {R_PC} : registers'[r] = registers[r]
       /\ registers'[R_PC] \in {PC, ToWord(PC + INSTRUCTION_SIZE)}]_vars

(* A machine that has halted or failed never executes again, whatever the  *)
(* host loads and however often it calls vm_run: the RAM, the flags and    *)
(* all registers but those vm_run sets keep the values of the last run,    *)
(* and an error is never replaced by another state.                        *)
(* Code: vm_set_state and the loop condition of vm_run.                    *)
StoppedForGood ==
  [][Stopped =>
       /\ Stopped'
       /\ HasError => ST' = ST
       /\ UNCHANGED <<flags, console>>
       /\ \A r \in Register \ {R_PC, R_BP, R_SP} :
            registers'[r] = registers[r]
       /\ \A a \in Address : a >= RomSize => memory'[a] = memory[a]]_vars

(* Memory changes only where it may: a push or dup writes below the end of *)
(* the stack window that starts at BP, a store the bytes it addresses, and *)
(* a load of a program the ROM; never outside the memory there is.         *)
(* Code: vm_push_word, vm_effective_address, vm_validate_range, the bound  *)
(* checks of vm_loadDump and vm_loadImage.                                 *)
WritesConfined ==
  [][\A a \in Address :
       memory'[a] # memory[a] =>
         /\ a < MemoryEnd
         /\ phase # "run" => a < RomSize
         /\ phase = "run" /\ Ins.op \in {"PUSHR", "PUSHI", "DUP"} =>
              a \in BP..(BP + StackSize - 1)
         /\ phase = "run" /\ Ins.op \notin {"PUSHR", "PUSHI", "DUP"} =>
              a \in EffectiveAddress..
                      (EffectiveAddress + AccessSize[Ins.op] - 1)]_vars

(* A word or halfword read where it was stored comes back whole, at any    *)
(* alignment, and a push leaves the word it pushed on top of the stack.    *)
(* Code: the byte order of vm_read_scalar against that of vm_write_scalar. *)
StoredIsReadBack ==
  [][phase = "run" /\ Passes /\ ~HasError' =>
       LET ea == EffectiveAddress
           sp == SP
       IN  /\ Ins.op = "STOREW" => WordIn(memory', ea) = Reg1
           /\ Ins.op = "STOREH" => HwordIn(memory', ea) = Reg1 % HwordBase
           /\ Ins.op = "PUSHR"  => WordIn(memory', sp) = Reg1
           /\ Ins.op = "DUP"    => WordIn(memory', sp) =
                                   WordIn(memory', sp - WORD_SIZE)]_vars

(* What is written is what was to be written: nothing next to it changes,  *)
(* and it is read back whole.                                              *)
(* Code: vm_write_scalar and vm_push_word with their checks.               *)
StoresAreExact == WritesConfined /\ StoredIsReadBack

(* The loader copies nothing before it has checked everything: while it    *)
(* copies, every section of the image lies in the ROM, so an image is      *)
(* rejected without partial loading and no copy leaves the array _rom.     *)
(* Code: the two loops of vm_loadImage.                                    *)
CopiesOnlyChecked ==
  phase = "copy" =>
    \A i \in 1..Len(image.sections) :
      LET section == image.sections[i]
      IN  section.size > 0 => section.address + section.size - 1 < RomSize

(* Once an image is accepted, its sections are in place (a later one over  *)
(* an earlier one where they overlap) and the next run starts at its entry.*)
(* Code: the copying loop of vm_loadImage and the use of _entryPoint.      *)
AcceptedIsInPlace ==
  loaded = "accepted" =>
    /\ entryPoint = image.entry
    /\ \A i \in 1..Len(image.sections), a \in Address :
         LET section == image.sections[i]
             hidden == \E j \in (i + 1)..Len(image.sections) :
                         InSection(image.sections[j], a)
         IN  InSection(section, a) /\ ~hidden =>
               memory[a] = ContentAt(section, a)

-----------------------------------------------------------------------------
(* The stack as a program sees it.                                         *)
WordsOnStack == (registers[R_SP] - registers[R_BP]) \div WORD_SIZE

StackContents ==
  [i \in 1..WordsOnStack |->
     WordIn(memory, registers[R_BP] + WORD_SIZE * (i - 1))]

(* The stack operation that the machine is about to execute; without RAM   *)
(* (vm_destroy) there is no stack.                                         *)
StackRequest ==
  IF memorySize = 0
    THEN [op |-> "none"]
    ELSE CASE Executes({"PUSHR"})       -> [op |-> "push", value |-> Reg1]
           [] Executes({"PUSHI"})       -> [op |-> "push", value |-> Imm]
           [] Executes({"POP", "POPR"}) -> [op |-> "pop"]
           [] Executes({"DUP"})         -> [op |-> "dup"]
           [] OTHER                     -> [op |-> "none"]

Abstract == INSTANCE BoundedStack
              WITH stack <- StackContents,
                   request <- StackRequest,
                   Capacity <- StackSize \div WORD_SIZE

(* For programs that leave SP, BP and the bytes of the stack to the        *)
(* machine, pushes, pops and dups are those of a bounded last-in first-out *)
(* stack: they fail exactly when it is full or empty, and then change      *)
(* nothing.  Code: vm_push_word, vm_pop_word and the case DUP.             *)
StackIsLifo == Abstract!Spec

(* A run of a program whose jumps all go forward, and which does not wait  *)
(* for input, ends: running past the last instruction executes the zeros   *)
(* behind it as NOP up to the end of memory, where the fetch fails.        *)
(* Code: the loop of vm_run.                                               *)
RunsReturn == phase = "run" ~> phase = "idle"

(* "The VM initializes pc to zero" and, of .entry, "VM still starts at     *)
(* address zero" (docs/ISA.md): not so for an image.                       *)
(* Code: vm_run starts at _entryPoint, which vm_loadImage sets.            *)
StartsAtZero ==
  [][phase = "idle" /\ phase' = "run" => registers'[R_PC] = 0]_vars
=============================================================================
