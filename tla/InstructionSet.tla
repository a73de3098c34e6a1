--------------------------- MODULE InstructionSet ---------------------------
(***************************************************************************)
(* Instructions and their eight bytes, as the assembler writes them and    *)
(* the machine reads them (emulator/src/Instruction.c).                    *)
(***************************************************************************)
EXTENDS ALU, Sequences

INSTRUCTION_SIZE == 8
REGISTER_COUNT == 32

(* The opcodes in the order of their codes (include/Opcode.h).             *)
Opcodes ==
  <<"NOP", "POP", "POPR", "PUSHR", "PUSHI", "DUP", "MOVR", "MOVI",
    "ADDR", "SUBR", "MULR", "DIVR", "MODR",
    "ADDI", "SUBI", "MULI", "DIVI", "MODI", "INT", "SYSCALL", "JMP",
    "NOT", "ANDR", "ORR", "XORR", "NANDR", "NORR",
    "ANDI", "ORI", "XORI", "NANDI", "NORI", "INC", "DEC",
    "LOADB", "STOREB", "LOADH", "STOREH", "LOADW", "STOREW",
    "JMPAL", "RET", "CMPR", "CMPI", "CMPSR", "CMPSI",
    "ADDSR", "SUBSR", "MULSR", "DIVSR", "MODSR",
    "ADDSI", "SUBSI", "MULSI", "DIVSI", "MODSI">>

OPCODE_TOTAL == 56

OpcodeOf(b) == IF b < OPCODE_TOTAL THEN Opcodes[b + 1] ELSE "INVALID"

(* The place of a name in an enumeration, which counts from zero.          *)
CodeIn(names, name) == (CHOOSE i \in 1..Len(names) : names[i] = name) - 1

WordBytes(w) == <<ByteOf(w, 0), ByteOf(w, 1), ByteOf(w, 2), ByteOf(w, 3)>>

(* instruction_encode.                                                     *)
EncodedInstruction(op, cond, r1, r2, imm) ==
  <<CodeIn(Opcodes, op), CodeIn(Conditions, cond), r1, r2>> \o WordBytes(imm)
=============================================================================
