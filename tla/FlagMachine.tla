----------------------------- MODULE FlagMachine ----------------------------
(***************************************************************************)
(* vm_do_operation seen alone: a machine that computes, sets its flags and *)
(* stops at the first division by zero.  Its properties say what a program *)
(* may conclude from a condition that it tests after an operation.         *)
(***************************************************************************)
EXTENDS ALU

CONSTANT Operands   \* the words that are computed with

ASSUME OperandsAssumption == Operands \subseteq Word

VARIABLES
  flags,     \* CPSR.N .. CPSR.S
  last,      \* the operation the flags come from
  stopped    \* S_ERR_DIVISION_BY_ZERO has been set

vars == <<flags, last, stopped>>

Operation == [op : Operations \cup {"NOOP"}, left : Operands, right : Operands]

Init ==
  /\ flags = NoFlags
  /\ \E w \in Operands : last = [op |-> "NOOP", left |-> w, right |-> w]
  /\ stopped = FALSE

(* A division by zero leaves the flags as they were.                       *)
Divide0(op, left, right) ==
  /\ ~stopped
  /\ DividesByZero(op, right)
  /\ stopped' = TRUE
  /\ UNCHANGED <<flags, last>>

Compute(op, left, right) ==
  /\ ~stopped
  /\ ~DividesByZero(op, right)
  /\ flags' = Flags(op, left, right)
  /\ last' = [op |-> op, left |-> left, right |-> right]
  /\ UNCHANGED stopped

Next == \E op \in Operations, left, right \in Operands :
          Divide0(op, left, right) \/ Compute(op, left, right)

Spec == Init /\ [][Next]_vars

-----------------------------------------------------------------------------
(* The flags are booleans and the last operation is one of the unit's.     *)
(* Code: ALUFlags and the CPSR bit fields that vm_do_operation copies.     *)
TypeOK ==
  /\ flags \in FlagSet
  /\ last \in Operation
  /\ stopped \in BOOLEAN

On(condition) == Holds(condition, flags)

(* After cmpr or cmpi (an unsigned subtraction) the conditions eq, hs, lo, *)
(* uh and ul decide the order of the operands as unsigned numbers.         *)
(* Code: alu_set_unsigned_flags with vm_check_condition.                   *)
UnsignedOrder ==
  last.op = "SUB" =>
    /\ On("ZERO_SET")               <=> last.left = last.right
    /\ On("CARRY_SET")              <=> last.left >= last.right
    /\ On("CARRY_CLEAR")            <=> last.left < last.right
    /\ On("UNSIGNED_HIGHER")        <=> last.left > last.right
    /\ On("UNSIGNED_LOWER_OR_SAME") <=> last.left <= last.right

(* After cmpsr or cmpsi (a signed subtraction) the conditions lt, le, gt   *)
(* and ge decide the order of the operands as signed numbers, also when    *)
(* the subtraction overflows.                                              *)
(* Code: alu_set_signed_flags with vm_check_condition.                     *)
SignedOrder ==
  last.op = "SSUB" =>
    LET sl == Signed(last.left)
        sr == Signed(last.right)
    IN  /\ On("ZERO_SET")          <=> sl = sr
        /\ On("LESS")              <=> sl < sr
        /\ On("LESS_OR_EQUALS")    <=> sl <= sr
        /\ On("GREATER")           <=> sl > sr
        /\ On("GREATER_OR_EQUALS") <=> sl >= sr

(* Every condition that compares says the order of the operands, of the    *)
(* comparison that was made: signed conditions after a signed one, the     *)
(* others after an unsigned one.                                           *)
(* Code: vm_check_condition with the flags of alu_compute.                 *)
ConditionsOrder == UnsignedOrder /\ SignedOrder

(* V is set exactly when the mathematical result of a signed operation     *)
(* does not fit in a signed word, and never by an unsigned one.            *)
(* Code: alu_set_signed_flags, whose division case is a special test.      *)
OverflowIsExact ==
  flags.V <=> /\ last.op \in SignedOps
              /\ OutsideSword(Exact(last.op, last.left, last.right))

(* C is set by an unsigned addition, multiplication or increment exactly   *)
(* when the result does not fit in a word, by a subtraction or decrement   *)
(* exactly when it does.  Code: alu_set_unsigned_flags.                    *)
CarryIsExact ==
  LET fits == Exact(last.op, last.left, last.right) \in Word
  IN  /\ last.op \in {"ADD", "MUL", "INC"} => (flags.C <=> ~fits)
      /\ last.op \in {"SUB", "DEC"} => (flags.C <=> fits)

(* Both flags of the size of a result are exact, each for its operations.  *)
(* Code: alu_set_unsigned_flags and alu_set_signed_flags.                  *)
FlagsAreExact == CarryIsExact /\ OverflowIsExact

(* A signed operation and its unsigned variant leave the same word for     *)
(* addition, subtraction and multiplication (they differ in the flags      *)
(* only).  Code: the OP_S cases of alu_compute against the plain ones.     *)
TwosComplement ==
  LET Same(s, u) == last.op = s =>
                      Result(s, last.left, last.right) =
                      Result(u, last.left, last.right)
  IN  Same("SADD", "ADD") /\ Same("SSUB", "SUB") /\ Same("SMUL", "MUL")

(* Quotient and remainder of the same operands belong together: q * r + m  *)
(* gives back the dividend, |m| < |r| and m has the sign of the dividend,  *)
(* for the signed and for the unsigned pair of instructions, up to the     *)
(* wrap of the one quotient that overflows.                                *)
(* Code: the division and modulo cases of alu_compute.                     *)
DivisionIdentity ==
  LET l  == last.left
      r  == last.right
      sm == Signed(Result("SMOD", l, r))
  IN  last.op \in DivisionOps =>
        /\ Result("DIV", l, r) * r + Result("MOD", l, r) = l
        /\ Result("MOD", l, r) < r
        /\ ToWord(Signed(Result("SDIV", l, r)) * Signed(r) + sm) = l
        /\ Magnitude(sm) < Magnitude(Signed(r))
        /\ sm = 0 \/ (sm < 0 <=> Signed(l) < 0)
=============================================================================
