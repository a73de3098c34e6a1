--------------------------------- MODULE ALU --------------------------------
(***************************************************************************)
(* The arithmetic-logic unit (emulator/src/ALU.c) and the conditions that  *)
(* read the flags it leaves (vm_check_condition).  An operation is named   *)
(* by its enumerator without the OP_ prefix.                               *)
(***************************************************************************)
EXTENDS ZlWord

SignedOps   == {"SADD", "SSUB", "SMUL", "SDIV", "SMOD"}
DivisionOps == {"DIV", "MOD", "SDIV", "SMOD"}
UnsignedOps == {"ID", "ADD", "SUB", "MUL", "DIV", "MOD", "NOT", "AND", "OR",
                "XOR", "NAND", "NOR", "INC", "DEC"}
Operations  == SignedOps \cup UnsignedOps

(* Division in C truncates towards zero.                                   *)
Magnitude(i) == IF i < 0 THEN -i ELSE i

(* Faulty variant: rounding down.                                          *)
QuotientFloor(a, b) == IF b < 0 THEN (-a) \div (-b) ELSE a \div b

Quotient(a, b) ==
  LET q == Magnitude(a) \div Magnitude(b)
  IN  IF (a < 0) = (b < 0) THEN q ELSE -q

Remainder(a, b) ==
  LET m == Magnitude(a) % Magnitude(b) IN IF a < 0 THEN -m ELSE m

(* The value an operation denotes before it is cut to a word; dividing by  *)
(* zero gives the result zero (and vm_do_operation never gets that far).   *)
Exact(op, left, right) ==
  LET sl == Signed(left)
      sr == Signed(right)
  IN  IF op \in DivisionOps /\ right = 0 THEN 0 ELSE
      CASE op = "ID"   -> left
        [] op = "ADD"  -> left + right
        [] op = "SUB"  -> left - right
        [] op = "MUL"  -> left * right
        [] op = "DIV"  -> left \div right
        [] op = "MOD"  -> left % right
        [] op = "NOT"  -> WordNot(left)
        [] op = "AND"  -> WordAnd(left, right)
        [] op = "OR"   -> WordOr(left, right)
        [] op = "XOR"  -> WordXor(left, right)
        [] op = "NAND" -> WordNot(WordAnd(left, right))
        [] op = "NOR"  -> WordNot(WordOr(left, right))
        [] op = "INC"  -> left + 1
        [] op = "DEC"  -> left - 1
        [] op = "SADD" -> sl + sr
        [] op = "SSUB" -> sl - sr
        [] op = "SMUL" -> sl * sr
        [] op = "SDIV" -> Quotient(sl, sr)
        [] op = "SMOD" -> Remainder(sl, sr)

Result(op, left, right) == ToWord(Exact(op, left, right))

-----------------------------------------------------------------------------
FlagSet == [N : BOOLEAN, Z : BOOLEAN, C : BOOLEAN, V : BOOLEAN, S : BOOLEAN]

NoFlags == [N |-> FALSE, Z |-> FALSE, C |-> FALSE, V |-> FALSE, S |-> FALSE]

(* Faulty variants: a comparison that is strict, a decrement that forgets  *)
(* its borrow.                                                             *)
CarryStrict(op, left, right) ==
  \/ op = "ADD" /\ left + right > WORD_MAX
  \/ op = "SUB" /\ left > right
  \/ op = "MUL" /\ left * right > WORD_MAX
  \/ op = "INC" /\ left = WORD_MAX
  \/ op = "DEC" /\ left >= 1

CarryNoBorrow(op, left, right) ==
  \/ op = "ADD" /\ left + right > WORD_MAX
  \/ op = "SUB" /\ left >= right
  \/ op = "MUL" /\ left * right > WORD_MAX
  \/ op \in {"INC", "DEC"} /\ left = WORD_MAX

Carry(op, left, right) ==
  \/ op = "ADD" /\ left + right > WORD_MAX
  \/ op = "SUB" /\ left >= right
  \/ op = "MUL" /\ left * right > WORD_MAX
  \/ op = "INC" /\ left = WORD_MAX
  \/ op = "DEC" /\ left >= 1

OutsideSword(i) == i < SWORD_MIN \/ i > SWORD_MAX

(* Faulty variants: no overflow of a subtraction, none of a division.      *)
OverflowNoSub(op, left, right) ==
  \/ op = "SADD" /\ OutsideSword(Signed(left) + Signed(right))
  \/ op = "SMUL" /\ OutsideSword(Signed(left) * Signed(right))
  \/ op = "SDIV" /\ Signed(left) = SWORD_MIN /\ Signed(right) = -1

OverflowNoDiv(op, left, right) ==
  \/ op = "SADD" /\ OutsideSword(Signed(left) + Signed(right))
  \/ op = "SSUB" /\ OutsideSword(Signed(left) - Signed(right))
  \/ op = "SMUL" /\ OutsideSword(Signed(left) * Signed(right))

Overflow(op, left, right) ==
  \/ op = "SADD" /\ OutsideSword(Signed(left) + Signed(right))
  \/ op = "SSUB" /\ OutsideSword(Signed(left) - Signed(right))
  \/ op = "SMUL" /\ OutsideSword(Signed(left) * Signed(right))
  \/ op = "SDIV" /\ Signed(left) = SWORD_MIN /\ Signed(right) = -1

DividesByZero(op, right) == op \in DivisionOps /\ right = 0

Flags(op, left, right) ==
  IF DividesByZero(op, right) THEN NoFlags ELSE
  [N |-> Signed(Result(op, left, right)) < 0,
   Z |-> Result(op, left, right) = 0,
   C |-> Carry(op, left, right),
   V |-> Overflow(op, left, right),
   S |-> op \in SignedOps]

-----------------------------------------------------------------------------
(* The condition field of an instruction, by its enumerator without C_.    *)
Conditions ==
  <<"UNCONDITIONAL", "ZERO_SET", "ZERO_CLEAR", "NEGATIVE_SET",
    "NEGATIVE_CLEAR", "OVERFLOW_SET", "OVERFLOW_CLEAR", "CARRY_SET",
    "CARRY_CLEAR", "SIGNED_SET", "SIGNED_CLEAR", "UNSIGNED_HIGHER",
    "UNSIGNED_LOWER_OR_SAME", "LESS", "LESS_OR_EQUALS", "GREATER",
    "GREATER_OR_EQUALS">>

C_TOTAL == 17

ConditionOf(b) == IF b < C_TOTAL THEN Conditions[b + 1] ELSE "INVALID"

(* vm_check_condition, on a condition it knows.                            *)
Holds(condition, f) ==
  CASE condition = "UNCONDITIONAL"          -> TRUE
    [] condition = "ZERO_SET"               -> f.Z
    [] condition = "ZERO_CLEAR"             -> ~f.Z
    [] condition = "NEGATIVE_SET"           -> f.N
    [] condition = "NEGATIVE_CLEAR"         -> ~f.N
    [] condition = "OVERFLOW_SET"           -> f.V
    [] condition = "OVERFLOW_CLEAR"         -> ~f.V
    [] condition = "CARRY_SET"              -> f.C
    [] condition = "CARRY_CLEAR"            -> ~f.C
    [] condition = "SIGNED_SET"             -> f.S
    [] condition = "SIGNED_CLEAR"           -> ~f.S
    [] condition = "UNSIGNED_HIGHER"        -> f.C /\ ~f.Z
    [] condition = "UNSIGNED_LOWER_OR_SAME" -> ~f.C \/ f.Z
    [] condition = "LESS"                   -> f.N # f.V
    [] condition = "LESS_OR_EQUALS"         -> f.Z \/ f.N # f.V
    [] condition = "GREATER"                -> ~(f.Z \/ f.N # f.V)
    [] condition = "GREATER_OR_EQUALS"      -> f.N = f.V
    [] OTHER                                -> FALSE
=============================================================================
