-------------------------- MODULE FlagMachineProofs --------------------------
(***************************************************************************)
(* What the conditions say after a comparison, for every width of word.    *)
(* The inductive invariant is that the flags are those of the last         *)
(* operation; what is left is arithmetic on words that wrap around.        *)
(***************************************************************************)
EXTENDS FlagMachine, WordProofs

FlagsOfLast ==
  last.op # "NOOP" =>
    /\ ~DividesByZero(last.op, last.right)
    /\ flags = Flags(last.op, last.left, last.right)

IInv ==
  /\ TypeOK
  /\ flags.V => last.op # "NOOP"
  /\ FlagsOfLast

(* A new machine (all flags clear, nothing computed) has the flags of its  *)
(* last operation.                                                         *)
LEMMA InitIInv == Init => IInv
<1> SUFFICES ASSUME Init
             PROVE  IInv
  OBVIOUS
<1>1. NoFlags \in FlagSet /\ NoFlags.V = FALSE
  BY DEF NoFlags, FlagSet
<1>2. last \in Operation /\ last.op = "NOOP"
  BY DEF Init, Operation
<1>3. QED
  BY <1>1, <1>2 DEF Init, IInv, TypeOK, FlagsOfLast

(* An operation sets the flags from its own operands, a division by zero   *)
(* leaves flags and operands (vm_do_operation).                            *)
LEMMA NextIInv == IInv /\ [Next]_vars => IInv'
<1> SUFFICES ASSUME IInv, [Next]_vars
             PROVE  IInv'
  OBVIOUS
<1> USE DEF IInv
<1>1. ASSUME NEW op \in Operations, NEW left \in Operands,
             NEW right \in Operands, Divide0(op, left, right)
      PROVE  IInv'
  BY <1>1 DEF Divide0, TypeOK, FlagsOfLast
<1>2. ASSUME NEW op \in Operations, NEW left \in Operands,
             NEW right \in Operands, Compute(op, left, right)
      PROVE  IInv'
  <2>1. op # "NOOP"
    BY DEF Operations, SignedOps, UnsignedOps
  <2>2. TypeOK'
    BY <1>2, FlagsType DEF Compute, TypeOK, Operation
  <2>3. FlagsOfLast'
    BY <1>2 DEF Compute, FlagsOfLast
  <2>4. (flags.V => last.op # "NOOP")'
    BY <1>2, <2>1 DEF Compute
  <2>5. QED
    BY <2>2, <2>3, <2>4
<1>3. CASE UNCHANGED vars
  BY <1>3 DEF vars, TypeOK, FlagsOfLast
<1>4. QED
  BY <1>1, <1>2, <1>3 DEF Next

(* The flags always are those of the last operation that was computed.     *)
THEOREM FlagsAreOfLast == Spec => []IInv
BY InitIInv, NextIInv, PTL DEF Spec

-----------------------------------------------------------------------------
(* The cast of a word to sword is in the range of that type.               *)
LEMMA SignedRange ==
  ASSUME NEW w \in Word
  PROVE  /\ Signed(w) \in Int
         /\ SWORD_MIN <= Signed(w)
         /\ Signed(w) <= SWORD_MAX
         /\ Signed(w) < 0 <=> w >= SignBit
BY Bases DEF Word, Signed, SWORD_MIN, SWORD_MAX

(* The operands the unit was last given are words.                         *)
LEMMA OperandsAreWords ==
  ASSUME TypeOK
  PROVE  last.left \in Word /\ last.right \in Word
BY OperandsAssumption DEF TypeOK, Operation

(* An unsigned difference wraps to zero only for equal operands.           *)
LEMMA UnsignedDifference ==
  ASSUME NEW left \in Word, NEW right \in Word
  PROVE  Result("SUB", left, right) = 0 <=> left = right
<1>1. Exact("SUB", left, right) = left - right
  BY Zenon DEF Exact, DivisionOps
<1>2. left - right \in Int /\ -WordBase <= left - right
        /\ left - right < 2 * WordBase
  BY Bases DEF Word
<1>3. QED
  BY <1>1, <1>2, CutOnce, Bases DEF Result, Word

(* The sign bit of a signed difference, corrected by overflow, decides the *)
(* order of the operands (alu_set_signed_flags).                           *)
LEMMA SignedDifference ==
  ASSUME NEW left \in Word, NEW right \in Word
  PROVE  LET sl == Signed(left)
             sr == Signed(right)
             d  == Result("SSUB", left, right)
         IN  /\ d \in Word
             /\ d = 0 <=> sl = sr
             /\ ~(Signed(d) < 0 <=> OutsideSword(sl - sr)) <=> sl < sr
<1> DEFINE e == Signed(left) - Signed(right)
           d == Result("SSUB", left, right)
<1>1. d = ToWord(e)
  BY Zenon DEF Result, Exact, DivisionOps
<1>2. e \in Int /\ -WordBase < e /\ e < WordBase
  BY SignedRange, Bases DEF SWORD_MIN, SWORD_MAX
<1>3. d = IF e < 0 THEN e + WordBase ELSE e
  BY <1>1, <1>2, CutOnce, Bases
<1>4. d \in Word
  BY <1>2, <1>3, Bases DEF Word
<1>5. Signed(d) < 0 <=> d >= SignBit
  BY <1>4, SignedRange
<1>6. (e < 0 /\ ~OutsideSword(e)) => Signed(d) < 0
  BY <1>2, <1>3, <1>5, Bases DEF OutsideSword, SWORD_MIN, SWORD_MAX
<1>7. (e < 0 /\ OutsideSword(e)) => ~(Signed(d) < 0)
  BY <1>2, <1>3, <1>5, Bases DEF OutsideSword, SWORD_MIN, SWORD_MAX
<1>8. (e >= 0 /\ ~OutsideSword(e)) => ~(Signed(d) < 0)
  BY <1>2, <1>3, <1>5, Bases DEF OutsideSword, SWORD_MIN, SWORD_MAX
<1>9. (e >= 0 /\ OutsideSword(e)) => Signed(d) < 0
  BY <1>2, <1>3, <1>5, Bases DEF OutsideSword, SWORD_MIN, SWORD_MAX
<1>10. /\ e < 0 <=> Signed(left) < Signed(right)
       /\ e = 0 <=> Signed(left) = Signed(right)
  BY SignedRange
<1>11. d = 0 <=> e = 0
  BY <1>2, <1>3, Bases
<1>12. ~(Signed(d) < 0 <=> OutsideSword(e)) <=> e < 0
  <2>1. e >= 0 <=> ~(e < 0)
    BY <1>2
  <2>2. QED
    BY <1>6, <1>7, <1>8, <1>9, <2>1, Zenon
<1>13. QED
  BY <1>4, <1>10, <1>11, <1>12

(* What each condition reads.                                              *)
LEMMA ConditionsRead ==
  ASSUME flags \in FlagSet
  PROVE  /\ On("ZERO_SET")               <=> flags.Z
         /\ On("CARRY_SET")              <=> flags.C
         /\ On("CARRY_CLEAR")            <=> ~flags.C
         /\ On("UNSIGNED_HIGHER")        <=> flags.C /\ ~flags.Z
         /\ On("UNSIGNED_LOWER_OR_SAME") <=> ~flags.C \/ flags.Z
         /\ On("LESS")                   <=> ~(flags.N <=> flags.V)
         /\ On("LESS_OR_EQUALS")         <=> flags.Z \/ ~(flags.N <=> flags.V)
         /\ On("GREATER")                <=> ~flags.Z /\ (flags.N <=> flags.V)
         /\ On("GREATER_OR_EQUALS")      <=> (flags.N <=> flags.V)
<1>1. flags.N \in BOOLEAN /\ flags.V \in BOOLEAN
  BY DEF FlagSet
<1>2. flags.N = flags.V <=> (flags.N <=> flags.V)
  BY <1>1, Zenon
<1>3. QED
  BY <1>2, Zenon DEF On, Holds

(* What each flag of the last operation says.                              *)
LEMMA FlagsRead ==
  ASSUME IInv, last.op # "NOOP"
  PROVE  LET d == Result(last.op, last.left, last.right)
         IN  /\ flags.N <=> Signed(d) < 0
             /\ flags.Z <=> d = 0
             /\ flags.C <=> Carry(last.op, last.left, last.right)
             /\ flags.V <=> Overflow(last.op, last.left, last.right)
<1> DEFINE d == Result(last.op, last.left, last.right)
<1>1. flags = [N |-> Signed(d) < 0,
               Z |-> d = 0,
               C |-> Carry(last.op, last.left, last.right),
               V |-> Overflow(last.op, last.left, last.right),
               S |-> last.op \in SignedOps]
  BY Zenon DEF IInv, FlagsOfLast, Flags
<1> HIDE DEF d
<1>2. /\ flags.N = (Signed(d) < 0)
      /\ flags.Z = (d = 0)
      /\ flags.C = Carry(last.op, last.left, last.right)
      /\ flags.V = Overflow(last.op, last.left, last.right)
  BY <1>1, Zenon
<1>3. QED
  BY <1>2, Zenon DEF d

-----------------------------------------------------------------------------
(* After cmpr or cmpi the conditions eq, hs, lo, uh and ul decide the      *)
(* order of the operands as unsigned numbers, whatever the width of words. *)
(* Code: alu_set_unsigned_flags with vm_check_condition.                   *)
THEOREM UnsignedOrderAlways == Spec => []UnsignedOrder
<1>1. IInv => UnsignedOrder
  <2> SUFFICES ASSUME IInv, last.op = "SUB"
               PROVE  UnsignedOrder
    BY DEF UnsignedOrder
  <2>1. /\ flags.Z <=> Result("SUB", last.left, last.right) = 0
        /\ flags.C <=> last.left >= last.right
    BY FlagsRead, Zenon DEF Carry
  <2>2. last.left \in Word /\ last.right \in Word
    BY OperandsAreWords DEF IInv
  <2>3. flags.Z <=> last.left = last.right
    BY <2>1, <2>2, UnsignedDifference
  <2>4. last.left \in Int /\ last.right \in Int
    BY <2>2, Bases DEF Word
  <2>5. flags \in FlagSet
    BY DEF IInv, TypeOK
  <2>6. QED
    BY <2>1, <2>3, <2>4, <2>5, ConditionsRead DEF UnsignedOrder
<1>2. QED
  BY <1>1, FlagsAreOfLast, PTL

(* After cmpsr or cmpsi the conditions lt, le, gt and ge decide the order  *)
(* of the operands as signed numbers, also when the subtraction overflows, *)
(* whatever the width of words.                                            *)
(* Code: alu_set_signed_flags with vm_check_condition.                     *)
THEOREM SignedOrderAlways == Spec => []SignedOrder
<1>1. IInv => SignedOrder
  <2> SUFFICES ASSUME IInv, last.op = "SSUB"
               PROVE  SignedOrder
    BY DEF SignedOrder
  <2> DEFINE sl == Signed(last.left)
             sr == Signed(last.right)
             d  == Result("SSUB", last.left, last.right)
  <2>1. last.left \in Word /\ last.right \in Word
    BY OperandsAreWords DEF IInv
  <2>2. /\ flags.Z <=> d = 0
        /\ flags.N <=> Signed(d) < 0
        /\ flags.V <=> OutsideSword(sl - sr)
    BY FlagsRead, Zenon DEF Overflow
  <2>3. flags.Z <=> sl = sr
    BY <2>1, <2>2, SignedDifference
  <2>4. flags \in FlagSet
    BY DEF IInv, TypeOK
  <2>5. ~(flags.N <=> flags.V) <=> sl < sr
    BY <2>1, <2>2, SignedDifference, Zenon
  <2>6. sl \in Int /\ sr \in Int
    BY <2>1, SignedRange
  <2>7. QED
    BY <2>3, <2>4, <2>5, <2>6, ConditionsRead DEF SignedOrder
<1>2. QED
  BY <1>1, FlagsAreOfLast, PTL

-----------------------------------------------------------------------------
(* C is set by an unsigned operation exactly when its result does not fit  *)
(* in a word, by a subtraction or decrement exactly when it does, whatever *)
(* the width of words.  Code: alu_set_unsigned_flags.                      *)
THEOREM CarryIsExactAlways == Spec => []CarryIsExact
<1>1. IInv => CarryIsExact
  <2> SUFFICES ASSUME IInv
               PROVE  CarryIsExact
    OBVIOUS
  <2> DEFINE op == last.op
             l  == last.left
             r  == last.right
             e  == Exact(op, l, r)
             c  == Carry(op, l, r)
  <2>1. l \in Word /\ r \in Word
    BY OperandsAreWords DEF IInv
  <2>2. op # "NOOP" => (flags.C <=> c)
    BY FlagsRead
  <2>3. CASE op = "ADD"
    <3>1. e = l + r /\ (c <=> l + r > WORD_MAX)
      BY <2>3, Zenon DEF Exact, Carry, DivisionOps
    <3>2. QED
      BY <2>1, <2>2, <2>3, <3>1, Bases DEF CarryIsExact, Word, WORD_MAX
  <2>4. CASE op = "MUL"
    <3>1. e = l * r /\ (c <=> l * r > WORD_MAX)
      BY <2>4, Zenon DEF Exact, Carry, DivisionOps
    <3>2. l * r \in Nat
      BY <2>1, Bases DEF Word
    <3>3. QED
      BY <2>2, <2>4, <3>1, <3>2, Bases DEF CarryIsExact, Word, WORD_MAX
  <2>5. CASE op = "INC"
    <3>1. e = l + 1 /\ (c <=> l = WORD_MAX)
      BY <2>5, Zenon DEF Exact, Carry, DivisionOps
    <3>2. QED
      BY <2>1, <2>2, <2>5, <3>1, Bases DEF CarryIsExact, Word, WORD_MAX
  <2>6. CASE op = "SUB"
    <3>1. e = l - r /\ (c <=> l >= r)
      BY <2>6, Zenon DEF Exact, Carry, DivisionOps
    <3>2. QED
      BY <2>1, <2>2, <2>6, <3>1, Bases DEF CarryIsExact, Word
  <2>7. CASE op = "DEC"
    <3>1. e = l - 1 /\ (c <=> l >= 1)
      BY <2>7, Zenon DEF Exact, Carry, DivisionOps
    <3>2. QED
      BY <2>1, <2>2, <2>7, <3>1, Bases DEF CarryIsExact, Word
  <2>8. CASE op \notin {"ADD", "MUL", "INC", "SUB", "DEC"}
    BY <2>8 DEF CarryIsExact
  <2>9. QED
    BY <2>3, <2>4, <2>5, <2>6, <2>7, <2>8
<1>2. QED
  BY <1>1, FlagsAreOfLast, PTL

(* Every comparing condition says the order of the operands, signed or     *)
(* unsigned as they were compared, whatever the width of words.            *)
(* Code: vm_check_condition with the flags of alu_compute.                 *)
THEOREM ConditionsOrderAlways == Spec => []ConditionsOrder
BY UnsignedOrderAlways, SignedOrderAlways, PTL DEF ConditionsOrder

(* Of the signed quotients only that of the least word by -1 overflows.    *)
LEMMA QuotientOverflow ==
  ASSUME NEW a \in Int, NEW b \in Int, b # 0,
         SWORD_MIN <= a, a <= SWORD_MAX, SWORD_MIN <= b, b <= SWORD_MAX
  PROVE  /\ OutsideSword(Quotient(a, b)) <=> (a = SWORD_MIN /\ b = -1)
         /\ ~OutsideSword(Remainder(a, b))
<1> DEFINE m == Magnitude(a)
           n == Magnitude(b)
           q == m \div n
           z == m % n
<1>1. /\ m \in Nat /\ m <= SignBit
      /\ n \in Nat /\ n > 0 /\ n <= SignBit
      /\ SignBit \in Nat
  BY Bases DEF Magnitude, SWORD_MIN, SWORD_MAX
<1>2. /\ q \in Nat /\ z \in Nat /\ z < n /\ q <= m
      /\ n = 1 => q = m
      /\ n > 1 => 2 * q <= m
  BY <1>1, DivisionOfNats
<1>3. Quotient(a, b) = IF (a < 0) = (b < 0) THEN q ELSE -q
  BY Zenon DEF Quotient
<1>4. Remainder(a, b) = IF a < 0 THEN -z ELSE z
  BY Zenon DEF Remainder
<1> HIDE DEF q, z
<1>5. ~OutsideSword(Remainder(a, b))
  BY <1>1, <1>2, <1>4 DEF OutsideSword, SWORD_MIN, SWORD_MAX
<1>6. CASE a = SWORD_MIN /\ b = -1
  <2>1. n = 1 /\ m = SignBit /\ a < 0 /\ b < 0
    <3>1. a = -SignBit /\ a < 0 /\ b < 0
      BY <1>6, Bases DEF SWORD_MIN
    <3>2. n = -b /\ m = -a
      BY <3>1 DEF Magnitude
    <3>3. QED
      BY <1>6, <3>1, <3>2, Bases
  <2>2. Quotient(a, b) = SignBit
    BY <1>2, <1>3, <2>1
  <2>3. QED
    BY <1>5, <1>6, <2>2, Bases DEF OutsideSword, SWORD_MIN, SWORD_MAX
<1>7. CASE ~(a = SWORD_MIN /\ b = -1)
  <2>1. q < SignBit \/ (q = SignBit /\ ~((a < 0) = (b < 0)))
    <3>1. CASE n > 1
      BY <1>1, <1>2, <3>1, Bases
    <3>2. CASE n = 1
      <4>1. b = 1 \/ b = -1
        BY <3>2 DEF Magnitude
      <4>2. q = m
        BY <1>2, <3>2
      <4>3. m = SignBit => a = SWORD_MIN
        BY Bases DEF Magnitude, SWORD_MIN, SWORD_MAX
      <4>4. m = SignBit => a < 0
        BY <4>3, Bases DEF SWORD_MIN
      <4>5. QED
        BY <1>1, <1>7, <4>1, <4>2, <4>3, <4>4
    <3>3. QED
      BY <1>1, <3>1, <3>2
  <2>2. ~OutsideSword(Quotient(a, b))
    BY <1>1, <1>2, <1>3, <2>1 DEF OutsideSword, SWORD_MIN, SWORD_MAX
  <2>3. QED
    BY <1>5, <1>7, <2>2
<1>8. QED
  BY <1>6, <1>7

(* V is set exactly when the mathematical result of a signed operation     *)
(* does not fit in a signed word, and never by an unsigned operation,      *)
(* whatever the width of words.  Code: alu_set_signed_flags.               *)
THEOREM OverflowIsExactAlways == Spec => []OverflowIsExact
<1>1. IInv => OverflowIsExact
  <2> SUFFICES ASSUME IInv
               PROVE  OverflowIsExact
    OBVIOUS
  <2> DEFINE op == last.op
             l  == last.left
             r  == last.right
             e  == Exact(op, l, r)
             v  == Overflow(op, l, r)
  <2>1. l \in Word /\ r \in Word
    BY OperandsAreWords DEF IInv
  <2>2. op # "NOOP" => (flags.V <=> v) /\ ~DividesByZero(op, r)
    BY FlagsRead DEF IInv, FlagsOfLast
  <2>3. CASE op \notin SignedOps
    <3>1. ~v
      BY <2>3, Zenon DEF Overflow, SignedOps
    <3>2. ~flags.V
      BY <2>2, <3>1 DEF IInv
    <3>3. QED
      BY <2>3, <3>2 DEF OverflowIsExact
  <2>4. CASE op \in {"SADD", "SSUB", "SMUL"}
    <3>1. v <=> OutsideSword(e)
      BY <2>4, Zenon DEF Overflow, Exact, DivisionOps
    <3>2. op \in SignedOps /\ op # "NOOP"
      BY <2>4 DEF SignedOps
    <3>3. QED
      BY <2>2, <3>1, <3>2, Zenon DEF OverflowIsExact
  <2>5. CASE op \in {"SDIV", "SMOD"}
    <3>1. op \in SignedOps /\ op # "NOOP" /\ op \in DivisionOps
      BY <2>5 DEF SignedOps, DivisionOps
    <3>2. r # 0
      BY <2>2, <3>1 DEF DividesByZero
    <3>3. Signed(r) # 0
      BY <2>1, <3>2, Bases DEF Word, Signed
    <3>4. /\ op = "SDIV" => e = Quotient(Signed(l), Signed(r))
          /\ op = "SMOD" => e = Remainder(Signed(l), Signed(r))
      BY <2>5, <3>2, Zenon DEF Exact, DivisionOps
    <3>5. /\ op = "SDIV" => (v <=> (Signed(l) = SWORD_MIN /\ Signed(r) = -1))
          /\ op = "SMOD" => ~v
      BY <2>5, Zenon DEF Overflow
    <3>6. v <=> OutsideSword(e)
      BY <2>1, <2>5, <3>3, <3>4, <3>5, SignedRange, QuotientOverflow
    <3>7. QED
      BY <2>2, <3>1, <3>6, Zenon DEF OverflowIsExact
  <2>6. QED
    BY <2>3, <2>4, <2>5 DEF SignedOps
<1>2. QED
  BY <1>1, FlagsAreOfLast, PTL

(* C and V both say exactly whether the result fits, whatever the width of *)
(* words.  Code: alu_set_unsigned_flags and alu_set_signed_flags.          *)
THEOREM FlagsAreExactAlways == Spec => []FlagsAreExact
BY CarryIsExactAlways, OverflowIsExactAlways, PTL DEF FlagsAreExact

(* A signed value is its word, turned at most once by the number of words. *)
LEMMA SignedIsTurned ==
  ASSUME NEW w \in Word
  PROVE  \E k \in Int : Signed(w) = w + k * WordBase
<1>1. CASE w < SignBit
  <2>1. Signed(w) = w + 0 * WordBase
    BY <1>1, Bases DEF Signed, Word
  <2>2. QED
    BY <2>1
<1>2. CASE ~(w < SignBit)
  <2>1. Signed(w) = w + (-1) * WordBase
    BY <1>2, Bases DEF Signed, Word
  <2>2. QED
    BY <2>1
<1>3. QED
  BY <1>1, <1>2

(* A signed operation and its unsigned variant leave the same word for     *)
(* addition, subtraction and multiplication, whatever the width of words.  *)
(* Code: the OP_S cases of alu_compute against the plain ones.             *)
THEOREM TwosComplementAlways == Spec => []TwosComplement
<1>1. IInv => TwosComplement
  <2> SUFFICES ASSUME IInv
               PROVE  TwosComplement
    OBVIOUS
  <2> DEFINE l == last.left
             r == last.right
             W == WordBase
  <2>1. l \in Word /\ r \in Word
    BY OperandsAreWords DEF IInv
  <2>2. l \in Int /\ r \in Int /\ W \in Int
    BY <2>1, Bases DEF Word
  <2>3. PICK j \in Int : Signed(l) = l + j * W
    BY <2>1, SignedIsTurned
  <2>4. PICK k \in Int : Signed(r) = r + k * W
    BY <2>1, SignedIsTurned
  <2>5. /\ Result("SADD", l, r) = ToWord(Signed(l) + Signed(r))
        /\ Result("SSUB", l, r) = ToWord(Signed(l) - Signed(r))
        /\ Result("SMUL", l, r) = ToWord(Signed(l) * Signed(r))
        /\ Result("ADD", l, r) = ToWord(l + r)
        /\ Result("SUB", l, r) = ToWord(l - r)
        /\ Result("MUL", l, r) = ToWord(l * r)
    BY Zenon DEF Result, Exact, DivisionOps
  <2> HIDE DEF W, l, r
  <2>6. ToWord(Signed(l) + Signed(r)) = ToWord(l + r)
    <3>1. Signed(l) + Signed(r) = (l + r) + (j + k) * W
      BY <2>2, <2>3, <2>4
    <3>2. l + r \in Int /\ j + k \in Int
      BY <2>2
    <3>3. QED
      BY <3>1, <3>2, ToWordTurns DEF W
  <2>7. ToWord(Signed(l) - Signed(r)) = ToWord(l - r)
    <3>1. Signed(l) - Signed(r) = (l - r) + (j - k) * W
      BY <2>2, <2>3, <2>4
    <3>2. l - r \in Int /\ j - k \in Int
      BY <2>2
    <3>3. QED
      BY <3>1, <3>2, ToWordTurns DEF W
  <2>8. ToWord(Signed(l) * Signed(r)) = ToWord(l * r)
    <3> DEFINE t == (j * r + k * l) + (j * k) * W
    <3>1. Signed(l) * Signed(r) = (l * r) + t * W
      BY <2>2, <2>3, <2>4
    <3>2. l * r \in Int /\ t \in Int
      BY <2>2
    <3> HIDE DEF t
    <3>3. QED
      BY <3>1, <3>2, ToWordTurns DEF W
  <2>9. QED
    BY <2>5, <2>6, <2>7, <2>8, Zenon DEF TwosComplement, l, r
<1>2. QED
  BY <1>1, FlagsAreOfLast, PTL

-----------------------------------------------------------------------------
(* Truncated quotient and remainder belong together.                       *)
LEMMA TruncatedDivision ==
  ASSUME NEW a \in Int, NEW b \in Int, b # 0
  PROVE  LET q == Quotient(a, b)
             z == Remainder(a, b)
         IN  /\ q \in Int /\ z \in Int
             /\ q * b + z = a
             /\ Magnitude(z) < Magnitude(b)
             /\ z = 0 \/ (z < 0 <=> a < 0)
             /\ Magnitude(q) <= Magnitude(a)
<1> DEFINE m == Magnitude(a)
           n == Magnitude(b)
           k == m \div n
           y == m % n
<1>1. m \in Nat /\ n \in Nat /\ n > 0
  BY DEF Magnitude
<1>2. /\ k \in Nat /\ y \in Nat /\ y < n /\ k <= m
      /\ m = n * k + y
  BY <1>1, DivisionOfNats
<1>3. Quotient(a, b) = IF (a < 0) = (b < 0) THEN k ELSE -k
  BY Zenon DEF Quotient
<1>4. Remainder(a, b) = IF a < 0 THEN -y ELSE y
  BY Zenon DEF Remainder
<1>5. /\ a < 0 => m = -a
      /\ ~(a < 0) => m = a
      /\ b < 0 => n = -b
      /\ ~(b < 0) => n = b
  BY DEF Magnitude
<1> HIDE DEF k, y
<1>6. Quotient(a, b) * b + Remainder(a, b) = a
  <2>1. CASE a < 0 /\ b < 0
    <3>1. Quotient(a, b) = k /\ Remainder(a, b) = -y /\ b = -n /\ a = -m
      BY <1>1, <1>3, <1>4, <1>5, <2>1
    <3>2. k * (-n) + -y = -(n * k + y)
      BY <1>1, <1>2
    <3>3. QED
      BY <1>2, <3>1, <3>2
  <2>2. CASE a < 0 /\ ~(b < 0)
    <3>1. Quotient(a, b) = -k /\ Remainder(a, b) = -y /\ b = n /\ a = -m
      BY <1>1, <1>3, <1>4, <1>5, <2>2
    <3>2. (-k) * n + -y = -(n * k + y)
      BY <1>1, <1>2
    <3>3. QED
      BY <1>2, <3>1, <3>2
  <2>3. CASE ~(a < 0) /\ b < 0
    <3>1. Quotient(a, b) = -k /\ Remainder(a, b) = y /\ b = -n /\ a = m
      BY <1>1, <1>3, <1>4, <1>5, <2>3
    <3>2. (-k) * (-n) + y = n * k + y
      BY <1>1, <1>2
    <3>3. QED
      BY <1>2, <3>1, <3>2
  <2>4. CASE ~(a < 0) /\ ~(b < 0)
    <3>1. Quotient(a, b) = k /\ Remainder(a, b) = y /\ b = n /\ a = m
      BY <1>1, <1>3, <1>4, <1>5, <2>4
    <3>2. k * n + y = n * k + y
      BY <1>1, <1>2
    <3>3. QED
      BY <1>2, <3>1, <3>2
  <2>5. QED
    BY <2>1, <2>2, <2>3, <2>4
<1>7. Magnitude(Remainder(a, b)) = y /\ Magnitude(Quotient(a, b)) = k
  BY <1>2, <1>3, <1>4 DEF Magnitude
<1>8. Remainder(a, b) = 0 \/ (Remainder(a, b) < 0 <=> a < 0)
  BY <1>2, <1>4
<1>9. QED
  BY <1>2, <1>3, <1>4, <1>6, <1>7, <1>8

(* A signed value cut to a word and cast back is itself, or has made one   *)
(* turn if it is the one value too large that a division can give.         *)
LEMMA CastBack ==
  ASSUME NEW i \in Int, SWORD_MIN <= i, i <= SignBit
  PROVE  /\ i <= SWORD_MAX => Signed(ToWord(i)) = i
         /\ \E t \in Int : Signed(ToWord(i)) = i + t * WordBase
<1>1. /\ SignBit \in Nat /\ WordBase \in Nat /\ WordBase = 2 * SignBit
      /\ SignBit > 0
  BY Bases
<1>2. ToWord(i) = IF i < 0 THEN i + WordBase ELSE i
  BY <1>1, CutOnce DEF SWORD_MIN
<1>3. i <= SWORD_MAX => Signed(ToWord(i)) = i
  BY <1>1, <1>2 DEF Signed, SWORD_MIN, SWORD_MAX
<1>4. CASE i <= SWORD_MAX
  <2>1. Signed(ToWord(i)) = i + 0 * WordBase
    BY <1>1, <1>3, <1>4
  <2>2. QED
    BY <1>3, <2>1
<1>5. CASE ~(i <= SWORD_MAX)
  <2>1. Signed(ToWord(i)) = i + (-1) * WordBase
    BY <1>1, <1>2, <1>5 DEF Signed, SWORD_MAX
  <2>2. QED
    BY <1>5, <2>1
<1>6. QED
  BY <1>4, <1>5

(* The unsigned quotient and remainder of words.                           *)
LEMMA UnsignedDivision ==
  ASSUME NEW l \in Word, NEW r \in Word, r # 0
  PROVE  /\ Result("DIV", l, r) * r + Result("MOD", l, r) = l
         /\ Result("MOD", l, r) < r
<1> DEFINE k == l \div r
           y == l % r
<1>1. l \in Nat /\ r \in Nat /\ r > 0 /\ l < WordBase /\ r < WordBase
      /\ WordBase \in Nat
  BY Bases DEF Word
<1>2. k \in Nat /\ y \in Nat /\ y < r /\ k <= l /\ l = r * k + y
  BY <1>1, DivisionOfNats
<1>3. Result("DIV", l, r) = ToWord(k) /\ Result("MOD", l, r) = ToWord(y)
  BY Zenon DEF Result, Exact, DivisionOps
<1> HIDE DEF k, y
<1>4. k \in Word /\ y \in Word
  BY <1>1, <1>2 DEF Word
<1>5. Result("DIV", l, r) = k /\ Result("MOD", l, r) = y
  BY <1>3, <1>4, ToWordOfWord
<1>6. QED
  BY <1>1, <1>2, <1>5

(* The signed quotient and remainder of words.                             *)
LEMMA SignedDivision ==
  ASSUME NEW l \in Word, NEW r \in Word, r # 0
  PROVE  LET sm == Signed(Result("SMOD", l, r))
         IN  /\ ToWord(Signed(Result("SDIV", l, r)) * Signed(r) + sm) = l
             /\ Magnitude(sm) < Magnitude(Signed(r))
             /\ sm = 0 \/ (sm < 0 <=> Signed(l) < 0)
<1> DEFINE a == Signed(l)
           b == Signed(r)
           q == Quotient(a, b)
           z == Remainder(a, b)
<1>1. /\ a \in Int /\ SWORD_MIN <= a /\ a <= SWORD_MAX
      /\ b \in Int /\ SWORD_MIN <= b /\ b <= SWORD_MAX
      /\ b # 0
  BY SignedRange, SignedType
<1>2. /\ SignBit \in Nat /\ WordBase \in Nat
      /\ SWORD_MIN = -SignBit /\ SWORD_MAX = SignBit - 1
  BY Bases DEF SWORD_MIN, SWORD_MAX
<1>3. Result("SDIV", l, r) = ToWord(q) /\ Result("SMOD", l, r) = ToWord(z)
  BY Zenon DEF Result, Exact, DivisionOps
<1>4. PICK j \in Int : a = l + j * WordBase
  BY SignedIsTurned
<1> HIDE DEF a, b
<1>5. /\ q \in Int /\ z \in Int
      /\ q * b + z = a
      /\ Magnitude(z) < Magnitude(b)
      /\ z = 0 \/ (z < 0 <=> a < 0)
      /\ Magnitude(q) <= Magnitude(a)
  BY <1>1, TruncatedDivision
<1> HIDE DEF q, z
<1>6. SWORD_MIN <= z /\ z <= SWORD_MAX /\ SWORD_MIN <= q /\ q <= SignBit
  BY <1>1, <1>2, <1>5 DEF Magnitude
<1>7. Signed(ToWord(z)) = z
  BY <1>2, <1>5, <1>6, CastBack
<1>8. PICK t \in Int : Signed(ToWord(q)) = q + t * WordBase
  BY <1>2, <1>5, <1>6, CastBack
<1>9. ToWord((q + t * WordBase) * b + z) = l
  <2> DEFINE W == WordBase
             u == j + t * b
  <2>1. W \in Int /\ u \in Int /\ l \in Int
    BY <1>1, <1>2, <1>4, <1>8 DEF Word
  <2>2. (q + t * W) * b + z = (q * b + z) + (t * b) * W
    BY <1>1, <1>5, <1>8, <2>1
  <2>3. j * W + (t * b) * W = u * W
    BY <1>1, <1>4, <1>8, <2>1
  <2>4. (q * b + z) + (t * b) * W = l + u * W
    <3> DEFINE x == (t * b) * W
               v == j * W
    <3>1. x \in Int /\ v \in Int
      BY <1>1, <1>4, <1>8, <2>1
    <3> HIDE DEF x, v, W, u
    <3>2. q * b + z = l + v
      BY <1>4, <1>5 DEF v, W
    <3>3. v + x = u * W
      BY <2>3 DEF v, x
    <3>4. (l + v) + x = l + (v + x)
      BY <2>1, <3>1
    <3>5. QED
      BY <3>2, <3>3, <3>4 DEF x
  <2> HIDE DEF u
  <2>5. ToWord(l + u * WordBase) = ToWord(l)
    BY <2>1, ToWordTurns
  <2>6. QED
    BY <2>2, <2>4, <2>5, ToWordOfWord
<1>10. QED
  BY <1>3, <1>5, <1>7, <1>8, <1>9 DEF a, b

(* Quotient and remainder belong together, signed and unsigned, for every  *)
(* width of words.  Code: the division and modulo cases of alu_compute.    *)
THEOREM DivisionIdentityAlways == Spec => []DivisionIdentity
<1>1. IInv => DivisionIdentity
  <2> SUFFICES ASSUME IInv, last.op \in DivisionOps
               PROVE  DivisionIdentity
    BY DEF DivisionIdentity
  <2>1. last.left \in Word /\ last.right \in Word
    BY OperandsAreWords DEF IInv
  <2>2. last.op # "NOOP"
    BY DEF DivisionOps
  <2>3. last.right # 0
    BY <2>2 DEF IInv, FlagsOfLast, DividesByZero
  <2>4. QED
    BY <2>1, <2>3, UnsignedDivision, SignedDivision, Zenon DEF DivisionIdentity
<1>2. QED
  BY <1>1, FlagsAreOfLast, PTL
=============================================================================
