------------------------------- MODULE ZlWord -------------------------------
(***************************************************************************)
(* The numbers the virtual machine computes with (include/Types.h).  A     *)
(* byte is one digit in base ByteBase (256 in the code), a halfword is two *)
(* of them and a word four; the base is a parameter so that the same       *)
(* definitions serve the proofs and small exhaustive checks.               *)
(***************************************************************************)
EXTENDS Integers

CONSTANTS
  ByteBase,   \* the number of values of a byte
  ByteAnd     \* the bitwise conjunction of two bytes, ByteAnd[a][b]

Byte == 0..(ByteBase - 1)

ASSUME ByteBaseAssumption ==
  /\ ByteBase \in Nat
  /\ ByteBase >= 2
  /\ ByteBase % 2 = 0

(* All that is used of the conjunction: it clears bits of its operands and *)
(* the disjunction a + b - (a & b) is a byte again.                        *)
ASSUME ByteAndAssumption ==
  /\ ByteAnd \in [Byte -> [Byte -> Byte]]
  /\ \A a, b \in Byte : /\ ByteAnd[a][b] <= a
                        /\ ByteAnd[a][b] <= b
                        /\ a + b - ByteAnd[a][b] < ByteBase

HwordBase == ByteBase * ByteBase
WordBase  == HwordBase * HwordBase

Hword == 0..(HwordBase - 1)
Word  == 0..(WordBase - 1)

WORD_MAX == WordBase - 1

(* A conversion to the unsigned type keeps the value modulo its width.     *)
ToWord(i) == i % WordBase

(* The cast to sword: words from SignBit on are the negative numbers.      *)
SignBit == (ByteBase \div 2) * ByteBase * HwordBase

SWORD_MIN == -SignBit
SWORD_MAX == SignBit - 1

Signed(w) == IF w < SignBit THEN w ELSE w - WordBase

(* The four bytes of a word, least significant first.                      *)
ByteWeight == <<1, ByteBase, HwordBase, HwordBase * ByteBase>>
ByteOf(w, i) == (w \div ByteWeight[i + 1]) % ByteBase

JoinHword(b0, b1) == b0 + ByteBase * b1
JoinWord(h0, h1)  == h0 + HwordBase * h1

(* Applies a bitwise operation on bytes to every byte of two words.        *)
Bytewise(F(_, _), v, w) ==
  LET At(i) == F(ByteOf(v, i), ByteOf(w, i))
  IN  JoinWord(JoinHword(At(0), At(1)), JoinHword(At(2), At(3)))

ByteConj(a, b) == ByteAnd[a][b]
ByteDisj(a, b) == a + b - ByteAnd[a][b]
ByteExcl(a, b) == a + b - 2 * ByteAnd[a][b]

WordNot(w)    == WORD_MAX - w
WordAnd(v, w) == Bytewise(ByteConj, v, w)
WordOr(v, w)  == Bytewise(ByteDisj, v, w)
WordXor(v, w) == Bytewise(ByteExcl, v, w)
=============================================================================
