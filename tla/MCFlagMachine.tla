---------------------------- MODULE MCFlagMachine ---------------------------
(* Words of four two-bit bytes, with the operands around the boundaries of *)
(* the unsigned and of the signed numbers and some that fill every byte.   *)
EXTENDS FlagMachine

Bit(b, i) == IF i = 0 THEN b % 2 ELSE b \div 2
MCByteAnd ==
  [a \in Byte |-> [b \in Byte |-> Bit(a, 0) * Bit(b, 0)
                                  + 2 * Bit(a, 1) * Bit(b, 1)]]
MCOperands == {0, 1, 2, 5, 100, 127, 128, 129, 200, 254, 255}
=============================================================================
