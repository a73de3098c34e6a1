----------------------------- MODULE MCAssembler -----------------------------
(***************************************************************************)
(* Sources of one file, to a raw image and to an object.  Bytes have 64    *)
(* values (the opcodes need 56), and the ROM holds 60 bytes, which .locate *)
(* brings within reach of one or two lines.                                *)
(***************************************************************************)
EXTENDS AssemblerProperties, FiniteSetsExt, SequencesExt

Bits == 0..5
ByteConjunction(a, b) ==
  MapThenSumSet(LAMBDA i : IF (a \div 2^i) % 2 = 1 /\ (b \div 2^i) % 2 = 1
                             THEN 2^i ELSE 0, Bits)
MCByteAnd == [a \in Byte |-> [b \in Byte |-> ByteConjunction(a, b)]]

MCNames == STRING

Tok(type, value) == [type |-> type, value |-> value]
Num(value)  == Tok("int", value)
Char(value) == Tok("char", value)
Id(name)    == Tok("id", name)
Use(name)   == Tok("use", name)
Reg(name)   == Tok("alias", name)
RegNo(n)    == Tok("number", n)

Stmt(label, opcode, cond, registers, imm) ==
  [label |-> label, type |-> "stmt", opcode |-> opcode, cond |-> cond,
   registers |-> registers, imm |-> imm]
Dir(label, name, args) ==
  [label |-> label, type |-> "dir", name |-> name, args |-> args]

Nop(label)    == Stmt(label, "NOP", NoToken, << >>, NoToken)
Jump(label, to)  == Stmt(label, "JMP", NoToken, << >>, Use(to))
MoveC(label, c)  == Stmt(label, "MOVI", "eq", <<Reg("t0")>>, Char(c))
One(name, arg)   == Dir(NoName, name, <<arg>>)

(* Lines that assemble, alone or in some context.                          *)
Good ==
  {Nop("a"), Nop(""), Jump("a", "b"), Jump(NoName, "a"), Jump("b", "p.a"),
   MoveC("b", 40), Stmt(NoName, "LOADW", "le", <<RegNo(31), Reg("pc")>>, NoToken),
   One("section", Id("data")), One("section", Id(".bss")),
   One("section", Id("text")),
   Dir("b", "hword", <<Num(HwordBase - 1), Char(7)>>),
   Dir("a", "asciiz", <<Tok("string", <<9, 8>>), Num(7), Char(6)>>),
   One("space", Num(3)), One("align", Num(4)), One("locate", Num(6)),
   One("locate", Num(50)), One("global", Id("a")), One("extern", Id("b")),
   One("entry", Id("a")), One("proc", Id("p")), Dir(NoName, "endproc", << >>)}

(* Lines with every other refusal, and other widths of data.               *)
Others ==
  {Stmt(NoName, "NOPE", NoToken, << >>, NoToken),
   Stmt(NoName, "NOP", NoToken, << >>, Num(1)),
   Stmt(NoName, "MOVI", "xx", <<RegNo(32)>>, Num(1)),
   Stmt(NoName, "MOVI", NoToken, <<RegNo(32)>>, Num(1)),
   Stmt(NoName, "MOVR", NoToken, <<Reg("t0"), Reg("foo")>>, NoToken),
   Stmt("a", "INT", NoToken, << >>, Num(WORD_MAX)),
   Stmt(NoName, "INT", NoToken, << >>, Num(WORD_MAX + 1)),
   Stmt(NoName, "INT", NoToken, << >>, Char(-1)),
   Stmt(NoName, "STOREB", "zc", <<Reg("t0"), Reg("sp")>>, Num(5)),
   Stmt(NoName, "PUSHR", NoToken, <<RegNo(0)>>, NoToken),
   One("byte", Num(ByteBase)), One("byte", Char(-1)), One("byte", Id("a")),
   One("byte", Num(ByteBase - 1)), Dir(NoName, "byte", << >>),
   One("ascii", Num(ByteBase)), One("ascii", Char(5)),
   One("word", Num(WORD_MAX)), One("dword", Num(5 * WordBase + 77)),
   One("align", Num(3)), One("align", Num(0)), One("align", Num(WORD_MAX + 1)),
   One("align", Num(128)), One("locate", Num(70)),
   One("locate", Num(WORD_MAX + 1)),
   One("section", Id("weird")), One("global", Id("c")),
   Dir(NoName, "extern", <<Id("a"), Num(9)>>), Dir(NoName, "extern", << >>)}

(* Lines for longer programs of two sections with gaps.                    *)
Layout ==
  {One("section", Id("data")), One("section", Id("text")), Jump("a", "b"),
   Dir("b", "byte", <<Num(1)>>), One("align", Num(4)), One("locate", Num(9))}

Words(pool, n) == UNION {[1..k -> pool] : k \in 0..n}

SingleSources ==
  {[lines |-> list, object |-> object] :
     list \in Words(Good, 3) \cup Words(Others \cup Good, 2) \cup Words(Layout, 5),
     object \in BOOLEAN}
=============================================================================
