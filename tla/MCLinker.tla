------------------------------ MODULE MCLinker ------------------------------
(***************************************************************************)
(* Links of up to three of a dozen objects.  Bytes have four values, hence *)
(* words 256, and the ROM 40 bytes.                                        *)
(***************************************************************************)
EXTENDS LinkProperties, FiniteSetsExt, SequencesExt

Bits == 0..1
ByteConjunction(a, b) ==
  MapThenSumSet(LAMBDA i : IF (a \div 2^i) % 2 = 1 /\ (b \div 2^i) % 2 = 1
                             THEN 2^i ELSE 0, Bits)
MCByteAnd == [a \in Byte |-> [b \in Byte |-> ByteConjunction(a, b)]]

Section(type, size, alignment, located, address) ==
  [type |-> type, located |-> located, alignment |-> alignment,
   address |-> address, size |-> size,
   data |-> [k \in 1..size |-> IF type = "bss" THEN 0 ELSE k % ByteBase]]
Auto(type, size, alignment) == Section(type, size, alignment, FALSE, 0)
At(type, size, address)     == Section(type, size, 1, TRUE, address)

Sym(name, section, value, binding) ==
  [name |-> name, section |-> section, value |-> value, binding |-> binding]
Undefined(name) == Sym(name, 0, 0, "global")

Rel(section, offset, pcRelative, symbol, addend) ==
  [section |-> section, offset |-> offset, pcRelative |-> pcRelative,
   symbol |-> symbol, addend |-> addend]

Obj(sections, syms, relocations, entrySymbol) ==
  [valid |-> TRUE, kind |-> "object", sections |-> sections, symbols |-> syms,
   relocations |-> relocations, entrySymbol |-> entrySymbol]

Main ==     \* refers to itself and to the library, relatively and absolutely
  Obj(<<Auto("text", 13, 4)>>,
      <<Sym("start", 1, 0, "global"), Undefined("helper"),
        Sym("loop", 1, 4, "local")>>,
      <<Rel(1, 0, FALSE, 2, 0), Rel(1, 4, TRUE, 2, -4), Rel(1, 8, FALSE, 3, 1),
        Rel(1, 9, TRUE, 1, 0)>>,
      NoName)
Library ==  \* two sections, and a name of its own that is also elsewhere
  Obj(<<Auto("text", 4, 8), Auto("data", 6, 2)>>,
      <<Sym("helper", 1, 0, "global"), Sym("loop", 2, 2, "local"),
        Undefined("start")>>,
      <<Rel(2, 1, FALSE, 2, 2), Rel(1, 0, TRUE, 3, 0)>>, "main")
Weak ==     \* definitions that other objects do not see
  Obj(<<Auto("text", 4, 1), Auto("bss", 3, 1)>>,
      <<Sym("helper", 1, 0, "weak"), Sym("start", 1, 2, "local")>>,
      << >>, "start")
Low ==      \* at zero, where the cursor goes back
  Obj(<<At("text", 4, 0)>>, <<Sym("main", 1, 0, "global")>>, << >>, NoName)
Middle ==   \* located behind what is placed by itself
  Obj(<<At("data", 8, 20), Auto("text", 2, 4)>>,
      <<Sym("main", 2, 0, "global")>>, << >>, NoName)
High ==     \* up to the last byte of the ROM, nothing fits behind
  Obj(<<At("data", 4, RomSize - 4)>>, <<Sym("table", 1, 0, "global")>>,
      << >>, NoName)
Beyond == Obj(<<At("data", 4, RomSize - 3)>>, << >>, << >>, NoName)
Entries ==  \* an entry that is not in the text
  Obj(<<Auto("bss", 4, 1)>>, <<Sym("main", 1, 0, "global")>>, << >>, "main")
Far ==      \* a symbol beyond its section, near the end of the words
  Obj(<<Auto("text", 4, 1)>>, <<Sym("helper", 1, WORD_MAX - 3, "global")>>,
      <<Rel(1, 0, FALSE, 1, -20)>>, NoName)
Behind ==   \* refers before address zero
  Obj(<<Auto("text", 4, 1)>>, <<Sym("start", 1, 0, "global")>>,
      <<Rel(1, 0, FALSE, 1, -9)>>, NoName)
Empty   == Obj(<< >>, <<Undefined("start")>>, << >>, NoName)
Invalid == [Main EXCEPT !.valid = FALSE]
Program == [Main EXCEPT !.kind = "executable"]

MCNames == {"start", "helper", "loop", "main", "table"}

Pool == {Main, Library, Weak, Low, Middle, High, Beyond, Entries, Far, Behind,
         Empty, Invalid, Program}

MaxObjects == 3

MCRequests ==
  {[objects |-> list, entry |-> name] :
     list \in UNION {[1..n -> Pool] : n \in 1..MaxObjects},
     name \in {NoName, "start", "main"}}
=============================================================================
