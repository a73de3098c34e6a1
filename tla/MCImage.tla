------------------------------- MODULE MCImage ------------------------------
(***************************************************************************)
(* Small images, and files that differ from their encoding in one or two   *)
(* cells or in their length.  Bytes have four values, hence words 256.     *)
(***************************************************************************)
EXTENDS ImageProperties

Bits == 0..1
ByteConjunction(a, b) ==
  MapThenSumSet(LAMBDA i : IF (a \div 2^i) % 2 = 1 /\ (b \div 2^i) % 2 = 1
                             THEN 2^i ELSE 0, Bits)
MCByteAnd == [a \in Byte |-> [b \in Byte |-> ByteConjunction(a, b)]]
MCNames == Seq(Word)

Sec(name, type, flags, alignment, address, size) ==
  [name |-> name, type |-> type, flags |-> flags, alignment |-> alignment,
   address |-> address, size |-> size,
   data |-> IF type = BSS THEN << >> ELSE [k \in 1..size |-> k % ByteBase]]
Sym(name, section, value, binding) ==
  [name |-> name, section |-> section, value |-> value, size |-> 0,
   binding |-> binding, type |-> FUNCTION]
Rel(section, offset, type, symbol, addend) ==
  [section |-> section, offset |-> offset, type |-> type, symbol |-> symbol,
   addend |-> addend]
Img(kind, entry, entrySymbol, sections, symbols, relocations) ==
  [kind |-> kind, entry |-> entry, entrySymbol |-> entrySymbol,
   sections |-> sections, symbols |-> symbols, relocations |-> relocations]

Empty  == Img(OBJECT, 0, NoName, << >>, << >>, << >>)
Linked == Img(EXECUTABLE, 9, NoName,
              <<Sec(<<3>>, TEXT, 0, 4, 8, 4), Sec(<<1, 2>>, BSS, 1, 1, 12, 3),
                Sec(<< >>, DATA, 1, 2, 20, 2)>>, << >>, << >>)
Object == Img(OBJECT, 0, <<1, 3>>,
              <<Sec(<<3>>, BSS, 0, 4, 0, 5), Sec(<<2>>, TEXT, 0, 4, 0, 5)>>,
              <<Sym(<<1, 3>>, 1, 0, 1), Sym(<<1>>, UNDEFINED_SECTION, 0, WEAK)>>,
              <<Rel(1, 1, ABSOLUTE32, 1, -3), Rel(1, 0, PC_RELATIVE32, 0, 7)>>)
Small  == Img(OBJECT, 0, NoName, <<Sec(<< >>, DATA, 1, 1, 9, 4)>>,
              <<Sym(<<2>>, 0, 255, 0)>>, <<Rel(0, 0, ABSOLUTE32, 0, 0)>>)

Good == {Empty, Linked, Object, Small, [Linked EXCEPT !.entrySymbol = <<1>>],
         [Object EXCEPT !.entrySymbol = NoName],
         [Object EXCEPT !.entrySymbol = << >>, !.relocations = << >>],
         [Linked EXCEPT !.symbols = <<Sym(<<2, 2>>, 2, 1, 0)>>]}

Bad == {[Empty EXCEPT !.kind = 3], [Empty EXCEPT !.entry = 1],
        [Linked EXCEPT !.entry = 0], [Linked EXCEPT !.entry = 12],
        [Linked EXCEPT !.relocations = <<Rel(0, 0, ABSOLUTE32, 0, 0)>>],
        [Object EXCEPT !.relocations = <<Rel(1, 2, ABSOLUTE32, 0, 0)>>],
        [Object EXCEPT !.relocations = <<Rel(0, 0, ABSOLUTE32, 0, 0)>>],
        [Small EXCEPT !.sections[1].alignment = 3],
        [Small EXCEPT !.sections[1].address = 252],
        [Small EXCEPT !.symbols[1].section = 1],
        [Small EXCEPT !.sections = <<Sec(<< >>, DATA, 1, 1, 0, 218)>>]}

MCImages == Good \cup Bad

-----------------------------------------------------------------------------
Limits(cells) == {0, 1, 2, 3, 4, 5, 14, 15, 20, 28, Len(cells) - 1, Len(cells),
                  Len(cells) + 1, 128, WORD_MAX - 1, WORD_MAX}

(* Characters and payload are bytes, everything else may be any word.      *)
Cells(cells, p) ==
  IF p > cells[13] THEN Byte ELSE Limits(cells)

Damaged(cells) ==
  UNION {{[cells EXCEPT ![p] = v] : v \in Cells(cells, p)} : p \in DOMAIN cells}

Shortened(cells) == {SubSeq(cells, 1, n) : n \in 0..Len(cells)}

DamagedHeader(cells) ==
  UNION {{[cells EXCEPT ![p] = v, ![q] = w] :
            v \in Limits(cells), w \in Limits(cells)} :
          p \in 6..15, q \in 6..15}

Sound == {Encoded(img) : img \in {Linked, Object, Small}}

MCFiles ==
  UNION {Damaged(cells) \cup Shortened(cells) : cells \in Sound}
    \cup DamagedHeader(Encoded(Small))
=============================================================================
