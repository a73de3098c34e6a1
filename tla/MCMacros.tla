------------------------------ MODULE MCMacros ------------------------------
(***************************************************************************)
(* All pairs out of a pool of definitions and calls, good and bad ones,    *)
(* all pairs of calls behind, and each call before, a library of four      *)
(* macros that call each other, also in a circle.                          *)
(***************************************************************************)
EXTENDS MacroProperties

Tok(kind, name) == [kind |-> kind, name |-> name, at |-> 0]
Id(piece)  == Tok("id", <<piece>>)
At(piece)  == Tok("id", <<"@", piece>>)
Dir(piece) == Tok("directive", <<piece>>)
Use(piece) == Tok("use", <<piece>>)
Lab(piece) == Tok("label", <<piece>>)
Num        == Tok("number", <<"7">>)
NL         == Tok("newline", << >>)
Comma      == Tok("comma", << >>)
Comment    == Tok("comment", << >>)
Arg(name, piece) == Tok("id", <<name, "=", piece>>)

MCRightSides ==
  [right \in {<< >>, <<"7">>, <<"f">>, <<"x">>, <<"0xG">>, <<"two">>} |->
     IF right = << >> THEN << >>
     ELSE IF right = <<"7">> THEN <<Num>>
     ELSE IF right = <<"0xG">> THEN <<Tok("malformed", << >>)>>
     ELSE IF right = <<"two">> THEN <<Num, Num>>
     ELSE <<Tok("id", right)>>]

Define(header, body) ==
  <<Dir("macro")>> \o header \o <<NL>> \o body \o <<Dir("endmacro"), NL>>

DefF == Define(<<Id("f")>>, <<Id("nop"), NL>>)
DefG == Define(<<Id("g"), Id("x"), Comma, Id("y"), Comment>>,
               <<Lab("x"), Id("h"), Id("y"), NL, Use("x"), Id("x"), NL>>)
DefH == Define(<<Id("h"), Id("x")>>, <<Id("x"), Num, NL, Id("f"), NL>>)
DefK == Define(<<Id("k")>>, <<Id("f"), NL, Lab("l"), NL, Id("nop")>>)
Back == Define(<<Id("f")>>, <<At("k"), NL>>)

BadDefinitions ==
  {Define(<<Id("f"), Id("x"), Comma, Id("x")>>, << >>),
   Define(<<Id("f"), Num>>, << >>),
   Define(<<Num>>, << >>),
   <<Dir("macro"), Id("k"), NL, Id("nop"), NL>>,
   <<Dir("macro"), Id("k"), NL, Dir("endmacro"), Comment, NL>>,
   <<Dir("endmacro"), NL>>,
   <<Dir("macro"), Id("k"), NL, Dir("endmacro"), Num, NL>>}

Definitions == {DefF, DefG, DefH, DefK, Back} \cup BadDefinitions
Libraries   == {f \o DefG \o DefH \o DefK : f \in {DefF, Back}}

CallLines ==
  {<<Id("f"), NL>>, <<Lab("l"), Id("k"), Comment, NL>>, <<At("h"), Id("f"), NL>>,
   <<Id("h"), Id("h"), NL>>, <<Id("h"), Arg("x", "f")>>,
   <<Id("g"), Id("l"), Comma, Num, NL>>, <<Id("g"), Id("l"), Arg("y", "f"), NL>>,
   <<Id("g"), Arg("y", "7"), Comma, Arg("x", "x"), NL>>,
   <<Id("g"), Arg("x", "x"), Num, NL>>, <<Id("g"), Num, Arg("x", "x"), NL>>,
   <<Id("h"), Arg("x", "0xG"), NL>>, <<Id("h"), Arg("x", "two"), NL>>,
   <<Id("h"), Num, Num, NL>>, <<Id("h"), Tok("id", <<"x", "=">>), NL>>,
   <<Id("h"), Tok("id", <<"=", "x">>), NL>>,
   <<Id("nop"), Id("f"), NL>>,
   <<Id("f"), Dir("macro"), Id("k"), NL, Dir("endmacro"), NL>>}

Pieces == Definitions \cup CallLines

MCPrograms ==
  {<< >>} \cup Pieces \cup {p \o q : p, q \in Pieces}
    \cup {l \o p \o q : l \in Libraries, p, q \in CallLines}
    \cup {p \o l : l \in Libraries, p \in CallLines}
=============================================================================
