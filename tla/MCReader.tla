------------------------------ MODULE MCReader ------------------------------
(***************************************************************************)
(* Texts that are made of tokens with white space between, which is what   *)
(* the parser is tried with, and texts of any characters, numbers with     *)
(* each prefix, and texts that begin in the middle of a line.              *)
(***************************************************************************)
EXTENDS Reader

Strings(chars, n) == UNION {[1..k -> chars] : k \in 0..n}

Spaced(lexemes) == FlattenSeq([k \in 1..Len(lexemes) |-> lexemes[k] \o <<"sp">>])

Few == {<<"movi">>, <<"$", "t0">>, <<"a", ":">>, <<",">>, <<"nl">>, <<".", "word">>}
Core == Few \cup {<<";", "c", "nl">>}
Pool == Core \cup {<<"1">>, <<".", "what">>, <<"dq", "s", "nl", "dq">>, <<"#", "a">>}

(* Longer ones, of one statement.                                          *)
Operands == {<<"jmp">>, <<"$", "t1">>, <<"#", "a">>, <<"sq", "c", "sq">>, <<"nl">>}

TokenTexts ==
  {Spaced(s) : s \in Strings(Few, 5) \cup Strings(Core, 4) \cup Strings(Pool, 3)}
    \cup {Spaced(<<<<"b", ":">>>> \o s) : s \in Strings(Operands, 5)}

AnyTexts == Strings({"a", ":", "0", "x", "_", ";", ",", ".", "dq", "sq", "nl", "sp"}, 4)

NumberTexts ==
  {prefix \o digits \o end : prefix \in {<< >>, <<"0", "x">>, <<"0", "o">>, <<"0", "b">>},
                             digits \in Strings({"0", "1", "9", "f", "_"}, 4),
                             end \in {<<";">>, <<"sp">>}}
    \cup {<<"0", "b">> \o bits : bits \in Strings({"0", "1"}, 6)}

AtBegin(texts)  == {[text |-> t, pos |-> 0, line |-> 1, col |-> 1] : t \in texts}
InMiddle(texts) == {[text |-> t, pos |-> 40, line |-> 3, col |-> 7] : t \in texts}

MCSources ==
  AtBegin(TokenTexts \cup AnyTexts \cup NumberTexts)
    \cup InMiddle(Strings({"a", "1", ".", "dq", "nl", "sp"}, 4))
=============================================================================
