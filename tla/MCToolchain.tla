----------------------------- MODULE MCToolchain -----------------------------
(***************************************************************************)
(* Sources of one file (MCAssembler) and programs of up to three files of  *)
(* up to three lines, in a ROM of 60 bytes.                                *)
(***************************************************************************)
EXTENDS Toolchain, MCAssembler

Data    == One("section", Id("data"))
Text    == One("section", Id(".text"))
Pair(label) == Dir(label, "byte", <<Num(5), Num(6)>>)

BuildPool ==
  {Nop("a"), Jump("start", "b"), Jump(NoName, "a"), Data, Pair("b"),
   One("global", Id("a")), One("extern", Id("b")), One("entry", Id("b"))}

Lines(n) == UNION {[1..k -> BuildPool] : k \in 1..n}

(* Other files: a library, one with the same names, one that refers back,  *)
(* one in the data, one with an entry, one for each error of the linker.   *)
Library   == <<One("global", Id("b")), Nop(NoName), Nop("b")>>
Namesake  == <<Nop("b"), Jump("a", "b")>>
Back      == <<One("extern", Id("a")), Jump("b", "a"), One("global", Id("b"))>>
Located   == <<Data, One("locate", Num(40)), Pair("b"), One("global", Id("b"))>>
Crossing  == <<Data, Pair(NoName), Pair("b"), Text, One("align", Num(4)),
               Jump("start", "b")>>
WithEntry == <<One("entry", Id("main")), Nop(NoName), Nop("main")>>
Twice     == <<One("global", Id("a")), Nop("a")>>
AtZero    == <<One("locate", Num(0)), Nop("start")>>
Companions == {Library, Namesake, Back, Located, Crossing, WithEntry, Twice, AtZero}

AsSources(list) == [f \in DOMAIN list |-> [lines |-> list[f], object |-> TRUE]]

Lists(n) ==
  {<<one>> : one \in Lines(n)}
    \cup {<<one, two>> : one \in Lines(n) \cup Companions, two \in Companions}

FileBuilds ==
  {[sources |-> AsSources(list), entry |-> NoName] :
     list \in Lists(3) \cup {<<one, two, three>> : one, two, three \in Companions}}
    \cup {[sources |-> AsSources(list), entry |-> "a"] : list \in Lists(2)}

MCBuilds ==
  FileBuilds
    \cup {[sources |-> <<one>>, entry |-> NoName] : one \in SingleSources}

MCSourceLines ==
  Good \cup Others \cup Layout \cup BuildPool
    \cup UNION {Range(file) : file \in Companions}
=============================================================================
