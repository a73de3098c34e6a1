----------------------------- MODULE ObjectFile -----------------------------
(***************************************************************************)
(* A relocatable object as the decoder hands it over (include/Image.h).    *)
(* Indices count from 1, and 0 is no section (the code's                   *)
(* ZL_IMAGE_UNDEFINED_SECTION); names are compared only.                   *)
(***************************************************************************)
EXTENDS ZlWord, Sequences

CONSTANT Names   \* of symbols

FIELD_SIZE == 4

SectionTypes == {"text", "data", "bss"}
Bindings     == {"local", "global", "weak"}

(* valid_alignment.                                                        *)
PowerOfTwo(w) == w \in 1..WORD_MAX /\ WordAnd(w, w - 1) = 0

ObjectSection ==
  [type : SectionTypes, located : BOOLEAN, alignment : 1..WORD_MAX,
   address : Word, size : Nat, data : Seq(Byte)]
Symbol     == [name : Names, section : Nat, value : Word, binding : Bindings]
Relocation == [section : Nat, offset : Nat, pcRelative : BOOLEAN,
               symbol : Nat, addend : SWORD_MIN..SWORD_MAX]

(* What the decoder has checked of an object that it accepts.              *)
Decoded(object) ==
  /\ object.sections \in Seq(ObjectSection)
  /\ object.symbols \in Seq(Symbol)
  /\ object.relocations \in Seq(Relocation)
  /\ \A i \in 1..Len(object.sections) :
       LET section == object.sections[i]
       IN  /\ PowerOfTwo(section.alignment)
           /\ Len(section.data) = section.size
           /\ section.address + section.size <= WORD_MAX
  /\ \A i \in 1..Len(object.symbols) :
       object.symbols[i].section \in 0..Len(object.sections)
  /\ \A i \in 1..Len(object.relocations) :
       LET relocation == object.relocations[i]
           section    == object.sections[relocation.section]
       IN  /\ relocation.section \in 1..Len(object.sections)
           /\ relocation.symbol \in 1..Len(object.symbols)
           /\ section.type # "bss"
           /\ relocation.offset + FIELD_SIZE <= section.size
=============================================================================
