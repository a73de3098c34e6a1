--------------------------- MODULE ImageProperties --------------------------
(***************************************************************************)
(* What the users of the codec rely on, whatever the file is.              *)
(***************************************************************************)
EXTENDS ImageCodec

Accepted == stage = "done" /\ error = "NONE"

(* The decoder reads cells of the buffer only, whatever offsets, counts    *)
(* and sizes the header and the records contain.                           *)
(* Code: the range checks of zl_image_decode, in_range and get_string.     *)
ReadsInside == touched \subseteq 0..(Len(file) - 1)

(* A decoded image names sections, symbols and fields that exist, in the   *)
(* form in which the linker takes them.                                    *)
AsObject(img) ==
  [sections |->
     [i \in 1..Len(img.sections) |->
        LET s == img.sections[i]
        IN  [type |-> <<"text", "data", "bss">>[s.type],
             located |-> s.flags % 2 = 1, alignment |-> s.alignment,
             address |-> s.address, size |-> s.size, data |-> s.data]],
   symbols |->
     [i \in 1..Len(img.symbols) |->
        LET s == img.symbols[i]
        IN  [name |-> s.name,
             section |-> IF s.section = UNDEFINED_SECTION THEN 0
                                                          ELSE s.section + 1,
             value |-> s.value,
             binding |-> <<"local", "global", "weak">>[s.binding + 1]]],
   relocations |->
     [i \in 1..Len(img.relocations) |->
        LET r == img.relocations[i]
        IN  [section |-> r.section + 1, offset |-> r.offset,
             pcRelative |-> r.type = PC_RELATIVE32,
             symbol |-> r.symbol + 1, addend |-> r.addend]]]

(* An accepted object is what the linker assumes of its input (it indexes  *)
(* sections and symbols and writes fields without looking again), and an   *)
(* accepted executable has no relocations and a nonzero entry in its text. *)
(* Code: the checks of the record loops and of the entry.                  *)
AcceptedIsWellFormed ==
  Accepted =>
    /\ Decoded(AsObject(image))
    /\ image.kind = EXECUTABLE =>
         /\ image.relocations = << >>
         /\ image.entry # 0
         /\ EntryInText(image.entry, image.sections)

(* What an image looks like after it was written and read: bss is zeroed,  *)
(* and only an object keeps the name of its entry.                         *)
Zeroed(section) ==
  [section EXCEPT !.data = [k \in 1..section.size |-> 0]]

Restored(img) ==
  [img EXCEPT
     !.entrySymbol = IF img.kind = EXECUTABLE THEN NoName ELSE @,
     !.sections = [i \in DOMAIN @ |->
                     IF @[i].type = BSS THEN Zeroed(@[i]) ELSE @[i]]]

(* Every image that the encoder accepts is decoded to itself.              *)
(* Code: the layout in zl_image_encode against that in zl_image_decode.    *)
RoundTrip ==
  origin # NoImage /\ stage = "done" =>
    error = "OUT_OF_MEMORY" \/ (error = "NONE" /\ image = Restored(origin))

(* A decoder that refuses, for whatever reason and after whatever part of  *)
(* the file, keeps no allocation; the rest is gone when the caller has     *)
(* called zl_image_free, which it may do after a refusal, too.             *)
(* Code: the error paths of zl_image_decode, and zl_image_free.            *)
NothingLeaks ==
  /\ stage = "done" /\ error # "NONE" => blocks = {}
  /\ stage = "freed" => blocks = {}

(* Whatever a file holds, the codec touches and keeps only what is its own.*)
(* Code: zl_image_decode and zl_image_free.                                *)
MemoryIsSafe == ReadsInside /\ NothingLeaks
=============================================================================
