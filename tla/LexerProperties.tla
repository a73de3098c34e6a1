-------------------------- MODULE LexerProperties --------------------------
(***************************************************************************)
(* What the tokens say of the text, without the way they were read.        *)
(***************************************************************************)
EXTENDS Lexer

(* The characters of the text that a place covers.                         *)
Begin(place) == place.pos - source.pos + 1
Covered(place) == Begin(place)..(Begin(place) + place.size - 1)

Places == [k \in 1..Len(lexed) |-> lexed[k].place]

(* Every character that was read is in exactly one token, or is white      *)
(* space between two; and each token has one, so that the lexer gets on.   *)
(* Code: lexer_readToken, whose branches each find an end of their own.    *)
SourceIsCovered ==
  /\ \A k \in DOMAIN Places : Covered(Places[k]) \in (SUBSET (1..(pos - 1))) \ {{}}
  /\ \A k, n \in DOMAIN Places : k < n => Max(Covered(Places[k])) < Begin(Places[n])
  /\ fault = NoFault =>
       \A i \in 1..(pos - 1) :
         Text[i] # "sp" => \E k \in DOMAIN Places : i \in Covered(Places[k])

(* Line and column of a character, counted from the beginning.             *)
LineOf(i) == source.line + Cardinality({k \in 1..(i - 1) : Text[k] = "nl"})
ColumnOf(i) ==
  LET before == {k \in 1..(i - 1) : Text[k] = "nl"}
  IN  IF before = {} THEN source.col + i - 1 ELSE i - Max(before)

(* Tokens and the diagnostic are where they say, also behind strings that  *)
(* run over lines, and in a text that is itself a part of a line.          *)
(* Code: the places that lexer_readToken fills in, lexer_nextChar.         *)
PlacesAreTrue ==
  \A place \in {lexed[k].place : k \in DOMAIN lexed}
                 \cup (IF fault = NoFault THEN {} ELSE {fault.place}) :
    /\ place.size > 0 /\ Begin(place) + place.size - 1 <= Len(Text)
    /\ place.line = LineOf(Begin(place))
    /\ place.col = ColumnOf(Begin(place))

(* A token depends on its own characters only: read without what is around *)
(* it, it is the same.  (The macro expander copies tokens to other places, *)
(* and reads the value of a named argument alone.)                         *)
(* Code: the ends that lexer_readToken looks for, and its look ahead.      *)
ReadAlone ==
  \A k \in DOMAIN lexed :
    LET place == lexed[k].place
        alone == SubSeq(Text, Begin(place), Begin(place) + place.size - 1)
    IN  /\ Flaw(alone, 1) = "NONE"
        /\ End(alone, 1) = Len(alone) + 1
        /\ Kind(alone, 1) = lexed[k].kind
        /\ Value(alone, 1) = lexed[k].value

(* The tokens are those of the text: nothing of it is left out or read     *)
(* twice, and none depends on its neighbours.  (Which token a semicolon    *)
(* belongs to is the matter of SemicolonsBeginComments.)                   *)
(* Code: lexer_readToken.                                                  *)
TokensAreTheText == SourceIsCovered /\ ReadAlone

(* "; begins a comment that continues to the end of the line"              *)
(* (docs/ISA.md): a token without quotes that has a semicolon is a         *)
(* comment.  Only a number ends at a semicolon in the code; in an          *)
(* identifier, a label, a directive, a register and the use of a label it  *)
(* is a character like any other.                                          *)
(* Code: the loops over is_ignored_char in lexer_readToken, against        *)
(* is_token_end.                                                           *)
SemicolonsBeginComments ==
  \A k \in DOMAIN lexed :
    LET characters == {Text[i] : i \in Covered(Places[k])}
    IN  ";" \in characters /\ characters \cap Quotes = {} =>
          lexed[k].kind = "comment"

-----------------------------------------------------------------------------
(* What a number is: groups of digits with delimiters between them.        *)
Groups(number) ==
  LET cuts == {0, Len(number) + 1} \cup {k \in 1..Len(number) : number[k] = Delimiter}
      neighbours == {c \in cuts \X cuts : /\ c[1] < c[2]
                                         /\ (c[1] + 1)..(c[2] - 1) \cap cuts = {}}
  IN  {SubSeq(number, c[1] + 1, c[2] - 1) : c \in neighbours}

IsNumber(number, base) ==
  \A group \in Groups(number) : group # << >> /\ ToSet(group) \subseteq DigitsOf(base)

Amount(digits, base) ==
  MapThenSumSet(LAMBDA k : DigitValue(digits[k]) * base ^ (Len(digits) - k), DOMAIN digits)

(* A number has its value; it is refused as malformed only if it is not    *)
(* one, and as too large only if it does not fit, to the last unit.        *)
(* Code: validate_numeric_token, token_get_int_value.                      *)
NumbersAreExact ==
  LET number(place) == NumberText(Text, Begin(place))
      base(place)   == Base(Text, Begin(place))
      amount(place) == Amount(Significant(number(place)), base(place))
      true(place)   == IsNumber(number(place), base(place))
  IN  /\ \A k \in DOMAIN lexed : lexed[k].kind = "int" =>
           /\ true(lexed[k].place)
           /\ lexed[k].value = amount(lexed[k].place) /\ lexed[k].value <= DWORD_MAX
      /\ fault.code = "MALFORMED_NUMBER" => ~true(fault.place)
      /\ fault.code = "NUMBER_OVERFLOW" =>
           true(fault.place) /\ amount(fault.place) > DWORD_MAX
=============================================================================
