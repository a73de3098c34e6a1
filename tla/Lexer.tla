------------------------------- MODULE Lexer -------------------------------
(***************************************************************************)
(* The lexer (asm/src/Lexer.c, Token.c), which makes tokens of the source  *)
(* text.  A character is one that some rule names, or a name that stands   *)
(* for a run of letters ("movi"); "nl" is a newline, "sp" any other white  *)
(* space, "dq" and "sq" the quotes.  Letters have one case.                *)
(***************************************************************************)
EXTENDS Naturals, Sequences, SequencesExt

CONSTANTS
  Sources,      \* records: text, and the place its first character has
  DWORD_MAX

ASSUME DwordMaxIsNat == DWORD_MAX \in Nat

ASSUME SourcesAssumption ==
  \A s \in Sources : s.text \in Seq(STRING) /\ {s.pos, s.line, s.col} \subseteq Nat

VARIABLES
  source,       \* state->source, and source_pos, source_line, source_col
  pos,          \* state->pos, from 1
  line, col,
  lexed,        \* state->_tokens
  fault         \* the diagnostic: its code and place, or NoFault

lexerVars == <<source, pos, line, col, lexed, fault>>

Quotes    == {"dq", "sq"}
Delimiter == "_"
Digits    == <<"0", "1", "2", "3", "4", "5", "6", "7", "8", "9",
               "a", "b", "c", "d", "e", "f">>
DecChars  == {Digits[d] : d \in 1..10} \cup {Delimiter}
NoFault   == [code |-> "NONE"]

(* Faulty variant: is_ignored_char without the exception for newlines.     *)
IgnoredSpace == {"sp", "nl"}
Ignored      == {"sp"}

WordEnds   == Ignored \cup {"nl", ","}
NumberEnds == WordEnds \cup {";"}

(* The first character at or behind i that is in chars, or the end.        *)
First(text, i, chars) ==
  LET at == {k \in i..Len(text) : text[k] \in chars}
  IN  IF at = {} THEN Len(text) + 1 ELSE Min(at)

-----------------------------------------------------------------------------
(* The kind of the token that begins at i.                                 *)
Marks == [c \in {"nl", ",", ";", "#", "$", ".", "dq", "sq"} |->
  CASE c = "nl" -> "newline" [] c = "," -> "comma"     [] c = ";"  -> "comment"
    [] c = "#"  -> "use"     [] c = "$" -> "register"  [] c = "."  -> "directive"
    [] c = "dq" -> "string"  [] c = "sq" -> "char"]

PrefixBase == [c \in {"x", "o", "b"} |->
               CASE c = "x" -> 16 [] c = "o" -> 8 [] c = "b" -> 2]

(* Where a word ends: quotes hide what ends it.  0 if one is not closed.   *)
WordEnd(text, i) ==
  LET end[k \in i..(Len(text) + 1)] ==
        IF k > Len(text) \/ text[k] \in WordEnds THEN k
        ELSE IF text[k] \notin Quotes THEN end[k + 1]
        ELSE LET close == First(text, k + 1, {text[k]})
             IN  IF close > Len(text) THEN 0 ELSE end[close + 1]
  IN  end[i]

(* Faulty variant: the closing quote is left for the next token.           *)
QuoteEndBefore(text, i) ==
  LET close == First(text, i + 1, {text[i]})
  IN  IF close > Len(text) THEN 0 ELSE close

QuoteEnd(text, i) ==
  LET close == First(text, i + 1, {text[i]})
  IN  IF close > Len(text) THEN 0 ELSE close + 1

(* The position behind the token that begins at i; 0 if it never ends.     *)
End(text, i) ==
  CASE text[i] \in {"nl", ","}      -> i + 1
    [] text[i] = ";"                -> First(text, i, {"nl"})
    [] text[i] \in {"#", "$", "."}  -> First(text, i + 1, WordEnds)
    [] text[i] \in Quotes           -> QuoteEnd(text, i)
    [] text[i] \in DecChars         -> First(text, i, NumberEnds)
    [] OTHER                        -> WordEnd(text, i)

Kind(text, i) ==
  IF text[i] \in DOMAIN Marks THEN Marks[text[i]]
  ELSE IF text[i] \in DecChars THEN "int"
  ELSE IF text[End(text, i) - 1] = ":" THEN "label" ELSE "id"

-----------------------------------------------------------------------------
(* Numbers.                                                                *)
HasPrefix(text, i) == text[i] = "0" /\ i < Len(text) /\ text[i + 1] \in DOMAIN PrefixBase
Base(text, i)      == IF HasPrefix(text, i) THEN PrefixBase[text[i + 1]] ELSE 10
NumberText(text, i) ==
  SubSeq(text, IF HasPrefix(text, i) THEN i + 2 ELSE i, End(text, i) - 1)

DigitsOf(base) == {Digits[d] : d \in 1..base}
DigitValue(c)  == (CHOOSE d \in 1..16 : Digits[d] = c) - 1

(* validate_numeric_token.                                                 *)
DelimiterFits(number, k, base) ==
  /\ 1 < k /\ k < Len(number)
  /\ number[k - 1] \in DigitsOf(base)
  /\ number[k + 1] \in DigitsOf(base)

WellFormed(number, base) ==
  /\ number # << >>
  /\ \A k \in 1..Len(number) :
       IF number[k] = Delimiter THEN DelimiterFits(number, k, base)
       ELSE number[k] \in DigitsOf(base)

(* token_get_int_value: the value in a dword.  Faulty variant: the digit   *)
(* that is added is forgotten in the check.                                *)
OverflowsBefore(value, digit, base) == value > DWORD_MAX \div base
Overflows(value, digit, base)       == value > (DWORD_MAX - digit) \div base

Significant(number) == SelectSeq(number, LAMBDA c : c # Delimiter)

IntValue(number, base) ==
  FoldLeft(LAMBDA acc, c :
             IF acc.overflow \/ Overflows(acc.value, DigitValue(c), base)
               THEN [acc EXCEPT !.overflow = TRUE]
               ELSE [acc EXCEPT !.value =
                       (acc.value * base + DigitValue(c)) % (DWORD_MAX + 1)],
           [value |-> 0, overflow |-> FALSE], Significant(number))

-----------------------------------------------------------------------------
(* The value of the token that begins at i: without its mark or quotes.    *)
Value(text, i) ==
  LET last == End(text, i) - 1
  IN  CASE Kind(text, i) \in {"newline", "comma", "id"} -> SubSeq(text, i, last)
        [] Kind(text, i) = "label"              -> SubSeq(text, i, last - 1)
        [] Kind(text, i) \in {"string", "char"} -> SubSeq(text, i + 1, last - 1)
        [] Kind(text, i) = "int" -> IntValue(NumberText(text, i), Base(text, i)).value
        [] OTHER -> SubSeq(text, i + 1, last)

(* What is wrong with it.                                                  *)
Flaw(text, i) ==
  IF End(text, i) = 0 THEN "UNTERMINATED_LITERAL"
  ELSE IF Kind(text, i) # "int" THEN "NONE"
  ELSE IF ~WellFormed(NumberText(text, i), Base(text, i)) THEN "MALFORMED_NUMBER"
  ELSE IF IntValue(NumberText(text, i), Base(text, i)).overflow THEN "NUMBER_OVERFLOW"
  ELSE "NONE"

-----------------------------------------------------------------------------
Text  == source.text
Start == First(Text, pos, {Text[k] : k \in 1..Len(Text)} \ Ignored)
Stop  == IF End(Text, Start) = 0 THEN Len(Text) + 1 ELSE End(Text, Start)

(* Faulty variant: the column of the source counts on every line.          *)
ColumnShifted == source.col + col + (Start - pos) - 1
Column ==
  LET here == col + (Start - pos)
  IN  IF line = 1 THEN source.col + here - 1 ELSE here

Place == [pos |-> source.pos + Start - 1, line |-> source.line + line - 1,
          col |-> Column, size |-> Stop - Start]

(* lexer_nextChar over what is read.                                       *)
Advance ==
  LET newlines == {k \in pos..(Stop - 1) : Text[k] = "nl"}
  IN  /\ pos' = Stop
      /\ line' = line + Cardinality(newlines)
      /\ col' = IF newlines = {} THEN col + (Stop - pos) ELSE Stop - Max(newlines)

Lexing == fault = NoFault /\ Start <= Len(Text)

ReadToken ==
  /\ Lexing
  /\ Flaw(Text, Start) = "NONE"
  /\ lexed' = Append(lexed, [kind |-> Kind(Text, Start), value |-> Value(Text, Start),
                             place |-> Place])
  /\ Advance
  /\ UNCHANGED <<source, fault>>

RejectToken ==
  /\ Lexing
  /\ Flaw(Text, Start) # "NONE"
  /\ fault' = [code |-> Flaw(Text, Start), place |-> Place]
  /\ Advance
  /\ UNCHANGED <<source, lexed>>

(* White space before the end.                                             *)
ReadEnd ==
  /\ fault = NoFault
  /\ pos <= Len(Text) /\ Start > Len(Text)
  /\ pos' = Start /\ col' = col + (Start - pos)
  /\ UNCHANGED <<source, line, lexed, fault>>

LexerInit ==
  /\ source \in Sources
  /\ pos = 1 /\ line = 1 /\ col = 1
  /\ lexed = << >>
  /\ fault = NoFault

LexerNext == ReadToken \/ RejectToken \/ ReadEnd

Lexed == fault = NoFault /\ pos > Len(Text)
=============================================================================
