------------------------------- MODULE Parser -------------------------------
(***************************************************************************)
(* The parser (asm/src/Parser.c), which makes a line for the assembler of  *)
(* the tokens of each line of the source.  A token has a kind and a value; *)
(* the four bases of integers are one kind here.  A spelling is a sequence *)
(* of the characters of Lexer.                                             *)
(***************************************************************************)
EXTENDS Naturals, Sequences, SequencesExt

VARIABLES
  tokens,     \* stream
  next,       \* the token the stream reads next
  lines,      \* context->lines
  error       \* the diagnostic: its code, and the token it points at or 0

parserVars == <<tokens, next, lines, error>>

Kinds == {"comment", "newline", "id", "register", "label", "use", "directive",
          "comma", "string", "char", "int"}
Immediates == {"use", "char", "int"}
DirectiveNames ==
  {<<name>> : name \in
    {"section", "global", "extern", "align", "entry", "locate", "ascii", "asciiz",
     "byte", "hword", "word", "dword", "space", "macro", "endmacro", "proc",
     "endproc"}}

NONE == [code |-> "NONE", at |-> 0]

Least(S, none) == IF S = {} THEN none ELSE Min(S)

(* The first token at or behind i of one of these kinds, or the end.       *)
Find(i, kinds) ==
  Least({k \in i..Len(tokens) : tokens[k].kind \in kinds}, Len(tokens) + 1)

(* The indices from first to last, without the tokens of these kinds.      *)
Without(list, kinds, first, last) ==
  LET kept[i \in (first - 1)..last] ==
        IF i < first THEN << >>
        ELSE IF list[i].kind \in kinds THEN kept[i - 1]
        ELSE Append(kept[i - 1], i)
  IN  kept[last]

-----------------------------------------------------------------------------
(* parser_get_line: a label may stand on a line before its statement.      *)
LineStart == Find(next, Kinds \ {"comment", "newline"})

RestStart ==
  IF /\ tokens[LineStart].kind = "label"
     /\ LineStart < Len(tokens)
     /\ tokens[LineStart + 1].kind = "newline"
    THEN LineStart + 2 ELSE LineStart + 1

LineEnd == Find(RestStart, {"comment", "newline"})

(* Indices of the tokens of the line; commas are dropped behind the first. *)
LineTokens == <<LineStart>> \o Without(tokens, {"comma"}, RestStart, LineEnd - 1)

(* parser_read_line: the statement or directive is behind the label.       *)
IsLabelled == tokens[LineStart].kind = "label"
Label      == IF IsLabelled THEN <<tokens[LineStart].value>> ELSE << >>
Body       == IF IsLabelled THEN Tail(LineTokens) ELSE LineTokens

Token(i)      == tokens[Body[i]]
IsAt(i, kinds) == i <= Len(Body) /\ Token(i).kind \in kinds

(* The tokens behind the one at first up to the one at last: a part of a   *)
(* line, which is empty if it is not there.                                *)
Part(first, last) == [k \in 1..(last - first) |-> Token(first + k)]

(* parser_read_statement.  Each part is there or not, and the next one is  *)
(* looked for behind it.                                                   *)
CondEnd == IF IsAt(2, {"id"}) THEN 2 ELSE 1

(* Faulty variant: a third register is taken for the second.               *)
RegsEndAny ==
  IF ~IsAt(CondEnd + 1, {"register"}) THEN CondEnd
  ELSE Least({k \in (CondEnd + 1)..Len(Body) : ~IsAt(k + 1, {"register"})}, 0)

RegsEnd ==
  IF ~IsAt(CondEnd + 1, {"register"}) THEN CondEnd
  ELSE IF IsAt(CondEnd + 2, {"register"}) THEN CondEnd + 2 ELSE CondEnd + 1

ImmEnd == IF IsAt(RegsEnd + 1, Immediates) THEN RegsEnd + 1 ELSE RegsEnd

Statement ==
  [label |-> Label, type |-> "stmt", opcode |-> Token(1),
   cond |-> Part(1, CondEnd), registers |-> Part(CondEnd, RegsEnd),
   imm |-> Part(RegsEnd, ImmEnd)]

Directive ==
  [label |-> Label, type |-> "dir", name |-> Token(1), args |-> Part(1, Len(Body))]

(* Faulty variants: what is left is ignored, or the token before is named. *)
TrailingIgnored == 0
TrailingBehind  == IF Len(Body) > ImmEnd THEN ImmEnd ELSE 0

(* The first token that is left behind the last part, or none.             *)
Trailing == IF Len(Body) > ImmEnd THEN ImmEnd + 1 ELSE 0

LineError ==
  IF Body = << >> THEN [code |-> "UNEXPECTED_TOKEN", at |-> LineStart]
  ELSE IF IsAt(1, {"directive"})
    THEN IF Token(1).value \in DirectiveNames THEN NONE
         ELSE [code |-> "UNKNOWN_DIRECTIVE", at |-> Body[1]]
  ELSE IF ~IsAt(1, {"id"}) THEN [code |-> "UNEXPECTED_TOKEN", at |-> Body[1]]
  ELSE IF Trailing # 0 THEN [code |-> "UNEXPECTED_TOKEN", at |-> Body[Trailing]]
  ELSE NONE

-----------------------------------------------------------------------------
Parsing == error = NONE /\ LineStart <= Len(tokens)

AddLine(line) ==
  /\ lines' = Append(lines, line)
  /\ next' = IF LineEnd > Len(tokens) THEN LineEnd ELSE LineEnd + 1
  /\ UNCHANGED <<tokens, error>>

ParseStatement ==
  Parsing /\ LineError = NONE /\ IsAt(1, {"id"}) /\ AddLine(Statement)

ParseDirective ==
  Parsing /\ LineError = NONE /\ IsAt(1, {"directive"}) /\ AddLine(Directive)

RejectLine ==
  /\ Parsing
  /\ LineError # NONE
  /\ error' = LineError
  /\ UNCHANGED <<tokens, next, lines>>

ParserInit ==
  /\ tokens = << >>
  /\ next = 1
  /\ lines = << >>
  /\ error = NONE

ParserNext == ParseStatement \/ ParseDirective \/ RejectLine

Parsed == error = NONE /\ LineStart > Len(tokens)
=============================================================================
