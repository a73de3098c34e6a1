-------------------------- MODULE ParserProperties --------------------------
(***************************************************************************)
(* What the parser makes of a source, said of its tokens as a whole.       *)
(***************************************************************************)
EXTENDS Parser

(* A line written out again.                                               *)
Written(line) ==
  [k \in DOMAIN line.label |-> [kind |-> "label", value |-> line.label[k]]]
    \o IF line.type = "dir" THEN <<line.name>> \o line.args
       ELSE <<line.opcode>> \o line.cond \o line.registers \o line.imm

(* No token is lost, repeated or moved: the lines that were read, written  *)
(* out one after the other, are the tokens read so far but for commas,     *)
(* comments and the ends of lines, whatever they consist of.               *)
(* Code: parser_get_line against parser_read_statement and                 *)
(* parser_read_directive.                                                  *)
NoTokenLost ==
  LET read == Without(tokens, {"comma", "comment", "newline"}, 1, next - 1)
  IN  FlattenSeq([i \in 1..Len(lines) |-> Written(lines[i])]) =
        [k \in DOMAIN read |-> tokens[read[k]]]

-----------------------------------------------------------------------------
(* The grammar, by the kinds of the tokens of a line.                      *)
StatementShapes ==
  {<<"id">> \o cond \o regs \o imm :
     cond \in {<< >>, <<"id">>},
     regs \in {<< >>, <<"register">>, <<"register", "register">>},
     imm  \in {<< >>} \cup {<<kind>> : kind \in Immediates}}

Unlabelled(kinds) ==
  IF kinds # << >> /\ kinds[1] = "label" THEN Tail(kinds) ELSE kinds

InGrammar(kinds) ==
  LET body == Unlabelled(kinds)
  IN  body # << >> /\ (body[1] = "directive" \/ body \in StatementShapes)

(* A line begins behind a newline or a comment, unless there is a label    *)
(* alone on the source line before: that one is its beginning.             *)
IsBlank(i) == i = 0 \/ tokens[i].kind \in {"newline", "comment"}
Begins(i) ==
  /\ ~IsBlank(i)
  /\ IsBlank(i - 1)
  /\ ~ /\ i > 2
       /\ tokens[i - 1].kind = "newline"
       /\ tokens[i - 2].kind = "label"
       /\ IsBlank(i - 3)
Starts == {i \in 1..Len(tokens) : Begins(i)}

KindsBetween(first, last) ==
  LET behind == Without(tokens, {"comma", "comment", "newline"}, first + 1, last)
      kept   == IF last < first THEN << >> ELSE <<first>> \o behind
  IN  [k \in DOMAIN kept |-> tokens[kept[k]].kind]

LineKinds(first) ==
  KindsBetween(first, Least({i \in Starts : i > first}, Len(tokens) + 1) - 1)

StartOf(i) == Max({s \in Starts : s <= i})

(* Exactly the sources of the grammar are accepted, with a line for every  *)
(* line; another one is refused at its first line that is not one, or that *)
(* has an unknown directive.                                               *)
(* Code: parser_get_line and parser_read_line, against the syntax that     *)
(* docs/ISA.md gives.                                                      *)
AcceptsGrammar ==
  /\ Parsed => /\ \A i \in Starts : InGrammar(LineKinds(i))
               /\ Len(lines) = Cardinality(Starts)
  /\ error # NONE =>
       LET bad == StartOf(error.at)
       IN  /\ \A i \in Starts : i < bad => InGrammar(LineKinds(i))
           /\ \/ ~InGrammar(LineKinds(bad))
              \/ /\ error.code = "UNKNOWN_DIRECTIVE"
                 /\ tokens[error.at].value \notin DirectiveNames

(* The diagnostic points at the first token that does not fit: the line up *)
(* to it can be completed, and with it no longer.  (A label with nothing   *)
(* behind it is pointed at itself.)                                        *)
(* Code: the token that parser_read_statement and parser_read_line give to *)
(* ZLASM_TOKEN_FAIL.                                                       *)
DiagnosticAtCulprit ==
  error.code = "UNEXPECTED_TOKEN" =>
    LET Viable(kinds) ==
          \/ Unlabelled(kinds) = << >>
          \/ \E shape \in StatementShapes : IsPrefix(Unlabelled(kinds), shape)
        start == StartOf(error.at)
    IN  \/ LineKinds(start) = <<"label">>
        \/ /\ Viable(KindsBetween(start, error.at - 1))
           /\ ~Viable(KindsBetween(start, error.at))
=============================================================================
