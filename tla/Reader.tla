------------------------------- MODULE Reader -------------------------------
(***************************************************************************)
(* The first half of assemble_source (asm/src/zlasm.c): the lexer reads    *)
(* the whole text, then the parser reads the tokens.  The texts have no    *)
(* macros, which the expander between the two would replace (Macros).      *)
(***************************************************************************)
EXTENDS LexerProperties, ParserProperties

vars == <<lexerVars, parserVars>>

Init == LexerInit /\ ParserInit

Lex == LexerNext /\ UNCHANGED parserVars

(* tokenStream_new: a token goes by its kind and value.                    *)
HandOver ==
  /\ Lexed /\ lexed # << >> /\ tokens = << >>
  /\ tokens' = [k \in 1..Len(lexed) |-> [kind |-> lexed[k].kind, value |-> lexed[k].value]]
  /\ UNCHANGED <<lexerVars, next, lines, error>>

Parse == ParserNext /\ UNCHANGED lexerVars

Next == Lex \/ HandOver \/ Parse

Spec == Init /\ [][Next]_vars
=============================================================================
