----------------------------- MODULE MCFrontEnd -----------------------------
(***************************************************************************)
(* The parts of assemble_source in front of Assembler, side by side: a     *)
(* text is read by the lexer and the parser (MCReader), or tokens with     *)
(* macros are expanded (MCMacros), and the other part has nothing to do.   *)
(***************************************************************************)
EXTENDS MCReader, MCMacros

ReaderIdle ==
  /\ source = [text |-> << >>, pos |-> 0, line |-> 1, col |-> 1]
  /\ pos = 1 /\ line = 1 /\ col = 1 /\ lexed = << >> /\ fault = NoFault
  /\ ParserInit

ExpanderIdle ==
  /\ program = << >> /\ stage = "done" /\ current = 1 /\ macros = {}
  /\ frames = << >> /\ output = << >> /\ diagnostic = Nothing

FrontEndInit ==
  \/ Init /\ ExpanderIdle
  \/ MacroInit /\ ReaderIdle

FrontEndNext ==
  \/ Next /\ UNCHANGED macroVars
  \/ MacroNext /\ UNCHANGED vars

(* Of the reader nothing is assumed, of the expander that it goes on.      *)
FrontEndSpec ==
  /\ FrontEndInit /\ [][FrontEndNext]_<<vars, macroVars>>
  /\ WF_macroVars(MacroNext)
=============================================================================
