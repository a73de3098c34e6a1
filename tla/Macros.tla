------------------------------- MODULE Macros -------------------------------
(***************************************************************************)
(* The macro expander (asm/src/Macros.c), between the lexer and the        *)
(* parser.  Definitions are captured first, wherever they are; then the    *)
(* tokens are copied, and a call is replaced by the body of its macro,     *)
(* which is expanded in turn.  The spelling of an identifier is a sequence *)
(* of pieces, so that "@" in front of it and "=" inside of it show.        *)
(***************************************************************************)
EXTENDS Naturals, Sequences, SequencesExt

CONSTANTS
  Programs,    \* sequences of tokens of the lexer
  RightSides,  \* what the lexer makes of the right side of an argument a=...
  MaxDepth     \* of nested calls (64)

ASSUME MaxDepthAssumption == MaxDepth \in Nat

VARIABLES
  program,    \* the tokens of the source
  stage,      \* the part of macros_expand that runs
  current,    \* the token it looks at in capture_macros
  macros,     \* the definitions captured
  frames,     \* the activations of expand_range, the running one last
  output,     \* the expanded tokens
  diagnostic  \* where the expansion failed, and why

macroVars == <<program, stage, current, macros, frames, output, diagnostic>>

Min0(S, none) == IF S = {} THEN none ELSE Min(S)

IsDirective(token, name) == token.kind = "directive" /\ token.name = name

(* The newline at or behind i, or the end of the tokens.                   *)
EndOfLine(list, i) ==
  Min0({k \in i..Len(list) : list[k].kind = "newline"}, Len(list) + 1)

(* The first .endmacro at or behind i.                                     *)
EndMacro(list, i) ==
  Min0({k \in i..Len(list) : IsDirective(list[k], <<"endmacro">>)},
       Len(list) + 1)

MacrosNamed(name) == {m \in macros : m.name = name}

Fail(code, at) ==
  /\ diagnostic' = [code |-> code, at |-> at]
  /\ stage' = "done"

(* Faulty variant: a token of a body stays where it was defined.           *)
KeptToken(token, at) == token

(* clone_token: the tokens of a body are those of the call.                *)
CloneToken(token, at) == IF at = 0 THEN token ELSE [token EXCEPT !.at = at]

-----------------------------------------------------------------------------
(* Capturing the definition whose .macro is at d.                          *)
HeaderEnd(d) == EndOfLine(program, d)
BodyEnd(d)   == EndMacro(program, HeaderEnd(d) + 1)

IsNoComma(token) == token.kind # "comma"

(* What a line says from i on, without commas and without its comment.     *)
Arguments(list, i) ==
  LET end == Min({k \in i..Len(list) : list[k].kind = "comment"}
                   \cup {EndOfLine(list, i)})
  IN  SelectSeq(SubSeq(list, i, end - 1), IsNoComma)

Parameters(d) == Arguments(program, d + 2)

HasName(d) == d + 1 < HeaderEnd(d) /\ program[d + 1].kind = "id"

BadParameters(d) ==
  {i \in 1..Len(Parameters(d)) :
     \/ Parameters(d)[i].kind # "id"
     \/ \E j \in 1..(i - 1) : Parameters(d)[j].name = Parameters(d)[i].name}

NestedDefinitions(d) ==
  {k \in (HeaderEnd(d) + 1)..(BodyEnd(d) - 1) :
     IsDirective(program[k], <<"macro">>)}

EndArguments(d) ==
  {k \in (BodyEnd(d) + 1)..(EndOfLine(program, BodyEnd(d)) - 1) :
     program[k].kind # "comment"}

Refused(code, at) == [code |-> code, at |-> at]
Invalid(at)       == Refused("INVALID_ARGUMENT", at)
Nothing           == Refused("NONE", 0)

(* The checks of capture_macro, in their order.                            *)
CaptureError(d) ==
  IF ~HasName(d) THEN Invalid(d)
  ELSE IF MacrosNamed(program[d + 1].name) # {}
    THEN Refused("DUPLICATE_DEFINITION", d + 1)
  ELSE IF BadParameters(d) # {}
    THEN Invalid(Parameters(d)[Min(BadParameters(d))].at)
  ELSE IF NestedDefinitions(d) # {} THEN Invalid(Min(NestedDefinitions(d)))
  ELSE IF BodyEnd(d) > Len(program) THEN Invalid(d + 1)
  ELSE IF EndArguments(d) # {} THEN Invalid(Min(EndArguments(d)))
  ELSE Nothing

Definition(d) ==
  [name       |-> program[d + 1].name,
   parameters |-> [i \in DOMAIN Parameters(d) |-> Parameters(d)[i].name],
   body       |-> SubSeq(program, HeaderEnd(d) + 1, BodyEnd(d) - 1)]

Capturing == stage = "capture" /\ current <= Len(program)
AtDefinition == Capturing /\ IsDirective(program[current], <<"macro">>)

CaptureMacro ==
  /\ AtDefinition
  /\ CaptureError(current) = Nothing
  /\ macros' = macros \cup {Definition(current)}
  /\ current' = EndOfLine(program, BodyEnd(current)) + 1
  /\ UNCHANGED <<program, stage, frames, output, diagnostic>>

CaptureRefused ==
  /\ AtDefinition
  /\ CaptureError(current) # Nothing
  /\ Fail(CaptureError(current).code, CaptureError(current).at)
  /\ UNCHANGED <<program, current, macros, frames, output>>

StrayEndMacro ==
  /\ Capturing
  /\ IsDirective(program[current], <<"endmacro">>)
  /\ Fail("INVALID_ARGUMENT", current)
  /\ UNCHANGED <<program, current, macros, frames, output>>

PassToken ==
  /\ Capturing
  /\ ~IsDirective(program[current], <<"macro">>)
  /\ ~IsDirective(program[current], <<"endmacro">>)
  /\ current' = current + 1
  /\ UNCHANGED <<program, stage, macros, frames, output, diagnostic>>

(* An activation of expand_range: its tokens, the next one, the macro it   *)
(* belongs to, whether a line begins, and the call it stands for.          *)
Frame(list, macro, at) ==
  [list |-> list, next |-> 1, macro |-> macro, lineStart |-> TRUE, at |-> at]

BeginExpansion ==
  /\ stage = "capture"
  /\ current > Len(program)
  /\ stage' = "expand"
  /\ frames' = <<Frame(program, << >>, 0)>>
  /\ UNCHANGED <<program, current, macros, output, diagnostic>>

-----------------------------------------------------------------------------
(* The arguments of a call.                                                *)
Index(macro, name) ==
  {i \in DOMAIN macro.parameters : macro.parameters[i] = name}

Equals(token) == {k \in DOMAIN token.name : token.name[k] = "="}
IsNamed(token) == token.kind = "id" /\ Equals(token) # {}

Unbound == [values |-> << >>, positional |-> 0, named |-> FALSE,
            code |-> "NONE"]
Bad(bound)  == [bound EXCEPT !.code = "INVALID_ARGUMENT"]
Set(bound, i, value) ==
  [bound EXCEPT !.values = [k \in DOMAIN @ \cup {i} |->
                              IF k = i THEN value ELSE @[k]]]

BindNamed(macro, bound, argument) ==
  LET name  == argument.name
      equal == Min(Equals(argument))
      index == Index(macro, SubSeq(name, 1, equal - 1)) \ DOMAIN bound.values
      value == RightSides[SubSeq(name, equal + 1, Len(name))]
  IN  IF equal = 1 \/ equal = Len(name) \/ index = {} THEN Bad(bound)
      ELSE IF \E k \in DOMAIN value : value[k].kind = "malformed"
        THEN [bound EXCEPT !.code = "MALFORMED_NUMBER"]
      ELSE IF Len(value) # 1 THEN Bad(bound)
      ELSE [Set(bound, Min(index), value[1]) EXCEPT !.named = TRUE]

BindPositional(macro, bound, argument) ==
  IF bound.named \/ bound.positional = Len(macro.parameters) THEN Bad(bound)
  ELSE [Set(bound, bound.positional + 1, argument) EXCEPT !.positional = @ + 1]

(* read_arguments.                                                         *)
Bound(macro, arguments) ==
  LET Bind(bound, argument) ==
        IF bound.code # "NONE" THEN bound
        ELSE IF IsNamed(argument) THEN BindNamed(macro, bound, argument)
        ELSE BindPositional(macro, bound, argument)
      all == FoldLeft(Bind, Unbound, arguments)
  IN  IF all.code = "NONE" /\ DOMAIN all.values # DOMAIN macro.parameters
        THEN Bad(all) ELSE all

(* Faulty variant: the parameter that names a label becomes its argument.  *)
PlainSubstituted(macro, values, token) ==
  LET index == Index(macro, token.name)
  IN  IF token.kind \in {"id", "use", "label"} /\ index # {}
        THEN values[Min(index)] ELSE token

Substituted(macro, values, token) ==
  LET index == Index(macro, token.name)
  IN  IF token.kind \in {"id", "use", "label"} /\ index # {}
        THEN [values[Min(index)] EXCEPT
                !.kind = IF token.kind = "label" THEN "label" ELSE @]
        ELSE token

Expansion(macro, values, at) ==
  [i \in DOMAIN macro.body |->
     CloneToken(Substituted(macro, values, macro.body[i]), at)]

-----------------------------------------------------------------------------
(* Expanding.                                                              *)
Top   == frames[Len(frames)]
TopToken == Top.list[Top.next]

Expanding  == stage = "expand" /\ Top.next <= Len(Top.list)
InCalls(name) == \E k \in 2..Len(frames) : frames[k].macro = name
Depth      == Len(frames) - 1

(* Faulty variant: the check comes one call too late.                      *)
DepthPassed == Depth > MaxDepth

DepthReached == Depth = MaxDepth

(* Faulty variant: the walk does not move on.                              *)
DefinitionStart(list, i) == i

AfterDefinition(list, i) == EndOfLine(list, EndMacro(list, i)) + 1

IsExplicit(token) == token.name # << >> /\ token.name[1] = "@"
Called(token) == IF IsExplicit(token) THEN Tail(token.name) ELSE token.name

IsCall ==
  /\ Top.lineStart
  /\ TopToken.kind = "id"
  /\ MacrosNamed(Called(TopToken)) # {} \/ IsExplicit(TopToken)

Callee == CHOOSE m \in MacrosNamed(Called(TopToken)) : TRUE
Call   == Bound(Callee, Arguments(Top.list, Top.next + 1))

CallError ==
  IF MacrosNamed(Called(TopToken)) = {} THEN "UNDEFINED"
  ELSE IF InCalls(Callee.name) \/ DepthReached THEN "RECURSION"
  ELSE Call.code

(* The top frame goes on at i.                                             *)
MovedTo(i, lineStart) ==
  [frames EXCEPT ![Len(frames)] = [@ EXCEPT !.next = i,
                                            !.lineStart = lineStart]]

SkipDefinition ==
  /\ Expanding
  /\ IsDirective(TopToken, <<"macro">>)
  /\ frames' = MovedTo(AfterDefinition(Top.list, Top.next), TRUE)
  /\ UNCHANGED <<program, stage, current, macros, output, diagnostic>>

ExpandMacro ==
  /\ Expanding
  /\ IsCall
  /\ CallError = "NONE"
  /\ frames' = Append(MovedTo(EndOfLine(Top.list, Top.next) + 1, TRUE),
                      Frame(Expansion(Callee, Call.values, TopToken.at),
                            Callee.name, TopToken.at))
  /\ UNCHANGED <<program, stage, current, macros, output, diagnostic>>

CallRefused ==
  /\ Expanding
  /\ IsCall
  /\ CallError # "NONE"
  /\ Fail(CallError, TopToken.at)
  /\ UNCHANGED <<program, current, macros, frames, output>>

(* Faulty variant: a label ends the beginning of its line.                 *)
AfterNewline(lineStart, token) == token.kind = "newline"

StaysLineStart(lineStart, token) ==
  token.kind = "newline" \/ (lineStart /\ token.kind = "label")

CopyToken ==
  /\ Expanding
  /\ ~IsDirective(TopToken, <<"macro">>)
  /\ ~IsCall
  /\ output' = Append(output, CloneToken(TopToken, Top.at))
  /\ frames' = MovedTo(Top.next + 1, StaysLineStart(Top.lineStart, TopToken))
  /\ UNCHANGED <<program, stage, current, macros, diagnostic>>

EndOfRange ==
  /\ stage = "expand"
  /\ Top.next > Len(Top.list)
  /\ IF Depth = 0 THEN stage' = "done" /\ UNCHANGED frames
                  ELSE frames' = Front(frames) /\ UNCHANGED stage
  /\ UNCHANGED <<program, current, macros, output, diagnostic>>

MacroInit ==
  /\ \E read \in Programs :
       program = [i \in DOMAIN read |-> [read[i] EXCEPT !.at = i]]
  /\ stage = "capture"
  /\ current = 1
  /\ macros = {}
  /\ frames = << >>
  /\ output = << >>
  /\ diagnostic = Nothing

MacroNext ==
  \/ CaptureMacro \/ CaptureRefused \/ StrayEndMacro \/ PassToken
  \/ BeginExpansion
  \/ SkipDefinition \/ ExpandMacro \/ CallRefused \/ CopyToken \/ EndOfRange

MacroSpec == MacroInit /\ [][MacroNext]_macroVars

(* The expander runs on the thread of its caller and waits for nothing.    *)
FairMacroSpec == MacroSpec /\ WF_macroVars(MacroNext)

-----------------------------------------------------------------------------
(* The calls that are being expanded fit into the array of MaxDepth        *)
(* entries that the expander keeps them in, each macro is in it at most    *)
(* once, and nothing returns from the file itself.                         *)
(* Code: Macro *stack[64] of macros_expand, stack[stack_count] = macro in  *)
(* expand_macro.                                                           *)
CallsInBounds ==
  /\ stage = "expand" => Len(frames) \in 1..(MaxDepth + 1)
  /\ \A i, j \in 2..Len(frames) : frames[i].macro = frames[j].macro => i = j
=============================================================================
