-------------------------- MODULE MacroProperties --------------------------
(***************************************************************************)
(* What the author of a source file relies on.  Meaning says, line by      *)
(* line, what the tokens stand for once the definitions are known.         *)
(***************************************************************************)
EXTENDS Macros

Expanded == stage = "done" /\ frames # << >>
Plain(list) == [i \in DOMAIN list |-> <<list[i].kind, list[i].name>>]

(* A list cut after each newline.                                          *)
RECURSIVE LinesOf(_)
LinesOf(list) ==
  IF list = << >> THEN << >>
  ELSE LET end == Min({EndOfLine(list, 1), Len(list)})
       IN  <<SubSeq(list, 1, end)>>
             \o LinesOf(SubSeq(list, end + 1, Len(list)))

Labels(line) ==
  LET others == {k \in DOMAIN line : line[k].kind # "label"}
  IN  SubSeq(line, 1, Min0(others, Len(line) + 1) - 1)

WithoutLabels(line, labels) == SubSeq(line, Len(labels) + 1, Len(line))

Calls(line) ==
  /\ line # << >>
  /\ line[1].kind = "id"
  /\ MacrosNamed(Called(line[1])) # {} \/ IsExplicit(line[1])

(* Arguments by position come first and take the first parameters; the     *)
(* named ones take the others, each of them once.                          *)
Fits(macro, arguments) ==
  LET named == {i \in DOMAIN arguments : IsNamed(arguments[i])}
      first == Len(arguments) - Cardinality(named)
      Name(i)  == SubSeq(arguments[i].name, 1, Min(Equals(arguments[i])) - 1)
      Right(i) == RightSides[SubSeq(arguments[i].name,
                               Min(Equals(arguments[i])) + 1,
                               Len(arguments[i].name))]
  IN  /\ Len(arguments) = Len(macro.parameters)
      /\ named = (first + 1)..Len(arguments)
      /\ {Name(i) : i \in named}
           = {macro.parameters[i] : i \in (first + 1)..Len(macro.parameters)}
      /\ \A i \in named : Len(Right(i)) = 1 /\ Right(i)[1].kind # "malformed"

ValueOf(macro, arguments, i) ==
  IF i <= Len(arguments) /\ ~IsNamed(arguments[i]) THEN arguments[i]
  ELSE LET k == CHOOSE k \in DOMAIN arguments :
                  IsNamed(arguments[k]) /\
                  Index(macro, SubSeq(arguments[k].name, 1,
                                      Min(Equals(arguments[k])) - 1)) = {i}
           equal == Min(Equals(arguments[k]))
       IN  RightSides[SubSeq(arguments[k].name, equal + 1,
                        Len(arguments[k].name))][1]

(* The body with its parameters replaced: a value stays what it is, except *)
(* that a label remains a label.                                           *)
BodyFor(macro, arguments) ==
  [i \in DOMAIN macro.body |->
     LET token == macro.body[i]
         is    == Index(macro, token.name)
         value == ValueOf(macro, arguments, CHOOSE k \in is : TRUE)
     IN  IF is = {} \/ token.kind \notin {"id", "use", "label"} THEN token
         ELSE IF token.kind = "label" THEN [value EXCEPT !.kind = "label"]
         ELSE value]

Rejection == [kind |-> "rejected", name |-> << >>, at |-> 0]

DefinitionLines(lines) ==
  Min({k \in DOMAIN lines : \E i \in DOMAIN lines[k] :
                              IsDirective(lines[k][i], <<"endmacro">>)})

(* A call that cannot be replaced leaves a rejection in its place.         *)
RECURSIVE Meaning(_, _)
Meaning(lines, active) ==
  IF lines = << >> THEN << >>
  ELSE IF IsDirective(lines[1][1], <<"macro">>)
    THEN Meaning(SubSeq(lines, DefinitionLines(lines) + 1, Len(lines)), active)
  ELSE LET labels == Labels(lines[1])
           line   == WithoutLabels(lines[1], labels)
           name   == Called(line[1])
           macro  == CHOOSE m \in MacrosNamed(name) : TRUE
           given  == Arguments(line, 2)
           here   == IF ~Calls(line) THEN line
                     ELSE IF \/ MacrosNamed(name) = {}
                             \/ name \in active
                             \/ Cardinality(active) = MaxDepth
                             \/ ~Fits(macro, given)
                       THEN <<Rejection>>
                     ELSE Meaning(LinesOf(BodyFor(macro, given)),
                                  active \cup {name})
       IN  labels \o here \o Meaning(Tail(lines), active)

(* Every .macro begins a line.                                             *)
WellPlaced ==
  \A i \in DOMAIN program :
    IsDirective(program[i], <<"macro">>) =>
      i = 1 \/ program[i - 1].kind = "newline"

(* The tokens that come out are what the source stands for; when it is     *)
(* refused, they are those in front of the first call that cannot be       *)
(* replaced, and nothing else is a reason to refuse.                       *)
(* Code: expand_range, expand_macro and read_arguments.                    *)
ExpandsToMeaning ==
  Expanded /\ WellPlaced =>
    LET meaning  == Meaning(LinesOf(program), {})
        rejected == {i \in DOMAIN meaning : meaning[i] = Rejection}
    IN  /\ diagnostic = Nothing <=> rejected = {}
        /\ Plain(output)
             = Plain(SubSeq(meaning, 1, Min0(rejected, Len(meaning) + 1) - 1))

(* No call is left over: an identifier with nothing but labels in front of *)
(* it on its line names no macro, wherever it came from.                   *)
(* Code: is_line_start in expand_range.                                    *)
NoCallsLeft ==
  Expanded /\ diagnostic = Nothing =>
    \A i \in DOMAIN output :
      LET start == Max({k \in 1..(i - 1) : output[k].kind = "newline"}
                         \cup {0}) + 1
      IN  (\A k \in start..(i - 1) : output[k].kind = "label") =>
            ~Calls(SubSeq(output, i, Len(output)))

(* A later diagnostic of an expanded token points into the source in the   *)
(* order of the source: at the token itself, or at the call, which is      *)
(* outside of all definitions, that it came from.                          *)
(* Code: clone_token and its location, through every depth of calls.       *)
InDefinition(i) ==
  \E d \in 1..i : /\ IsDirective(program[d], <<"macro">>)
                  /\ i <= EndOfLine(program, BodyEnd(d))

LocatedAtCall ==
  Expanded /\ WellPlaced =>
    /\ \A i \in DOMAIN output :
         LET source == program[output[i].at]
         IN  /\ ~InDefinition(output[i].at)
             /\ \/ Plain(<<output[i]>>) = Plain(<<source>>)
                \/ Calls(<<source>>)
    /\ \A i, j \in DOMAIN output : i < j => output[i].at <= output[j].at
    /\ diagnostic # Nothing => Calls(<<program[diagnostic.at]>>)

(* What comes out of the expander is right as tokens and as places.        *)
(* Code: macros_expand.                                                    *)
ExpansionIsFaithful == ExpandsToMeaning /\ NoCallsLeft /\ LocatedAtCall

(* Expansion ends, also where macros call each other in circles.           *)
(* Code: macros_expand.                                                    *)
ExpansionEnds == <>(stage = "done")
=============================================================================
