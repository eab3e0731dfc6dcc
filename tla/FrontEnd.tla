------------------------------- MODULE FrontEnd ------------------------------
(***************************************************************************)
(* The compiler (Driver) with the parser (Parser), which reads its files   *)
(* one after another, and the walks over type definitions (TypeShape),     *)
(* which it asks questions.  A file is refused if the parser does; what    *)
(* `broken` says of it is only compared with that.  ContainsItself,        *)
(* CasesEnd and LayoutEnd are meant to be IsTypeRecursive, ConstructorsEnd *)
(* and LayoutEnds.                                                         *)
(***************************************************************************)
EXTENDS Driver, TypeShape, Parser

(* The parser is at the file that is next; `files` of a program are the    *)
(* texts of its files, which are modules of the parser.                    *)
InitFrontEnd ==
  /\ Init
  /\ text = program.files[1] /\ rest = Tokens(text) /\ items = <<>>
  /\ complaints = 0 /\ recovery = FALSE /\ result = "none"

(* parse_source_file: a parser of its own for every file.                  *)
ReadFile ==
  /\ At("parse") /\ at \in DOMAIN program.files
  /\ ParseStep
  /\ UNCHANGED vars
ParserOf(file) ==
  /\ text' = file /\ rest' = Tokens(file) /\ items' = <<>>
  /\ complaints' = 0 /\ recovery' = FALSE /\ result' = "none"
EndFile ==
  /\ result # "none" /\ ParseFile(result = "error")
  /\ IF at + 1 \in DOMAIN program.files THEN ParserOf(program.files[at + 1])
     ELSE UNCHANGED parserVars

AfterParsing ==
  /\ \/ EndParse \/ ResolveAll \/ TypeCheck
     \/ CheckPatterns \/ CheckSafety \/ CheckBuiltins \/ CheckLiterals \/ EndChecks
     \/ Generate \/ Stopped
  /\ UNCHANGED parserVars
NextFrontEnd == ReadFile \/ EndFile \/ AfterParsing
SpecFrontEnd == InitFrontEnd /\ [][NextFrontEnd]_<<vars, parserVars>>

(* Whether a type unfolds without an end, boxes being looked into, or not. *)
RECURSIVE Unfolds(_, _, _, _)
Unfolds(defs, t, through, d) ==
  \/ d = 0
  \/ LET parts == IF t.kind = "named" THEN FieldsOf(defs, t)
                  ELSE IF t.kind \in through THEN t.args ELSE <<>>
     IN \E i \in DOMAIN parts : Unfolds(defs, parts[i], through, d - 1)
Concrete(defs, n) == Named(n, [i \in 1 .. defs[n].params |-> IntType])

(* The compiler never follows a type for ever, but for one case: matching  *)
(* on a type that contains itself in a box.  No layout is asked for that   *)
(* has no end, because such types are refused before.                      *)
QuestionsEnd ==
  outcome = "endless" =>
    /\ stage = "patterns"
    /\ \E t \in Function.matched : Unfolds(program.types, t, {"tuple", "box"}, DEPTH)

(* Whether a type has a value that is no deeper than d.                    *)
RECURSIVE HasValue(_, _, _)
HasValue(defs, t, d) ==
  LET part(u) == HasValue(defs, u, d - 1) IN
  CASE d = 0 \/ t.kind = "never" -> FALSE
    [] t.kind \in {"tuple", "box"} -> \A i \in DOMAIN t.args : part(t.args[i])
    [] t.kind = "named" /\ defs[t.name].record ->
         \A i \in DOMAIN FieldsOf(defs, t) : part(FieldsOf(defs, t)[i])
    [] t.kind = "named" /\ ~defs[t.name].record ->
         \E c \in DOMAIN defs[t.name].cases :
           \A i \in DOMAIN defs[t.name].cases[c] : part(BindType(defs[t.name].cases[c][i], t.args))
    [] OTHER -> TRUE

(* Each definition is named once, in all fields, and nothing is behind a   *)
(* raw pointer, which is_type_recursive takes for the thing itself.        *)
RECURSIVE NamesIn(_)
NamesIn(t) == (IF t.kind = "named" THEN <<t.name>> ELSE <<>>)
                \o (IF t.kind = "rawptr" THEN <<"rawptr">> ELSE <<>>)
                \o FlattenSeq(Mapped(t.args, NamesIn))
NamedOnce(defs) ==
  LET ofType(n) == FlattenSeq(Mapped(AllFields(defs[n]), NamesIn))
      order == SetToSeq(DOMAIN defs)
      names == FlattenSeq([i \in DOMAIN order |-> ofType(order[i])])
  IN IsInjective(names) /\ "rawptr" \notin ToSet(names)

(* What the walks say is so: a type that unfolds without an end is called  *)
(* recursive, and no other if each type is named once; and when a match    *)
(* asks, what is called uninhabited is what has no value.                  *)
AnswersAreTrue ==
  /\ stage = "typecheck" =>
       \A n \in DOMAIN program.types :
         LET endless == Unfolds(program.types, Concrete(program.types, n), {"tuple"}, DEPTH)
         IN /\ endless => IsTypeRecursive(program.types, n)
            /\ IsTypeRecursive(program.types, n) /\ NamedOnce(program.types) => endless
  /\ stage = "safety" =>
       \A t \in Function.matched :
         LET answer == IsUninhabited(program.types, t, DEPTH)
         IN answer # "endless" => (answer = "yes" <=> ~HasValue(program.types, t, DEPTH))
=============================================================================
