------------------------------- MODULE Driver --------------------------------
(***************************************************************************)
(* What the compiler does with a program from its files to an object file  *)
(* (src/main.rs): which check comes when, what each tells at once, what it *)
(* leaves for another to tell, and when the compilation stops.             *)
(***************************************************************************)
EXTENDS Naturals, Sequences

(* A program is what the checks will find in it: files that do not parse,  *)
(* names that cannot be declared or resolved, its types, and its functions *)
(* in the order of their DefIds.  What the walks over type definitions say *)
(* is a parameter: whether a named type contains itself, and whether the   *)
(* questions about the cases and the layout of a type have an answer.      *)
CONSTANTS
  Programs,
  ContainsItself(_, _), CasesEnd(_, _), LayoutEnd(_, _)

ASSUME ProgramsAssumption ==
  \A p \in Programs :
    /\ p.broken \in Seq(BOOLEAN)
    /\ Len(p.functions) \in Nat /\ DOMAIN p.functions = 1 .. Len(p.functions)

VARIABLES
  program,
  stage,      \* the check that is next
  at,         \* the file or function that is next
  told,       \* the messages that have been printed, in whatever order
  diag,       \* the messages collected in the context and not printed yet
  hadError,   \* what the checks have returned so far
  outcome     \* "running", "refused", "endless", "checked" or "built"

vars == <<program, stage, at, told, diag, hadError, outcome>>

Function == program.functions[at]

(* A message: which check has something to say, and of what.               *)
Msg(check, of) == <<check, of>>
MsgIf(wrong, check, of) == IF wrong THEN {Msg(check, of)} ELSE {}

Init ==
  /\ program \in Programs
  /\ stage = "parse" /\ at = 1
  /\ told = {} /\ diag = {} /\ hadError = FALSE
  /\ outcome = "running"

At(s) == outcome = "running" /\ stage = s

(* DiagnosticReporter::report_all prints what was collected and empties it. *)
ReportAll(collected) == told' = told \cup collected /\ diag' = {}
Refuse == outcome' = "refused" /\ UNCHANGED <<stage, at>>
GoTo(next, first) == stage' = next /\ at' = first /\ UNCHANGED outcome

(* Every file is parsed, also after one that does not parse.               *)
ParseFile(fails) ==
  /\ At("parse") /\ at \in DOMAIN program.broken
  /\ ReportAll(MsgIf(fails, "syntax", at))
  /\ hadError' = (hadError \/ fails)
  /\ GoTo("parse", at + 1)
  /\ UNCHANGED program
ParseModule == ParseFile(program.broken[at])

EndParse ==
  /\ At("parse") /\ at \notin DOMAIN program.broken
  /\ IF hadError THEN Refuse ELSE GoTo("resolve", 1)
  /\ UNCHANGED <<program, told, diag, hadError>>

(* The messages of both passes are printed, the second also if there were  *)
(* some of the first.                                                      *)
ResolveAll ==
  /\ At("resolve")
  /\ ReportAll(MsgIf(program.undeclared, "declare", 1) \cup MsgIf(program.unresolved, "resolve", 1))
  /\ IF program.undeclared \/ program.unresolved THEN Refuse ELSE GoTo("typecheck", 1)
  /\ UNCHANGED <<program, hadError>>

(* TypeCheck::check collects everything and reports once.                  *)
RecursiveTypes ==
  UNION {MsgIf(ContainsItself(program.types, n), "recursive type", n) : n \in DOMAIN program.types}
IllTyped ==
  UNION {MsgIf(~program.functions[i].typed, "type", i) : i \in DOMAIN program.functions}
TypeMessages == MsgIf(~program.main, "main", 0) \cup RecursiveTypes \cup IllTyped

TypeCheck ==
  /\ At("typecheck")
  /\ ReportAll(diag \cup TypeMessages)
  /\ IF TypeMessages # {} THEN Refuse ELSE GoTo("patterns", 1)
  /\ UNCHANGED <<program, hadError>>

(* The four checks of one function, which only or their results.           *)
LastOne(had, found) == found    \* mistake: the check before is forgotten
OrElse(had, found) == had \/ found

(* PatternCheck looks at the types that are matched, with a reporter of    *)
(* its own; a question without an end takes the compiler with it.          *)
CheckPatterns ==
  /\ At("patterns") /\ at \in DOMAIN program.functions
  /\ IF ~Function.body
     THEN GoTo("safety", at) /\ UNCHANGED <<told, hadError>>
     ELSE IF \A t \in Function.matched : CasesEnd(program.types, t)
     THEN /\ told' = told \cup MsgIf(Function.gap, "pattern", at)
          /\ hadError' = OrElse(hadError, Function.gap)
          /\ GoTo("safety", at)
     ELSE /\ outcome' = "endless"
          /\ UNCHANGED <<stage, at, told, hadError>>
  /\ UNCHANGED <<program, diag>>

(* transmutable asks for both layouts, unless the types are the same.      *)
Transmutes == IF Function.body THEN Function.transmuted ELSE <<>>
TransmutesEnd ==
  \A i \in DOMAIN Transmutes :
    Transmutes[i].from # Transmutes[i].to =>
      LayoutEnd(program.types, Transmutes[i].from) /\ LayoutEnd(program.types, Transmutes[i].to)
BadTransmutes ==
  MsgIf(\E i \in DOMAIN Transmutes : ~Transmutes[i].fits, "transmute", at)

(* SafetyCheck does not look at a function that is unsafe, and returns     *)
(* before it reports; otherwise it tells all that was collected, what the  *)
(* checks of earlier functions left included.                              *)
CheckSafety ==
  /\ At("safety")
  /\ LET found == diag \cup BadTransmutes \cup MsgIf(Function.body /\ Function.misuse, "unsafe", at) IN
     IF Function.unsafe
     THEN GoTo("builtins", at) /\ UNCHANGED <<told, diag, hadError>>
     ELSE IF TransmutesEnd
     THEN ReportAll(found) /\ hadError' = OrElse(hadError, found # {}) /\ GoTo("builtins", at)
     ELSE outcome' = "endless" /\ UNCHANGED <<stage, at, told, diag, hadError>>
  /\ UNCHANGED program

(* BuiltinCheck and LiteralCheck collect and leave it to others to tell.   *)
CheckBuiltins ==
  /\ At("builtins")
  /\ LET found == BadTransmutes \cup MsgIf(Function.body /\ Function.badBuiltin, "builtin", at) IN
     IF TransmutesEnd
     THEN /\ diag' = diag \cup found /\ hadError' = OrElse(hadError, found # {})
          /\ GoTo("literals", at)
     ELSE outcome' = "endless" /\ UNCHANGED <<stage, at, diag, hadError>>
  /\ UNCHANGED <<program, told>>

CheckLiterals ==
  /\ At("literals")
  /\ LET found == MsgIf(Function.body /\ Function.bigLiteral, "literal", at)
     IN diag' = diag \cup found /\ hadError' = OrElse(hadError, found # {})
  /\ GoTo("patterns", at + 1)
  /\ UNCHANGED <<program, told>>

EndChecks ==
  /\ At("patterns") /\ at \notin DOMAIN program.functions
  /\ IF hadError THEN Refuse ELSE GoTo("generate", 1)
  /\ UNCHANGED <<program, told, diag, hadError>>

(* Bodies are built and optimised; for `check` nothing else is done, else  *)
(* every type that is used is laid out.                                    *)
Generate ==
  /\ At("generate")
  /\ outcome' = IF program.checkOnly THEN "checked"
                ELSE IF \A i \in DOMAIN program.functions : \A t \in program.functions[i].used :
                          LayoutEnd(program.types, t)
                THEN "built" ELSE "endless"
  /\ UNCHANGED <<program, stage, at, told, diag, hadError>>

Step ==
  \/ ParseModule \/ EndParse \/ ResolveAll \/ TypeCheck
  \/ CheckPatterns \/ CheckSafety \/ CheckBuiltins \/ CheckLiterals \/ EndChecks
  \/ Generate
Stopped == outcome # "running" /\ UNCHANGED vars
Next == Step \/ Stopped
Spec == Init /\ [][Next]_vars

(***************************************************************************)
(* Properties.                                                             *)
(***************************************************************************)

(* What is wrong with a program, and which of it cannot be missed: mistakes *)
(* of the checks that only collect are told by the safety check of a later *)
(* function, if there is one that is not unsafe.                           *)
SyntaxMistakes == {Msg("syntax", i) : i \in {j \in DOMAIN program.broken : program.broken[j]}}
NameMistakes ==
  MsgIf(program.undeclared, "declare", 1) \cup MsgIf(program.unresolved, "resolve", 1)
MistakesOf(i) ==
  LET f == program.functions[i]
      misfit == \E k \in DOMAIN f.transmuted : ~f.transmuted[k].fits
  IN MsgIf(f.body /\ f.gap, "pattern", i)
       \cup MsgIf(f.body /\ ~f.unsafe /\ f.misuse, "unsafe", i)
       \cup MsgIf(f.body /\ misfit, "transmute", i)
       \cup MsgIf(f.body /\ f.badBuiltin, "builtin", i)
       \cup MsgIf(f.body /\ f.bigLiteral, "literal", i)
FunctionMistakes == UNION {MistakesOf(i) : i \in DOMAIN program.functions}
ToldLater(i) == \E j \in DOMAIN program.functions : j > i /\ ~program.functions[j].unsafe
Silent ==
  UNION {{Msg("builtin", i), Msg("literal", i)}
           \cup MsgIf(program.functions[i].unsafe, "transmute", i)
         : i \in {j \in DOMAIN program.functions : ~ToldLater(j)}}
FirstMistakes ==
  IF SyntaxMistakes # {} THEN SyntaxMistakes
  ELSE IF NameMistakes # {} THEN NameMistakes
  ELSE IF TypeMessages # {} THEN TypeMessages ELSE FunctionMistakes

(* main.rs: the mistakes of the first stage that finds one are all told,   *)
(* and nothing else is; only those of the checks that collect are not told *)
(* when no function follows that reports them.  A program is refused       *)
(* exactly if it has one, told or not, and nothing is made of it.          *)
EveryMistakeIsTold ==
  /\ outcome = "refused" => FirstMistakes # {} /\ told = FirstMistakes \ Silent
  /\ outcome \in {"checked", "built"} => FirstMistakes = {} /\ told = {}
=============================================================================
