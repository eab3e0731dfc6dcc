----------------------------- MODULE Driver_proofs -----------------------------
(***************************************************************************)
(* Proofs about Driver, for every program and whatever the walks over its  *)
(* types answer: which of the mistakes of a program are told.              *)
(***************************************************************************)
EXTENDS Driver, Integers, TLAPS

F == DOMAIN program.functions
Is(i) == program.functions[i]
Misfits(i) == \E k \in DOMAIN Is(i).transmuted : ~Is(i).transmuted[k].fits

(* What each of the four checks finds in a function.                       *)
PatternPart(i) == MsgIf(Is(i).body /\ Is(i).gap, "pattern", i)
SafetyPart(i) ==
  IF Is(i).unsafe THEN {}
  ELSE MsgIf(Is(i).body /\ Misfits(i), "transmute", i)
         \cup MsgIf(Is(i).body /\ Is(i).misuse, "unsafe", i)
BuiltinPart(i) == MsgIf(Is(i).body /\ Misfits(i), "transmute", i)
                    \cup MsgIf(Is(i).body /\ Is(i).badBuiltin, "builtin", i)
LiteralPart(i) == MsgIf(Is(i).body /\ Is(i).bigLiteral, "literal", i)

(* What has been found so far that is told at once, what has been left in  *)
(* the context, and in which functions something was left that a later     *)
(* safety check has told.                                                  *)
SafeUpTo == IF stage \in {"builtins", "literals"} THEN at ELSE at - 1
Tells ==
  [i \in F |-> (IF i < at \/ (i = at /\ stage # "patterns") THEN PatternPart(i) ELSE {})
                 \cup (IF i <= SafeUpTo THEN SafetyPart(i) ELSE {})]
Leaves ==
  [i \in F |-> (IF i < at \/ (i = at /\ stage = "literals") THEN BuiltinPart(i) ELSE {})
                 \cup (IF i < at THEN LiteralPart(i) ELSE {})]
Reported == {i \in F : \E j \in F : i < j /\ j <= SafeUpTo /\ ~Is(j).unsafe}
All(f, S) == UNION {f[i] : i \in S}

Checking == {"patterns", "safety", "builtins", "literals"}
ParseInv ==
  stage = "parse" =>
    /\ at \in 1 .. Len(program.broken) + 1 /\ diag = {}
    /\ told = {Msg("syntax", i) : i \in {j \in DOMAIN program.broken : j < at /\ program.broken[j]}}
    /\ hadError <=> told # {}
CheckInv ==
  stage \in Checking =>
    /\ at \in 1 .. Len(program.functions) + 1 /\ (stage # "patterns" => at \in F)
    /\ told = All(Tells, F) \cup All(Leaves, Reported)
    /\ diag = All(Leaves, F \ Reported)
    /\ hadError <=> All(Tells, F) \cup All(Leaves, F) # {}
StageInv ==
  /\ stage \in {"parse", "resolve", "typecheck", "generate"} \cup Checking
  /\ stage # "parse" => SyntaxMistakes = {}
  /\ stage \notin {"parse", "resolve"} => NameMistakes = {}
  /\ stage \notin {"parse", "resolve", "typecheck"} => TypeMessages = {}
  /\ stage \in {"resolve", "typecheck"} => told = {} /\ diag = {} /\ ~hadError
  /\ stage = "generate" => FunctionMistakes = {} /\ told = {}

DriverInv ==
  /\ program \in Programs
  /\ outcome = "running" => ParseInv /\ CheckInv /\ StageInv
  /\ EveryMistakeIsTold

-----------------------------------------------------------------------------
(* Messages gathered from several functions.                               *)

LEMMA AllGrows ==
  ASSUME NEW S, NEW f, NEW g, NEW a \in S, NEW D,
         \A i \in S \ {a} : g[i] = f[i], g[a] = f[a] \cup D
  PROVE  All(g, S) = All(f, S) \cup D
<1>1. ASSUME NEW m
      PROVE  m \in All(g, S) <=> m \in All(f, S) \/ m \in D
  BY DEF All
<1> QED BY <1>1

LEMMA AllSplit ==
  ASSUME NEW S, NEW f, NEW R \in SUBSET S
  PROVE  All(f, S) = All(f, R) \cup All(f, S \ R)
BY DEF All

LEMMA AllEmpty ==
  ASSUME NEW S, NEW f, \A i \in S : f[i] = {}
  PROVE  All(f, S) = {}
BY DEF All

(* What the program says stays the same.                                   *)
LEMMA SameProgram ==
  ASSUME UNCHANGED program
  PROVE  /\ F' = F
         /\ \A i : /\ PatternPart(i)' = PatternPart(i) /\ SafetyPart(i)' = SafetyPart(i)
                   /\ BuiltinPart(i)' = BuiltinPart(i) /\ LiteralPart(i)' = LiteralPart(i)
                   /\ Is(i)' = Is(i)
         /\ SyntaxMistakes' = SyntaxMistakes /\ NameMistakes' = NameMistakes
         /\ TypeMessages' = TypeMessages /\ FunctionMistakes' = FunctionMistakes
         /\ FirstMistakes' = FirstMistakes /\ Silent' = Silent
BY DEF F, Is, Misfits, PatternPart, SafetyPart, BuiltinPart, LiteralPart, SyntaxMistakes,
       NameMistakes, TypeMessages, RecursiveTypes, IllTyped, FunctionMistakes, MistakesOf,
       FirstMistakes, Silent, ToldLater

(* A function's mistakes are what is told of it at once and what is left.  *)
LEMMA PartsAreMistakes ==
  ASSUME NEW i
  PROVE  MistakesOf(i) = PatternPart(i) \cup SafetyPart(i) \cup BuiltinPart(i) \cup LiteralPart(i)
BY DEF MistakesOf, PatternPart, SafetyPart, BuiltinPart, LiteralPart, Misfits, Is, MsgIf

-----------------------------------------------------------------------------
(* The checks of one function.                                             *)

(* What a check has to show.                                               *)
LEMMA CheckInvKept ==
  ASSUME UNCHANGED program, at' \in 1 .. Len(program.functions) + 1,
         stage' # "patterns" => at' \in F,
         told' = All(Tells', F) \cup All(Leaves', Reported'),
         diag' = All(Leaves', F \ Reported'),
         hadError' <=> All(Tells', F) \cup All(Leaves', F) # {}
  PROVE  CheckInv'
<1>1. F' = F
  BY SameProgram
<1>2. /\ All(Tells, F)' = All(Tells', F) /\ All(Leaves, F)' = All(Leaves', F)
      /\ All(Leaves, Reported)' = All(Leaves', Reported')
      /\ All(Leaves, F \ Reported)' = All(Leaves', F \ Reported')
  BY <1>1 DEF All
<1> QED BY <1>1, <1>2 DEF CheckInv

LEMMA Numbers ==
  ASSUME DriverInv
  PROVE  /\ Len(program.functions) \in Nat /\ F = 1 .. Len(program.functions) /\ F \subseteq Nat
         /\ \A i \in F : i \in Int
BY ProgramsAssumption DEF DriverInv, F

LEMMA BadTransmutesAre == BadTransmutes = MsgIf(Is(at).body /\ Misfits(at), "transmute", at)
<1>1. CASE Is(at).body
  BY <1>1 DEF BadTransmutes, Transmutes, Function, Is, Misfits, MsgIf
<1>2. CASE ~Is(at).body
  <2>1. DOMAIN Transmutes = {}
    BY <1>2 DEF Transmutes, Function, Is
  <2> QED BY <1>2, <2>1 DEF BadTransmutes, MsgIf
<1> QED BY <1>1, <1>2

LEMMA CheckPatternsKeeps ==
  ASSUME DriverInv, CheckPatterns, outcome' = "running"
  PROVE  CheckInv' /\ stage' = "safety"
<1>1. /\ outcome = "running" /\ stage = "patterns" /\ stage' = "safety" /\ at \in F
      /\ UNCHANGED <<at, program, diag>> /\ CheckInv
  BY DEF CheckPatterns, At, GoTo, DriverInv, F
<1>2. told' = told \cup PatternPart(at) /\ (hadError' <=> hadError \/ PatternPart(at) # {})
  BY <1>1 DEF CheckPatterns, GoTo, OrElse, PatternPart, MsgIf, Function, Is
<1>3. Leaves' = Leaves /\ Reported' = Reported
  BY <1>1, Numbers, SameProgram DEF Leaves, Reported, SafeUpTo
<1>4. All(Tells', F) = All(Tells, F) \cup PatternPart(at)
  <2>1. \A i \in F \ {at} : Tells'[i] = Tells[i]
    BY <1>1, Numbers, SameProgram DEF Tells, SafeUpTo
  <2>2. Tells'[at] = Tells[at] \cup PatternPart(at)
    BY <1>1, Numbers, SameProgram DEF Tells, SafeUpTo
  <2> QED BY <1>1, <2>1, <2>2, AllGrows
<1>5. CheckInv'
  BY <1>1, <1>2, <1>3, <1>4, CheckInvKept DEF CheckInv, Checking
<1> QED BY <1>1, <1>5

LEMMA CheckSafetyKeeps ==
  ASSUME DriverInv, CheckSafety, outcome' = "running"
  PROVE  CheckInv' /\ stage' = "builtins"
<1>1. /\ outcome = "running" /\ stage = "safety" /\ stage' = "builtins" /\ at \in F
      /\ UNCHANGED <<at, program>> /\ CheckInv
  BY DEF CheckSafety, At, GoTo, DriverInv, CheckInv, Checking
<1>2. Leaves' = Leaves /\ \A i \in F : ~(i < at) => Leaves[i] = {}
  BY <1>1, Numbers, SameProgram DEF Leaves
<1>3. All(Tells', F) = All(Tells, F) \cup SafetyPart(at)
  <2>1. \A i \in F \ {at} : Tells'[i] = Tells[i]
    BY <1>1, Numbers, SameProgram DEF Tells, SafeUpTo
  <2>2. Tells'[at] = Tells[at] \cup SafetyPart(at)
    BY <1>1, Numbers, SameProgram DEF Tells, SafeUpTo
  <2> QED BY <1>1, <2>1, <2>2, AllGrows
<1>4. CASE Is(at).unsafe
  <2>1. UNCHANGED <<told, diag, hadError>> /\ SafetyPart(at) = {}
    BY <1>4 DEF CheckSafety, Function, Is, SafetyPart
  <2>2. Reported' = Reported
    BY <1>1, <1>4, Numbers, SameProgram DEF Reported, SafeUpTo
  <2>3. CheckInv'
    BY <1>1, <1>2, <1>3, <2>1, <2>2, CheckInvKept DEF CheckInv, Checking
  <2> QED BY <1>1, <2>3
<1>5. CASE ~Is(at).unsafe
  <2>1. /\ told' = told \cup diag \cup SafetyPart(at) /\ diag' = {}
        /\ hadError' <=> hadError \/ diag \cup SafetyPart(at) # {}
    BY <1>1, <1>5, BadTransmutesAre DEF CheckSafety, ReportAll, OrElse, Function, Is, SafetyPart
  <2>2. Reported' = {i \in F : i < at}
    BY <1>1, <1>5, Numbers, SameProgram DEF Reported, SafeUpTo
  <2>3. Reported \subseteq F /\ Reported' \subseteq F
    BY <2>2 DEF Reported
  <2>4. All(Leaves, F \ Reported') = {}
    BY <1>2, <2>2, AllEmpty
  <2>5. All(Leaves, F) = All(Leaves, Reported')
    BY <2>3, <2>4, AllSplit
  <2>6. All(Leaves, F) = All(Leaves, Reported) \cup diag
    BY <1>1, <2>3, AllSplit DEF CheckInv, Checking
  <2>7. CheckInv'
    BY <1>1, <1>2, <1>3, <2>1, <2>4, <2>5, <2>6, CheckInvKept DEF CheckInv, Checking
  <2> QED BY <1>1, <2>7
<1> QED BY <1>4, <1>5

LEMMA CheckBuiltinsKeeps ==
  ASSUME DriverInv, CheckBuiltins, outcome' = "running"
  PROVE  CheckInv' /\ stage' = "literals"
<1>1. /\ outcome = "running" /\ stage = "builtins" /\ stage' = "literals" /\ at \in F
      /\ UNCHANGED <<at, program, told>> /\ CheckInv
  BY DEF CheckBuiltins, At, GoTo, DriverInv, CheckInv, Checking
<1>2. diag' = diag \cup BuiltinPart(at) /\ (hadError' <=> hadError \/ BuiltinPart(at) # {})
  BY <1>1, BadTransmutesAre DEF CheckBuiltins, OrElse, Function, Is, BuiltinPart
<1>3. Tells' = Tells /\ Reported' = Reported /\ at \in F \ Reported
  BY <1>1, Numbers, SameProgram DEF Tells, Reported, SafeUpTo
<1>4. ASSUME NEW S \in SUBSET F, at \in S
      PROVE  All(Leaves', S) = All(Leaves, S) \cup BuiltinPart(at)
  <2>1. \A i \in S \ {at} : Leaves'[i] = Leaves[i]
    BY <1>1, Numbers, SameProgram DEF Leaves
  <2>2. Leaves'[at] = Leaves[at] \cup BuiltinPart(at)
    BY <1>1, Numbers, SameProgram DEF Leaves
  <2> QED BY <1>4, <2>1, <2>2, AllGrows
<1>5. All(Leaves', Reported) = All(Leaves, Reported)
  <2>1. \A i \in Reported : Leaves'[i] = Leaves[i]
    BY <1>1, <1>3, Numbers, SameProgram DEF Leaves, Reported
  <2> QED BY <2>1 DEF All
<1>6. CheckInv'
  <2>1. F \ Reported \in SUBSET F /\ F \in SUBSET F
    OBVIOUS
  <2> QED BY <1>1, <1>2, <1>3, <1>4, <1>5, <2>1, CheckInvKept DEF CheckInv, Checking
<1> QED BY <1>1, <1>6

LEMMA CheckLiteralsKeeps ==
  ASSUME DriverInv, CheckLiterals
  PROVE  CheckInv' /\ stage' = "patterns"
<1>1. /\ outcome = "running" /\ stage = "literals" /\ stage' = "patterns" /\ at \in F
      /\ UNCHANGED <<program, told>> /\ CheckInv /\ at' = at + 1
  BY DEF CheckLiterals, At, GoTo, DriverInv, CheckInv, Checking
<1>2. diag' = diag \cup LiteralPart(at) /\ (hadError' <=> hadError \/ LiteralPart(at) # {})
  BY <1>1 DEF CheckLiterals, OrElse, Function, Is, LiteralPart, MsgIf
<1>3. Tells' = Tells /\ Reported' = Reported /\ at \in F \ Reported
  BY <1>1, Numbers, SameProgram DEF Tells, Reported, SafeUpTo
<1>4. \A i \in F : i < at' <=> i < at \/ i = at
  BY <1>1, Numbers
<1>5. ASSUME NEW S \in SUBSET F, at \in S
      PROVE  All(Leaves', S) = All(Leaves, S) \cup LiteralPart(at)
  <2>1. \A i \in S \ {at} : Leaves'[i] = Leaves[i]
    BY <1>1, <1>4, Numbers, SameProgram DEF Leaves
  <2>2. Leaves'[at] = Leaves[at] \cup LiteralPart(at)
    BY <1>1, <1>4, Numbers, SameProgram DEF Leaves
  <2>3. ASSUME NEW m
        PROVE  m \in All(Leaves', S) <=> m \in All(Leaves, S) \/ m \in LiteralPart(at)
    <3>1. m \in All(Leaves', S) <=> \E i \in S : m \in Leaves'[i]
      BY DEF All
    <3>2. m \in All(Leaves, S) <=> \E i \in S : m \in Leaves[i]
      BY DEF All
    <3> QED BY <1>5, <2>1, <2>2, <3>1, <3>2
  <2> QED BY <2>3
<1>6. All(Leaves', Reported) = All(Leaves, Reported)
  <2>1. \A i \in Reported : Leaves'[i] = Leaves[i]
    BY <1>1, <1>3, <1>4, Numbers, SameProgram DEF Leaves, Reported
  <2> QED BY <2>1 DEF All
<1>7. CheckInv'
  <2>1. F \ Reported \in SUBSET F /\ F \in SUBSET F
    OBVIOUS
  <2>2. at' \in 1 .. Len(program.functions) + 1
    BY <1>1, Numbers
  <2> QED BY <1>1, <1>2, <1>3, <1>5, <1>6, <2>1, <2>2, CheckInvKept DEF CheckInv, Checking
<1> QED BY <1>1, <1>7

-----------------------------------------------------------------------------
(* The stages before and after the checks of the functions.                *)

LEMMA SilentNames ==
  /\ \A m \in Silent : m[1] \in {"builtin", "literal", "transmute"}
  /\ \A m \in SyntaxMistakes \cup NameMistakes \cup TypeMessages :
       m[1] \notin {"builtin", "literal", "transmute"}
<1>1. ASSUME NEW m \in Silent
      PROVE  m[1] \in {"builtin", "literal", "transmute"}
  BY DEF Silent, MsgIf, Msg
<1>2. ASSUME NEW m \in SyntaxMistakes
      PROVE  m[1] = "syntax"
  BY DEF SyntaxMistakes, Msg
<1>3. ASSUME NEW m \in NameMistakes
      PROVE  m[1] \in {"declare", "resolve"}
  BY DEF NameMistakes, MsgIf, Msg
<1>4. ASSUME NEW m \in TypeMessages
      PROVE  m[1] \in {"main", "recursive type", "type"}
  <2>1. \A wrong, check, of : m \in MsgIf(wrong, check, of) => m[1] = check
    BY DEF MsgIf, Msg
  <2>2. m \in RecursiveTypes => m[1] = "recursive type"
    BY <2>1 DEF RecursiveTypes
  <2>3. m \in IllTyped => m[1] = "type"
    BY <2>1 DEF IllTyped
  <2> QED BY <2>1, <2>2, <2>3 DEF TypeMessages
<1> QED BY <1>1, <1>2, <1>3, <1>4

(* Of the mistakes of a function, those that are never told.               *)
LEMMA SilentOf ==
  ASSUME NEW i \in F, NEW m \in MistakesOf(i)
  PROVE  m \in Silent <=> /\ ~ToldLater(i)
                          /\ \/ m \in {Msg("builtin", i), Msg("literal", i)}
                             \/ m = Msg("transmute", i) /\ Is(i).unsafe
<1>1. m[2] = i
  BY DEF MistakesOf, MsgIf, Msg
<1>2. ASSUME m \in Silent
      PROVE  /\ ~ToldLater(i)
             /\ \/ m \in {Msg("builtin", i), Msg("literal", i)}
                \/ m = Msg("transmute", i) /\ Is(i).unsafe
  <2>1. PICK j \in F : /\ ~ToldLater(j)
                       /\ \/ m \in {Msg("builtin", j), Msg("literal", j)}
                          \/ m = Msg("transmute", j) /\ Is(j).unsafe
    BY <1>2 DEF Silent, MsgIf, F, Is
  <2>2. m[2] = j
    BY <2>1 DEF Msg
  <2> QED BY <1>1, <2>1, <2>2
<1> QED BY <1>2 DEF Silent, MsgIf, F, Is

LEMMA ParseModuleKeeps ==
  ASSUME DriverInv, ParseModule
  PROVE  ParseInv' /\ stage' = "parse" /\ outcome' = "running"
<1>1. /\ outcome = "running" /\ stage = "parse" /\ stage' = "parse" /\ outcome' = "running"
      /\ at \in DOMAIN program.broken /\ at' = at + 1 /\ UNCHANGED program /\ ParseInv
      /\ told' = told \cup MsgIf(program.broken[at], "syntax", at) /\ diag' = {}
      /\ hadError' <=> hadError \/ program.broken[at]
  BY DEF ParseModule, ParseFile, At, GoTo, ReportAll, DriverInv
<1>2. /\ DOMAIN program.broken = 1 .. Len(program.broken) /\ Len(program.broken) \in Nat
  BY ProgramsAssumption DEF DriverInv
<1>3. \A i \in DOMAIN program.broken : i < at' <=> i < at \/ i = at
  BY <1>1, <1>2
<1>4. told' = {Msg("syntax", i) : i \in {j \in DOMAIN program.broken : j < at' /\ program.broken[j]}}
  BY <1>1, <1>3 DEF ParseInv, MsgIf
<1>5. hadError' <=> told' # {}
  BY <1>1 DEF ParseInv, MsgIf
<1>6. at' \in 1 .. Len(program.broken) + 1
  BY <1>1, <1>2
<1> QED BY <1>1, <1>4, <1>5, <1>6 DEF ParseInv

LEMMA EndParseKeeps ==
  ASSUME DriverInv, EndParse
  PROVE  /\ outcome' = "running" => stage' = "resolve" /\ StageInv'
         /\ EveryMistakeIsTold'
<1>1. /\ outcome = "running" /\ stage = "parse" /\ at \notin DOMAIN program.broken
      /\ UNCHANGED <<program, told, diag, hadError>> /\ ParseInv
  BY DEF EndParse, At, DriverInv
<1>2. /\ DOMAIN program.broken = 1 .. Len(program.broken) /\ Len(program.broken) \in Nat
  BY ProgramsAssumption DEF DriverInv
<1>3. \A i \in DOMAIN program.broken : i < at
  BY <1>1, <1>2 DEF ParseInv
<1>4. told = SyntaxMistakes /\ diag = {} /\ (hadError <=> SyntaxMistakes # {})
  BY <1>1, <1>3 DEF ParseInv, SyntaxMistakes
<1>5. CASE hadError
  <2>1. outcome' = "refused" /\ FirstMistakes = SyntaxMistakes /\ SyntaxMistakes # {}
    BY <1>4, <1>5 DEF EndParse, Refuse, FirstMistakes
  <2>2. SyntaxMistakes \ Silent = SyntaxMistakes
    BY SilentNames
  <2> QED BY <1>1, <1>4, <2>1, <2>2, SameProgram DEF EveryMistakeIsTold
<1>6. CASE ~hadError
  BY <1>1, <1>4, <1>6, SameProgram DEF EndParse, GoTo, EveryMistakeIsTold, StageInv, Checking
<1> QED BY <1>5, <1>6

LEMMA ResolveAllKeeps ==
  ASSUME DriverInv, ResolveAll
  PROVE  /\ outcome' = "running" => stage' = "typecheck" /\ StageInv'
         /\ EveryMistakeIsTold'
<1>1. /\ outcome = "running" /\ stage = "resolve" /\ UNCHANGED <<program, hadError>>
      /\ SyntaxMistakes = {} /\ told = {} /\ ~hadError /\ told' = NameMistakes /\ diag' = {}
  BY DEF ResolveAll, At, ReportAll, DriverInv, StageInv, NameMistakes
<1>2. CASE program.undeclared \/ program.unresolved
  <2>1. outcome' = "refused" /\ FirstMistakes = NameMistakes /\ NameMistakes # {}
    BY <1>1, <1>2 DEF ResolveAll, Refuse, FirstMistakes, NameMistakes, MsgIf
  <2>2. NameMistakes \ Silent = NameMistakes
    BY SilentNames
  <2> QED BY <1>1, <2>1, <2>2, SameProgram DEF EveryMistakeIsTold
<1>3. CASE ~(program.undeclared \/ program.unresolved)
  <2>1. NameMistakes = {}
    BY <1>3 DEF NameMistakes, MsgIf
  <2> QED BY <1>1, <1>3, <2>1, SameProgram DEF ResolveAll, GoTo, EveryMistakeIsTold, StageInv, Checking
<1> QED BY <1>2, <1>3

LEMMA TypeCheckKeeps ==
  ASSUME DriverInv, TypeCheck
  PROVE  /\ outcome' = "running" => stage' = "patterns" /\ StageInv' /\ CheckInv'
         /\ EveryMistakeIsTold'
<1>1. /\ outcome = "running" /\ stage = "typecheck" /\ UNCHANGED <<program, hadError>>
      /\ SyntaxMistakes = {} /\ NameMistakes = {} /\ ~hadError
      /\ told' = TypeMessages /\ diag' = {}
  BY DEF TypeCheck, At, ReportAll, DriverInv, StageInv
<1>2. CASE TypeMessages # {}
  <2>1. outcome' = "refused" /\ FirstMistakes = TypeMessages
    BY <1>1, <1>2 DEF TypeCheck, Refuse, FirstMistakes
  <2>2. TypeMessages \ Silent = TypeMessages
    BY SilentNames
  <2> QED BY <1>1, <1>2, <2>1, <2>2, SameProgram DEF EveryMistakeIsTold
<1>3. CASE TypeMessages = {}
  <2>1. outcome' = "running" /\ stage' = "patterns" /\ at' = 1
    BY <1>1, <1>3 DEF TypeCheck, GoTo
  <2>2. StageInv' /\ EveryMistakeIsTold'
    BY <1>1, <1>3, <2>1, SameProgram DEF EveryMistakeIsTold, StageInv, Checking
  <2>3. (\A i \in F : Tells'[i] = {}) /\ (\A i \in F : Leaves'[i] = {})
    BY <1>1, <2>1, Numbers, SameProgram DEF Tells, Leaves, SafeUpTo
  <2>4. /\ All(Tells', F) = {} /\ All(Leaves', F) = {}
        /\ All(Leaves', Reported') = {} /\ All(Leaves', F \ Reported') = {}
    <3>1. Reported' \subseteq F
      BY <1>1, SameProgram DEF Reported
    <3> QED BY <2>3, <3>1 DEF All
  <2>5. at' \in 1 .. Len(program.functions) + 1
    BY <2>1, Numbers
  <2>6. CheckInv'
    BY <1>1, <1>3, <2>1, <2>4, <2>5, CheckInvKept
  <2> QED BY <2>1, <2>2, <2>6
<1> QED BY <1>2, <1>3

LEMMA EndChecksKeeps ==
  ASSUME DriverInv, EndChecks
  PROVE  /\ outcome' = "running" => stage' = "generate" /\ StageInv'
         /\ EveryMistakeIsTold'
<1>1. /\ outcome = "running" /\ stage = "patterns" /\ at \notin F
      /\ UNCHANGED <<program, told, diag, hadError>> /\ CheckInv
      /\ SyntaxMistakes = {} /\ NameMistakes = {} /\ TypeMessages = {}
  BY DEF EndChecks, At, DriverInv, StageInv, Checking, F
<1>2. SafeUpTo = Len(program.functions) /\ \A i \in F : i < at /\ i <= SafeUpTo
  BY <1>1, Numbers DEF CheckInv, Checking, SafeUpTo
<1>3. \A i \in F : Tells[i] = PatternPart(i) \cup SafetyPart(i)
  BY <1>2 DEF Tells
<1>4. \A i \in F : Leaves[i] = BuiltinPart(i) \cup LiteralPart(i)
  BY <1>2 DEF Leaves
<1>5. \A i \in F : i \in Reported <=> ToldLater(i)
  BY <1>2, Numbers DEF Reported, ToldLater, F, Is
<1>6. FunctionMistakes = All(Tells, F) \cup All(Leaves, F)
  BY <1>3, <1>4, PartsAreMistakes DEF FunctionMistakes, All, F
<1>7. told = FunctionMistakes \ Silent
  <2>1. ASSUME NEW i \in F, NEW m \in Tells[i]
        PROVE  m \in FunctionMistakes /\ m \notin Silent
    <3>1. m \in MistakesOf(i)
      BY <1>3, <2>1, PartsAreMistakes
    <3>2. /\ m \notin {Msg("builtin", i), Msg("literal", i)}
          /\ ~(m = Msg("transmute", i) /\ Is(i).unsafe)
      BY <1>3, <2>1 DEF PatternPart, SafetyPart, MsgIf, Msg
    <3> QED BY <3>1, <3>2, SilentOf DEF FunctionMistakes, F
  <2>2. ASSUME NEW i \in Reported, NEW m \in Leaves[i]
        PROVE  m \in FunctionMistakes /\ m \notin Silent
    <3>1. i \in F /\ m \in MistakesOf(i)
      BY <1>4, <2>2, PartsAreMistakes DEF Reported
    <3> QED BY <1>5, <2>2, <3>1, SilentOf DEF FunctionMistakes, F
  <2>3. ASSUME NEW i \in F, NEW m \in MistakesOf(i), m \notin Silent
        PROVE  m \in Tells[i] \/ (i \in Reported /\ m \in Leaves[i])
    <3>1. m \in Tells[i] \cup Leaves[i]
      BY <1>3, <1>4, PartsAreMistakes
    <3>2. CASE m \notin Tells[i] /\ ~ToldLater(i)
      <4>1. \/ m \in {Msg("builtin", i), Msg("literal", i)}
            \/ m = Msg("transmute", i) /\ Misfits(i) /\ Is(i).body
        BY <1>4, <3>1, <3>2 DEF BuiltinPart, LiteralPart, MsgIf
      <4>2. m = Msg("transmute", i) => Is(i).unsafe
        BY <1>3, <3>2, <4>1 DEF SafetyPart, MsgIf, Msg
      <4> QED BY <2>3, <3>2, <4>1, <4>2, SilentOf
    <3> QED BY <1>5, <3>1, <3>2
  <2>4. told = All(Tells, F) \cup All(Leaves, Reported)
    BY <1>1 DEF CheckInv, Checking
  <2>5. \A m : m \in told => m \in FunctionMistakes \ Silent
    BY <2>1, <2>2, <2>4 DEF All
  <2>6. \A m : m \in FunctionMistakes \ Silent => m \in told
    BY <2>3, <2>4 DEF All, FunctionMistakes, F
  <2> QED BY <2>5, <2>6
<1>8. hadError <=> FunctionMistakes # {}
  BY <1>1, <1>6 DEF CheckInv, Checking
<1>9. FirstMistakes = FunctionMistakes
  BY <1>1 DEF FirstMistakes
<1>10. CASE hadError
  <2>1. outcome' = "refused"
    BY <1>10 DEF EndChecks, Refuse
  <2> QED BY <1>1, <1>7, <1>8, <1>9, <1>10, <2>1, SameProgram DEF EveryMistakeIsTold
<1>11. CASE ~hadError
  <2>1. outcome' = "running" /\ stage' = "generate" /\ FunctionMistakes = {} /\ told = {}
    BY <1>1, <1>7, <1>8, <1>11 DEF EndChecks, GoTo
  <2> QED BY <1>1, <2>1, SameProgram DEF EveryMistakeIsTold, StageInv, Checking
<1> QED BY <1>10, <1>11

LEMMA GenerateKeeps ==
  ASSUME DriverInv, Generate
  PROVE  EveryMistakeIsTold' /\ outcome' # "running" /\ UNCHANGED program
<1>1. /\ outcome = "running" /\ stage = "generate" /\ UNCHANGED <<program, told>>
      /\ FirstMistakes = {} /\ told = {} /\ outcome' \in {"checked", "built", "endless"}
  BY DEF Generate, At, DriverInv, StageInv, FirstMistakes, Checking
<1> QED BY <1>1, SameProgram DEF EveryMistakeIsTold

-----------------------------------------------------------------------------
LEMMA DriverStarts ==
  ASSUME Init
  PROVE  DriverInv
<1>1. 1 \in 1 .. Len(program.broken) + 1 /\ \A j \in DOMAIN program.broken : ~(j < 1)
  BY ProgramsAssumption DEF Init
<1> QED BY <1>1 DEF Init, DriverInv, ParseInv, CheckInv, StageInv, Checking, EveryMistakeIsTold

LEMMA DriverStays ==
  ASSUME DriverInv, [Next]_vars
  PROVE  DriverInv'
<1>1. CASE UNCHANGED vars
  <2>1. UNCHANGED <<F, Tells, Leaves, Reported, SyntaxMistakes, NameMistakes, TypeMessages, FunctionMistakes>>
    BY <1>1 DEF vars, F, Is, Misfits, PatternPart, SafetyPart, BuiltinPart, LiteralPart, SafeUpTo,
                Tells, Leaves, Reported, SyntaxMistakes, NameMistakes, TypeMessages, RecursiveTypes,
                IllTyped, FunctionMistakes, MistakesOf
  <2>2. UNCHANGED <<All(Tells, F), All(Leaves, F), All(Leaves, Reported), All(Leaves, F \ Reported)>>
    BY <2>1 DEF All
  <2>3. UNCHANGED EveryMistakeIsTold
    BY <1>1, SameProgram DEF vars, EveryMistakeIsTold
  <2>4. UNCHANGED <<ParseInv, CheckInv, StageInv>>
    BY <1>1, <2>1, <2>2 DEF vars, ParseInv, CheckInv, StageInv
  <2> QED BY <1>1, <2>3, <2>4 DEF vars, DriverInv
<1>2. CASE Step
  <2>1. program' = program /\ outcome = "running"
    BY <1>2 DEF Step, ParseModule, ParseFile, EndParse, ResolveAll, TypeCheck, CheckPatterns, CheckSafety,
                CheckBuiltins, CheckLiterals, EndChecks, Generate, At
  <2>2. program' \in Programs
    BY <2>1 DEF DriverInv
  <2>3. CASE outcome' = "endless"
    BY <2>2, <2>3 DEF DriverInv, EveryMistakeIsTold
  <2>4. CASE ParseModule
    BY <2>1, <2>2, <2>4, ParseModuleKeeps
       DEF DriverInv, CheckInv, StageInv, Checking, EveryMistakeIsTold
  <2>5. CASE EndParse
    BY <2>2, <2>5, EndParseKeeps DEF DriverInv, ParseInv, CheckInv, Checking
  <2>6. CASE ResolveAll
    BY <2>2, <2>6, ResolveAllKeeps DEF DriverInv, ParseInv, CheckInv, Checking
  <2>7. CASE TypeCheck
    BY <2>2, <2>7, TypeCheckKeeps DEF DriverInv, ParseInv
  <2>8. CASE EndChecks
    BY <2>2, <2>8, EndChecksKeeps DEF DriverInv, ParseInv, CheckInv, Checking
  <2>9. CASE Generate
    BY <2>2, <2>9, GenerateKeeps DEF DriverInv
  <2>10. ASSUME outcome' # "endless",
                CheckPatterns \/ CheckSafety \/ CheckBuiltins \/ CheckLiterals
         PROVE  DriverInv'
    <3>1. outcome' = "running" /\ stage \in Checking /\ StageInv
      BY <2>10 DEF CheckPatterns, CheckSafety, CheckBuiltins, CheckLiterals, At, GoTo, Checking, DriverInv
    <3>2. CheckInv' /\ stage' \in Checking
      BY <2>10, <3>1, CheckPatternsKeeps, CheckSafetyKeeps, CheckBuiltinsKeeps, CheckLiteralsKeeps
         DEF Checking
    <3>3. StageInv'
      BY <2>1, <3>1, <3>2, SameProgram DEF StageInv, Checking
    <3> QED BY <2>2, <3>1, <3>2, <3>3 DEF DriverInv, ParseInv, Checking, EveryMistakeIsTold
  <2> QED BY <1>2, <2>3, <2>4, <2>5, <2>6, <2>7, <2>8, <2>9, <2>10 DEF Step
<1>3. CASE Stopped
  BY <1>1, <1>3 DEF Stopped
<1> QED BY <1>1, <1>2, <1>3 DEF Next

(* main.rs: whatever the programs are, every mistake of the first stage    *)
(* that finds one has been told when a compilation ends, but for those the *)
(* collecting checks leave when no later function reports, and a program   *)
(* is refused exactly if it has a mistake.                                 *)
THEOREM MistakesAreTold == Spec => []EveryMistakeIsTold
<1>1. Init => DriverInv
  BY DriverStarts
<1>2. DriverInv /\ [Next]_vars => DriverInv'
  BY DriverStays
<1>3. DriverInv => EveryMistakeIsTold
  BY DEF DriverInv
<1> QED BY <1>1, <1>2, <1>3, PTL DEF Spec
=============================================================================
