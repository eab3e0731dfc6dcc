------------------------------- MODULE Grammar -------------------------------
(***************************************************************************)
(* The recursive descent of the parser (src/parsing/parse.rs).  What a     *)
(* parsing function does is a list of steps in the words of the parser's   *)
(* helpers: it takes, expects or only asks for tokens, and parses parts.   *)
(* Tokens are strings; of names and literals only their kind is kept.      *)
(***************************************************************************)
EXTENDS Integers, Sequences, SequencesExt

(* Where the parser is: the tokens left, how many messages it has made,    *)
(* whether it is on its way out with a ParseError, and the parts it has.   *)
StartOf(tokens) == [rest |-> tokens, told |-> 0, ok |-> TRUE, parts |-> <<>>]
Node(kind, parts) == [kind |-> kind, parts |-> parts]
Look(r) == IF r.rest = <<>> THEN "eof" ELSE Head(r.rest)
Advance(r) == IF r.rest = <<>> THEN r ELSE [r EXCEPT !.rest = Tail(@)]
Add(r, node) == [r EXCEPT !.parts = Append(@, node)]
Fail(r) == [r EXCEPT !.told = @ + 1, !.ok = FALSE]

Literals == {"number", "true", "false", "char", "string", "panic"}
Name == "name"

(* The steps: advance(), expect(..)?, `let _ = expect(..)` which only      *)
(* complains, a part, parts between commas, parts each behind a token, and *)
(* steps that depend on the next token.                                    *)
Take == [do |-> "take"]
Expect(t) == [do |-> "expect", token |-> t]
Report(t) == [do |-> "report", token |-> t]
Part(what) == [do |-> "part", what |-> what]
List(what, end) == [do |-> "list", what |-> what, end |-> end]
All(what, end) == [do |-> "all", what |-> what, end |-> end]
While(t, what) == [do |-> "while", token |-> t, what |-> what]
Either(t, then, else) == [do |-> "either", token |-> t, then |-> then, else |-> else]
If(t, then) == Either(t, then, <<>>)

(***************************************************************************)
(* Which steps parse what, by the token it begins with; no steps stand for *)
(* the default arm of the match, which makes a message.                    *)
(***************************************************************************)
None == <<>>
Generics == If("[", <<List("generic", "]")>>)
Arguments == If("[", <<List("type", "]")>>)
Block == <<Part("block"), Expect("end")>>

PatternSteps(t) ==
  CASE t \in {"number", "char", "true", "false", Name} -> <<Take>>
    [] t = "mut" -> <<Take, Expect(Name)>>
    [] t = "{" -> <<Take, List("pattern field", "}")>>
    [] t = "." -> <<Take, Expect(Name), If("(", <<Part("pattern"), Expect(")")>>)>>
    [] OTHER -> None

TypeSteps(t) ==
  CASE t \in {"bool", "string type", "char type"} -> <<Take>>
    [] t = Name -> <<Part("type path"), Arguments>>
    [] t = "fun" -> <<Take, Expect("("), List("type", ")"), Report("->"), Part("type")>>
    [] OTHER -> None

PrefixSteps(t) ==
  CASE t \in Literals -> <<Take>>
    [] t = "for" -> <<Take, Part("pattern"), Report("in"), Part("expr"),
                      If("..", <<Part("expr")>>), Expect("do")>> \o Block
    [] t = "while" -> <<Take, Part("expr"), Expect("do")>> \o Block
    [] t \in {"unsafe", "do"} -> <<Take>> \o Block
    [] t = "return" -> <<Take, Part("expr")>>
    [] t = "case" -> <<Take, Part("expr"), While("|", "arm"), Report("end")>>
    [] t = "fun" -> <<Take, Report("("), Part("lambda params"), Expect(")"), Report("->"), Part("expr")>>
    [] t = "[" -> <<Take, List("expr", "]")>>
    [] OTHER -> None

LetSteps ==
  <<Take, Part("pattern"), If(":", <<Part("type")>>), Report("="), Part("expr"), Report(";")>>

PostfixSteps(t) ==
  CASE t = "(" -> <<Take, List("expr", ")")>>
    [] t = "^" -> <<Take>>
    [] t = "." -> <<Take, Either("[", <<Part("expr"), Expect("]")>>, <<Expect(Name)>>)>>
    [] t = "->" -> <<Take, Expect(Name), Expect("("), List("expr", ")")>>
    [] OTHER -> None

FunctionSteps ==
  <<Expect("fun"), Expect(Name), Generics, Expect("("), List("param", ")"), Expect("->"),
    Part("type"), Either(";", <<>>, <<Expect("="), Part("expr")>>)>>

(* parse_type_def has asked for one of these before it goes on.            *)
TypeDefSteps(t) ==
  CASE t = "{" -> <<Take, List("param", "}")>>
    [] t = "|" -> <<While("|", "case def")>>
    [] OTHER -> None
ItemSteps(t) ==
  CASE t = "import" -> <<Take, Part("import tree")>>
    [] t = "fun" -> FunctionSteps
    [] t = "type" -> <<Take, Expect(Name), Generics, Expect("="), Part("type def"),
                       If("impl", <<All("method", "end")>>)>>
    [] OTHER -> None

StepsOf(what, t) ==
  CASE what = "pattern" -> PatternSteps(t)
    [] what = "type" -> TypeSteps(t)
    [] what = "prefix" -> PrefixSteps(t)
    [] what = "type def" -> TypeDefSteps(t)
    [] what = "item" -> ItemSteps(t)
    [] what = "let" -> LetSteps
    [] what = "pattern field" -> <<Expect(Name), Report("="), Part("pattern")>>
    [] what = "field" -> <<Expect(Name), Report("="), Part("expr")>>
    [] what = "arm" -> <<Part("pattern"), Report("->"), Part("expr")>>
    [] what = "generic" -> <<Expect(Name)>>
    [] what = "param" -> <<Expect(Name), Report(":"), Part("type")>>
    [] what = "case def" -> <<Expect(Name), If("(", <<Part("type"), Expect(")")>>)>>
    [] what = "method" -> <<While("@", "annotation")>> \o FunctionSteps
    [] what = "import tree" ->
         <<Expect(Name), Either(".", <<Either("(", <<List("import tree", ")")>>, <<Part("import tree")>>)>>,
                                <<If("as", <<Expect(Name)>>)>>)>>
    [] what = "annotation" ->
         <<Either("unsafe", <<>>, <<Expect(Name)>>), If("(", <<List("annotation field", ")")>>)>>
    [] what = "annotation field" -> IF t \in {"string", Name} THEN <<Take>> ELSE None

(***************************************************************************)
(* Binary operators.                                                       *)
(***************************************************************************)
BindingPower ==
  [t \in {"/", "*", "&"} |-> 40] @@ [t \in {"+", "-", "bor"} |-> 35]
    @@ [t \in {"<", ">"} |-> 20] @@ ("==" :> 10) @@ ("and" :> 2) @@ ("or" :> 1)
IsBinary(t) == t \in DOMAIN BindingPower
AnyStrength(t, min) == IsBinary(t)            \* mistake: the one to the left is forgotten
BindsAt(t, min) == BindingPower[t] >= min

(***************************************************************************)
(* The functions themselves.  Each gives back where it leaves the parser,  *)
(* with what it parsed as one more part.  They call each other through Do. *)
(***************************************************************************)
RECURSIVE Do(_, _)

Parse(what, r) == Do(Part(what), r)
Steps(steps, r) == Do([do |-> "steps", steps |-> steps], r)
Power(min, r) == Do([do |-> "power", min |-> min], r)

(* A part of its own, made of the parts of q, which was parsed from r with  *)
(* no parts yet.                                                           *)
Whole(kind, r, q) ==
  IF q.ok THEN [q EXCEPT !.parts = Append(r.parts, Node(kind, q.parts))] ELSE q
Fresh(r) == [r EXCEPT !.parts = <<>>]

(* delimited_by: parts up to the end token, which a comma may precede.     *)
Delimited(s, r) ==
  IF Look(r) \in {"eof", s.end} THEN Do(Expect(s.end), r)
  ELSE LET q == Parse(s.what, r) IN
       IF ~q.ok THEN q
       ELSE IF s.do = "all" THEN Do(s, q)
       ELSE IF Look(q) = "," THEN Do(s, Advance(q))
       ELSE Do(Expect(s.end), q)

Repeat(s, r) ==
  IF Look(r) # s.token THEN r
  ELSE LET q == Parse(s.what, Advance(r)) IN IF q.ok THEN Do(s, q) ELSE q

(* Names behind dots; a dot with a bracket behind it is left to the caller. *)
RECURSIVE PathTail(_)
PathTail(r) ==
  IF Look(r) # "." \/ Look(Advance(r)) = "[" THEN r
  ELSE IF Look(Advance(r)) = Name THEN PathTail(Add(Advance(Advance(r)), Node(Name, <<>>)))
  ELSE Fail(Advance(r))

(* Nothing, a thing in parentheses, an annotated expression or a tuple.    *)
Paren(what, r) ==
  LET first == Parse(what, Fresh(Advance(r))) IN
  IF Look(Advance(r)) = ")" THEN Add(Advance(Advance(r)), Node("unit", <<>>))
  ELSE IF ~first.ok THEN first
  ELSE IF what = "expr" /\ Look(first) = ":"
  THEN Whole("annotate", r, Steps(<<Part("type"), Expect(")")>>, Advance(first)))
  ELSE IF Look(first) = ")" THEN [Advance(first) EXCEPT !.parts = Append(r.parts, first.parts[1])]
  ELSE Whole("tuple", r, Steps(<<Expect(","), List(what, ")")>>, first))

(* A path may end in an index, or be the name of a record to make.         *)
NamedExpr(r) ==
  LET path == Parse("path", Fresh(r))
      named == Steps(<<Arguments>>, path)
  IN IF ~path.ok THEN path
     ELSE IF Look(path) = "."
     THEN Whole("index", r, Steps(<<Take, Take, Part("expr"), Expect("]")>>, path))
     ELSE IF named.ok /\ Look(named) = "{"
     THEN Whole("record", r, Steps(<<Take, List("field", "}")>>, named))
     ELSE Whole(Name, r, named)

(* Calls, dereferences, fields and methods are put around the last part.   *)
RECURSIVE PostfixTail(_)
PostfixTail(r) ==
  LET steps == PostfixSteps(Look(r))
      outside == [r EXCEPT !.parts = Front(@)]
      q == Whole(Look(r), outside, Steps(steps, [r EXCEPT !.parts = <<Last(@)>>]))
  IN IF steps = None THEN r ELSE IF q.ok THEN PostfixTail(q) ELSE q

(* The operators that bind at least as strongly as the one to the left.    *)
RECURSIVE PowerTail(_, _)
PowerTail(min, r) ==
  LET op == Look(r)
      rhs == Power(BindingPower[op], [Advance(r) EXCEPT !.parts = <<Last(@)>>])
      q == Whole(op, [r EXCEPT !.parts = Front(@)], rhs)
  IN IF ~IsBinary(op) THEN r
     ELSE IF ~BindsAt(op, min) THEN r
     ELSE IF q.ok THEN PowerTail(min, q) ELSE q

RECURSIVE AssignTail(_)
AssignTail(r) ==
  LET q == Whole("=", [r EXCEPT !.parts = Front(@)], Power(0, [Advance(r) EXCEPT !.parts = <<Last(@)>>]))
  IN IF Look(r) # "=" THEN r ELSE IF q.ok THEN AssignTail(q) ELSE q

(* Statements up to `end`; an expression without a semicolon is the value, *)
(* and if `end` does not follow the block stops there.                     *)
RECURSIVE BlockBody(_)
BlockBody(r) ==
  LET q == Parse(IF Look(r) = "let" THEN "let" ELSE "expr", r) IN
  CASE Look(r) \in {"eof", "end"} -> Add(r, Node("unit", <<>>))
    [] Look(r) \notin {"eof", "end"} /\ ~q.ok -> q
    [] Look(r) = "let" /\ q.ok -> BlockBody(q)
    [] OTHER -> IF Look(q) = ";" THEN BlockBody(Advance(q))
                ELSE IF Look(q) = "end" THEN q ELSE Add(q, Node("unit", <<>>))

RECURSIVE LambdaParams(_)
LambdaParams(r) ==
  IF Look(r) # Name THEN r
  ELSE LET q == Whole("param", r, Steps(<<Take, If(":", <<Part("type")>>)>>, Fresh(r)))
       IN IF q.ok /\ Look(q) = "," THEN LambdaParams(Advance(q)) ELSE q

(* What parses a part, by what it is and the token it begins with.         *)
PartOf(what, r) ==
  CASE what \in {"pattern", "type"} /\ Look(r) = "(" -> Paren(what, r)
    [] what = "prefix" /\ Look(r) = "(" -> Paren("expr", r)
    [] what = "prefix" /\ Look(r) = Name -> NamedExpr(r)
    [] what = "expr" -> LET lhs == Power(0, r) IN IF lhs.ok THEN AssignTail(lhs) ELSE lhs
    [] what = "block" -> Whole("block", r, BlockBody(Fresh(r)))
    [] what = "path" -> Whole("path", r, PathTail(Add(Fresh(Advance(r)), Node(Name, <<>>))))
    [] what = "type path" -> LET path == Parse("path", r)
                             IN IF path.ok /\ Look(path) = "." THEN Fail(Advance(path)) ELSE path
    [] what = "lambda params" -> Whole(what, r, LambdaParams(Fresh(r)))
    [] OTHER ->
         LET steps == StepsOf(what, Look(r))
         IN IF steps = None THEN Fail(r)
            ELSE Whole(IF what \in {"pattern", "type", "prefix", "item"} THEN Look(r) ELSE what,
                       r, Steps(steps, Fresh(r)))

Do(s, r) ==
  CASE s.do = "take" -> Advance(r)
    [] s.do = "expect" -> IF Look(r) = s.token THEN Advance(r) ELSE Fail(r)
    [] s.do = "report" -> IF Look(r) = s.token THEN Advance(r) ELSE [r EXCEPT !.told = @ + 1]
    [] s.do = "part" -> PartOf(s.what, r)
    [] s.do \in {"list", "all"} -> Delimited(s, r)
    [] s.do = "while" -> Repeat(s, r)
    [] s.do = "either" -> IF Look(r) = s.token THEN Steps(s.then, Advance(r)) ELSE Steps(s.else, r)
    [] s.do = "steps" -> IF s.steps = <<>> \/ ~r.ok THEN r
                         ELSE Steps(Tail(s.steps), Do(Head(s.steps), r))
    [] s.do = "power" ->
         LET operand == Parse("prefix", r)
             full == IF operand.ok THEN PostfixTail(operand) ELSE operand
         IN IF full.ok THEN PowerTail(s.min, full) ELSE full

(* parse_item: annotations, then what they are put on.                     *)
ParseItem(tokens) ==
  LET marks == Do(While("@", "annotation"), StartOf(tokens))
  IN IF marks.ok THEN Parse("item", marks) ELSE marks
=============================================================================
