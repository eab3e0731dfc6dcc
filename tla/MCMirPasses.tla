----------------------------- MODULE MCMirPasses -----------------------------
(***************************************************************************)
(* The passes over every body the builder makes of a family of small       *)
(* functions.                                                              *)
(***************************************************************************)
EXTENDS MirPasses, MirBuild, MirRun

(* Typed expressions.                                                      *)
Bool(v) == [k |-> "bool", v |-> v, ty |-> "bool"]
Unit == [k |-> "unit", ty |-> "unit"]
Var(x) == [k |-> "var", name |-> x, ty |-> "bool"]
ArrayVar(x) == [k |-> "var", name |-> x, ty |-> "array"]
Show(e) == [k |-> "print", arg |-> e, ty |-> "unit"]
Set(x, e) == [k |-> "assign", place |-> Var(x), value |-> e, ty |-> "unit"]
Let(x, e) == [k |-> "let", name |-> x, value |-> e]
Do(ss, e) == [k |-> "block", stmts |-> ss, expr |-> e, ty |-> e.ty]
While(c, e) == [k |-> "while", cond |-> c, body |-> e, ty |-> "unit"]
Arm(p, e) == [pat |-> p, body |-> e]
Case(c, arms) == [k |-> "case", on |-> c, arms |-> arms, ty |-> arms[1].body.ty]
If(c, a, b) == Case(c, <<Arm("true", a), Arm("false", b)>>)
When(c, a, b) == Case(c, <<Arm("false", b), Arm("any", a)>>)
And(a, b) == [k |-> "logic", op |-> "and", left |-> a, right |-> b, ty |-> "bool"]
Or(a, b) == [k |-> "logic", op |-> "or", left |-> a, right |-> b, ty |-> "bool"]
Never(e, ty) == [k |-> "never", value |-> e, ty |-> ty]
ReturnWith(e) == [k |-> "return", value |-> e, ty |-> "never"]
PanicNow == [k |-> "panic", ty |-> "never"]
CallFn(f, args) == [k |-> "call", f |-> f, args |-> args, ty |-> "bool"]
Function(params, body) == [params |-> params, ret |-> body.ty, body |-> body]

True == Bool(1)
False == Bool(0)
X == Var("x")
Y == Var("y")

Conds == {True, False, X, And(X, Y), Or(False, X)}
Effects == {Show(Y), Set("x", False), Never(ReturnWith(Y), "unit"), Never(PanicNow, "unit")}
Flat == {If(c, a, b) : c \in {X, Or(X, Y)}, a \in Effects, b \in {Unit, Show(X)}}
        \cup {When(X, a, Show(Y)) : a \in Effects}
        \cup {While(c, a) : c \in Conds, a \in Effects}
Nested == {While(c, Do(<<Set("x", Y)>>, f)) : c \in {True, X}, f \in Flat}
          \cup {If(Y, While(X, Do(<<a>>, Set("x", Y))), b) : a \in Effects, b \in Effects}

Main(e) == Function(<<"x", "y">>, Do(<<Let("z", X), e, Show(X)>>, X))

(* Functions that may be inlined: straight line code, an early return, a   *)
(* loop, a call of their own.                                              *)
Callees ==
  {Function(<<"p">>, Do(<<Show(Var("p"))>>, Var("p"))),
   Function(<<"p">>, If(Var("p"), Never(ReturnWith(False), "bool"), True)),
   Function(<<"p">>, Do(<<While(Var("p"), Do(<<Show(True)>>, Set("p", False)))>>, True))}
Callers(f) ==
  {Main(While(CallFn(f, <<X>>), Set("x", False))),
   Main(Do(<<Let("t", CallFn(f, <<Y>>)), If(Var("t"), Show(True), Show(False))>>,
           Set("x", And(CallFn(f, <<Var("t")>>), Y))))}

(* What a function does for each choice of its arguments: the reference    *)
(* every later form of its body is held against.                           *)
SourceFuel == 8
Arguments(f) == [1 .. Len(f.params) -> {0, 1}]
Meaning(funs, f) ==
  [args \in Arguments(funs[f]) |-> RunFunction(funs, f, args, SourceFuel)]

(* A source program, and what the builder makes of it.                     *)
Source(funs, sources) == [funs |-> funs, sources |-> sources]
Alone(f) == Source([g \in {"main"} |-> f], <<"main">>)
Built(s) ==
  [bodies |-> [f \in DOMAIN s.funs |-> BuildFromFunction(s.funs[f])],
   sources |-> s.sources, meaning |-> [f \in DOMAIN s.funs |-> Meaning(s.funs, f)]]

FlatFunctions == {Alone(Main(e)) : e \in Flat}
NestedFunctions == {Alone(Main(e)) : e \in Nested}
WithCallees ==
  {Source([f \in {"main", "f"} |-> IF f = "main" THEN m ELSE g], s) :
     m \in Callers("f"), g \in Callees, s \in {<<"main", "f">>, <<"f", "main">>}}
ThroughAnother ==
  {Source([f \in {"main", "f", "g"} |->
               CASE f = "main" -> m
                 [] f = "f" -> Function(<<"p">>, If(CallFn("g", <<Var("p")>>), False, True))
                 [] f = "g" -> g],
            <<"main", "f", "g">>) : m \in Callers("f"), g \in Callees}
Recursive ==
  {Source([f \in {"main", "f", "g"} |->
               CASE f = "main" -> Function(<<"x", "y">>, CallFn("f", <<X>>))
                 [] f = "f" -> Function(<<"p">>,
                                 If(Var("p"), CallFn("g", <<False>>), True))
                 [] f = "g" -> Function(<<"p">>, CallFn("f", <<Var("p")>>))],
            s) : s \in {<<"main", "f", "g">>, <<"f", "g", "main">>}}

(* Arrays and pointers: a checked element, a write through a pointer.      *)
A == ArrayVar("a")
Elem(a, i) == [k |-> "elem", base |-> a, index |-> i, ty |-> "bool"]
SetElem(a, i, v) == [k |-> "assign", place |-> Elem(a, i), value |-> v, ty |-> "unit"]
ArrayLit(e) == [k |-> "array", element |-> e, ty |-> "array"]
PtrTo(a) == [k |-> "offset", base |-> [k |-> "array_ptr", base |-> a, ty |-> "ptr"],
             index |-> False, ty |-> "ptr"]
PtrWrite(p, v) == [k |-> "ptr_write", base |-> p, value |-> v, ty |-> "unit"]
ReadPtr(p) == [k |-> "deref", base |-> p, ty |-> "bool"]
WithArrays ==
  {Alone(Function(<<"x", "y">>,
     Do(<<Let("a", ArrayLit(X)), e, Show(Elem(A, Y)), Show(ReadPtr(PtrTo(A)))>>, Elem(A, X)))) :
   e \in {SetElem(A, X, Y), SetElem(A, Y, And(Y, Elem(A, X))), PtrWrite(PtrTo(A), Y),
          While(Elem(A, False), SetElem(A, False, False))}}

NoOverrides == [p \in {} |-> TRUE]
Without(p) == [optimise |-> TRUE, overrides |-> [q \in {p} |-> FALSE]]
Optimised(o) == [optimise |-> o, overrides |-> NoOverrides]
Compile(programs, configs) == [source : programs, config : configs]
BuildAll(compilations) ==
  {[program |-> Built(c.source), config |-> c.config] : c \in compilations}

(* Arrays and pointers without dead-store-elim, which removes a pointer    *)
(* through which a later statement writes.                                 *)
MCCompilations == BuildAll(
  Compile(NestedFunctions \cup ThroughAnother, {Optimised(TRUE)})
    \cup Compile(FlatFunctions \cup WithCallees \cup Recursive,
           {Optimised(FALSE), Optimised(TRUE)})
    \cup Compile(WithCallees,
           {Without(p) : p \in {"zst", "simplify", "inline", "unreachable", "deadstore"}})
    \cup Compile(WithArrays, {Optimised(FALSE), Without("deadstore")}))

(***************************************************************************)
(* Properties.                                                             *)
(***************************************************************************)
BodyFuel == 50

(* The table of bodies with the one being worked on put back.              *)
BodiesNow == [bodies EXCEPT ![running] = WorkedOn]

(* Every function, run from its blocks, prints, panics and returns what    *)
(* its typed expression says: after building, which is before the first    *)
(* pass, and after every pass, whichever passes have run and whatever of   *)
(* its callees has been inlined into it.                                   *)
MeaningPreserved ==
  pc \in {"done", "finished"} =>
    \A f \in DOMAIN program.meaning : \A args \in DOMAIN program.meaning[f] :
      SameRun(program.meaning[f][args], RunBody(BodiesNow, f, args, BodyFuel))
=============================================================================
