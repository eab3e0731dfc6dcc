------------------------------ MODULE MCResolve ------------------------------
(***************************************************************************)
(* Name resolution of a family of bodies, which bind and use the names x   *)
(* and y in every nesting of two scopes, and of a family of modules.       *)
(***************************************************************************)
EXTENDS AfterResolve

X == <<"x">>
Y == <<"y">>
IntType == <<<<"Int8">>>>
UseX == Path(X)
Uses == {UseX, Path(Y)}
UseBoth == Parts(<<UseX, Path(Y)>>)

Binders(inner) ==
  {Block(<<Let(<<"x">>, <<>>, UseX), inner, UseX>>),
   Block(<<Block(<<Let(<<"y">>, <<>>, inner)>>), Let(<<"x", "y">>, IntType, UseBoth), UseBoth>>),
   Case(UseX, <<Arm(<<"x">>, inner), Arm(<<>>, UseX)>>),
   Case(inner, <<Arm(<<"y", "x">>, UseBoth), Arm(<<"x">>, UseX)>>),
   For(<<"x">>, UseX, inner, UseBoth), For(<<"y">>, UseX, Path(Y), inner),
   ForIn(<<"x", "y">>, UseBoth, inner),
   Lambda(<<<<"x">>>>, <<<<>>>>, inner), Lambda(<<>>, <<>>, inner),
   Lambda(<<<<"y">>, <<"x">>>>, <<IntType, <<>>>>, Block(<<inner, UseBoth>>))}

Once == UNION {Binders(u) : u \in Uses}
Twice == UNION {Binders(b) : b \in Once}
Bodies1 == Twice \cup {Parts(<<a, b>>) : a \in Once, b \in Once}

Builtins ==
  Module("builtins", <<Function("wrapping_add", <<>>, <<"a", "b">>, <<<<"Int8">>, <<"Int8">>, <<"Int8">>>>, <<>>)>>, <<>>)
Main(items, children) == <<Builtins, Module("main", items, children)>>
InFunction(body) == Main(<<Function("f", <<"T">>, <<"x">>, <<<<"T">>>>, <<body>>)>>, <<>>)


(* Modules: a library with a type that has parameters, cases and methods,  *)
(* and a module that imports from it in several ways and uses every name.  *)
T == <<"T">>
U == <<"U">>
Generic(name, params, types) ==
  Function(name, params, <<"x">>, types,
           <<Lambda(<<<<"y">>>>, <<types>>, Annotate(UseX, types)), PathWith(<<"x">>, types),
             PathWith(<<"f">>, types), PathWith(<<"oops">>, types)>>)
Option(params) ==
  Variant("t", T, <<"p", "q">>, <<<<T>>, <<>>>>, <<Generic("m", params, <<T, U>>), Generic("n", <<>>, <<T>>)>>)
Library(params, child) ==
  Module("a", <<Option(params), Function("f", <<>>, <<>>, <<<<"t">>>>, <<>>),
                Record("r", <<"U", "T">>, <<<<T, U>>, <<<<"t">>>>>>, <<>>)>>,
         <<Module(child, <<Generic("f", <<"U">>, <<U>>), Function("g", <<>>, <<>>, <<<<"f">>>>, <<>>)>>, <<>>)>>)

Imports ==
  {Plain("a"), Children("a", <<Plain("f"), Plain("t")>>), Children("a", <<Alias("t", "u"), Alias("f", "t")>>),
   Children("a", <<Children("k", <<>>), Plain("k")>>), Children("a", <<Alias("k", "k"), Alias("zz", "u")>>),
   Children("zz", <<Plain("f")>>), Alias("a", "f"), Children("a", <<Children("t", <<Plain("p"), Plain("z")>>)>>),
   Children("main", <<Plain("u")>>), Alias("zz", "a")}
AllPlaces == <<<<"f">>, <<"t", "p">>, <<"t", "m">>, <<"t", "z", "z">>, <<"u">>, <<"u", "p">>, <<"k", "f">>,
           <<"a", "k", "f">>, <<"main", "g">>, <<"Int8", "max">>, <<"x", "f", "g">>, <<"f", "f">>, <<"p">>>>
UseAll ==
  Function("g", <<"T">>, <<"x">>, AllPlaces,
           <<Parts([i \in DOMAIN AllPlaces |-> Path(AllPlaces[i])]),
             NamedRecord(<<"a", "r">>, <<UseX>>), NamedRecord(<<"u">>, <<Lambda(<<>>, <<>>, UseX)>>),
             For(<<"y">>, UseX, Lambda(<<>>, <<>>, UseX), PathWith(<<"u">>, <<<<"t">>, U>>))>>)

Two(a, b) == Main(<<Import(a), UseAll, Import(b), Generic("h", <<"U">>, <<U>>)>>, <<>>)
Others(lib, items, children) == <<lib>> \o Main(items, children)
Importing == {<<Library(<<"U">>, "k")>> \o Two(a, b) : a \in Imports, b \in Imports}
Shadowing ==
  {Others(Library(params, child), <<Option(params), UseAll, Import(Plain("a")), UseAll>>,
          <<Library(params, child), Module("k", <<Import(i), UseAll>>, <<>>)>>) :
     params \in {<<"U">>, <<"T">>, <<"U", "U">>, <<>>}, child \in {"a", "t", "k"}, i \in Imports}

(* A program's own names for what a loop calls.                            *)
OwnBuiltins ==
  {Main(<<Function("f", <<>>, <<"builtins">>, <<>>, <<For(<<"x">>, Path(<<"builtins">>), UseX, UseX)>>)>>, <<>>),
   Main(<<Function("builtins", <<>>, <<>>, <<>>, <<For(<<"x">>, UseX, UseX, UseX)>>)>>, <<>>),
   Main(<<>>, <<Builtins, Module("k", <<Function("f", <<>>, <<"x">>, <<>>, <<For(<<"y">>, UseX, UseX, UseX)>>)>>, <<>>)>>),
   Main(<<>>, <<>>) \o Main(<<UseAll>>, <<>>)}

(* And for the variable of a loop: bound outside the loop, in it and by    *)
(* nothing, used before, in and after it, by loops and lambdas inside, and *)
(* with fields and arguments.                                              *)
Iter == Path(<<"iter">>)
IterUses ==
  {Iter, Path(<<"iter", "x">>), PathWith(<<"iter">>, <<T>>), Lambda(<<>>, <<>>, Iter),
   Lambda(<<<<"iter">>>>, <<<<>>>>, Iter), Block(<<Let(<<"iter">>, <<>>, Iter), Iter>>),
   For(<<"y">>, Iter, Iter, Iter), Case(Iter, <<Arm(<<"iter">>, Iter), Arm(<<>>, Iter)>>)}
IterLoops ==
  UNION {{For(<<"x">>, Iter, UseX, u), ForIn(<<"x">>, Iter, u), For(<<"iter">>, UseX, Iter, u)} :
           u \in IterUses}
IterOutside(loop) ==
  {Main(<<Function("f", T, params, <<>>, <<Parts(<<loop, Iter>>)>>), other>>, <<>>) :
     params \in {<<"x">>, <<"iter", "x">>},
     other \in {Function("iter", <<>>, <<>>, <<>>, <<>>), Record("r", <<>>, <<>>, <<>>)}}
OwnIter == UNION {IterOutside(loop) : loop \in IterLoops}

MCPrograms ==
  {InFunction(b) : b \in Bodies1} \cup Importing \cup Shadowing \cup OwnBuiltins \cup OwnIter
==============================================================================
