-------------------------------- MODULE Scopes -------------------------------
(***************************************************************************)
(* What the names of a program mean, by where they stand in its text, with *)
(* no walk, no stack and no numbers: a definition is in scope from the end *)
(* of its let to the end of the block, in its arm, its loop, its lambda,   *)
(* its function; items in all of their module and the modules inside; an   *)
(* import from the next item on.  This is the reference `Resolve` is       *)
(* compared with.                                                          *)
(***************************************************************************)
EXTENDS Resolve

(* A use: where, as what, the path, and what the path stands for.          *)
Usage(site, as, path, meaning, args) ==
  [site |-> site, as |-> as, path |-> path, meaning |-> meaning, args |-> args]

(* What is in scope: `names`, and the top-level modules of the program.    *)
Bind(scope, name, meaning) == (name :> meaning) @@ scope
BindAll(scope, names, At(_)) ==
  FoldLeftDomain(LAMBDA s, j : Bind(s, names[j], Def("var", At(j))), scope, names)

(* The items of a module: of several with one name, the first.             *)
Members(m, site) ==
  [i \in DOMAIN m.items |->
     [name |-> m.items[i].name, import |-> m.items[i].kind = "import",
      def |-> Def(IF m.items[i].kind = "function" THEN "function" ELSE "type", PartAt(site, i))]]
  \o [k \in DOMAIN m.children |->
     [name |-> m.children[k].name, import |-> FALSE, def |-> Def("module", ChildAt(site, m, k))]]
Named(ms) == {i \in DOMAIN ms : ~ms[i].import}
FirstNamed(ms, i) == \A j \in Named(ms) : ms[j].name = ms[i].name => i <= j
ItemsOf(m, site) ==
  LET ms == Members(m, site)
  IN [n \in {ms[i].name : i \in Named(ms)} |->
        ms[CHOOSE i \in Named(ms) : ms[i].name = n /\ FirstNamed(ms, i)].def]

RECURSIVE ModuleIn(_, _)
ModuleIn(modules, site) ==
  LET m == modules[site[1]]
  IN IF Len(site) = 1 THEN m
     ELSE ModuleIn(m.children, <<site[2] - Len(m.items)>> \o SubSeq(site, 3, Len(site)))
TypeIn(site) == ModuleIn(program, Front(site)).items[Last(site)]

TopLevel(name) ==
  LET hits == {i \in DOMAIN program : program[i].name = name}
  IN IF hits = {} THEN NotInScope ELSE Def("module", <<CHOOSE i \in hits : \A j \in hits : j <= i>>)

(* One segment of a path.                                                  *)
Below(meaning, segment) ==
  CASE meaning.kind = "module" ->
         LET items == ItemsOf(ModuleIn(program, meaning.site), meaning.site)
         IN IF segment \in DOMAIN items THEN items[segment] ELSE NotInScope
    [] meaning.kind = "type" ->
         LET hits == {j \in DOMAIN TypeIn(meaning.site).names : TypeIn(meaning.site).names[j] = segment}
         IN IF hits = {} THEN Res("relative", 1, meaning.site)
            ELSE Def("case", PartAt(meaning.site, CHOOSE j \in hits : TRUE))
    [] meaning.kind = "var" -> Def("field", meaning.site)
    [] meaning.kind = "alias" -> Res("relative", 1, <<>>)
    [] meaning.kind = "relative" -> [meaning EXCEPT !.num = @ + 1]
    [] meaning.kind \in {"function", "param", "case"} -> Def("invalid start", meaning.site)
    [] OTHER -> meaning
MeaningOf(scope, path) ==
  FoldLeft(Below, IF path[1] \in DOMAIN scope THEN scope[path[1]] ELSE TopLevel(path[1]), Tail(path))

UsesOfTypes(scope, site, i, paths) ==
  {Usage(TypeAt(site, i, j), "type", paths[j], MeaningOf(scope, paths[j]), FALSE) : j \in DOMAIN paths}
UsesOfPath(scope, site, e) ==
  LET meaning == MeaningOf(scope, e.path)
  IN {Usage(site, "value", e.path, meaning, e.types # <<>>)}
       \cup IF e.types = <<>> \/ meaning.kind = "unknown" THEN {}
            ELSE UsesOfTypes(scope, site, 1, e.types[1])

(* The call a for loop adds is meant to be the builtin, whatever is in     *)
(* scope.                                                                  *)
StepUsage(site) == Usage(StepAt(site), "value", BuiltinStep, MeaningOf(NoScope, BuiltinStep), FALSE)

RECURSIVE UsesOf(_, _, _)
UsesOfPart(scope, e, site, i) == UsesOf(scope, e.parts[i], PartAt(site, i))
InBlock(scope, e, site) ==
  FoldLeftDomain(
    LAMBDA seen, i :
      [uses |-> seen.uses \cup UsesOfPart(seen.scope, e, site, i),
       scope |-> IF e.parts[i].kind = "let"
                 THEN BindAll(seen.scope, e.parts[i].names[1], LAMBDA j : NameAt(PartAt(site, i), j))
                 ELSE seen.scope],
    [uses |-> {}, scope |-> scope], e.parts).uses
InLambda(scope, e, site) ==
  LET params == FoldLeftDomain(
        LAMBDA seen, i :
          LET inner == Bind(seen.scope, e.names[i][1], Def("var", NameAt(site, i)))
          IN [uses |-> seen.uses \cup UsesOfTypes(inner, site, i, e.types[i]), scope |-> inner],
        [uses |-> {}, scope |-> scope], e.names)
  IN params.uses \cup UsesOfPart(params.scope, e, site, 1)
UsesOf(scope, e, site) ==
  CASE e.kind = "path" -> UsesOfPath(scope, site, e)
    [] e.kind = "parts" -> UNION {UsesOfPart(scope, e, site, i) : i \in DOMAIN e.parts}
    [] e.kind \in {"annotate", "let"} ->
         UsesOfPart(scope, e, site, 1) \cup UsesOfTypes(scope, site, 1, e.types[1])
    [] e.kind = "block" -> InBlock(scope, e, site)
    [] e.kind = "lambda" -> InLambda(scope, e, site)
    [] e.kind = "case" ->
         UsesOfPart(scope, e, site, 1) \cup
           UNION {UsesOfPart(BindAll(scope, e.names[i], LAMBDA j : ArmNameAt(site, i, j)),
                             e, site, i + 1) : i \in DOMAIN e.names}
    [] e.kind = "for" ->
         LET last == Len(e.parts)
             inner == BindAll(scope, e.names[1], LAMBDA j : NameAt(site, j))
         IN UNION {UsesOfPart(scope, e, site, i) : i \in 1..(last - 1)}
              \cup UsesOfPart(inner, e, site, last)
              \cup IF last = 3 THEN {StepUsage(site)} ELSE {}
    [] e.kind = "record" ->
         {Usage(TypeAt(site, 1, 1), "type", e.path, MeaningOf(scope, e.path), FALSE)}
           \cup UNION {UsesOfPart(scope, e, site, i) : i \in DOMAIN e.parts}

(* A parameter of an item, with its place among those of the item and of   *)
(* the type it is a method of.                                             *)
WithGenerics(scope, item, site) ==
  FoldLeftDomain(LAMBDA s, j : Bind(s, item.generics[j], Def("param", GenericAt(site, j))),
                 scope, item.generics)
UsesInFunction(scope, f, site) ==
  LET generic == WithGenerics(scope, f, site)
      inner == BindAll(generic, f.names, LAMBDA j : NameAt(site, j))
  IN UsesOfTypes(generic, site, 1, f.types[1])
       \cup UNION {UsesOf(inner, f.body[i], PartAt(site, i)) : i \in DOMAIN f.body}
UsesInType(scope, t, site) ==
  LET generic == WithGenerics(scope, t, site)
  IN UNION {UsesOfTypes(generic, site, j, t.types[j]) : j \in DOMAIN t.types}
       \cup UNION {UsesInFunction(generic, t.methods[k], PartAt(ImplAt(site, t), k)) :
                     k \in DOMAIN t.methods}

(* An import binds names that are not taken.  Told: the names that are.    *)
RECURSIVE Leaves(_, _, _)
Leaves(tree, path, site) ==
  IF tree.tail = "children" /\ tree.trees # <<>>
  THEN FlattenSeq([i \in DOMAIN tree.trees |->
         Leaves(tree.trees[i], Append(path, tree.trees[i].current), PartAt(site, i))])
  ELSE <<[site |-> site, path |-> path,
          binds |-> CASE tree.tail = "alias" -> {tree.alias} [] tree.tail = "plain" -> {tree.current}
                      [] tree.tail = "children" -> {},
          always |-> tree.tail = "alias"]>>
Import1(seen, leaf) ==
  LET meaning == MeaningOf(seen.inner @@ seen.outer, leaf.path)
      binds == IF Found(meaning) \/ leaf.always THEN leaf.binds ELSE {}
  IN [seen EXCEPT
        !.uses = @ \cup {Usage(leaf.site, "import", leaf.path, meaning, FALSE)},
        !.taken = @ \cup IF binds \cap DOMAIN seen.inner = {} THEN {} ELSE {leaf.site},
        !.inner = @ @@ [n \in binds |-> IF Found(meaning) THEN meaning ELSE Def("unknown", <<>>)]]

RECURSIVE Text(_, _, _)
InItem(seen, item, site) ==
  LET scope == seen.inner @@ seen.outer IN
  CASE item.kind = "import" ->
         FoldLeft(Import1, seen, Leaves(item.tree[1], <<item.tree[1].current>>, PartAt(site, 1)))
    [] item.kind = "function" -> [seen EXCEPT !.uses = @ \cup UsesInFunction(scope, item, site)]
    [] IsType(item) -> [seen EXCEPT !.uses = @ \cup UsesInType(scope, item, site)]
Duplicates(m, site) ==
  LET ms == Members(m, site) IN {ms[i].def.site : i \in {i \in Named(ms) : ~FirstNamed(ms, i)}}
Text(outer, m, site) ==
  LET items == FoldLeftDomain(LAMBDA seen, i : InItem(seen, m.items[i], PartAt(site, i)),
                 [uses |-> {}, taken |-> Duplicates(m, site),
                  inner |-> ItemsOf(m, site), outer |-> outer], m.items)
      below == {Text(items.inner @@ outer, m.children[k], ChildAt(site, m, k)) : k \in DOMAIN m.children}
  IN [uses |-> items.uses \cup UNION {b.uses : b \in below},
      taken |-> items.taken \cup UNION {b.taken : b \in below}]

(* The whole program: its uses, and the places where a name is taken.      *)
Primitive == [name \in TypeAliases |-> Def("alias", <<>>)]
Modules == {Text(Primitive, program[i], <<i>>) : i \in DOMAIN program}
Usages == UNION {m.uses : m \in Modules}
Taken ==
  UNION {m.taken : m \in Modules}
    \cup {<<i>> : i \in {i \in DOMAIN program : \E j \in 1..(i - 1) : program[j].name = program[i].name}}
==============================================================================
