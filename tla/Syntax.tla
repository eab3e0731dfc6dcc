-------------------------------- MODULE Syntax -------------------------------
(***************************************************************************)
(* Programs as the parser hands them to name resolution (src/ast.rs), as   *)
(* far as names go: every place that binds a name or uses one.  Operators, *)
(* literals and the shape of patterns and types are left out: a pattern is *)
(* the names it binds, a type the paths it is made of, both from left to   *)
(* right, and all expressions that only have parts are of one kind.        *)
(***************************************************************************)
EXTENDS Integers, Sequences

(* Expressions.  `names` and `types` are grouped by what they belong to.   *)
Expr(kind, path, types, names, parts) ==
  [kind |-> kind, path |-> path, types |-> types, names |-> names, parts |-> parts]
Path(path) == Expr("path", path, <<>>, <<>>, <<>>)
PathWith(path, args) == Expr("path", path, <<args>>, <<>>, <<>>)
Parts(es) == Expr("parts", <<>>, <<>>, <<>>, es)
Annotate(e, ty) == Expr("annotate", <<>>, <<ty>>, <<>>, <<e>>)
Let(names, ty, value) == Expr("let", <<>>, <<ty>>, <<names>>, <<value>>)
Block(stmts) == Expr("block", <<>>, <<>>, <<>>, stmts)
Lambda(names, types, body) == Expr("lambda", <<>>, types, names, <<body>>)
Case(matched, arms) ==        \* arms: sequences of [names, body]
  Expr("case", <<>>, <<>>, [i \in DOMAIN arms |-> arms[i].names],
       <<matched>> \o [i \in DOMAIN arms |-> arms[i].body])
Arm(names, body) == [names |-> names, body |-> body]
For(names, start, end, body) == Expr("for", <<>>, <<>>, <<names>>, <<start, end, body>>)
ForIn(names, option, body) == Expr("for", <<>>, <<>>, <<names>>, <<option, body>>)
NamedRecord(path, fields) == Expr("record", path, <<>>, <<>>, fields)

(* Items.  The types of a function are those of its signature, those of a  *)
(* type are grouped by field or case; a case without a payload has none.   *)
Item(kind, name, generics, names, types, body, methods, tree) ==
  [kind |-> kind, name |-> name, generics |-> generics, names |-> names,
   types |-> types, body |-> body, methods |-> methods, tree |-> tree]
Function(name, generics, params, types, body) ==
  Item("function", name, generics, params, <<types>>, body, <<>>, <<>>)
Record(name, generics, fields, methods) ==
  Item("record", name, generics, <<>>, fields, <<>>, methods, <<>>)
Variant(name, generics, cases, types, methods) ==
  Item("variant", name, generics, cases, types, <<>>, methods, <<>>)
Import(tree) == Item("import", "", <<>>, <<>>, <<>>, <<>>, <<>>, <<tree>>)
IsType(item) == item.kind \in {"record", "variant"}

Tree(current, tail, alias, trees) ==
  [current |-> current, tail |-> tail, alias |-> alias, trees |-> trees]
Plain(current) == Tree(current, "plain", "", <<>>)
Alias(current, name) == Tree(current, "alias", name, <<>>)
Children(current, trees) == Tree(current, "children", "", trees)

Module(name, items, children) == [name |-> name, items |-> items, children |-> children]

(***************************************************************************)
(* A place in a program is the way to it from the list of modules.  These  *)
(* are the NodeIds of the parser (next_id), and the places of messages.    *)
(***************************************************************************)
PartAt(site, i) == Append(site, i)
NameAt(site, j) == site \o <<0, j>>
TypeAt(site, i, j) == site \o <<-1, i, j>>
StepAt(site) == Append(site, -2)              \* the call a for loop adds
GenericAt(site, j) == site \o <<-3, j>>
ArmNameAt(site, i, j) == site \o <<-4, i, j>>
IsArmName(site) == Len(site) > 2 /\ site[Len(site) - 2] = -4
ArmOf(site) == PartAt(SubSeq(site, 1, Len(site) - 3), site[Len(site) - 1] + 1)
LoopVarAt(site, loop) == site \o <<-5, Len(loop.parts)>>     \* the variable it adds
IsLoopVar(site) == Len(site) > 1 /\ site[Len(site) - 1] = -5
LoopBodyOf(site) == PartAt(SubSeq(site, 1, Len(site) - 2), site[Len(site)])
Inside(outer, site) == Len(outer) <= Len(site) /\ SubSeq(site, 1, Len(outer)) = outer
ImplAt(site, item) == PartAt(site, Len(item.types) + 1)
ChildAt(site, module, k) == PartAt(site, Len(module.items) + k)
==============================================================================
