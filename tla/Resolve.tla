------------------------------- MODULE Resolve -------------------------------
(***************************************************************************)
(* Name resolution (src/resolve/mod.rs): after everything is declared, the *)
(* modules are walked and every use of a name is looked up in the scopes   *)
(* that are open when the walk comes to it.  What the recursion has still  *)
(* to do is kept as a list of tasks, so that opening and closing scopes,   *)
(* binding and looking up are steps of their own.                          *)
(***************************************************************************)
EXTENDS Declare

CONSTANT Programs     \* sequences of top-level modules

VARIABLES
  program,
  stage,          \* "declare", "resolve", "finished" or "panicked"
  decl,           \* the results of the first pass
  tasks,          \* what is still to be done, in order
  env, prevEnvs,  \* the innermost scope and those around it, innermost last
  varCount,       \* the next VarId
  generics, genericKinds,
  currentModule,
  messages,       \* where something was reported
  nodes,          \* DefId -> what was added for it
  bound,          \* where a variable is bound -> VarId
  uses            \* where a path is used -> what it resolved to

scopes == <<env, prevEnvs, varCount, generics, genericKinds, currentModule>>
results == <<messages, nodes, bound, uses>>
vars == <<program, stage, decl, tasks, scopes, results>>

NoScope == [name \in {} |-> Def("none", <<>>)]
TypeAliases == {"Int8", "Box"}     \* and the others `new` puts in the outermost scope
NoModule == <<>>

Init ==
  /\ program \in Programs
  /\ stage = "declare" /\ decl = NoDeclarations
  /\ tasks = [i \in DOMAIN program |-> i]
  /\ env = [name \in TypeAliases |-> Def("alias", <<>>)] /\ prevEnvs = <<>>
  /\ varCount = 0 /\ generics = 0 /\ genericKinds = {} /\ currentModule = NoModule
  /\ messages = {} /\ nodes = NoIds /\ bound = NoIds /\ uses = NoIds

(***************************************************************************)
(* What the recursion does, in its order.                                  *)
(***************************************************************************)
Task(op, site, x) == [op |-> op, site |-> site, x |-> x]
InScope(inner) == <<Task("enter", <<>>, <<>>)>> \o inner \o <<Task("leave", <<>>, <<>>)>>
TypeTasks(site, i, paths) ==
  [j \in DOMAIN paths |-> Task("type", TypeAt(site, i, j), paths[j])]
BindTasks(names, At(_)) == [j \in DOMAIN names |-> Task("bind", At(j), names[j])]

BuiltinStep == <<"builtins", "wrapping_add">>

RECURSIVE ExprTasks(_, _)
PartTasks(e, site, i) == ExprTasks(e.parts[i], PartAt(site, i))
AllPartTasks(e, site) == FlattenSeq([i \in DOMAIN e.parts |-> PartTasks(e, site, i)])

(* resolve_pattern declares what it comes to; an arm has no scope.         *)
ArmTasks(e, site, i) ==
  BindTasks(e.names[i], LAMBDA j : ArmNameAt(site, i, j)) \o PartTasks(e, site, i + 1)
NamesOf(e, site) == BindTasks(e.names[1], LAMBDA j : NameAt(site, j))

(* Mistake: the value of a let is resolved when its names are bound.       *)
BindFirst(e, site) ==
  NamesOf(e, site) \o PartTasks(e, site, 1) \o TypeTasks(site, 1, e.types[1])
LetTasks(e, site) ==
  PartTasks(e, site, 1) \o TypeTasks(site, 1, e.types[1]) \o NamesOf(e, site)

(* A for loop is rewritten: a variable of its own, the pattern, the body,  *)
(* and over a range a call to add one, which is looked up like a path of   *)
(* the program, after the body.  The variable has a name (Symbol::ITER)    *)
(* that programs may use too.                                              *)
LoopName == "iter"
ForTasks(e, site) ==
  LET range == Len(e.parts) = 3
      iterator == <<Task("bind", LoopVarAt(site, e), LoopName)>>
      body == NamesOf(e, site) \o PartTasks(e, site, Len(e.parts))
      step == <<Task("value", StepAt(site), Path(BuiltinStep))>>
  IN IF range
     THEN PartTasks(e, site, 1) \o PartTasks(e, site, 2) \o InScope(iterator \o body \o step)
     ELSE PartTasks(e, site, 1) \o InScope(iterator \o body)

LambdaTasks(e, site) ==
  InScope(FlattenSeq([i \in DOMAIN e.names |->
                        <<Task("bind", NameAt(site, i), e.names[i][1])>>
                          \o TypeTasks(site, i, e.types[i])])
            \o PartTasks(e, site, 1)
            \o <<Task("node", site, [kind |-> "lambda", names |-> <<>>])>>)

ExprTasks(e, site) ==
  CASE e.kind = "path" -> <<Task("value", site, e)>>
    [] e.kind = "parts" -> AllPartTasks(e, site)
    [] e.kind = "annotate" -> PartTasks(e, site, 1) \o TypeTasks(site, 1, e.types[1])
    [] e.kind = "let" -> LetTasks(e, site)
    [] e.kind = "block" -> InScope(AllPartTasks(e, site))
    [] e.kind = "lambda" -> LambdaTasks(e, site)
    [] e.kind = "case" ->
         PartTasks(e, site, 1) \o FlattenSeq([i \in DOMAIN e.names |-> ArmTasks(e, site, i)])
    [] e.kind = "for" -> ForTasks(e, site)
    [] e.kind = "record" -> <<Task("type", TypeAt(site, 1, 1), e.path)>> \o AllPartTasks(e, site)

(* The signature is resolved before the parameters are in scope.           *)
GenericTasks(item, site) ==
  [j \in DOMAIN item.generics |-> Task("param", GenericAt(site, j), item.generics[j])]
FunctionTasks(f, site) ==
  GenericTasks(f, site) \o TypeTasks(site, 1, f.types[1])
    \o BindTasks(f.names, LAMBDA j : NameAt(site, j))
    \o FlattenSeq([i \in DOMAIN f.body |-> ExprTasks(f.body[i], PartAt(site, i))])

Node(kind, names) == [kind |-> kind, names |-> names]
NodeTask(site, node) == <<Task("node", site, node)>>
FieldTasks(t, site, j) ==
  TypeTasks(site, j, t.types[j])
    \o IF t.kind = "record" THEN NodeTask(PartAt(site, j), Node("field", <<>>))
       ELSE IF t.types[j] = <<>> THEN NodeTask(PartAt(site, j), Node("case", <<>>))
       ELSE NodeTask(PartAt(PartAt(site, j), 1), Node("case field", <<>>))
              \o NodeTask(PartAt(site, j), Node("case", <<>>))
ImplTasks(t, site) ==
  IF t.methods = <<>> THEN <<>>
  ELSE LET impl == ImplAt(site, t) IN
       FlattenSeq([k \in DOMAIN t.methods |->
         <<Task("item", PartAt(impl, k), t.methods[k])>>
           \o NodeTask(PartAt(impl, k), Node("method", t.methods[k].generics))])
         \o NodeTask(impl, Node("impl", <<>>))
TypeDefTasks(t, site) ==
  GenericTasks(t, site)
    \o FlattenSeq([j \in DOMAIN t.types |-> FieldTasks(t, site, j)]) \o ImplTasks(t, site)

RECURSIVE ImportTasks(_, _, _)
ImportTasks(tree, path, site) ==
  CASE tree.tail = "alias" -> <<Task("alias", site, [path |-> path, name |-> tree.alias])>>
    [] tree.tail = "plain" -> <<Task("import", site, [path |-> path, name |-> tree.current])>>
    [] tree.tail = "children" ->
         IF tree.trees = <<>> THEN <<Task("lookup", site, path)>>
         ELSE FlattenSeq([i \in DOMAIN tree.trees |->
                ImportTasks(tree.trees[i], Append(path, tree.trees[i].current), PartAt(site, i))])

ItemTasks(item, site) ==
  (IF item.kind = "import"
   THEN ImportTasks(item.tree[1], <<item.tree[1].current>>, PartAt(site, 1))
   ELSE <<Task("item", site, item)>>)
    \o NodeTask(site, Node(item.kind, item.generics))
ModuleTasks(m, site) ==
  FlattenSeq([i \in DOMAIN m.items |-> ItemTasks(m.items[i], PartAt(site, i))])
    \o [k \in DOMAIN m.children |-> Task("module", ChildAt(site, m, k), m.children[k])]

(***************************************************************************)
(* Looking up a path.                                                      *)
(***************************************************************************)
Found(d) == d.kind \notin {"not in scope", "invalid start", "field", "relative"}
NotInScope == Def("not in scope", <<>>)

Innermost(hits) == CHOOSE i \in hits : \A j \in hits : j <= i
ResolveName(name) ==
  LET hits == {i \in DOMAIN prevEnvs : name \in DOMAIN prevEnvs[i]} IN
  CASE name \in DOMAIN env -> env[name]
    [] name \notin DOMAIN env /\ hits # {} -> prevEnvs[Innermost(hits)][name]
    [] name \notin DOMAIN env /\ hits = {} ->
         IF name \in DOMAIN decl.topLevel THEN Def("module", decl.topLevel[name]) ELSE NotInScope

(* One segment after the first.  Behind a variable come its fields; behind *)
(* a type that has no such case comes a method, `num` counts the segments. *)
SubPath(head, segment) ==
  CASE head.kind = "unknown" -> head
    [] head.kind = "module" ->
         IF segment \in DOMAIN decl.modules[head.site].items
         THEN decl.modules[head.site].items[segment] ELSE NotInScope
    [] head.kind = "type" ->
         IF segment \in DOMAIN decl.typeDefs[head.site]
         THEN Def("case", decl.typeDefs[head.site][segment]) ELSE Res("relative", 1, head.site)
    [] head.kind = "var" -> Res("field", head.num, head.site)
    [] head.kind = "alias" -> Res("relative", 1, head.site)
    [] head.kind \in {"function", "param", "case"} -> Def("invalid start", head.site)
AfterError(error) == IF error.kind = "relative" THEN [error EXCEPT !.num = @ + 1] ELSE error
ResolvePath(path) ==
  LET head == ResolveName(path[1])
  IN IF head = NotInScope THEN head
     ELSE FoldLeft(LAMBDA curr, segment : IF Found(curr) THEN SubPath(curr, segment)
                                          ELSE AfterError(curr), head, Tail(path))

(***************************************************************************)
(* The first pass: module after module.                                    *)
(***************************************************************************)
DeclareNext ==
  /\ stage = "declare" /\ tasks # <<>>
  /\ decl' = DeclareTopLevel(decl, <<Head(tasks)>>, program[Head(tasks)])
  /\ tasks' = Tail(tasks)
  /\ UNCHANGED <<program, stage, scopes, results>>
EndDeclare ==
  /\ stage = "declare" /\ tasks = <<>>
  /\ stage' = "resolve"
  /\ tasks' = [i \in DOMAIN program |-> Task("module", <<i>>, program[i])]
  /\ UNCHANGED <<program, decl, scopes, results>>

(***************************************************************************)
(* The second pass: one action per task.                                   *)
(***************************************************************************)
Doing(op) == stage = "resolve" /\ tasks # <<>> /\ Head(tasks).op = op
Now == Head(tasks)
Continue == tasks' = Tail(tasks) /\ UNCHANGED <<program, stage, decl>>
First(more) == tasks' = more \o Tail(tasks) /\ UNCHANGED <<program, stage, decl>>
Panic == stage' = "panicked" /\ UNCHANGED <<program, decl, tasks, scopes, results>>

Push(newEnv) == prevEnvs' = Append(prevEnvs, env) /\ env' = newEnv
Pop == env' = Last(prevEnvs) /\ prevEnvs' = Front(prevEnvs)
Insert(name, res) == env' = (name :> res) @@ env
Tell(site) == messages' = messages \cup {site}

EnterScope ==
  /\ Doing("enter") /\ Continue
  /\ Push(NoScope)
  /\ UNCHANGED <<varCount, generics, genericKinds, currentModule, results>>

CountAgain == bound' = bound /\ varCount' = 0     \* mistake: a scope counts its variables anew
KeepCounting == bound' = bound /\ varCount' = varCount
LeaveScope ==
  /\ Doing("leave") /\ Continue
  /\ Pop /\ KeepCounting
  /\ UNCHANGED <<generics, genericKinds, currentModule, messages, nodes, uses>>

(* resolve_in_module_scope; what the walk must restore waits behind it.    *)
EnterModule ==
  /\ Doing("module")
  /\ First(ModuleTasks(Now.x, Now.site) \o <<Task("end module", Now.site, currentModule)>>)
  /\ Push(decl.modules[Now.site].items)
  /\ currentModule' = Now.site
  /\ UNCHANGED <<varCount, generics, genericKinds, results>>

AddNode(id, node) == nodes' = nodes @@ (id :> node)
LeaveModule ==
  /\ Doing("end module")
  /\ LET id == decl.modules[Now.site].id IN
     IF id \in DOMAIN nodes THEN Panic
     ELSE /\ Continue /\ Pop /\ AddNode(id, Node("module", <<>>))
          /\ currentModule' = Now.x
          /\ UNCHANGED <<varCount, generics, genericKinds, messages, bound, uses>>

(* "can only have 1 node"; "should have a def id".                         *)
ResolveNode ==
  /\ Doing("node")
  /\ IF Now.site \notin DOMAIN decl.ids \/ decl.ids[Now.site] \in DOMAIN nodes THEN Panic
     ELSE /\ Continue /\ AddNode(decl.ids[Now.site], Now.x)
          /\ UNCHANGED <<scopes, messages, bound, uses>>

(* resolve_item: functions, methods and types.                             *)
ResolveItem ==
  /\ Doing("item")
  /\ First((IF Now.x.kind = "function" THEN FunctionTasks(Now.x, Now.site)
            ELSE TypeDefTasks(Now.x, Now.site))
             \o <<Task("end item", Now.site, [generics |-> generics, kinds |-> genericKinds])>>)
  /\ Push(NoScope)
  /\ UNCHANGED <<varCount, generics, genericKinds, currentModule, results>>
NotRestored(saved) == generics     \* mistake: the next item counts on
Restored(saved) == saved.generics
EndItem ==
  /\ Doing("end item") /\ Continue
  /\ Pop
  /\ generics' = Restored(Now.x) /\ genericKinds' = Now.x.kinds
  /\ varCount' = 0
  /\ UNCHANGED <<currentModule, results>>

(* declare_var and declare_param, of which `param` is told its kind.       *)
DeclareVar ==
  /\ Doing("bind") /\ Continue
  /\ Insert(Now.x, Res("var", varCount, Now.site))
  /\ bound' = bound @@ (Now.site :> varCount)
  /\ varCount' = varCount + 1
  /\ UNCHANGED <<prevEnvs, generics, genericKinds, currentModule, messages, nodes, uses>>
DeclareParam ==
  /\ Doing("param") /\ Continue
  /\ Insert(Now.x, Res("param", generics, Now.site))
  /\ generics' = generics + 1
  /\ genericKinds' = genericKinds \cup {Now.x}
  /\ UNCHANGED <<prevEnvs, varCount, currentModule, results>>

(* resolve_type_path                                                       *)
UsableAsType(res) == res.kind \in {"param", "unknown", "alias", "type"}
ResolveType ==
  /\ Doing("type")
  /\ LET res == ResolvePath(Now.x) IN
     IF res.kind = "param" /\ Last(Now.x) \notin genericKinds THEN Panic
     ELSE /\ Continue
          /\ uses' = uses @@ (Now.site :> res)
          /\ IF UsableAsType(res) THEN messages' = messages ELSE Tell(Now.site)
          /\ UNCHANGED <<scopes, nodes, bound>>

(* resolve_path_as_expr; the arguments of an unknown path are dropped.     *)
UsableAsValue(res, args) ==
  \/ res.kind \in {"unknown", "function", "case", "field"}
  \/ res.kind = "relative" /\ res.num = 1
  \/ res.kind = "var" /\ args = <<>>
ResolveValue ==
  /\ Doing("value")
  /\ LET res == ResolvePath(Now.x.path)
         args == Now.x.types
     IN /\ IF res.kind = "unknown" \/ args = <<>> THEN Continue
           ELSE First(TypeTasks(Now.site, 1, args[1]))
        /\ uses' = uses @@ (Now.site :> res)
        /\ IF UsableAsValue(res, args) THEN messages' = messages ELSE Tell(Now.site)
  /\ UNCHANGED <<scopes, nodes, bound>>

(* The leaves of an import.  The scope of the module already has all of    *)
(* its items, those below the import too.                                  *)
TakeOver(name, res, told) ==     \* mistake: an import takes the name of an item
  messages' = messages \cup told /\ Insert(name, res)
DeclareAlias(name, res, told) ==
  IF name \in DOMAIN env
  THEN messages' = messages \cup told \cup {Now.site} /\ env' = env
  ELSE messages' = messages \cup told /\ Insert(name, res)
ImportAlias ==
  /\ Doing("alias") /\ Continue
  /\ LET res == ResolvePath(Now.x.path) IN
     /\ uses' = uses @@ (Now.site :> res)
     /\ IF Found(res) THEN DeclareAlias(Now.x.name, res, {})
        ELSE DeclareAlias(Now.x.name, Def("unknown", <<>>), {Now.site})
  /\ UNCHANGED <<prevEnvs, varCount, generics, genericKinds, currentModule, nodes, bound>>
ImportPlain ==
  /\ Doing("import") /\ Continue
  /\ LET res == ResolvePath(Now.x.path) IN
     /\ uses' = uses @@ (Now.site :> res)
     /\ IF Found(res) THEN DeclareAlias(Now.x.name, res, {})
        ELSE Tell(Now.site) /\ env' = env
  /\ UNCHANGED <<prevEnvs, varCount, generics, genericKinds, currentModule, nodes, bound>>
ImportNothing ==
  /\ Doing("lookup") /\ Continue
  /\ LET res == ResolvePath(Now.x) IN
     /\ uses' = uses @@ (Now.site :> res)
     /\ IF Found(res) THEN messages' = messages ELSE Tell(Now.site)
  /\ UNCHANGED <<scopes, nodes, bound>>

(* "missing node": every DefId of the first pass has been met.             *)
EndResolve ==
  /\ stage = "resolve" /\ tasks = <<>>
  /\ stage' = IF DOMAIN nodes = 0..(decl.count - 1) THEN "finished" ELSE "panicked"
  /\ messages' = messages \cup decl.messages
  /\ UNCHANGED <<program, decl, tasks, scopes, nodes, bound, uses>>

Stopped == stage \in {"finished", "panicked"} /\ UNCHANGED vars
Next ==
  \/ DeclareNext \/ EndDeclare \/ EnterModule \/ LeaveModule \/ EnterScope \/ LeaveScope
  \/ ResolveNode \/ ResolveItem \/ EndItem \/ DeclareVar \/ DeclareParam
  \/ ResolveType \/ ResolveValue \/ ImportAlias \/ ImportPlain \/ ImportNothing
  \/ EndResolve \/ Stopped
Spec == Init /\ [][Next]_vars
==============================================================================
