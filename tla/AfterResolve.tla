----------------------------- MODULE AfterResolve ----------------------------
(***************************************************************************)
(* What the later phases work out from a resolved program: the generic     *)
(* parameters of a definition (collect/mod.rs) and the variables a lambda  *)
(* captures (captures.rs).  And what is right for names, once they are     *)
(* resolved.                                                               *)
(***************************************************************************)
EXTENDS Scopes

SiteOf(id) == CHOOSE site \in DOMAIN decl.ids : decl.ids[site] = id
KindOf(site) == nodes[decl.ids[site]].kind
ParentOf(site) == SiteOf(decl.parents[decl.ids[site]])

(* The parameters of a definition, by where they are written; an index is  *)
(* a place in this list.                                                   *)
OwnGenerics(site) ==
  [j \in DOMAIN nodes[decl.ids[site]].names |-> GenericAt(site, j)]
RECURSIVE Generics(_)
Generics(site) ==
  CASE KindOf(site) \in {"function", "record", "variant"} -> OwnGenerics(site)
    [] KindOf(site) = "import" -> <<>>
    [] KindOf(site) \in {"case", "case field", "field", "impl", "lambda"} -> Generics(ParentOf(site))
    [] KindOf(site) = "method" -> Generics(ParentOf(site)) \o OwnGenerics(site)

(***************************************************************************)
(* CaptureCollector: a walk in the order of the visitor; what is used and  *)
(* was not bound on the way comes from outside.                            *)
(***************************************************************************)
FunctionAt(site) ==
  IF KindOf(site) = "method" THEN TypeIn(Front(Front(site))).methods[Last(site)] ELSE TypeIn(site)
LambdaAt(site) ==
  LET f == ParentOf(site)
      way == SubSeq(site, Len(f) + 1, Len(site))
  IN FoldLeft(LAMBDA e, i : e.parts[i], FunctionAt(f).body[way[1]], Tail(way))

VisitVarDef(seen, site) == [seen EXCEPT !.locals = @ \cup {bound[site]}]
VisitVarDefs(seen, names, At(_)) == FoldLeftDomain(LAMBDA s, j : VisitVarDef(s, At(j)), seen, names)
VisitVarUse(seen, var) ==
  IF var \in seen.locals THEN seen ELSE [seen EXCEPT !.captures = Append(@, var)]
OwnAffair(seen, captures) == seen     \* mistake: what a lambda inside captures is left to it
VisitLambda(seen, captures) == FoldLeft(VisitVarUse, seen, captures)

RECURSIVE Captures(_, _)
RECURSIVE VisitExpr(_, _, _)
VisitPart(seen, e, site, i) == VisitExpr(seen, e.parts[i], PartAt(site, i))
VisitParts(seen, e, site) == FoldLeftDomain(LAMBDA s, i : VisitPart(s, e, site, i), seen, e.parts)
(* A for loop as it was rewritten.                                         *)
VisitFor(seen, e, site) ==
  LET last == Len(e.parts)
      start == IF last = 3 THEN VisitPart(seen, e, site, 1) ELSE seen
      test == VisitVarUse(VisitVarDef(start, LoopVarAt(site, e)), bound[LoopVarAt(site, e)])
      each == VisitPart(test, e, site, last - 1)
  IN VisitPart(VisitVarDefs(each, e.names[1], LAMBDA j : NameAt(site, j)), e, site, last)
VisitExpr(seen, e, site) ==
  CASE e.kind = "path" ->
         IF uses[site].kind \in {"var", "field"} THEN VisitVarUse(seen, uses[site].num) ELSE seen
    [] e.kind \in {"parts", "annotate", "block"} -> VisitParts(seen, e, site)
    [] e.kind = "let" ->
         VisitVarDefs(VisitPart(seen, e, site, 1), e.names[1], LAMBDA j : NameAt(site, j))
    [] e.kind = "lambda" -> VisitLambda(seen, Captures(e, site))
    [] e.kind = "case" ->
         FoldLeftDomain(
           LAMBDA s, i : VisitPart(VisitVarDefs(s, e.names[i], LAMBDA j : ArmNameAt(site, i, j)),
                                   e, site, i + 1),
           VisitPart(seen, e, site, 1), e.names)
    [] e.kind = "for" -> VisitFor(seen, e, site)
    [] e.kind = "record" ->
         IF UsableAsType(uses[TypeAt(site, 1, 1)]) /\ uses[TypeAt(site, 1, 1)].kind # "unknown"
         THEN VisitParts(seen, e, site) ELSE seen
Captures(e, site) ==
  VisitPart(VisitVarDefs([locals |-> {}, captures |-> <<>>], e.names, LAMBDA i : NameAt(site, i)),
            e, site, 1).captures

(***************************************************************************)
(* What must be right.                                                     *)
(***************************************************************************)
Finished == stage = "finished"

(* Where the compiler departs from the text: a name bound in one arm of a  *)
(* case is in scope in what follows, there being no scope for the arm; the *)
(* call a loop adds is looked up where the loop stands, so a program's own *)
(* `builtins` takes it; and the variable a loop adds is in scope in its    *)
(* body, so it takes the place of a program's own `iter`, which may as     *)
(* well not exist.                                                         *)
Escaped(site) ==
  /\ uses[site].kind \in {"var", "field"}
  /\ IsArmName(uses[site].site) /\ ~Inside(ArmOf(uses[site].site), site)
StepTaken(u) ==
  /\ Last(u.site) = Last(StepAt(<<>>))
  /\ uses[u.site].site # u.meaning.site
LoopVarTaken(u) ==
  /\ uses[u.site].kind \in {"var", "field"}
  /\ u.path[1] = LoopName
  /\ IsLoopVar(uses[u.site].site) /\ Inside(LoopBodyOf(uses[u.site].site), u.site)
Leaked(u) == Escaped(u.site) \/ StepTaken(u) \/ LoopVarTaken(u)

(* Every path stands for what the text says it does (Scopes): the same     *)
(* variable, parameter, item, case or method, or the same reason why it    *)
(* has no meaning, wherever scopes open and close and names are shadowed,  *)
(* imported or declared later (Resolve::resolve_path, in_scope,            *)
(* declare_item).                                                          *)
NamesMeanWhatTheySay ==
  Finished => \A u \in Usages :
    \/ Leaked(u)
    \/ /\ uses[u.site].kind = u.meaning.kind
       /\ uses[u.site].site = u.meaning.site
       /\ u.meaning.kind = "relative" => uses[u.site].num = u.meaning.num

(* What is wrong with the names of a program is told, all of it and        *)
(* nothing else: paths without a meaning or of the wrong sort for their    *)
(* place, and names that are taken (Resolve::path_res_error,               *)
(* cannot_use_as_error, declare_item; Declare::declare_item).  After an    *)
(* import that failed under a name of its own that name is never told      *)
(* about.                                                                  *)
Wrong(u) ==
  CASE u.as = "type" -> u.meaning.kind \notin {"param", "unknown", "alias", "type"}
    [] u.as = "value" ->
         \/ u.meaning.kind \in {"param", "module", "type", "alias", "not in scope", "invalid start"}
         \/ u.meaning.kind = "relative" /\ u.meaning.num > 1
         \/ u.meaning.kind = "var" /\ u.args
    [] u.as = "import" -> u.meaning.kind \in {"not in scope", "invalid start", "relative", "field"}
MistakesAreToldExactly ==
  Finished =>
    LET leaked == {u.site : u \in {v \in Usages : Leaked(v)}}
    IN messages \ leaked = ({u.site : u \in {v \in Usages : Wrong(v)}} \cup Taken) \ leaked

(* The variables of a function, those of its lambdas and loops included,   *)
(* have different VarIds (Resolve::fresh_var, resolve_item): every later   *)
(* phase tells them apart by nothing else.                                 *)
Bodies == {site \in DOMAIN decl.ids : KindOf(site) \in {"function", "method"}}
VarsAreApart ==
  Finished => \A f \in Bodies : LET its == {s \in DOMAIN bound : Inside(f, s)} IN
    \A s, t \in its : s # t => bound[s] # bound[t]

(* A lambda captures the variables of the text around it that are used in  *)
(* it, however deep in other lambdas and whatever its own are called       *)
(* (captures).                                                             *)
Lambdas == {site \in DOMAIN decl.ids : KindOf(site) = "lambda"}
BoundOutside(lambda) ==
  {uses[s].site : s \in {s \in DOMAIN uses :
     Inside(lambda, s) /\ uses[s].kind \in {"var", "field"} /\ ~Inside(lambda, uses[s].site)}}
CapturesAreSeen ==
  (Finished /\ messages = {}) => \A lambda \in Lambdas :
    ToSet(Captures(LambdaAt(lambda), lambda)) = {bound[s] : s \in BoundOutside(lambda)}

(* The number a generic parameter is resolved to is its place among the    *)
(* parameters of the definition it is used in, counted from the outermost  *)
(* one (Resolve::declare_param, resolve_item; CtxtRef::generics): the two  *)
(* countings never meet.                                                   *)
Around(site) ==
  LET hits == {d \in DOMAIN decl.ids : Inside(d, site)}
  IN CHOOSE d \in hits : \A e \in hits : Len(e) <= Len(d)
GenericsAgree ==
  Finished => \A s \in DOMAIN uses : uses[s].kind = "param" =>
    LET generic == Generics(Around(s))
    IN uses[s].num + 1 \in DOMAIN generic /\ generic[uses[s].num + 1] = uses[s].site

(* The two passes agree on what there is: no DefId is left without a node, *)
(* none gets two, none is asked for that was not given (the assertions of  *)
(* add_node, def_id_for, resolve).                                         *)
NoPanic == stage # "panicked"
==============================================================================
