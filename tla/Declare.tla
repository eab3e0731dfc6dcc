------------------------------- MODULE Declare -------------------------------
(***************************************************************************)
(* The first pass of name resolution (src/resolve/decl.rs): everything     *)
(* that will have a node gets a DefId, by the place it stands at, and a    *)
(* parent; the items of every module are put under their names.            *)
(***************************************************************************)
EXTENDS Syntax, SequencesExt

(* What a name stands for (Res), or why a path has no meaning.  `num` is   *)
(* the VarId or the index of a generic parameter; `site` where the thing   *)
(* is written, which for variables and parameters the compiler does not    *)
(* know.                                                                   *)
Res(kind, num, site) == [kind |-> kind, num |-> num, site |-> site]
Def(kind, site) == Res(kind, 0, site)

NoParent == -1
NoIds == [site \in {} |-> 0]
NoDeclarations ==
  [count |-> 0, parents |-> NoIds, ids |-> NoIds, modules |-> NoIds, typeDefs |-> NoIds,
   topLevel |-> NoIds, current |-> NoParent, items |-> NoIds, messages |-> {}]

NextDefId(d) ==
  [d EXCEPT !.count = @ + 1,
            !.parents = IF d.current = NoParent THEN @ ELSE @ @@ (d.count :> d.current)]
DeclareDefIdFor(d, site) == [NextDefId(d) EXCEPT !.ids = @ @@ (site :> d.count)]
WithParent(d, id) == [d EXCEPT !.current = id]

DeclareItem(d, name, def) ==
  IF name \in DOMAIN d.items
  THEN [d EXCEPT !.messages = @ \cup {def.site}]
  ELSE [d EXCEPT !.items = @ @@ (name :> def)]

(* Lambdas, also those in other lambdas, have the function as their parent. *)
WithoutEnd(e) ==      \* mistake: the end of a range is not looked into
  IF e.kind = "for" /\ Len(e.parts) = 3 THEN <<e.parts[1], Parts(<<>>), e.parts[3]>> ELSE e.parts
Declaring(e) == e.parts
RECURSIVE LambdasIn(_, _)
LambdasIn(e, site) ==
  (IF e.kind = "lambda" THEN <<site>> ELSE <<>>)
    \o FlattenSeq([i \in DOMAIN Declaring(e) |-> LambdasIn(Declaring(e)[i], PartAt(site, i))])

DeclareFunctionBody(d, site, id, f) ==
  LET lambdas == FlattenSeq([i \in DOMAIN f.body |-> LambdasIn(f.body[i], PartAt(site, i))])
  IN [FoldLeft(DeclareDefIdFor, WithParent(d, id), lambdas) EXCEPT !.current = d.current]

DeclareFunction(d, site, f) ==
  LET declared == DeclareDefIdFor(d, site)
  IN DeclareFunctionBody(DeclareItem(declared, f.name, Def("function", site)), site, d.count, f)

(* A method is found through its type and has no name in the module.       *)
DeclareMethod(d, site, f) == DeclareFunctionBody(DeclareDefIdFor(d, site), site, d.count, f)
DeclareImpl(d, site, methods) ==
  [FoldLeftDomain(LAMBDA seen, k : DeclareMethod(seen, PartAt(site, k), methods[k]),
                  WithParent(DeclareDefIdFor(d, site), d.count), methods)
     EXCEPT !.current = d.current]

(* A field, or a case and its payload.                                     *)
DeclareField(d, site) == DeclareDefIdFor(d, site)
DeclareCase(d, site, types) ==
  IF types = <<>> THEN DeclareDefIdFor(d, site)
  ELSE [DeclareDefIdFor(WithParent(DeclareDefIdFor(d, site), d.count), PartAt(site, 1))
          EXCEPT !.current = d.current]
DeclareTypeDef(d, site, t) ==
  LET inside == WithParent(DeclareDefIdFor(d, site), d.count)
      body == FoldLeftDomain(LAMBDA seen, j : IF t.kind = "record"
                                              THEN DeclareField(seen, PartAt(site, j))
                                              ELSE DeclareCase(seen, PartAt(site, j), t.types[j]),
                             inside, t.types)
      all == IF t.methods = <<>> THEN body ELSE DeclareImpl(body, ImplAt(site, t), t.methods)
      cases == [c \in {t.names[j] : j \in DOMAIN t.names} |->
                  PartAt(site, CHOOSE j \in DOMAIN t.names :
                    t.names[j] = c /\ \A k \in DOMAIN t.names : t.names[k] = c => k <= j)]
  IN DeclareItem([all EXCEPT !.current = d.current, !.typeDefs = @ @@ (site :> cases)],
                 t.name, Def("type", site))

DeclareModuleItem(d, site, item) ==
  CASE item.kind = "function" -> DeclareFunction(d, site, item)
    [] IsType(item) -> DeclareTypeDef(d, site, item)
    [] item.kind = "import" -> DeclareDefIdFor(d, site)

(* A module is an item of the one around it; its own items are kept apart. *)
RECURSIVE DeclareModule(_, _, _)
DeclareModule(d, site, module) ==
  LET named == DeclareItem(d, module.name, Def("module", site))
      inside == [NextDefId(named) EXCEPT !.items = NoIds, !.current = named.count]
      items == FoldLeftDomain(LAMBDA seen, i : DeclareModuleItem(seen, PartAt(site, i), module.items[i]),
                              inside, module.items)
      all == FoldLeftDomain(LAMBDA seen, k : DeclareModule(seen, ChildAt(site, module, k), module.children[k]),
                            items, module.children)
  IN [all EXCEPT !.current = d.current, !.items = named.items,
                 !.modules = @ @@ (site :> [id |-> named.count, items |-> all.items])]

DeclareTopLevel(d, site, module) ==
  [DeclareModule(d, site, module) EXCEPT
     !.topLevel = [n \in DOMAIN @ \cup {module.name} |-> IF n = module.name THEN site ELSE @[n]]]
==============================================================================
