------------------------------- MODULE MirBuild ------------------------------
(***************************************************************************)
(* How a typed function body becomes basic blocks (src/mir/build).  A      *)
(* builder is the body so far and the block being filled:                  *)
(*   [blocks, locals, vars, cur]                                           *)
(* Every operator takes the builder and returns the one it leaves behind;  *)
(* those that produce an operand, a place or an rvalue return it with it.  *)
(* Recursive: only the model-checking modules use it.                      *)
(***************************************************************************)
EXTENDS Mir, FiniteSets, TLC

Unterminated == Terminator("none", ZeroSized, <<>>, <<>>)
With(st, x) == [st |-> st, x |-> x]

NewBuilder == [blocks |-> [b \in {ENTRY} |-> Block(<<>>, Unterminated)],
               locals |-> <<>>, vars |-> <<>>, cur |-> ENTRY]
Count(f) == Cardinality(DOMAIN f)
Extend(f, x) == (Count(f) :> x) @@ f

(* The builder always fills one of its blocks.  The operators below ask for *)
(* it where TLC should have worked the builder out before it goes on.       *)
Filling(st) == st.cur \in DOMAIN st.blocks

NewLocal(st, kind, ty) ==
  With([st EXCEPT !.locals = Extend(st.locals, [kind |-> kind, ty |-> ty])], Count(st.locals))
NewVar(st, name, kind, ty) ==
  LET l == Count(st.locals)
  IN [st EXCEPT !.locals = Extend(st.locals, [kind |-> kind, ty |-> ty]),
                !.vars = (name :> l) @@ @]

NewBlock(st) ==
  With([st EXCEPT !.blocks = Extend(st.blocks, Block(<<>>, Unterminated))], Count(st.blocks))
SwitchTo(st, b) == [st EXCEPT !.cur = b]
SwitchToNewBlock(st) == SwitchTo(NewBlock(st).st, Count(st.blocks))
Finish(st, term) == [st EXCEPT !.blocks[st.cur].term = term]
GotoNewBlock(st) == LET b == NewBlock(st) IN SwitchTo(Finish(b.st, Goto(b.x)), b.x)
FinishIf(st, op, trueBlock, falseBlock) == Finish(st, Switch(op, <<0>>, <<falseBlock>>, trueBlock))
FinishPanic(st) == LET b == NewBlock(st) IN SwitchTo(Finish(b.st, Panic), b.x)
AssertThen(st, op, expected) ==
  LET b == NewBlock(st) IN SwitchTo(Finish(b.st, AssertGoto(op, expected, b.x)), b.x)
Push(st, s) == [st EXCEPT !.blocks[st.cur].stmts = Append(@, s)]
AssignTemp(st, ty, rv) ==
  LET t == NewLocal(st, "temp", ty) IN With(Push(t.st, Assign(LocalPlace(t.x), rv)), t.x)

(* as_constant: the expressions that are operands as they stand.           *)
IsConstant(e) == e.k \in {"bool", "unit"}
ConstantOf(e) == IF e.k = "bool" THEN Scalar(e.v) ELSE ZeroSized

(* The four ways an expression is built, all of them recursive: for its      *)
(* value in a given place (expr_into_dest), for its effects (expr_stmt), as  *)
(* an rvalue (build_rvalue) and as a place (lower_place).                    *)
RECURSIVE Lower(_, _, _, _)
ExprIntoDest(st, dest, e) == Lower("dest", st, dest, e).st
ExprStmt(st, e) == Lower("stmt", st, LocalPlace(ReturnPlace), e).st
BuildRvalue(st, e) == Lower("rvalue", st, LocalPlace(ReturnPlace), e)
LowerPlace(st, e) == Lower("place", st, LocalPlace(ReturnPlace), e)

ExprIntoTemp(st, e) ==
  LET t == NewLocal(st, "temp", e.ty) IN With(ExprIntoDest(t.st, LocalPlace(t.x), e), t.x)

IsPlace(e) == e.k \in {"var", "deref", "elem"}
PlaceOf(st, e) ==
  IF IsPlace(e) THEN LowerPlace(st, e)
  ELSE LET t == ExprIntoTemp(st, e) IN With(t.st, LocalPlace(t.x))

(* lower_place: a variable, what a pointer points to, or a checked element *)
PlaceExpr(st, e) ==
  CASE e.k = "var"   -> With(st, LocalPlace(st.vars[e.name]))
    [] e.k = "deref" -> LET p == PlaceOf(st, e.base) IN With(p.st, Deref(p.x.base))
    [] e.k = "elem"  ->
         LET base  == PlaceOf(st, e.base)
             index == ExprIntoTemp(base.st, e.index)
             ok    == AssignTemp(index.st, "bool",
                        Rvalue("inbounds", <<Load(base.x), Load(LocalPlace(index.x))>>,
                               <<>>, NoFunction))
         IN With(AssertThen(ok.st, Load(LocalPlace(ok.x)), 1), ElementOf(base.x.base, index.x))

(* operand(): a place is loaded where the operand is used, not here.       *)
OperandOf(st, e) ==
  IF IsConstant(e) THEN With(st, ConstantOf(e))
  ELSE LET p == PlaceOf(st, e) IN With(p.st, Load(p.x))
RECURSIVE OperandsOf(_, _)
OperandsOf(st, es) ==
  IF es = <<>> THEN With(st, <<>>)
  ELSE LET first == OperandOf(st, Head(es))
           rest  == OperandsOf(first.st, Tail(es))
       IN With(rest.st, <<first.x>> \o rest.x)

RvalueExpr(st, e) ==
  CASE IsConstant(e) \/ IsPlace(e) -> LET o == OperandOf(st, e) IN With(o.st, Use(o.x))
    [] e.k = "call"   -> LET os == OperandsOf(st, e.args) IN With(os.st, Call(e.f, os.x))
    [] e.k = "print"  -> LET o == OperandOf(st, e.arg)
                         IN With(Push(o.st, PrintStmt(o.x)), Use(ZeroSized))
    [] e.k = "offset" -> LET os == OperandsOf(st, <<e.base, e.index>>)
                         IN With(os.st, Offset(os.x[1], os.x[2]))
    [] e.k = "array_ptr" -> LET p == PlaceOf(st, e.base) IN With(p.st, ArrayPtr(p.x))
    [] e.k = "ptr_write" ->
         LET p == PlaceOf(st, e.base)
             v == BuildRvalue(p.st, e.value)
         IN With(Push(v.st, Assign(Deref(p.x.base), v.x)), Use(ZeroSized))
    [] e.k \in {"assign", "while"} -> With(ExprStmt(st, e), Use(ZeroSized))
    [] OTHER -> LET t == ExprIntoTemp(st, e) IN With(t.st, Use(Load(LocalPlace(t.x))))

(* A statement is an expression or `let name = value`.                     *)
RECURSIVE Stmts(_, _)
Stmts(st, ss) ==
  IF ss = <<>> \/ ~Filling(st) THEN st
  ELSE LET s == Head(ss) IN
       Stmts(IF s.k = "let"
             THEN LET v == NewVar(st, s.name, "var", s.value.ty)
                  IN ExprIntoDest(v, LocalPlace(v.vars[s.name]), s.value)
             ELSE ExprStmt(st, s),
             Tail(ss))

(* build_tree for arms over one boolean place: rows of (arm, tests), each  *)
(* test "true" or "false".  ends lists (arm, block) where an arm's body    *)
(* goes.                                                                   *)
RECURSIVE BuildTree(_, _)
BuildTree(b, rows) ==
  IF rows = <<>> THEN b
  ELSE IF Head(rows).tests = <<>>
       THEN [b EXCEPT !.ends = Append(@, <<Head(rows).arm, b.st.cur>>)]
  ELSE LET branch(c) == LET hits == SelectSeq(rows, LAMBDA r : r.tests = <<c>>)
                        IN [i \in DOMAIN hits |-> [hits[i] EXCEPT !.tests = <<>>]]
           others    == SelectSeq(rows, LAMBDA r : r.tests = <<>>)
           start     == b.st.cur
           otherwise == Count(b.st.blocks)
           b0        == [b EXCEPT !.st = SwitchToNewBlock(@)]
           Branch(bb, c) ==
             IF branch(c) = <<>> THEN bb
             ELSE LET inner == BuildTree([bb EXCEPT !.st = SwitchToNewBlock(@)], branch(c))
                  IN [inner EXCEPT !.st = Finish(@, Goto(otherwise))]
           b1        == Branch(b0, "true")
           b2        == Branch(b1, "false")
           target(c, before) == IF branch(c) = <<>> THEN otherwise ELSE Count(before.st.blocks)
           b3        == [b2 EXCEPT !.st =
                           FinishIf(SwitchTo(@, start), Load(b.place),
                                    target("true", b0), target("false", b1))]
       IN BuildTree([b3 EXCEPT !.st = SwitchTo(@, otherwise)], others)

(* The bodies of the arms, each in the block its row ended at.             *)
RECURSIVE Arms(_, _, _, _, _)
Arms(st, ends, arms, dest, endBlock) ==
  IF ends = <<>> THEN SwitchTo(st, endBlock)
  ELSE LET filled == ExprIntoDest(SwitchTo(st, Head(ends)[2]), dest, arms[Head(ends)[1]].body)
       IN Arms(Finish(filled, Goto(endBlock)), Tail(ends), arms, dest, endBlock)

BuildMatch(st, dest, e) ==
  LET p     == PlaceOf(st, e.on)
      rows  == [i \in DOMAIN e.arms |->
                  [arm |-> i, tests |-> IF e.arms[i].pat = "any" THEN <<>> ELSE <<e.arms[i].pat>>]]
      tree  == BuildTree([st |-> p.st, ends |-> <<>>, place |-> p.x], rows)
      after == SwitchToNewBlock(Finish(tree.st, Unreachable))
  IN Arms(after, tree.ends, e.arms, dest, after.cur)

BuildLogic(st, dest, e) ==
  LET left     == OperandOf(st, e.left)
      branch   == left.st.cur
      constant == Count(left.st.blocks)
      rhs      == constant + 1
      right    == ExprIntoDest(SwitchToNewBlock(NewBlock(left.st).st), dest, e.right)
      merged   == GotoNewBlock(right)
      short    == Finish(Push(SwitchTo(merged, constant),
                              Assign(dest, Use(Scalar(IF e.op = "or" THEN 1 ELSE 0)))),
                         Goto(merged.cur))
      split    == FinishIf(SwitchTo(short, branch), left.x,
                           IF e.op = "and" THEN rhs ELSE constant,
                           IF e.op = "and" THEN constant ELSE rhs)
  IN SwitchTo(split, merged.cur)

IntoDest(st, dest, e) ==
  CASE e.k = "block" -> ExprIntoDest(Stmts(st, e.stmts), dest, e.expr)
    [] e.k \in {"panic", "never", "return"} -> ExprStmt(st, e)
    [] e.k = "case"  -> BuildMatch(st, dest, e)
    [] e.k = "logic" -> BuildLogic(st, dest, e)
    [] e.k = "array" ->
         LET ptr == AssignTemp(st, "ptr", GcAlloc)
             arr == Push(ptr.st, Assign(dest, ArrayOf(Load(LocalPlace(ptr.x)))))
         IN ExprIntoDest(arr, FirstOf(dest.base), e.element)
    [] OTHER -> LET rv == BuildRvalue(st, e) IN Push(rv.st, Assign(dest, rv.x))

BuildWhile(st, e) ==
  LET start == Count(st.blocks)
      body  == start + 1
      end   == start + 2
      cond  == OperandOf(SwitchTo(Finish(NewBlock(NewBlock(NewBlock(st).st).st).st, Goto(start)),
                                  start), e.cond)
      split == SwitchTo(FinishIf(cond.st, cond.x, body, end), body)
  IN SwitchTo(Finish(ExprStmt(split, e.body), Goto(start)), end)

Effect(st, e) ==
  CASE e.k = "assign" ->
         LET p == LowerPlace(st, e.place)
             v == BuildRvalue(p.st, e.value)
         IN Push(v.st, Assign(p.x, v.x))
    [] e.k = "panic"  -> FinishPanic(st)
    [] e.k = "return" ->
         SwitchToNewBlock(Finish(ExprIntoDest(st, LocalPlace(ReturnPlace), e.value), Return))
    [] e.k = "block"  -> ExprStmt(Stmts(st, e.stmts), e.expr)
    [] e.k = "while"  -> BuildWhile(st, e)
    [] e.k \in {"print", "offset", "array_ptr", "ptr_write"} ->
         LET rv == BuildRvalue(st, e) IN AssignTemp(rv.st, e.ty, rv.x).st
    [] e.k = "never"  -> SwitchToNewBlock(Finish(ExprStmt(st, e.value), Unreachable))
    [] OTHER -> ExprIntoTemp(st, e).st

Lower(way, st, dest, e) ==
  CASE way = "dest"   /\ Filling(st) -> With(IntoDest(st, dest, e), 0)
    [] way = "stmt"   /\ Filling(st) -> With(Effect(st, e), 0)
    [] way = "rvalue" /\ Filling(st) -> RvalueExpr(st, e)
    [] way = "place"  /\ Filling(st) -> PlaceExpr(st, e)

RECURSIVE WithParams(_, _)
WithParams(st, params) ==
  IF params = <<>> THEN st
  ELSE WithParams(NewVar(st, Head(params), "param", "bool"), Tail(params))

(* build_from_function: a function is [params, ret, body].                 *)
BuildFromFunction(f) ==
  LET st == Finish(ExprIntoDest(WithParams(NewBuilder, f.params),
                                LocalPlace(ReturnPlace), f.body), Return)
  IN [blocks |-> st.blocks, cache |-> {}, locals |-> st.locals, ret |-> f.ret]
==============================================================================
