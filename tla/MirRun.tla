-------------------------------- MODULE MirRun -------------------------------
(***************************************************************************)
(* What a program does, said twice: of the typed functions the builder is  *)
(* given, and of the bodies the builder and the passes make of them.  A    *)
(* run carries                                                             *)
(*   env     variable or local -> value      heap  the allocated cells     *)
(*   out     the values printed so far       fuel  the turns it has left   *)
(*   status  "ok" while it goes on, else how it ended                      *)
(*   val     the value of the last expression, operand or call             *)
(* Values are integers: booleans 0 and 1, unit 0, a pointer to heap cell i *)
(* HeapBase + i, and Uninit for what was never written.                    *)
(***************************************************************************)
EXTENDS MirStep, TLC

Start(env, r) == [r EXCEPT !.env = env, !.status = "ok"]
FreshRun(fuel) ==
  [env |-> <<>>, heap |-> <<>>, out |-> <<>>, fuel |-> fuel, status |-> "ok", val |-> Uninit]
Ended(r, how) == [r EXCEPT !.status = how]
Yield(r, v) == [r EXCEPT !.val = v]

IsAddress(r, a) == a - HeapBase \in DOMAIN r.heap
Peek(r, a) == IF IsAddress(r, a) THEN Yield(r, r.heap[a - HeapBase]) ELSE Ended(r, "undefined")
Poke(r, a, v) == IF IsAddress(r, a) THEN [r EXCEPT !.heap[a - HeapBase] = v] ELSE Ended(r, "undefined")
EmitIfOk(r) == IF r.status = "ok" THEN [r EXCEPT !.out = Append(@, r.val)] ELSE r

Allocate(r) == [r EXCEPT !.heap = @ \o FreshCells, !.val = NewPointer(r.heap)]

(***************************************************************************)
(* The typed functions.                                                    *)
(***************************************************************************)
RECURSIVE Eval(_, _, _), EvalArgs(_, _, _), EvalStmts(_, _, _), EvalWhile(_, _, _),
          EvalArm(_, _, _, _)

Bind(r, name, v) ==
  [r EXCEPT !.env = (name :> v) @@ @]

(* A call runs the callee in an environment of its own parameters.         *)
EvalCall(funs, r, f, args) ==
  LET ps     == funs[f].params
      inside == Start([x \in {ps[i] : i \in DOMAIN ps} |->
                         args[CHOOSE i \in DOMAIN ps : ps[i] = x]], r)
      back   == Eval(funs, inside, funs[f].body)
  IN IF r.fuel = 0 THEN Ended(r, "fuel")
     ELSE [back EXCEPT !.env = r.env,
                       !.status = IF @ = "return" THEN "ok" ELSE @]

EvalArgs(funs, r, es) ==
  IF es = <<>> THEN [run |-> r, vals |-> <<>>]
  ELSE LET first == Eval(funs, r, Head(es))
           rest  == EvalArgs(funs, first, Tail(es))
       IN [run |-> rest.run, vals |-> <<first.val>> \o rest.vals]

EvalStmts(funs, r, ss) ==
  IF ss = <<>> \/ r.status # "ok" THEN r
  ELSE LET s == Head(ss)
           v == Eval(funs, r, IF s.k = "let" THEN s.value ELSE s)
       IN EvalStmts(funs, IF s.k = "let" THEN Bind(v, s.name, v.val) ELSE v, Tail(ss))

EvalWhile(funs, r, e) ==
  IF r.fuel = 0 THEN Ended(r, "fuel")
  ELSE LET c == Eval(funs, [r EXCEPT !.fuel = @ - 1], e.cond)
           b == Eval(funs, c, e.body)
       IN IF c.status # "ok" THEN c
          ELSE IF c.val = 0 THEN Yield(c, 0)
          ELSE IF b.status # "ok" THEN b ELSE EvalWhile(funs, b, e)

(* The arms are tried in the order they are written.                       *)
EvalArm(funs, r, arms, v) ==
  IF Head(arms).pat = "any" \/ Head(arms).pat = (IF v = 0 THEN "false" ELSE "true")
  THEN Eval(funs, r, Head(arms).body) ELSE EvalArm(funs, r, Tail(arms), v)

EvalAt(r, base, i, write, v) ==
  IF r.status # "ok" THEN r
  ELSE IF i \notin 0 .. CellsPerObject - 1 THEN Ended(r, "panic")
  ELSE IF write THEN Yield(Poke(r, base + i, v), 0) ELSE Peek(r, base + i)

Eval(funs, r, e) ==
  IF r.status # "ok" THEN r ELSE
  CASE e.k = "bool"  -> Yield(r, e.v)
    [] e.k = "unit"  -> Yield(r, 0)
    [] e.k = "var"   -> Yield(r, r.env[e.name])
    [] e.k = "deref" -> LET b == Eval(funs, r, e.base) IN EvalAt(b, b.val, 0, FALSE, 0)
    [] e.k = "elem"  -> LET b == EvalArgs(funs, r, <<e.base, e.index>>)
                        IN EvalAt(b.run, b.vals[1], b.vals[2], FALSE, 0)
    [] e.k = "print" -> Yield(EmitIfOk(Eval(funs, r, e.arg)), 0)
    [] e.k = "call"  -> LET a == EvalArgs(funs, r, e.args)
                        IN IF a.run.status = "ok"
                           THEN EvalCall(funs, [a.run EXCEPT !.fuel = IF @ = 0 THEN 0 ELSE @ - 1],
                                         e.f, a.vals)
                           ELSE a.run
    [] e.k = "offset" -> LET a == EvalArgs(funs, r, <<e.base, e.index>>)
                         IN Yield(a.run, a.vals[1] + a.vals[2])
    [] e.k = "array_ptr" -> Eval(funs, r, e.base)
    [] e.k = "ptr_write" -> LET a == EvalArgs(funs, r, <<e.base, e.value>>)
                            IN EvalAt(a.run, a.vals[1], 0, TRUE, a.vals[2])
    [] e.k = "array"  -> LET o == Allocate(r)
                             v == Eval(funs, o, e.element)
                         IN IF v.status = "ok" THEN Yield(Poke(v, o.val, v.val), o.val) ELSE v
    [] e.k = "assign" ->
         IF e.place.k = "var"
         THEN LET v == Eval(funs, r, e.value)
              IN IF v.status = "ok" THEN Yield(Bind(v, e.place.name, v.val), 0) ELSE v
         ELSE LET a == EvalArgs(funs, r, <<e.place.base, e.place.index, e.value>>)
              IN EvalAt(a.run, a.vals[1], a.vals[2], TRUE, a.vals[3])
    [] e.k = "block"  -> Eval(funs, EvalStmts(funs, r, e.stmts), e.expr)
    [] e.k = "while"  -> EvalWhile(funs, r, e)
    [] e.k = "case"   -> LET v == Eval(funs, r, e.on)
                         IN IF v.status = "ok" THEN EvalArm(funs, v, e.arms, v.val) ELSE v
    [] e.k = "logic"  -> LET v == Eval(funs, r, e.left)
                         IN IF v.status = "ok" /\ v.val = (IF e.op = "and" THEN 1 ELSE 0)
                            THEN Eval(funs, v, e.right) ELSE v
    [] e.k = "never"  -> Eval(funs, r, e.value)
    [] e.k = "return" -> LET v == Eval(funs, r, e.value)
                         IN IF v.status = "ok" THEN Ended(v, "return") ELSE v
    [] e.k = "panic"  -> Ended(r, "panic")

Outcome(r) == [status |-> r.status, out |-> r.out, val |-> r.val]
RunFunction(funs, f, args, fuel) == Outcome(EvalCall(funs, FreshRun(fuel), f, args))

(***************************************************************************)
(* The bodies.                                                             *)
(***************************************************************************)
Over(how, out, val) == [status |-> how, out |-> out, val |-> val]

(* Each block taken, and each return, uses up a turn.                      *)
RECURSIVE Runs(_, _, _, _)
Runs(bodies, stack, out, fuel) ==
  LET step == Running(bodies, stack)
      left == IF AtStmt(bodies[Top(stack).of], Top(stack).at) THEN fuel ELSE fuel - 1
  IN IF fuel = 0 THEN Over("fuel", out, Uninit)
     ELSE CASE step.event.kind = "silent" -> Runs(bodies, step.to, out, left)
            [] step.event.kind = "print"  -> Runs(bodies, step.to, Append(out, step.event.vals[1]), left)
            [] step.event.kind = "return" -> Over("ok", out, step.event.vals[1])
            [] OTHER -> Over(step.event.kind, out, Uninit)

RunBody(bodies, f, args, fuel) == Runs(bodies, <<Called(bodies, f, args, <<>>)>>, <<>>, fuel)

(***************************************************************************)
(* Two runs are the same to an observer if they print the same, end the    *)
(* same way and return the same value; of two runs cut short for want of   *)
(* fuel one has to print the beginning of what the other prints.           *)
(***************************************************************************)
Beginning(s, t) == Len(s) <= Len(t) /\ SubSeq(t, 1, Len(s)) = s
SameRun(a, b) ==
  IF a.status = "fuel" /\ b.status = "fuel"
  THEN Beginning(a.out, b.out) \/ Beginning(b.out, a.out)
  ELSE a.status = b.status /\ a.out = b.out /\ (a.status = "ok" => a.val = b.val)
==============================================================================
