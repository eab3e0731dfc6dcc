------------------------------ MODULE TypeInfer ------------------------------
(***************************************************************************)
(* Type inference (src/typecheck/infer.rs): the type variables of one      *)
(* function, and what the checker of expressions does to them              *)
(* (src/typecheck/root.rs, coercion.rs).  Unification works on the         *)
(* bindings in place: what it has bound or unbound by the time it fails    *)
(* stays so.  Recursive: no module with proofs uses it.                    *)
(***************************************************************************)
EXTENDS Integers, Sequences

CONSTANTS
  InferVars,  \* variables for types that are not known yet
  IntVars,    \* variables for the types of integer literals
  Types       \* the types expressions may have, which mention the variables

(* A type is a constructor applied to types, or a variable.                *)
Apply(c, args) == [con |-> c, var |-> 0, args |-> args]
Leaf(c) == Apply(c, <<>>)
Infer(v) == [con |-> "infer", var |-> v, args |-> <<>>]
IntVar(v) == [con |-> "intvar", var |-> v, args |-> <<>>]
Never == Leaf("never")
IsVar(t) == t.con \in {"infer", "intvar"}
Scalar(t) == t.con \in {"bool", "int8", "uint64"}   \* mistake: bool is no integer
IsInt(t) == t.con \in {"int8", "uint64"}

Vars == InferVars \cup IntVars

ASSUME VarsAssumption == Vars \subseteq Nat /\ InferVars \cap IntVars = {}

VARIABLES
  typeVars,   \* the type each variable is bound to, or Unbound
  reported,   \* whether a diagnostic has been added
  stage       \* "checking" or "done"

vars == <<typeVars, reported, stage>>

Unbound == Leaf("unbound")

(* occurs_check: whether v is in t, looked for behind the variables.       *)
RECURSIVE OccursDirectly(_, _, _)   \* mistake: not behind the variables
OccursDirectly(tv, v, t) ==
  IF IsVar(t) THEN t.var = v ELSE \E i \in DOMAIN t.args : OccursDirectly(tv, v, t.args[i])
RECURSIVE Occurs(_, _, _)
Occurs(tv, v, t) ==
  IF IsVar(t) THEN t.var = v \/ Occurs(tv, v, tv[t.var])
  ELSE \E i \in DOMAIN t.args : Occurs(tv, v, t.args[i])

RECURSIVE Simplify(_, _)
Simplify(tv, t) ==
  IF IsVar(t) THEN IF tv[t.var] = Unbound THEN t ELSE Simplify(tv, tv[t.var])
  ELSE [t EXCEPT !.args = [i \in DOMAIN t.args |-> Simplify(tv, t.args[i])]]

(* What a unification leaves behind: the variables, and the type or why    *)
(* there is none.                                                          *)
Outcome(tv, how, ty) == [typeVars |-> tv, how |-> how, ty |-> ty]
Ok(tv, ty) == Outcome(tv, "ok", ty)
NoMatch(tv) == Outcome(tv, "no_match", Unbound)
OccursCheck(tv) == Outcome(tv, "occurs", Unbound)
Accepted(u) == u.how = "ok"

RECURSIVE UnifyTy(_, _, _)

(* unify_var_ty: a variable that is bound is bound to what its type and t  *)
(* unify to, which is nothing when they do not.                            *)
OverwriteVarTy(tv, v, t) ==   \* mistake: not unified with what it is bound to
  IF Occurs(tv, v, t) THEN OccursCheck(tv) ELSE Ok([tv EXCEPT ![v] = t], t)
UnifyVarTy(tv, v, t) ==
  IF Occurs(tv, v, t) THEN OccursCheck(tv)
  ELSE IF tv[v] = Unbound THEN Ok([tv EXCEPT ![v] = t], t)
  ELSE LET u == UnifyTy(tv, tv[v], t)
       IN IF Accepted(u) THEN Ok([u.typeVars EXCEPT ![v] = u.ty], u.ty)
          ELSE NoMatch([u.typeVars EXCEPT ![v] = Unbound])

(* The arguments, from the first to one that does not unify.               *)
RECURSIVE UnifyApart(_, _, _)   \* mistake: each without what the others bound
UnifyApart(tv, ss, ts) ==
  IF ss = <<>> THEN Ok(tv, <<>>)
  ELSE LET first == UnifyTy(tv, Head(ss), Head(ts))
           rest  == UnifyApart(tv, Tail(ss), Tail(ts))
       IN IF Accepted(first) /\ Accepted(rest)
          THEN Ok([v \in DOMAIN tv |-> IF tv[v] = rest.typeVars[v]
                                       THEN first.typeVars[v] ELSE rest.typeVars[v]],
                  <<first.ty>> \o rest.ty)
          ELSE NoMatch(tv)
RECURSIVE UnifyArgs(_, _, _)
UnifyArgs(tv, ss, ts) ==
  IF ss = <<>> THEN Ok(tv, <<>>)
  ELSE LET first == UnifyTy(tv, Head(ss), Head(ts))
           rest  == UnifyArgs(first.typeVars, Tail(ss), Tail(ts))
       IN IF ~Accepted(first) THEN NoMatch(first.typeVars)
          ELSE IF ~Accepted(rest) THEN NoMatch(rest.typeVars)
          ELSE Ok(rest.typeVars, <<first.ty>> \o rest.ty)

(* The type of an integer literal and an integer, or the type of another   *)
(* literal; that one is already part of the other is all right here.       *)
IsIntVar(t) == t.con = "intvar"
IntVarLeft(s, t) == IsIntVar(s) /\ IsInt(t)
IntVarAndInt(s, t) == IntVarLeft(s, t) \/ IntVarLeft(t, s)
UnifyIntVar(tv, v, t) ==
  LET u == UnifyVarTy(tv, v, t) IN IF u.how = "occurs" THEN Ok(u.typeVars, t) ELSE u

UnifyTy(tv, s, t) ==
  CASE IsVar(s) /\ s = t -> Ok(tv, s)
    [] IntVarAndInt(s, t) ->
         IF IsIntVar(s) THEN UnifyIntVar(tv, s.var, t) ELSE UnifyIntVar(tv, t.var, s)
    [] IsIntVar(s) /\ IsIntVar(t) /\ s # t -> UnifyIntVar(tv, s.var, t)
    [] s.con = "infer" /\ s # t -> UnifyVarTy(tv, s.var, t)
    [] s.con # "infer" /\ t.con = "infer" -> UnifyVarTy(tv, t.var, s)
    [] ~IsVar(s) /\ ~IsVar(t) /\ s.con = t.con /\ Len(s.args) = Len(t.args) ->
         LET u == UnifyArgs(tv, s.args, t.args)
         IN IF Accepted(u) THEN Ok(u.typeVars, Apply(s.con, u.ty)) ELSE NoMatch(u.typeVars)
    [] OTHER -> NoMatch(tv)

(***************************************************************************)
(* What the checker asks.                                                  *)
(***************************************************************************)
Init ==
  /\ typeVars = [v \in Vars |-> Unbound]
  /\ reported = FALSE
  /\ stage = "checking"

Checking == stage = "checking" /\ UNCHANGED stage
Report(wrong) == reported' = (reported \/ wrong)

(* unify: an expression, pattern or place has the type expected of it.     *)
Expect(expected, ty) ==
  /\ Checking
  /\ LET u == UnifyTy(typeVars, expected, ty)
     IN typeVars' = u.typeVars /\ Report(~Accepted(u))

(* check_binary_op: both operands have the same type, which is an integer  *)
(* or the type of a literal.                                               *)
Operands(left, right) ==
  /\ Checking
  /\ LET u == UnifyTy(typeVars, left, right)
     IN /\ typeVars' = u.typeVars
        /\ Report(~(Accepted(u) /\ (IsInt(u.ty) \/ IsIntVar(u.ty))))

(* unify_or_coerce: never coerces to a type it does not unify with.        *)
UnifyOrCoerce(tv, expected, ty) ==
  LET u == UnifyTy(tv, expected, ty)
  IN [typeVars |-> u.typeVars, wrong |-> ~Accepted(u) /\ ty # Never]
CoerceTo(target, ty) ==
  /\ Checking
  /\ LET c == UnifyOrCoerce(typeVars, target, ty)
     IN typeVars' = c.typeVars /\ Report(c.wrong)

(* merge_ty: the type of the arms of a case or the elements of an array,   *)
(* combined from the left.                                                 *)
RECURSIVE MergeTy(_, _, _)
MergeTy(tv, combined, tys) ==
  IF tys = <<>> THEN Ok(tv, combined)
  ELSE LET u == UnifyTy(tv, combined, Head(tys))
           merged == IF Accepted(u) THEN u.ty
                     ELSE IF combined = Never THEN Head(tys) ELSE combined
       IN MergeTy(u.typeVars, merged, Tail(tys))
RECURSIVE CoerceAll(_, _, _)
CoerceAll(c, combined, tys) ==
  IF tys = <<>> THEN c
  ELSE LET d == UnifyOrCoerce(c.typeVars, combined, Head(tys))
       IN CoerceAll([d EXCEPT !.wrong = @ \/ c.wrong], combined, Tail(tys))
(* Coercion::finish: each of them is coerced to what they were merged to.  *)
Merge(tys) ==
  /\ Checking
  /\ LET m == MergeTy(typeVars, Head(tys), Tail(tys))
         c == CoerceAll([typeVars |-> m.typeVars, wrong |-> FALSE], m.ty, tys)
     IN typeVars' = c.typeVars /\ Report(c.wrong)

(* The end of the function: a variable without a type is reported.         *)
UnsolvedInfer == {v \in InferVars : typeVars[v] = Unbound}   \* mistake: literals forgotten
Unsolved == {v \in Vars : typeVars[v] = Unbound}
EndFunction ==
  /\ stage = "checking"
  /\ stage' = "done"
  /\ Report(Unsolved # {})
  /\ UNCHANGED typeVars

Done == stage = "done" /\ UNCHANGED vars

Next ==
  \/ \E s, t \in Types : Expect(s, t) \/ Operands(s, t) \/ CoerceTo(s, t)
  \/ \E s, t \in Types : Merge(<<s, t>>)
  \/ EndFunction
  \/ Done
Spec == Init /\ [][Next]_vars

(***************************************************************************)
(* Properties.                                                             *)
(***************************************************************************)
RECURSIVE VarsOf(_)
VarsOf(t) == IF IsVar(t) THEN {t.var} ELSE UNION {VarsOf(t.args[i]) : i \in DOMAIN t.args}

(* No variable is bound, however indirectly, to a type it is part of, also *)
(* after unifications that failed half way: simplify_type and the occurs   *)
(* check itself would not end.                                             *)
Acyclic ==
  \E rank \in [Vars -> Vars] :
    \A v \in Vars : \A w \in VarsOf(typeVars[v]) : rank[w] < rank[v]

(* The type of a literal is an integer type or that of another literal.    *)
LiteralsAreIntegers ==
  \A v \in IntVars : typeVars[v].con \in {"unbound", "intvar", "int8", "uint64"}

(* Whatever has been bound, two types that unify are the same from then on *)
(* and are what unify_ty returns.                                          *)
UnifiedAreTheSame ==
  \A s, t \in Types :
    LET u == UnifyTy(typeVars, s, t)
        same(a, b) == Simplify(u.typeVars, a) = Simplify(u.typeVars, b)
    IN Accepted(u) => same(s, t) /\ same(s, u.ty)

(* Old bindings still hold under new ones.                                 *)
StillHold(tv, new) ==
  \A v \in Vars : tv[v] # Unbound =>
    Simplify(new, [con |-> IF v \in IntVars THEN "intvar" ELSE "infer",
                   var |-> v, args |-> <<>>]) = Simplify(new, tv[v])
UnificationForgetsNothing ==
  \A s, t \in Types :
    LET u == UnifyTy(typeVars, s, t) IN Accepted(u) => StillHold(typeVars, u.typeVars)

(* A function without a diagnostic has no variable left in its types.      *)
NothingLeftToInfer ==
  stage = "done" /\ ~reported =>
    \A t \in Types : VarsOf(Simplify(typeVars, t)) = {}

(* "Expected '{:?}' but got '{:?}'" (src/mir/well_formed/mod.rs:239), of   *)
(* the operands of a call and the parameters of a generic function: what   *)
(* has been inferred, the argument's type for the parameter say, is not    *)
(* taken back unless the function is rejected.                             *)
InferredStays == [][reported' \/ StillHold(typeVars, typeVars')]_vars
=============================================================================
