----------------------------- MODULE MCTypeInfer -----------------------------
(***************************************************************************)
(* Inference with two type variables and the type of a literal.  The types *)
(* reach every way of UnifyTy: a variable may be part of the other side,   *)
(* and the second component of a pair may fail when the first has bound.   *)
(***************************************************************************)
EXTENDS TypeInfer

Pair(s, t) == Apply("tuple", <<s, t>>)
ArrayOf(t) == Apply("array", <<t>>)
MCTypes ==
  {Leaf("bool"), Leaf("int8"), Never, Infer(1), Infer(2), IntVar(3),
   ArrayOf(Infer(1)), ArrayOf(Infer(2)), ArrayOf(Leaf("uint64")),
   Pair(Infer(1), Infer(2)), Pair(Infer(2), IntVar(3)), Pair(Leaf("bool"), Infer(1))}

(***************************************************************************)
(* What can be unified, by trying ground types.                            *)
(***************************************************************************)
Scalars == {Leaf("bool"), Leaf("int8"), Leaf("uint64"), Never}
Ground == Scalars \cup {ArrayOf(Leaf("bool")), ArrayOf(Leaf("uint64")),
                        Pair(Leaf("bool"), Leaf("bool")), Pair(Leaf("bool"), Leaf("int8"))}
Assignments ==
  {g \in [Vars -> Ground] : \A v \in IntVars : IsInt(g[v])}
Holds(g, s, t) == Simplify(g, s) = Simplify(g, t)
Solves(g, s, t) ==
  /\ \A v \in Vars : typeVars[v] # Unbound => g[v] = Simplify(g, typeVars[v])
  /\ Holds(g, s, t)
Solvable(s, t) == \E g \in Assignments : Solves(g, s, t)

(* A type variable bound to another, which the occurs check then finds in  *)
(* that other one, so that a variable and its alias are refused.           *)
Aliased == \E v \in InferVars : typeVars[v].con = "infer"

(* Until then, what does not unify cannot be made the same.                *)
RefusesOnlyContradictions ==
  Aliased \/ \A s, t \in Types : Accepted(UnifyTy(typeVars, s, t)) \/ ~Solvable(s, t)
=============================================================================
