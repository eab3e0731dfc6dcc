------------------------------ MODULE TypeShape ------------------------------
(***************************************************************************)
(* Three walks over type definitions that have to agree on where a type    *)
(* ends: whether it contains itself (is_type_recursive), whether it has a  *)
(* value (is_uninhabited), and what it takes in memory (calculate_layout,  *)
(* here only whether it comes to an end).  A walk that goes on for ever is *)
(* cut off at a depth no finite walk of the instance reaches.              *)
(***************************************************************************)
EXTENDS Naturals, Sequences, SequencesExt, FiniteSetsExt

CONSTANT DEPTH   \* a walk that is deeper than this is without an end

(* A type is a constructor with arguments; `name` is the definition of a   *)
(* named type, `index` the number of a generic parameter.                  *)
Kinds == {"int", "never", "param", "box", "rawptr", "array", "tuple", "named"}
Ty(k, args) == [kind |-> k, name |-> "", index |-> 0, args |-> args]
Named(n, args) == [Ty("named", args) EXCEPT !.name = n]
Param(i) == [Ty("param", <<>>) EXCEPT !.index = i]
IntType == Ty("int", <<>>)

(* A definition is a record, whose fields are those of its one case, or a  *)
(* variant, each case of which has a field or none.                        *)
AllFields(def) == FlattenSeq(def.cases)
Mapped(s, f(_)) == [i \in DOMAIN s |-> f(s[i])]

(* The type of a field: the arguments put in place of the parameters.      *)
RECURSIVE BindType(_, _)
BindType(t, args) ==
  IF t.kind = "param" THEN args[t.index]
  ELSE [t EXCEPT !.args = [i \in DOMAIN t.args |-> BindType(t.args[i], args)]]

FieldsOf(defs, t) == [i \in DOMAIN AllFields(defs[t.name]) |->
                        BindType(AllFields(defs[t.name])[i], t.args)]

(***************************************************************************)
(* is_type_recursive: no definition may be met twice, the parts in order.  *)
(***************************************************************************)
WithTuples == {"array", "box", "tuple"}   \* mistake: a tuple is in the way, too
Indirect == {"array", "box"}
RECURSIVE VisitType(_, _, _)
VisitType(defs, v, t) ==
  IF v.found \/ t.kind \in Indirect THEN v
  ELSE IF t.kind # "named"
       THEN FoldLeft(LAMBDA w, arg : VisitType(defs, w, arg), v, t.args)
  ELSE IF t.name \in v.seen THEN [v EXCEPT !.found = TRUE]
  ELSE FoldLeft(LAMBDA w, field : VisitType(defs, w, field),
                [v EXCEPT !.seen = @ \cup {t.name}], FieldsOf(defs, t))

IsTypeRecursive(defs, n) ==
  VisitType(defs, [seen |-> {}, found |-> FALSE],
            Named(n, [i \in 1 .. defs[n].params |-> Param(i)])).found

(***************************************************************************)
(* The answers of parts, asked for in order: the first that settles it is  *)
(* the answer, and one without an end is one only if it is asked for.      *)
(***************************************************************************)
FirstOf(answers, unless, otherwise) ==
  LET settled == {i \in DOMAIN answers : answers[i] # unless}
  IN IF settled = {} THEN otherwise ELSE answers[Min(settled)]
AnyOf(answers) == FirstOf(answers, "no", "no")
AllOf(answers) == FirstOf(answers, "yes", "yes")

Sometimes(record, answers) == AnyOf(answers)   \* mistake: one empty case is enough
Together(record, answers) == IF record THEN AnyOf(answers) ELSE AllOf(answers)

RECURSIVE IsUninhabited(_, _, _)
IsUninhabited(defs, t, d) ==
  LET ask(u) == IsUninhabited(defs, u, d - 1)
      case(fields) == IF fields = <<>> THEN "no" ELSE ask(BindType(fields[1], t.args))
  IN CASE d = 0 -> "endless"
       [] t.kind = "never" -> "yes"
       [] t.kind \in {"tuple", "box"} -> AnyOf(Mapped(t.args, ask))
       [] t.kind = "named" /\ IsTypeRecursive(defs, t.name) -> "no"
       [] t.kind = "named" /\ ~IsTypeRecursive(defs, t.name) ->
            LET def == defs[t.name] IN
            Together(def.record, IF def.record THEN Mapped(FieldsOf(defs, t), ask)
                                 ELSE Mapped(def.cases, case))
       [] OTHER -> "no"

(* constructors_of_ty: which cases a match has to have, a record none if   *)
(* a field is uninhabited; `endless` if one of the questions is.           *)
ConstructorsOf(defs, t) ==
  LET def == defs[t.name]
      ask(u) == IsUninhabited(defs, u, DEPTH)
      case(fields) == IF fields = <<>> THEN "no" ELSE ask(BindType(fields[1], t.args))
  IN IF def.record THEN <<AnyOf(Mapped(FieldsOf(defs, t), ask))>> ELSE Mapped(def.cases, case)
ConstructorsEnd(defs, t) ==
  t.kind = "named" => \A i \in DOMAIN ConstructorsOf(defs, t) :
                        ConstructorsOf(defs, t)[i] # "endless"

(***************************************************************************)
(* calculate_layout: a parameter ends it with an error, which the first of *)
(* the parts that has one returns.                                         *)
(***************************************************************************)
RECURSIVE LayoutOf(_, _, _)
LayoutOf(defs, t, d) ==
  LET part(u) == LayoutOf(defs, u, d - 1)
      of(parts) == FirstOf(Mapped(parts, part), "laid out", "laid out")
  IN CASE d = 0 -> "endless"
       [] t.kind = "param" -> "generic"
       [] t.kind = "tuple" -> of(t.args)
       [] t.kind = "named" -> of(FieldsOf(defs, t))
       [] OTHER -> "laid out"
LayoutEnds(defs, t) == LayoutOf(defs, t, DEPTH) # "endless"
=============================================================================
