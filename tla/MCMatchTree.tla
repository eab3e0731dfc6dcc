---------------------------- MODULE MCMatchTree ----------------------------
(***************************************************************************)
(* Small types with every pattern of them, nested, with parts left out or  *)
(* in another order, and with cases and types that have no values.         *)
(***************************************************************************)
EXTENDS MatchTree

Variant(payloads) == Ty("variant", payloads)
Tuple(parts) == Ty("tuple", parts)
Record(parts) == Ty("record", parts)
Option(t) == Variant(<<Nothing, t>>)

MCTypes ==
  {BoolType, IntType, NeverType, Tuple(<<>>), Option(BoolType), Option(NeverType),
   Tuple(<<BoolType, BoolType>>), Tuple(<<BoolType, NeverType>>), Tuple(<<IntType, BoolType>>),
   Record(<<BoolType, IntType>>), Record(<<BoolType, NeverType>>),
   Variant(<<BoolType, Nothing, Tuple(<<NeverType>>)>>), Option(Option(BoolType)),
   Tuple(<<Option(BoolType), BoolType>>)}

(* Integers have the values 0, 1 and 2, which is every other one.          *)
Scalar(n) == [n |-> n, parts |-> <<>>]
RECURSIVE MCValuesOf(_)
Products(t) ==
  {v \in [DOMAIN t.parts -> UNION {MCValuesOf(t.parts[i]) : i \in DOMAIN t.parts}] :
     \A i \in DOMAIN t.parts : v[i] \in MCValuesOf(t.parts[i])}
MCValuesOf(t) ==
  CASE t.kind = "bool" -> {Scalar(0), Scalar(1)}
    [] t.kind = "int" -> {Scalar(0), Scalar(1), Scalar(2)}
    [] t.kind = "never" -> {}
    [] t.kind \in {"tuple", "record"} -> {[n |-> 0, parts |-> v] : v \in Products(t)}
    [] t.kind = "variant" ->
         UNION {IF t.parts[c] = Nothing THEN {Scalar(c)}
                ELSE {[n |-> c, parts |-> <<v>>] : v \in MCValuesOf(t.parts[c])} :
                  c \in DOMAIN t.parts}

(* A tuple pattern has all parts in order; a record pattern may have one   *)
(* part, or both in the other order.                                       *)
RECURSIVE MCPatternsOf(_)
FieldPatterns(t, i) == {Field(i, p) : p \in MCPatternsOf(t.parts[i])}
PartPatterns(t) ==
  CASE Len(t.parts) = 0 -> {<<>>}
    [] Len(t.parts) = 1 -> {<<f>> : f \in FieldPatterns(t, 1)}
    [] t.kind = "tuple" /\ Len(t.parts) = 2 ->
         {<<f, g>> : f \in FieldPatterns(t, 1), g \in FieldPatterns(t, 2)}
    [] t.kind = "record" /\ Len(t.parts) = 2 ->
         {<<f>> : f \in FieldPatterns(t, 1) \cup FieldPatterns(t, 2)}
           \cup {<<g, f>> : g \in FieldPatterns(t, 2), f \in FieldPatterns(t, 1)}
MCPatternsOf(t) ==
  {Binding} \cup
  CASE t.kind = "bool" -> {Written("bool", n, <<>>) : n \in {0, 1}}
    [] t.kind = "int" -> {Written("int", n, <<>>) : n \in {0, 1}}
    [] t.kind = "never" -> {}
    [] t.kind \in {"tuple", "record"} -> {Written("record", 0, fs) : fs \in PartPatterns(t)}
    [] t.kind = "variant" ->
         UNION {IF t.parts[c] = Nothing THEN {Written("case", c, <<>>)}
                ELSE {Written("case", c, <<Field(1, p)>>) : p \in MCPatternsOf(t.parts[c])} :
                  c \in DOMAIN t.parts}
=============================================================================
