----------------------------- MODULE MCInstances -----------------------------
(***************************************************************************)
(* The collector and the code generator over small programs of four        *)
(* functions: one that is not generic, two of one parameter and one of     *)
(* two.                                                                    *)
(***************************************************************************)
EXTENDS Instances, FiniteSets

IntType == Base("int")
Param(n) == [lists |-> 0, base |-> "param", param |-> n]
List(t) == [t EXCEPT !.lists = @ + 1]
Use(f, args, live) == [function |-> f, args |-> args, reachable |-> live]

(* main names generic functions at concrete types, which name others at    *)
(* types made of their parameters; some pass types on in another order,    *)
(* call themselves, name a function twice or in a block that is never run. *)
MainBodies ==
  {<<Use("id", <<IntType>>, TRUE)>>,
   <<Use("id", <<IntType>>, TRUE), Use("id", <<List(IntType)>>, FALSE)>>,
   <<Use("pair", <<IntType, List(IntType)>>, TRUE), Use("main", <<>>, TRUE)>>,
   <<Use("map", <<List(IntType)>>, FALSE), Use("map", <<List(IntType)>>, TRUE)>>}
IdBodies ==
  {<<>>, <<Use("id", <<Param(1)>>, TRUE)>>, <<Use("pair", <<Param(1), IntType>>, TRUE)>>}
MapBodies ==
  {<<Use("id", <<List(Param(1))>>, TRUE), Use("pair", <<IntType, Param(1)>>, TRUE)>>,
   <<Use("pair", <<Param(1), Param(1)>>, FALSE)>>}
PairBodies ==
  {<<>>,
   <<Use("pair", <<Param(2), Param(1)>>, TRUE), Use("main", <<>>, FALSE)>>,
   <<Use("id", <<IntType>>, TRUE), Use("pair", <<IntType, IntType>>, TRUE)>>}
MCPrograms ==
  {[f \in {"main", "id", "map", "pair"} |->
      CASE f = "main" -> m [] f = "id" -> i [] f = "map" -> l [] f = "pair" -> p] :
   m \in MainBodies, i \in IdBodies, l \in MapBodies, p \in PairBodies}

(* A constructor with a payload, named as a value (ExprKind::Const), is a  *)
(* constant naming something that no body is built for.                    *)
MCConstructorPrograms ==
  {[f \in {"main", "id"} |->
      IF f = "main" THEN <<Use("id", <<IntType>>, TRUE), Use(c, <<IntType>>, TRUE)>> ELSE <<>>] :
   c \in {"id", "some"}}
=============================================================================
