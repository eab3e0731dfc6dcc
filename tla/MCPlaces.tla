------------------------------ MODULE MCPlaces ------------------------------
(***************************************************************************)
(* Functions over small types: with and without padding, with the niche on *)
(* either side, tags of both widths, empty parts, one in another.          *)
(***************************************************************************)
EXTENDS Places

Bool == Of("bool")
Int32 == Of("int32")
Int64 == Of("int64")
Box == Of("box")
Option(ty) == Variant(<<Nothing, ty>>)
Flag == Variant(<<Nothing, Nothing>>)
Three == Variant(<<Nothing, Nothing, Nothing>>)      \* its tag has eight bytes

(* Left out, because the code does not keep them: types of one case with a *)
(* payload, and those whose biggest case is less aligned than another.     *)
SoundTypes ==
  {Option(Box), Variant(<<Box, Nothing>>), Variant(<<NeverType, Box>>), Variant(<<Box, Box>>),
   Option(Bool), Option(Int64), Variant(<<Bool, Int32>>), Variant(<<Bool, Nothing, Int64>>),
   Flag, Three, Option(Flag), Option(Option(Box)), Option(Record(<<Box>>)),
   Record(<<Bool, Int64>>), Record(<<Bool, Int32, Bool>>), Record(<<Option(Box), Bool>>),
   Record(<<Flag, Int32>>), Record(<<Nothing, Box>>), Record(<<Record(<<Nothing, Int32>>), Bool>>),
   Option(Record(<<Bool, Int32>>)), Variant(<<Nothing>>)}

(* Two locals of the type, and one of each type of a part.                 *)
PartTypes(ty) ==
  LET parts == {ty.parts[i] : i \in DOMAIN ty.parts} \ {NeverType}
  IN SetToSeq(parts \ {p \in parts : p = Nothing /\ ty.kind = "variant"})
Assigned ==   \* once or not: the two locals, and the parts
  {<<TRUE, FALSE, TRUE>>, <<FALSE, FALSE, FALSE>>, <<TRUE, TRUE, FALSE>>}
ProgramsOf(tys) ==
  UNION {{<<[ty |-> ty, once |-> o[1]], [ty |-> ty, once |-> o[2]]>>
            \o [i \in DOMAIN PartTypes(ty) |-> [ty |-> PartTypes(ty)[i], once |-> o[3]]] :
          o \in Assigned} : ty \in tys}
MCPrograms == ProgramsOf(SoundTypes)
MCConstants == [bool |-> {0, 1}, int8 |-> {0, 1}, int32 |-> {1}, int64 |-> {0, 1}, box |-> {100}]
=============================================================================
