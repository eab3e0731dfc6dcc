------------------------------- MODULE MCDriver ------------------------------
(***************************************************************************)
(* Programs with two types of every shape that match on them, with some    *)
(* generic types, with functions that keep the checks busy, and with files *)
(* of every kind.                                                          *)
(***************************************************************************)
EXTENDS FrontEnd, MCParser

Rec(params, fields) ==
  [params |-> params, record |-> TRUE, cases |-> <<fields>>]
Var(params, cases) ==
  [params |-> params, record |-> FALSE, cases |-> cases]
A == Named("A", <<>>)
B == Named("B", <<>>)
Never == Ty("never", <<>>)
Box(t) == Ty("box", <<t>>)
Tuple(t, u) == Ty("tuple", <<t, u>>)

(* The first type is of any shape over these, the second refers to it.     *)
FieldTypes == {IntType, Never, A, B, Box(A), Box(B), Tuple(B, Box(A)), Tuple(IntType, A),
               Ty("rawptr", <<A>>), Ty("array", <<A>>)}
FirstTypes ==
  {Rec(0, <<t, u>>) : t \in FieldTypes, u \in FieldTypes}
    \cup {Var(0, <<<<>>, <<t>>>>) : t \in FieldTypes}
    \cup {Var(0, <<<<t>>, <<u>>>>) : t \in FieldTypes, u \in FieldTypes}
    \cup {Var(0, <<<<t>>, <<>>>>) : t \in FieldTypes}
SecondTypes == {Rec(0, <<IntType>>), Rec(0, <<A>>), Var(0, <<>>), Rec(0, <<Tuple(IntType, Box(A))>>)}
PlainTypes == {[n \in {"A", "B"} |-> IF n = "A" THEN a ELSE b] : a \in FirstTypes, b \in SecondTypes}

(* A wrapper, a type that only names its parameter, and one that names     *)
(* itself at a larger type.                                                *)
Of(n, t) == Named(n, <<t>>)
GenericTypes ==
  {[n \in {"A", "W", "P", "N"} |->
      CASE n = "A" -> a
        [] n = "W" -> Rec(1, <<Param(1)>>)
        [] n = "P" -> Var(1, <<<<IntType>>, <<Box(Of("P", Param(1)))>>>>)
        [] n = "N" -> Var(1, <<<<Param(1)>>, <<Box(Of("N", Tuple(Param(1), Param(1))))>>>>)] :
   a \in {Rec(0, <<Of("W", A)>>), Rec(0, <<Of("P", A)>>), Rec(0, <<Of("W", Of("W", IntType))>>),
          Var(0, <<<<Of("W", Never)>>, <<Of("P", Never)>>>>), Rec(0, <<Of("N", IntType)>>),
          Rec(0, <<Of("N", Never), IntType>>), Var(0, <<<<Of("W", Box(A))>>, <<>>>>)}}

(* What is written in the files, and which of them have a mistake.         *)
IsBroken(file) == \E i \in DOMAIN file : ~file[i].good
Reading(p, files) == [p EXCEPT !.files = files, !.broken = [i \in DOMAIN files |-> IsBroken(files[i])]]
FairFile == <<Good(Fun(<<"true">>))>>
BrokenFile == <<Bad(<<";">>)>>

NoTypes == [n \in {} |-> 0]
Fine == [body |-> TRUE, unsafe |-> FALSE, typed |-> TRUE, matched |-> {}, gap |-> FALSE,
         misuse |-> FALSE, transmuted |-> <<>>, badBuiltin |-> FALSE, bigLiteral |-> FALSE,
         used |-> {}]
Fair == [files |-> <<FairFile>>, broken |-> <<FALSE>>, undeclared |-> FALSE, unresolved |-> FALSE, main |-> TRUE,
         types |-> NoTypes, functions |-> <<Fine>>, checkOnly |-> FALSE]

(* One function uses and transmutes a type, the other matches on it.       *)
Looking(types) ==
  [Fair EXCEPT !.types = types,
     !.functions = <<[Fine EXCEPT !.used = {A},
                                  !.transmuted = <<[from |-> A, to |-> IntType, fits |-> TRUE]>>],
                     [Fine EXCEPT !.used = {A}, !.matched = {A}]>>]

(* Each of three functions has at most two things wrong.                   *)
Unsafe(f) == [f EXCEPT !.unsafe = TRUE]
Misfit == <<[from |-> IntType, to |-> Box(IntType), fits |-> FALSE]>>
Functions ==
  {Fine, Unsafe(Fine), [Fine EXCEPT !.body = FALSE],
   [Fine EXCEPT !.gap = TRUE], [Fine EXCEPT !.misuse = TRUE, !.bigLiteral = TRUE],
   [Fine EXCEPT !.transmuted = Misfit], Unsafe([Fine EXCEPT !.transmuted = Misfit]),
   [Fine EXCEPT !.badBuiltin = TRUE], Unsafe([Fine EXCEPT !.bigLiteral = TRUE, !.misuse = TRUE])}
ThreeFunctions == {[Fair EXCEPT !.functions = <<f, g, h>>] : f, g, h \in Functions}

Truth == {TRUE, FALSE}
Earlier ==
  {Reading([Fair EXCEPT !.undeclared = d, !.unresolved = r, !.main = m,
                        !.functions = <<[Fine EXCEPT !.typed = t, !.gap = TRUE]>>, !.checkOnly = TRUE],
           <<x, y>>) :
   x, y \in {FairFile, BrokenFile}, d, r, m, t \in Truth}
  \cup {[Fair EXCEPT !.checkOnly = TRUE]}

(* Every file in front of one that can be parsed.                          *)
Files == {Reading(Fair, <<file, FairFile>>) : file \in MCModules}

MCPrograms ==
  {Looking(t) : t \in PlainTypes \cup GenericTypes} \cup ThreeFunctions \cup Earlier \cup Files
=============================================================================
