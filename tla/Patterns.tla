------------------------------ MODULE Patterns ------------------------------
(***************************************************************************)
(* The pattern check (src/patterns): which values of a type no pattern of  *)
(* a case or of a let matches, told as patterns.  The order of messages is *)
(* left out, so matrices and what is missing are sets of rows.             *)
(***************************************************************************)
EXTENDS Integers, Sequences, FiniteSets, SequencesExt

(* Types of what is matched: bool, int (and every other type with more     *)
(* values than patterns can list), never, tuples, records and variants, of *)
(* which a case has a payload, in parts, or Nothing.                       *)
Ty(kind, parts) == [kind |-> kind, parts |-> parts]
BoolType == Ty("bool", <<>>)
IntType == Ty("int", <<>>)
NeverType == Ty("never", <<>>)
Nothing == Ty("nothing", <<>>)
PayloadTypes(ty, c) == IF ty.parts[c] = Nothing THEN <<>> ELSE <<ty.parts[c]>>

RECURSIVE IsUninhabited(_)
IsUninhabited(ty) ==
  CASE ty.kind = "never" -> TRUE
    [] ty.kind \in {"tuple", "record"} -> \E i \in DOMAIN ty.parts : IsUninhabited(ty.parts[i])
    [] ty.kind = "variant" -> \A c \in DOMAIN ty.parts : IsUninhabited(ty.parts[c])
    [] OTHER -> FALSE

(* Constructors, and the parts of what they construct.                     *)
Ctor(k, n) == [k |-> k, n |-> n]
BoolCtor(n) == Ctor("bool", n)
IntCtor(n) == Ctor("int", n)
CaseCtor(c) == Ctor("case", c)
RecordCtor == Ctor("record", 0)
Wildcard == Ctor("wildcard", 0)
NonExhaustive == Ctor("non exhaustive", 0)
Missing == Ctor("missing", 0)

ConstructorsOfTy(ty) ==
  CASE ty.kind = "bool" -> {BoolCtor(0), BoolCtor(1)}
    [] ty.kind = "never" -> {}
    [] ty.kind = "tuple" -> {RecordCtor}
    [] ty.kind = "record" -> IF IsUninhabited(ty) THEN {} ELSE {RecordCtor}
    [] ty.kind = "variant" -> {CaseCtor(c) : c \in {c \in DOMAIN ty.parts : ~IsUninhabited(ty.parts[c])}}
    [] ty.kind = "int" -> {NonExhaustive}
FieldsOf(ty, ctor) ==
  CASE ctor = RecordCtor -> ty.parts
    [] ctor.k = "case" -> PayloadTypes(ty, ctor.n)
    [] OTHER -> <<>>

(* Patterns as they are written, and pattern_to_pat.  The fields of a      *)
(* record pattern come in any order and may be left out.                   *)
Written(kind, n, fields) == [kind |-> kind, n |-> n, fields |-> fields]
Binding == Written("binding", 0, <<>>)
Field(index, pattern) == [index |-> index, pattern |-> pattern]

Pat(ctor, fields) == [ctor |-> ctor, fields |-> fields]
WildcardPat == Pat(Wildcard, <<>>)
Wildcards(n) == [i \in 1..n |-> WildcardPat]
RECURSIVE PatternToPat(_)
PatternToPat(p) ==
  IF p.kind = "binding" THEN WildcardPat
  ELSE Pat(IF p.kind = "record" THEN RecordCtor ELSE Ctor(p.kind, p.n),
           [f \in DOMAIN p.fields |-> Field(p.fields[f].index, PatternToPat(p.fields[f].pattern))])

(* specialize: the rows that can match what a constructor makes, with its  *)
(* parts in front.                                                         *)
NoParts(pat, n) == Wildcards(n)   \* mistake: the parts are not looked at
PartsOf(pat, n) ==
  FoldLeft(LAMBDA row, f : [row EXCEPT ![f.index] = f.pattern], Wildcards(n), pat.fields)
OfCtor(ctor, n, matrix) ==   \* mistake: rows that begin with a wildcard are lost
  {PartsOf(row[1], n) \o Tail(row) : row \in {row \in matrix : row[1].ctor = ctor}}
Specialize(ctor, n, matrix) ==
  {PartsOf(row[1], n) \o Tail(row) : row \in {row \in matrix : row[1].ctor = ctor}}
    \cup {Wildcards(n) \o Tail(row) : row \in {row \in matrix : row[1].ctor = Wildcard}}

(* missing_patterns_inner.  Constructors no pattern names are looked at    *)
(* together, since only wildcards match them.                              *)
Indexed(pats) == [i \in DOMAIN pats |-> Field(i, pats[i])]
Constructed(ctor, n, row) ==
  <<Pat(ctor, Indexed(SubSeq(row, 1, n)))>> \o SubSeq(row, n + 1, Len(row))
Named(matrix) == {row[1].ctor : row \in matrix}
Seen(ctors, matrix) == ctors \cap Named(matrix)
RECURSIVE MissingRows(_, _)
MissingRows(tys, matrix) ==
  IF tys = <<>> THEN (IF matrix = {} THEN {<<>>} ELSE {})
  ELSE
    LET all == ConstructorsOfTy(tys[1])
        unseen == all \ Named(matrix)
        fields(c) == FieldsOf(tys[1], c)
        among(c) == MissingRows(fields(c) \o Tail(tys), Specialize(c, Len(fields(c)), matrix))
        beside == MissingRows(Tail(tys), Specialize(Missing, 0, matrix))
        wild(c) == <<Pat(c, Indexed(Wildcards(Len(fields(c)))))>>
    IN UNION {{Constructed(c, Len(fields(c)), row) : row \in among(c)} : c \in Seen(all, matrix)}
         \cup (IF unseen = {} THEN {} ELSE {wild(c) \o row : c \in unseen, row \in beside})
MissingPatterns(ty, patterns) ==
  {row[1] : row \in MissingRows(<<ty>>, {<<PatternToPat(patterns[i])>> : i \in DOMAIN patterns})}
=============================================================================
