------------------------------- MODULE Layout -------------------------------
(***************************************************************************)
(* Where the parts of a value lie (src/layout/mod.rs), and whether a value *)
(* is kept in memory or as one scalar (src/codegen/backend_repr.rs).       *)
(* Sizes and offsets are in bytes.  A layout lists its parts in the order  *)
(* of the fields; where a part lies is its offset.                         *)
(***************************************************************************)
EXTENDS Integers, Sequences, FiniteSets, FiniteSetsExt

CONSTANT ByteCases   \* up to so many cases have a tag of one byte

(* Scalars, with box for a pointer that is never null.                     *)
ScalarSize == [bool |-> 1, int8 |-> 1, int32 |-> 4, int64 |-> 8, box |-> 8]

(* Types: scalars, records, variants, of which a case has a payload or     *)
(* none, and never.                                                        *)
Of(s) == [kind |-> "scalar", scalar |-> s, parts |-> <<>>]
Record(fields) == [kind |-> "record", scalar |-> "none", parts |-> fields]
Variant(payloads) == [kind |-> "variant", scalar |-> "none", parts |-> payloads]
NeverType == [kind |-> "never", scalar |-> "none", parts |-> <<>>]
Nothing == Record(<<>>)                 \* the payload of a case without one

AlignTo(size, align) ==
  IF size % align = 0 THEN size ELSE (size \div align + 1) * align

NewLayout(size, align, kind, scalar, parts, offsets) ==
  [size |-> size, align |-> align, kind |-> kind, scalar |-> scalar,
   parts |-> parts, offsets |-> offsets, untagged |-> 0]
ScalarLayout(s) == NewLayout(ScalarSize[s], ScalarSize[s], "scalar", s, <<>>, <<>>)
Zst == NewLayout(0, 1, "aggregate", "none", <<>>, <<>>)
Uninhabited == [Zst EXCEPT !.kind = "uninhabited"]
IsAlign1Zst(layout) == layout.size = 0 /\ layout.align = 1

(* record_layout: fields go to memory by falling alignment, and each is    *)
(* aligned as the strictest before it.                                     *)
ByAlignment(layouts, p) ==
  CHOOSE i \in DOMAIN layouts :
    Cardinality({j \in DOMAIN layouts :
      \/ layouts[j].align > layouts[i].align
      \/ layouts[j].align = layouts[i].align /\ j < i}) = p - 1
AggregateLayout(layouts) ==
  LET at(p) == layouts[ByAlignment(layouts, p)]
      align(p) == Max({at(q).align : q \in 1..p} \cup {1})
      start[p \in DOMAIN layouts] ==
        IF p = 1 THEN 0
        ELSE AlignTo(AlignTo(start[p - 1] + at(p - 1).size, align(p - 1)), align(p))
      n == Len(layouts)
      position(i) == CHOOSE p \in DOMAIN layouts : ByAlignment(layouts, p) = i
  IN IF n = 0 THEN Zst
     ELSE NewLayout(AlignTo(start[n] + at(n).size, align(n)), align(n), "aggregate",
                    "none", layouts, [i \in DOMAIN layouts |-> start[position(i)]])

(* variant_layout: of two cases of which one is a box and the other        *)
(* nothing, the pointer tells them apart; others have a tag in front.      *)
TagScalar(layouts) == IF Len(layouts) <= ByteCases THEN "int8" ELSE "int64"
BesideAnything(layouts, c) ==   \* mistake: whatever the other case holds
  Len(layouts) = 2 /\ layouts[c].kind = "scalar" /\ layouts[c].scalar = "box"
IsNiche(layouts, c) ==
  /\ Len(layouts) = 2
  /\ layouts[c].kind = "scalar" /\ layouts[c].scalar = "box"
  /\ IsAlign1Zst(layouts[3 - c])
FirstCase(layouts) == Min(DOMAIN layouts)   \* mistake: not the biggest
BiggestCase(layouts) ==
  CHOOSE c \in DOMAIN layouts : \A d \in DOMAIN layouts :
    /\ layouts[c].size >= layouts[d].size
    /\ layouts[c].size = layouts[d].size => c <= d
VariantLayout(layouts) ==
  IF layouts = <<>> THEN Uninhabited
  ELSE IF \E c \in DOMAIN layouts : IsNiche(layouts, c)
  THEN LET c == CHOOSE c \in DOMAIN layouts : IsNiche(layouts, c)
       IN [NewLayout(layouts[c].size, layouts[c].align, "niche", "box", layouts, <<>>)
             EXCEPT !.untagged = c]
  ELSE LET tag == ScalarSize[TagScalar(layouts)]
           biggest == layouts[BiggestCase(layouts)]
           align == Max({tag, biggest.align})
       IN NewLayout(AlignTo(tag + biggest.size, align), align, "tagged",
                    TagScalar(layouts), layouts, <<>>)

RECURSIVE CalculateLayout(_)
CalculateLayout(ty) ==
  LET parts == [i \in DOMAIN ty.parts |-> CalculateLayout(ty.parts[i])]
  IN CASE ty.kind = "scalar" -> ScalarLayout(ty.scalar)
       [] ty.kind = "record" -> AggregateLayout(parts)
       [] ty.kind = "variant" -> VariantLayout(parts)
       [] ty.kind = "never" -> Uninhabited

(* prefixed_by: the payload of a case behind its tag.                      *)
PrefixedBy(prefix, align, layout) ==
  LET strictest == Max({align, layout.align})
  IN NewLayout(AlignTo(prefix + layout.size, strictest), layout.align, "aggregate",
               "none", <<layout>>, <<AlignTo(prefix, strictest)>>)

(* backend_repr: the scalar a value is kept as, or how else.               *)
NonZst(layout) == {i \in DOMAIN layout.parts : ~IsAlign1Zst(layout.parts[i])}
HasAPart(layout) ==    \* mistake: whatever else there is
  layout.kind = "aggregate" /\ NonZst(layout) # {}
IsOnePart(layout) == layout.kind = "aggregate" /\ Cardinality(NonZst(layout)) = 1
RECURSIVE BackendRepr(_)
BackendRepr(layout) ==
  LET reprs == {BackendRepr(layout.parts[i]) : i \in DOMAIN layout.parts}
  IN CASE IsAlign1Zst(layout) -> "zero sized"
       [] layout.kind = "scalar" -> layout.scalar
       [] IsOnePart(layout) -> BackendRepr(layout.parts[CHOOSE i \in NonZst(layout) : TRUE])
       [] layout.kind = "niche" -> BackendRepr(layout.parts[layout.untagged])
       [] layout.kind = "tagged" /\ reprs = {"zero sized"} -> layout.scalar
       [] layout.kind = "tagged" /\ reprs # {"zero sized"} /\ Len(layout.parts) = 1 ->
            BackendRepr(layout.parts[1])
       [] OTHER -> "memory"
IsImmediate(repr) == repr \in DOMAIN ScalarSize
=============================================================================
