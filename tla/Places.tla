------------------------------- MODULE Places -------------------------------
(***************************************************************************)
(* Values in places (src/codegen/mod.rs): the locals of one function are   *)
(* scalar variables or stack memory, and values are put together, copied,  *)
(* passed and taken apart between them.  Beside the bytes each local has a *)
(* meaning, the value the program put there.                               *)
(***************************************************************************)
EXTENDS Layout, SequencesExt

CONSTANTS
  Programs,   \* the locals of the functions: types, and whether assigned once
  Constants   \* the scalars that are written, for each kind of scalar

VARIABLES
  locals,     \* the locals of the function that runs
  contents,   \* the bytes or the variable of each
  meaning     \* the value of each, or Undefined

vars == <<locals, contents, meaning>>

(* Values: a scalar, a record with its parts, a case with its payload.     *)
Value(n, case, parts) == [n |-> n, case |-> case, parts |-> parts]
ScalarValue(n) == Value(n, 0, <<>>)
Undefined == Value(-1, 0, <<>>)

(* Scalars have a width.  Memory is what was stored in it and is not       *)
(* overwritten: what is loaded was stored there, or is junk.               *)
Imm(n, width) == [n |-> n, width |-> width]
Junk == Imm(-1, 0)
Stored(offset, v) == [offset |-> offset, v |-> v]

Fresh(size) == [size |-> size, mem |-> {}, var |-> Junk, fault |-> "none"]
Fault(c, fault) == IF c.fault = "none" THEN [c EXCEPT !.fault = fault] ELSE c
Within(s, first, size) == s.offset >= first /\ s.offset + s.v.width <= first + size
Apart(s, first, size) == s.offset >= first + size \/ s.offset + s.v.width <= first

WriteMem(c, offset, size, new) ==
  [c EXCEPT !.mem = {s \in @ : Apart(s, offset, size)} \cup new,
            !.fault = IF @ = "none" /\ offset + size > c.size THEN "overrun" ELSE @]
StoreImmediateMem(c, offset, v) == WriteMem(c, offset, v.width, {Stored(offset, v)})
LoadMem(c, offset, width) ==
  LET found == {s \in c.mem : s.offset = offset /\ s.v.width = width}
  IN IF found = {} THEN Junk ELSE (CHOOSE s \in found : TRUE).v

(* Locals: the kind of a local, and the places in it.  A local is a        *)
(* variable if it is assigned once and kept as a scalar.                   *)
Local(ty, once) == [ty |-> ty, once |-> once, layout |-> CalculateLayout(ty)]
LocalKind(local) ==
  LET repr == BackendRepr(local.layout)
  IN CASE repr = "zero sized" -> "zero sized"
       [] IsImmediate(repr) /\ local.once -> "ssa"
       [] OTHER -> "memory"
NewLocal(local) == Fresh(IF LocalKind(local) = "memory" THEN local.layout.size ELSE 0)

Place(kind, layout, offset) ==
  [kind |-> kind, layout |-> layout, offset |-> offset, repr |-> BackendRepr(layout)]
BasePlace(local) == Place(LocalKind(local), local.layout, 0)

(* Projections: to the payload of a case, a record of at most one field,   *)
(* and to a field.                                                         *)
Downcast(c) == [to |-> "case", index |-> c]
FieldOf(i) == [to |-> "field", index |-> i]
PathTo(case, i) == IF case = 0 THEN <<FieldOf(i)>> ELSE <<Downcast(case), FieldOf(i)>>
PayloadOf(ty, case) ==
  IF case = 0 THEN ty.parts ELSE IF ty.parts[case] = Nothing THEN <<>> ELSE <<ty.parts[case]>>
ProjectDowncast(layout, c) ==
  CASE layout.kind = "tagged" ->
         PrefixedBy(ScalarSize[layout.scalar], ScalarSize[layout.scalar], layout.parts[c])
    [] layout.kind = "niche" -> PrefixedBy(0, layout.align, layout.parts[c])
(* eval_scalar_with_projections: a part of a variable is the variable.     *)
Project(place, proj) ==
  IF proj.to = "case" THEN Place(place.kind, ProjectDowncast(place.layout, proj.index), place.offset)
  ELSE Place(place.kind, place.layout.parts[proj.index],
             place.offset + place.layout.offsets[proj.index])
EvalPlace(local, path) ==
  LET place == FoldLeft(Project, BasePlace(local), path)
  IN IF place.kind = "ssa" /\ path # <<>> /\ place.repr = "zero sized" THEN [place EXCEPT !.kind = "zero sized"]
     ELSE place

(* expect_immediate, load_place: the scalar in a place.                    *)
IsScalarPlace(place) == place.kind = "ssa" \/ (place.kind = "memory" /\ IsImmediate(place.repr))
LoadPlace(c, place) ==
  IF place.kind = "ssa" THEN c.var ELSE LoadMem(c, place.offset, ScalarSize[place.repr])

(* store_var_imm: the variable has the type of its scalar.                 *)
StoreVarImm(c, local, v) ==
  IF v.width = ScalarSize[BackendRepr(local.layout)] THEN [c EXCEPT !.var = v]
  ELSE Fault(c, "wrong type")
StoreImmediate(c, local, place, v) ==
  CASE place.kind = "ssa" -> StoreVarImm(c, local, v)
    [] place.kind = "memory" -> StoreImmediateMem(c, place.offset, v)
    [] place.kind = "zero sized" -> c

(* memcopy: the bytes of a whole value.                                    *)
Memcopy(c, place, from, src) ==
  WriteMem(c, place.offset, place.layout.size,
           {Stored(s.offset - src.offset + place.offset, s.v) :
              s \in {s \in from.mem : Within(s, src.offset, place.layout.size)}})

(* store_value of an operand that is loaded from a place.                  *)
StoreValue(c, local, place, from, src) ==
  CASE place.kind = "zero sized" \/ src.kind = "zero sized" -> c
    [] place.kind = "ssa" /\ ~IsScalarPlace(src) -> Fault(c, "no immediate")
    [] place.kind = "ssa" /\ IsScalarPlace(src) -> StoreVarImm(c, local, LoadPlace(from, src))
    [] place.kind = "memory" /\ src.kind = "memory" -> Memcopy(c, place, from, src)
    [] place.kind = "memory" /\ src.kind = "ssa" -> StoreImmediateMem(c, place.offset, from.var)

(* An operand is loaded from a local or from a field of one (part 0 is the *)
(* whole).  It may be the local that is assigned.                          *)
Operand(m, part) == [local |-> m, part |-> part]
PathOf(op) == IF op.part = 0 THEN <<>> ELSE <<FieldOf(op.part)>>
TypeOf(op) ==
  IF op.part = 0 THEN locals[op.local].ty ELSE locals[op.local].ty.parts[op.part]
MeaningOf(op) ==
  IF op.part = 0 THEN meaning[op.local] ELSE meaning[op.local].parts[op.part]
StoreOperand(c, l, path, op) ==
  StoreValue(c, locals[l], EvalPlace(locals[l], path),
             IF op.local = l THEN c ELSE contents[op.local], EvalPlace(locals[op.local], PathOf(op)))

(* codegen_rvalue_assign of an aggregate: its parts, each operand being    *)
(* read when its turn comes, then its tag.                                 *)
StoreParts(l, path, ops) ==
  FoldLeft(LAMBDA c, i : StoreOperand(c, l, path \o <<FieldOf(i)>>, ops[i]),
           contents[l], [i \in DOMAIN ops |-> i])
StoreTag(c, local, case) ==
  LET layout == local.layout
      discr == Imm(case - 1, ScalarSize[layout.scalar])
  IN IF layout.kind = "niche" /\ case = layout.untagged THEN c
     ELSE StoreImmediate(c, local, BasePlace(local), discr)

(* codegen_discriminant.                                                   *)
Discriminant(c, place) ==
  LET layout == place.layout
      tag == IF place.kind = "ssa" THEN c.var
             ELSE LoadMem(c, place.offset, ScalarSize[layout.scalar])
      direct == 3 - layout.untagged
  IN CASE layout.kind = "tagged" -> tag.n + 1
       [] layout.kind = "niche" -> IF tag.n # direct - 1 THEN layout.untagged ELSE direct

(* The value in a place, as a match reads it: the discriminant, then the   *)
(* payload of that case.                                                   *)
RECURSIVE ReadValue(_, _, _, _)
ReadValue(c, local, path, ty) ==
  LET place == EvalPlace(local, path)
      case == IF ty.kind = "variant" THEN Discriminant(c, place) ELSE 0
      parts == PayloadOf(ty, case)
  IN CASE ty.kind = "scalar" -> ScalarValue(LoadPlace(c, place).n)
       [] ty.kind = "never" \/ (ty.kind = "variant" /\ case \notin DOMAIN ty.parts) -> Undefined
       [] OTHER -> Value(0, case, [i \in DOMAIN parts |->
                     ReadValue(c, local, path \o PathTo(case, i), parts[i])])

(***************************************************************************)
(* The statements of a function.                                           *)
(***************************************************************************)
Init ==
  /\ locals \in {[l \in DOMAIN p |-> Local(p[l].ty, p[l].once)] : p \in Programs}
  /\ contents = [l \in DOMAIN locals |-> NewLocal(locals[l])]
  /\ meaning = [l \in DOMAIN locals |-> Undefined]

IsDefined(l) == meaning[l] # Undefined
Panicked(c) == c.fault \in {"wrong type", "no immediate"}
Running == \A l \in DOMAIN locals : ~Panicked(contents[l])
Becomes(l, c, v) ==
  /\ contents' = [contents EXCEPT ![l] = c]
  /\ meaning' = [meaning EXCEPT ![l] = v]
  /\ UNCHANGED locals

AssignConstant(l) ==
  /\ Running /\ locals[l].ty.kind = "scalar"
  /\ \E n \in Constants[locals[l].ty.scalar] :
       Becomes(l, StoreImmediate(contents[l], locals[l], BasePlace(locals[l]),
                                 Imm(n, ScalarSize[locals[l].ty.scalar])),
               ScalarValue(n))

Fields(l) ==
  IF locals[l].ty.kind = "record" /\ meaning[l] # Undefined THEN DOMAIN locals[l].ty.parts ELSE {}
OperandsFor(l) ==
  UNION {{Operand(m, part) : part \in {0} \cup Fields(m)} :
           m \in {n \in DOMAIN locals : IsDefined(n) /\ ~(n = l /\ locals[l].once)}}
Operands(l, tys) ==
  {ops \in [DOMAIN tys -> OperandsFor(l)] : \A i \in DOMAIN tys : TypeOf(ops[i]) = tys[i]}
(* An operand that is a field which has got another value before its turn. *)
ReadTooLate(l, ops) ==
  \E i \in DOMAIN ops : \E k \in DOMAIN ops :
    i < k /\ ops[k] = Operand(l, i) /\ MeaningOf(ops[i]) # MeaningOf(ops[k])
AssignRecord(l) ==
  /\ Running /\ locals[l].ty.kind = "record"
  /\ \E ops \in Operands(l, locals[l].ty.parts) :
       Becomes(l, StoreParts(l, <<>>, ops),
               IF ReadTooLate(l, ops) THEN Undefined
               ELSE Value(0, 0, [i \in DOMAIN ops |-> MeaningOf(ops[i])]))
AssignCase(l) ==
  /\ Running /\ locals[l].ty.kind = "variant"
  /\ \E case \in DOMAIN locals[l].ty.parts :
     \E ops \in Operands(l, PayloadOf(locals[l].ty, case)) :
       Becomes(l, StoreTag(StoreParts(l, <<Downcast(case)>>, ops), locals[l], case),
               Value(0, case, [i \in DOMAIN ops |-> MeaningOf(ops[i])]))

(* Use of a local, or of the part of it that a match has found.            *)
AssignUse(l, m) ==
  /\ Running /\ l # m /\ IsDefined(m) /\ locals[l].ty = locals[m].ty
  /\ Becomes(l, StoreValue(contents[l], locals[l], BasePlace(locals[l]),
                           contents[m], BasePlace(locals[m])), meaning[m])
AssignPart(l, m, i) ==
  /\ Running /\ IsDefined(m) /\ i \in DOMAIN meaning[m].parts
  /\ LET case == meaning[m].case
     IN /\ PayloadOf(locals[m].ty, case)[i] = locals[l].ty
        /\ Becomes(l, StoreValue(contents[l], locals[l], BasePlace(locals[l]),
                                 contents[m], EvalPlace(locals[m], PathTo(case, i))),
                   meaning[m].parts[i])

(* A field is assigned, which only a local that is not a variable has.     *)
AssignField(l, i) ==
  /\ Running /\ i \in Fields(l) /\ ~locals[l].once
  /\ \E op \in OperandsFor(l) :
       /\ TypeOf(op) = locals[l].ty.parts[i] /\ op # Operand(l, i)
       /\ Becomes(l, StoreOperand(contents[l], l, <<FieldOf(i)>>, op),
                  [meaning[l] EXCEPT !.parts[i] = MeaningOf(op)])

(* A call of a function that returns its parameter.  explode_args and      *)
(* store_params: a scalar is passed by value, memory by a pointer from     *)
(* which the callee copies; scalars are returned by value.                 *)
PassTo(local, from, src) ==
  LET c == NewLocal(local)
      place == BasePlace(local)
  IN CASE src.kind = "zero sized" -> c
       [] IsScalarPlace(src) -> StoreImmediate(c, local, place, LoadPlace(from, src))
       [] ~IsScalarPlace(src) /\ src.kind = "memory" -> Memcopy(c, place, from, src)
AssignCall(l, m) ==
  /\ Running /\ IsDefined(m) /\ locals[l].ty = locals[m].ty
  /\ \E paramOnce, returnOnce \in BOOLEAN :
       LET param == [locals[m] EXCEPT !.once = paramOnce]
           slot == [locals[m] EXCEPT !.once = returnOnce]
           passed == PassTo(param, contents[m], BasePlace(locals[m]))
           returned == StoreValue(NewLocal(slot), slot, BasePlace(slot), passed, BasePlace(param))
           result == IF IsScalarPlace(BasePlace(slot))
                     THEN StoreImmediate(contents[l], locals[l], BasePlace(locals[l]),
                                         LoadPlace(returned, BasePlace(slot)))
                     ELSE StoreValue(contents[l], locals[l], BasePlace(locals[l]),
                                     passed, BasePlace(param))
       IN Becomes(l, Fault(result, IF passed.fault # "none" THEN passed.fault ELSE returned.fault),
                  meaning[m])

Locals == DOMAIN locals
Next ==
  \/ \E l \in Locals : AssignConstant(l)
  \/ \E l \in Locals : AssignRecord(l)
  \/ \E l \in Locals : AssignCase(l)
  \/ \E l, m \in Locals : AssignUse(l, m)
  \/ \E l, m \in Locals : AssignCall(l, m)
  \/ \E l, m \in Locals : \E i \in 1..Len(meaning[m].parts) : AssignPart(l, m, i)
  \/ \E l \in Locals : \E i \in 1..Len(meaning[l].parts) : AssignField(l, i)
Spec == Init /\ [][Next]_vars

(***************************************************************************)
(* Properties.                                                             *)
(***************************************************************************)
(* What is read from a place, through the discriminant and the offsets of  *)
(* its layout, is what was put there, however it came there: put together, *)
(* copied, passed, returned or assigned field by field, in memory or in a  *)
(* variable.  Only of a record that is put together from itself, with a    *)
(* field that has been overwritten before it is read, nothing is said.     *)
ReadsBack ==
  \A l \in DOMAIN locals :
    IsDefined(l) /\ contents[l].fault = "none" =>
      ReadValue(contents[l], locals[l], <<>>, locals[l].ty) = meaning[l]

(* "Size of an allocation in bytes" (src/layout/mod.rs:16): no part of a   *)
(* value is written behind the end of the stack slot of its local.         *)
WithinTheSlot == \A l \in DOMAIN locals : contents[l].fault # "overrun"

(* No value is stored in a variable of another type or expected to be a    *)
(* scalar when it is not: try_def_var(..).unwrap(), expect_immediate.      *)
NoPanic == \A l \in DOMAIN locals : ~Panicked(contents[l])
=============================================================================
