-------------------------------- MODULE Mir --------------------------------
(***************************************************************************)
(* The mid-level representation of a kli function (src/mir/mod.rs): basic  *)
(* blocks of statements ended by a terminator, over numbered locals.  Only *)
(* what the passes look at is kept: which locals a statement reads and     *)
(* writes and through what kind of place, which calls it makes, and where  *)
(* a terminator may go.                                                    *)
(***************************************************************************)
EXTENDS Integers, Sequences, FiniteSets

(* A place is a base, a local or the return place, taken as it is, through *)
(* the pointer it holds ("deref"), at its first element ("first":          *)
(* ConstantIndex) or at the element another local selects ("index").       *)
ReturnPlace == -1
ENTRY == 0

Place(base, proj, by) == [base |-> base, proj |-> proj, by |-> by]
LocalPlace(l) == Place(l, "none", 0)
Deref(l) == Place(l, "deref", 0)
FirstOf(l) == Place(l, "first", 0)
ElementOf(l, i) == Place(l, "index", i)

(* An operand is a constant or the load of a place.  A constant is a       *)
(* scalar or zero sized (the unit value).                                  *)
Load(p) == [kind |-> "load", place |-> p, value |-> 0]
Scalar(v) == [kind |-> "scalar", place |-> LocalPlace(ReturnPlace), value |-> v]
ZeroSized == [kind |-> "zst", place |-> LocalPlace(ReturnPlace), value |-> 0]

(* Rvalues: the operands in evaluation order, the places named without     *)
(* being loaded (ArrayPtr) and the function called directly, if any.       *)
NoFunction == "none"
Rvalue(kind, args, places, callee) ==
  [kind |-> kind, args |-> args, places |-> places, callee |-> callee]
Use(op) == Rvalue("use", <<op>>, <<>>, NoFunction)
Call(f, ops) == Rvalue("call", ops, <<>>, f)
CallGeneric(f, ops) == Rvalue("call_generic", ops, <<>>, f)
ArrayOf(p) == Rvalue("aggregate", <<p>>, <<>>, NoFunction)
GcAlloc == Rvalue("alloc", <<>>, <<>>, NoFunction)
Offset(p, n) == Rvalue("offset", <<p, n>>, <<>>, NoFunction)
ArrayPtr(p) == Rvalue("arrayptr", <<>>, <<p>>, NoFunction)

(* can_remove_if_unused: allocations and calls have an effect of their own *)
CanRemoveIfUnused(rv) == rv.kind \notin {"alloc", "call", "call_generic"}

Noop == [kind |-> "noop"]
IsNoop(s) == s.kind = "noop"
Assign(p, rv) == [kind |-> "assign", place |-> p, rv |-> rv]
PrintStmt(op) == [kind |-> "print", op |-> op]

(* A terminator, with the blocks `successors` enumerates, in that order:   *)
(* a switch lists the block of each value and then the otherwise block.    *)
Terminator(kind, on, values, succs) ==
  [kind |-> kind, on |-> on, values |-> values, succs |-> succs]
Goto(b) == Terminator("goto", ZeroSized, <<>>, <<b>>)
Switch(on, values, targets, otherwise) ==
  Terminator("switch", on, values, Append(targets, otherwise))
AssertGoto(on, expected, b) == Terminator("assert", on, <<expected>>, <<b>>)
Return == Terminator("return", ZeroSized, <<>>, <<>>)
Panic == Terminator("panic", ZeroSized, <<>>, <<>>)
Unreachable == Terminator("unreachable", ZeroSized, <<>>, <<>>)

(* branch_for_value: the index of the successor a scalar selects.          *)
BranchForValue(term, v) ==
  LET hits == {i \in DOMAIN term.values : term.values[i] = v}
  IN IF hits = {} THEN Len(term.succs)
     ELSE CHOOSE i \in hits : \A j \in hits : i <= j

(* successors_mut with each successor b replaced by f[b].                  *)
Retarget(term, f) ==
  Terminator(term.kind, term.on, term.values, [i \in DOMAIN term.succs |-> f[term.succs[i]]])

Block(stmts, term) == [stmts |-> stmts, term |-> term]
On(term, op) == Terminator(term.kind, op, term.values, term.succs)

(* The edges into each block, one per slot of a successor list, which is   *)
(* what the vectors of `predecessors` hold: a switch with two slots for    *)
(* the same block is two predecessors of it.                               *)
Predecessors(blocks) ==
  [t \in DOMAIN blocks |->
     UNION {{<<b, i>> : i \in {j \in DOMAIN blocks[b].term.succs :
                                 blocks[b].term.succs[j] = t}} :
            b \in DOMAIN blocks}]

(* The unit type is the one whose values occupy no bytes.                  *)
IsZst(ty) == ty = "unit"

(* Locals are numbered from zero; the return place is not one of them.     *)
IsLocal(base) == base # ReturnPlace

(* The locals a place mentions.                                            *)
PlaceLocals(p) ==
  (IF IsLocal(p.base) THEN {p.base} ELSE {}) \cup
  (IF p.proj = "index" THEN {p.by} ELSE {})

IndexLocals(p) == IF p.proj = "index" THEN {p.by} ELSE {}

OperandLocals(op) == IF op.kind = "load" THEN PlaceLocals(op.place) ELSE {}
ArgLocals(rv) == UNION {OperandLocals(rv.args[i]) : i \in DOMAIN rv.args}

(* What a visitor is told with PlaceCtxt::Read: the loads, and the index   *)
(* local even of a place that is written.  ArrayPtr's place is visited as  *)
(* a written one.                                                          *)
ReadLocals(s) ==
  CASE s.kind = "assign" -> IndexLocals(s.place) \cup ArgLocals(s.rv) \cup
                            UNION {IndexLocals(s.rv.places[i]) : i \in DOMAIN s.rv.places}
    [] s.kind = "print"  -> OperandLocals(s.op)
    [] OTHER             -> {}

BlockReads(b) ==
  (UNION {ReadLocals(b.stmts[i]) : i \in DOMAIN b.stmts}) \cup OperandLocals(b.term.on)

(* The type of a place, over the locals ls and in a function returning ret: *)
(* that of its base, or of what its base points to or is an array of,      *)
(* which is never a zero sized type here.                                  *)
TypeIn(p, ls, ret) ==
  IF p.proj # "none" THEN "bool" ELSE IF IsLocal(p.base) THEN ls[p.base].ty ELSE ret

(* Every place a block visits, read or written, and the locals of these.   *)
OperandPlaces(op) == IF op.kind = "load" THEN {op.place} ELSE {}
StmtPlaces(s) ==
  CASE s.kind = "assign" -> {s.place} \cup {s.rv.places[i] : i \in DOMAIN s.rv.places} \cup
                            UNION {OperandPlaces(s.rv.args[i]) : i \in DOMAIN s.rv.args}
    [] s.kind = "print"  -> OperandPlaces(s.op)
    [] OTHER             -> {}
BlockPlaces(b) ==
  (UNION {StmtPlaces(b.stmts[i]) : i \in DOMAIN b.stmts}) \cup OperandPlaces(b.term.on)
BlockLocals(b) == UNION {PlaceLocals(p) : p \in BlockPlaces(b)}

(* A mutable visit: every place p of a block becomes g[p].                 *)
MapOperand(op, g) == IF op.kind = "load" THEN [op EXCEPT !.place = g[@]] ELSE op
MapStmt(s, g) ==
  CASE s.kind = "assign" ->
         Assign(g[s.place],
                Rvalue(s.rv.kind,
                       [i \in DOMAIN s.rv.args |-> MapOperand(s.rv.args[i], g)],
                       [i \in DOMAIN s.rv.places |-> g[s.rv.places[i]]],
                       s.rv.callee))
    [] s.kind = "print" -> PrintStmt(MapOperand(s.op, g))
    [] OTHER -> s
MapPlaces(b, g) ==
  Block([i \in DOMAIN b.stmts |-> MapStmt(b.stmts[i], g)],
        On(b.term, MapOperand(b.term.on, g)))

(* What a body over the locals L and the blocks B is made of, arity giving *)
(* the number of parameters of each function: the types of mir/mod.rs, and *)
(* that an index local, a target and a callee are there.  A constant has   *)
(* no place.                                                               *)
PlaceSet(L) ==
  {p \in [base : L \cup {ReturnPlace}, proj : {"none", "deref", "first", "index"}, by : Nat] :
     p.proj = "index" => p.by \in L}
OperandSet(L) ==
  {op \in [kind : {"load", "scalar", "zst"}, place : PlaceSet(L), value : Int] :
     op.kind # "load" => op.place = LocalPlace(ReturnPlace)}
RvalueKinds ==
  {"use", "call", "call_generic", "aggregate", "alloc", "offset", "arrayptr", "inbounds"}
CallKinds == {"call", "call_generic"}
ArgCount(kind, callee, arity) ==
  CASE kind \in {"use", "aggregate"} -> 1
    [] kind \in {"offset", "inbounds"} -> 2
    [] kind \in CallKinds -> arity[callee]
    [] OTHER -> 0
RvalueSet(L, arity) ==
  {rv \in [kind : RvalueKinds, args : Seq(OperandSet(L)), places : Seq(PlaceSet(L)),
           callee : DOMAIN arity \cup {NoFunction}] :
     /\ rv.kind \in CallKinds => rv.callee \in DOMAIN arity
     /\ Len(rv.args) = ArgCount(rv.kind, rv.callee, arity)
     /\ Len(rv.places) = IF rv.kind = "arrayptr" THEN 1 ELSE 0}
StmtSet(L, arity) ==
  {Noop} \cup [kind : {"print"}, op : OperandSet(L)]
         \cup [kind : {"assign"}, place : PlaceSet(L), rv : RvalueSet(L, arity)]
TermKinds == {"goto", "switch", "assert", "return", "panic", "unreachable"}
TermSet(L, B) ==
  {t \in [kind : TermKinds, on : OperandSet(L), values : Seq(Int), succs : Seq(B)] :
     Len(t.succs) = CASE t.kind \in {"goto", "assert"} -> 1
                      [] t.kind = "switch" -> Len(t.values) + 1
                      [] OTHER -> 0}
BlockSet(L, B, arity) == [stmts : Seq(StmtSet(L, arity)), term : TermSet(L, B)]

(* The members of a finite set of numbers, in order: what Vec::retain      *)
(* leaves of the indices it is given.                                      *)
InOrder(S) ==
  [k \in 0 .. Cardinality(S) - 1 |-> CHOOSE e \in S : Cardinality({d \in S : d < e}) = k]

(* Each local l of a place replaced by f[l].                               *)
RenamePlace(p, f) ==
  Place(IF IsLocal(p.base) THEN f[p.base] ELSE p.base, p.proj,
        IF p.proj = "index" THEN f[p.by] ELSE p.by)
RenameBlock(b, f) == MapPlaces(b, [p \in BlockPlaces(b) |-> RenamePlace(p, f)])
============================================================================
