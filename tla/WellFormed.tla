------------------------------ MODULE WellFormed -----------------------------
(***************************************************************************)
(* The assertions made of a body when it has been built                    *)
(* (src/mir/well_formed/mod.rs), over the types this model tells apart:    *)
(* "bool", "unit", "ptr" and "array".  A body is given by its locals and   *)
(* its return type, and the functions it may call by the table of bodies.  *)
(***************************************************************************)
EXTENDS Mir

PlaceType(p, body) == TypeIn(p, body.locals, body.ret)
PlaceWellFormed(p, body) ==
  LET baseType == IF IsLocal(p.base) THEN body.locals[p.base].ty ELSE body.ret
  IN CASE p.proj = "none"  -> TRUE
       [] p.proj = "deref" -> baseType = "ptr"
       [] p.proj = "first" -> baseType = "array"
       [] p.proj = "index" -> baseType = "array" /\ body.locals[p.by].ty = "bool"

OperandType(op, body) ==
  CASE op.kind = "load"   -> PlaceType(op.place, body)
    [] op.kind = "scalar" -> "bool"
    [] op.kind = "zst"    -> "unit"
OperandWellFormed(op, body) == op.kind = "load" => PlaceWellFormed(op.place, body)

RvalueType(rv, body, table) ==
  CASE rv.kind = "use"       -> OperandType(rv.args[1], body)
    [] rv.kind = "aggregate" -> "array"
    [] rv.kind \in {"alloc", "arrayptr", "offset"} -> "ptr"
    [] rv.kind = "inbounds"  -> "bool"
    [] rv.kind \in CallKinds -> table[rv.callee].ret

(* A function is given what its parameters are, in order.                  *)
ParamsOf(body) == {l \in DOMAIN body.locals : body.locals[l].kind = "param"}
ArgsFit(args, body, callee) ==
  /\ ParamsOf(callee) = {i - 1 : i \in DOMAIN args}
  /\ \A i \in DOMAIN args : OperandType(args[i], body) = callee.locals[i - 1].ty
RvalueWellFormed(rv, body, table) ==
  /\ \A i \in DOMAIN rv.args : OperandWellFormed(rv.args[i], body)
  /\ \A i \in DOMAIN rv.places : PlaceWellFormed(rv.places[i], body)
  /\ rv.kind = "offset" =>
       OperandType(rv.args[1], body) = "ptr" /\ OperandType(rv.args[2], body) = "bool"
  /\ rv.kind = "aggregate" => OperandType(rv.args[1], body) = "ptr"
  /\ rv.kind = "arrayptr" => PlaceType(rv.places[1], body) = "array"
  /\ rv.kind \in CallKinds => ArgsFit(rv.args, body, table[rv.callee])

StmtWellFormed(s, body, table) ==
  CASE s.kind = "assign" -> /\ PlaceWellFormed(s.place, body)
                            /\ RvalueWellFormed(s.rv, body, table)
                            /\ PlaceType(s.place, body) = RvalueType(s.rv, body, table)
    [] s.kind = "print"  -> /\ OperandWellFormed(s.op, body)
                            /\ OperandType(s.op, body) = "bool"
    [] OTHER             -> TRUE

WellFormedBlock(b, body, table) ==
  /\ \A i \in DOMAIN b.stmts : StmtWellFormed(b.stmts[i], body, table)
  /\ OperandWellFormed(b.term.on, body)
  /\ b.term.kind \in {"switch", "assert"} => OperandType(b.term.on, body) = "bool"
=============================================================================
