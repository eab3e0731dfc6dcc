---------------------------- MODULE MirTypes_proofs ---------------------------
(***************************************************************************)
(* Proofs about the pass manager, for every set of compilations: what the  *)
(* builder asserts of the types in a body stays true through every pass.   *)
(***************************************************************************)
EXTENDS MirBodies_proofs

(* A place or an operand stands for another if it is well formed when the  *)
(* other was, and of the same type.                                        *)
PlaceLike(p, body, q, new) ==
  PlaceWellFormed(p, body) =>
    PlaceWellFormed(q, new) /\ PlaceType(q, new) = PlaceType(p, body)
OperandLike(op, body, o, new) ==
  OperandWellFormed(op, body) =>
    OperandWellFormed(o, new) /\ OperandType(o, new) = OperandType(op, body)

(* Two bodies are called alike.                                            *)
SameSignature(body, other) ==
  /\ body.ret = other.ret /\ ParamsOf(body) = ParamsOf(other)
  /\ \A l \in ParamsOf(body) : body.locals[l].ty = other.locals[l].ty

-----------------------------------------------------------------------------
(* Statements over other places.                                           *)

LEMMA ArgsThatAreThere ==
  ASSUME NEW L, NEW arity, NEW rv \in RvalueSet(L, arity)
  PROVE  /\ rv.kind \in {"use", "aggregate", "offset"} => 1 \in DOMAIN rv.args
         /\ rv.kind = "offset" => 2 \in DOMAIN rv.args
         /\ rv.kind = "arrayptr" => 1 \in DOMAIN rv.places
BY DEF RvalueSet, ArgCount, CallKinds

LEMMA RvalueStandsFor ==
  ASSUME NEW L, NEW arity, NEW rv \in RvalueSet(L, arity), NEW rw, NEW body, NEW new, NEW table,
         rw.kind = rv.kind, rw.callee = rv.callee,
         DOMAIN rw.args = DOMAIN rv.args, DOMAIN rw.places = DOMAIN rv.places,
         \A i \in DOMAIN rv.args : OperandLike(rv.args[i], body, rw.args[i], new),
         \A i \in DOMAIN rv.places : PlaceLike(rv.places[i], body, rw.places[i], new),
         RvalueWellFormed(rv, body, table)
  PROVE  /\ RvalueWellFormed(rw, new, table)
         /\ RvalueType(rw, new, table) = RvalueType(rv, body, table)
<1>1. /\ \A i \in DOMAIN rv.args : /\ OperandWellFormed(rw.args[i], new)
                                   /\ OperandType(rw.args[i], new) = OperandType(rv.args[i], body)
      /\ \A i \in DOMAIN rv.places : /\ PlaceWellFormed(rw.places[i], new)
                                     /\ PlaceType(rw.places[i], new) = PlaceType(rv.places[i], body)
  BY DEF RvalueWellFormed, OperandLike, PlaceLike
<1>2. rv.kind \in CallKinds => ArgsFit(rw.args, new, table[rw.callee])
  BY <1>1 DEF RvalueWellFormed, ArgsFit
<1>3. RvalueWellFormed(rw, new, table)
  BY <1>1, <1>2, ArgsThatAreThere DEF RvalueWellFormed
<1>4. RvalueType(rw, new, table) = RvalueType(rv, body, table)
  <2>1. rv.kind = "use" => OperandType(rw.args[1], new) = OperandType(rv.args[1], body)
    BY <1>1, ArgsThatAreThere
  <2>2. rv.kind \in RvalueKinds
    BY DEF RvalueSet
  <2> QED BY <2>1, <2>2 DEF RvalueType, CallKinds, RvalueKinds
<1> QED BY <1>3, <1>4

LEMMA AssignStandsFor ==
  ASSUME NEW L, NEW arity, NEW s \in StmtSet(L, arity), s.kind = "assign",
         NEW t, NEW body, NEW new, NEW table, t.kind = "assign",
         PlaceLike(s.place, body, t.place, new),
         t.rv.kind = s.rv.kind, t.rv.callee = s.rv.callee,
         DOMAIN t.rv.args = DOMAIN s.rv.args, DOMAIN t.rv.places = DOMAIN s.rv.places,
         \A i \in DOMAIN s.rv.args : OperandLike(s.rv.args[i], body, t.rv.args[i], new),
         \A i \in DOMAIN s.rv.places : PlaceLike(s.rv.places[i], body, t.rv.places[i], new),
         StmtWellFormed(s, body, table)
  PROVE  StmtWellFormed(t, new, table)
<1>1. s.rv \in RvalueSet(L, arity)
  BY DEF StmtSet, Noop
<1>2. /\ PlaceWellFormed(s.place, body) /\ RvalueWellFormed(s.rv, body, table)
      /\ PlaceType(s.place, body) = RvalueType(s.rv, body, table)
  BY DEF StmtWellFormed
<1>3. /\ RvalueWellFormed(t.rv, new, table)
      /\ RvalueType(t.rv, new, table) = RvalueType(s.rv, body, table)
  BY <1>1, <1>2, RvalueStandsFor
<1>4. /\ PlaceWellFormed(t.place, new) /\ PlaceType(t.place, new) = PlaceType(s.place, body)
  BY <1>2 DEF PlaceLike
<1> QED BY <1>2, <1>3, <1>4 DEF StmtWellFormed

LEMMA PrintStandsFor ==
  ASSUME NEW s, NEW t, NEW body, NEW new, NEW table, s.kind = "print", t.kind = "print",
         OperandLike(s.op, body, t.op, new), StmtWellFormed(s, body, table)
  PROVE  StmtWellFormed(t, new, table)
BY DEF StmtWellFormed, OperandLike

LEMMA OperandMapped ==
  ASSUME NEW L, NEW op \in OperandSet(L), NEW body, NEW new, NEW g,
         \A p \in OperandPlaces(op) : PlaceLike(p, body, g[p], new)
  PROVE  OperandLike(op, body, MapOperand(op, g), new)
<1>1. CASE op.kind = "load"
  <2>1. MapOperand(op, g).kind = "load" /\ MapOperand(op, g).place = g[op.place]
    BY <1>1 DEF MapOperand, OperandSet
  <2>2. PlaceLike(op.place, body, g[op.place], new)
    BY <1>1 DEF OperandPlaces
  <2> QED BY <1>1, <2>1, <2>2 DEF OperandLike, PlaceLike, OperandWellFormed, OperandType
<1>2. CASE op.kind # "load"
  BY <1>2 DEF MapOperand, OperandLike, OperandWellFormed, OperandType, OperandSet
<1> QED BY <1>1, <1>2

LEMMA StmtMapped ==
  ASSUME NEW L, NEW arity, NEW s \in StmtSet(L, arity), NEW body, NEW new, NEW table, NEW g,
         \A p \in StmtPlaces(s) : PlaceLike(p, body, g[p], new), StmtWellFormed(s, body, table)
  PROVE  StmtWellFormed(MapStmt(s, g), new, table)
<1>1. CASE s = Noop
  BY <1>1 DEF MapStmt, Noop, StmtWellFormed
<1>2. CASE s \in [kind : {"print"}, op : OperandSet(L)]
  <2>1. OperandLike(s.op, body, MapOperand(s.op, g), new)
    BY <1>2, OperandMapped DEF StmtPlaces
  <2>2. MapStmt(s, g) = PrintStmt(MapOperand(s.op, g))
    BY <1>2 DEF MapStmt
  <2> QED BY <1>2, <2>1, <2>2, PrintStandsFor DEF PrintStmt
<1>3. CASE s \in [kind : {"assign"}, place : PlaceSet(L), rv : RvalueSet(L, arity)]
  <2> DEFINE args == [i \in DOMAIN s.rv.args |-> MapOperand(s.rv.args[i], g)]
             places == [i \in DOMAIN s.rv.places |-> g[s.rv.places[i]]]
             t == Assign(g[s.place], Rvalue(s.rv.kind, args, places, s.rv.callee))
  <2>1. \A i \in DOMAIN s.rv.args : s.rv.args[i] \in OperandSet(L)
    BY <1>3 DEF RvalueSet
  <2>2. \A i \in DOMAIN s.rv.args : OperandLike(s.rv.args[i], body, args[i], new)
    <3>1. \A i \in DOMAIN s.rv.args : \A p \in OperandPlaces(s.rv.args[i]) : PlaceLike(p, body, g[p], new)
      BY <1>3 DEF StmtPlaces
    <3> QED BY <2>1, <3>1, OperandMapped
  <2>3. \A i \in DOMAIN s.rv.places : PlaceLike(s.rv.places[i], body, places[i], new)
    BY <1>3 DEF StmtPlaces
  <2>4. PlaceLike(s.place, body, g[s.place], new)
    BY <1>3 DEF StmtPlaces
  <2>5. MapStmt(s, g) = t
    BY <1>3 DEF MapStmt
  <2>6. DOMAIN args = DOMAIN s.rv.args /\ DOMAIN places = DOMAIN s.rv.places
    OBVIOUS
  <2> HIDE DEF args, places
  <2>7. /\ t.kind = "assign" /\ t.place = g[s.place] /\ t.rv.kind = s.rv.kind
        /\ t.rv.callee = s.rv.callee /\ t.rv.args = args /\ t.rv.places = places
    BY DEF Assign, Rvalue
  <2> HIDE DEF t
  <2>8. StmtWellFormed(t, new, table)
    BY <1>3, <2>2, <2>3, <2>4, <2>6, <2>7, AssignStandsFor
  <2> QED BY <2>5, <2>8
<1> QED BY <1>1, <1>2, <1>3 DEF StmtSet

LEMMA BlockMapped ==
  ASSUME NEW L, NEW B, NEW arity, NEW b \in BlockSet(L, B, arity),
         NEW body, NEW new, NEW table, NEW g,
         \A p \in BlockPlaces(b) : PlaceLike(p, body, g[p], new), WellFormedBlock(b, body, table)
  PROVE  WellFormedBlock(MapPlaces(b, g), new, table)
<1> DEFINE stmts == [i \in DOMAIN b.stmts |-> MapStmt(b.stmts[i], g)]
           term == On(b.term, MapOperand(b.term.on, g))
<1>1. b.stmts \in Seq(StmtSet(L, arity)) /\ b.term \in TermSet(L, B)
  BY DEF BlockSet
<1>2. \A i \in DOMAIN stmts : StmtWellFormed(stmts[i], new, table)
  <2>1. ASSUME NEW i \in DOMAIN b.stmts
        PROVE  StmtWellFormed(MapStmt(b.stmts[i], g), new, table)
    <3>1. /\ b.stmts[i] \in StmtSet(L, arity) /\ StmtWellFormed(b.stmts[i], body, table)
          /\ \A p \in StmtPlaces(b.stmts[i]) : PlaceLike(p, body, g[p], new)
      BY <1>1 DEF WellFormedBlock, BlockPlaces
    <3> QED BY <3>1, StmtMapped
  <2> QED BY <2>1
<1>3. OperandLike(b.term.on, body, term.on, new) /\ term.kind = b.term.kind
  <2>1. b.term.on \in OperandSet(L) /\ \A p \in OperandPlaces(b.term.on) : PlaceLike(p, body, g[p], new)
    BY <1>1 DEF TermSet, BlockPlaces
  <2>2. term.on = MapOperand(b.term.on, g) /\ term.kind = b.term.kind
    BY DEF On, Terminator
  <2> QED BY <2>1, <2>2, OperandMapped
<1>4. MapPlaces(b, g).stmts = stmts /\ MapPlaces(b, g).term = term
  BY DEF MapPlaces, Block
<1> HIDE DEF stmts, term
<1> QED BY <1>2, <1>3, <1>4 DEF WellFormedBlock, OperandLike

(* The places of a mapped block.                                           *)
LEMMA MappedPlaces ==
  ASSUME NEW L, NEW B, NEW arity, NEW b \in BlockSet(L, B, arity), NEW g
  PROVE  BlockPlaces(MapPlaces(b, g)) \subseteq {g[p] : p \in BlockPlaces(b)}
<1>1. ASSUME NEW op \in OperandSet(L)
      PROVE  OperandPlaces(MapOperand(op, g)) \subseteq {g[p] : p \in OperandPlaces(op)}
  BY DEF OperandPlaces, MapOperand, OperandSet
<1>2. ASSUME NEW s \in StmtSet(L, arity)
      PROVE  StmtPlaces(MapStmt(s, g)) \subseteq {g[p] : p \in StmtPlaces(s)}
  <2>1. CASE s = Noop
    BY <2>1 DEF StmtPlaces, MapStmt, Noop
  <2>2. CASE s \in [kind : {"print"}, op : OperandSet(L)]
    BY <1>1, <2>2 DEF StmtPlaces, MapStmt, PrintStmt
  <2>3. CASE s \in [kind : {"assign"}, place : PlaceSet(L), rv : RvalueSet(L, arity)]
    <3> DEFINE args == [i \in DOMAIN s.rv.args |-> MapOperand(s.rv.args[i], g)]
               places == [i \in DOMAIN s.rv.places |-> g[s.rv.places[i]]]
               t == MapStmt(s, g)
    <3>1. t = Assign(g[s.place], Rvalue(s.rv.kind, args, places, s.rv.callee))
      BY <2>3 DEF MapStmt
    <3>2. \A i \in DOMAIN args : OperandPlaces(args[i]) \subseteq {g[p] : p \in OperandPlaces(s.rv.args[i])}
      BY <1>1, <2>3 DEF RvalueSet
    <3>3. /\ DOMAIN args = DOMAIN s.rv.args
          /\ \A i \in DOMAIN places : i \in DOMAIN s.rv.places /\ places[i] = g[s.rv.places[i]]
      OBVIOUS
    <3> HIDE DEF args, places, t
    <3>4. t.kind = "assign" /\ t.place = g[s.place] /\ t.rv.args = args /\ t.rv.places = places
      BY <3>1 DEF Assign, Rvalue
    <3>5. ASSUME NEW q \in StmtPlaces(t)
          PROVE  \E p \in StmtPlaces(s) : q = g[p]
      <4>1. \/ q = g[s.place]
            \/ \E i \in DOMAIN places : q = places[i]
            \/ \E i \in DOMAIN args : q \in OperandPlaces(args[i])
        BY <3>4 DEF StmtPlaces
      <4>2. /\ s.place \in StmtPlaces(s)
            /\ \A i \in DOMAIN s.rv.places : s.rv.places[i] \in StmtPlaces(s)
            /\ \A i \in DOMAIN s.rv.args : OperandPlaces(s.rv.args[i]) \subseteq StmtPlaces(s)
        BY <2>3 DEF StmtPlaces
      <4> QED BY <3>2, <3>3, <4>1, <4>2
    <3> QED BY <3>5 DEF t
  <2> QED BY <2>1, <2>2, <2>3 DEF StmtSet
<1> DEFINE stmts == [i \in DOMAIN b.stmts |-> MapStmt(b.stmts[i], g)]
           c == MapPlaces(b, g)
<1>3. \A i \in DOMAIN stmts : /\ i \in DOMAIN b.stmts
                              /\ StmtPlaces(stmts[i]) \subseteq {g[p] : p \in StmtPlaces(b.stmts[i])}
  BY <1>2 DEF BlockSet
<1>4. OperandPlaces(c.term.on) \subseteq {g[p] : p \in OperandPlaces(b.term.on)}
  BY <1>1 DEF MapPlaces, Block, On, Terminator, BlockSet, TermSet
<1>5. c.stmts = stmts
  BY DEF MapPlaces, Block
<1> HIDE DEF stmts, c
<1>6. ASSUME NEW q \in BlockPlaces(c)
      PROVE  \E p \in BlockPlaces(b) : q = g[p]
  <2>1. \/ \E i \in DOMAIN stmts : q \in StmtPlaces(stmts[i])
        \/ q \in OperandPlaces(c.term.on)
    BY <1>5 DEF BlockPlaces
  <2>2. /\ \A i \in DOMAIN b.stmts : StmtPlaces(b.stmts[i]) \subseteq BlockPlaces(b)
        /\ OperandPlaces(b.term.on) \subseteq BlockPlaces(b)
    BY DEF BlockPlaces
  <2> QED BY <1>3, <1>4, <2>1, <2>2
<1> QED BY <1>6 DEF c

(* The same block in a body that has the same types.                       *)
LEMMA OperandStays ==
  ASSUME NEW L, NEW op \in OperandSet(L), NEW body, NEW new,
         \A p \in OperandPlaces(op) : PlaceLike(p, body, p, new)
  PROVE  OperandLike(op, body, op, new)
BY DEF OperandPlaces, OperandSet, OperandLike, PlaceLike, OperandWellFormed, OperandType

LEMMA StmtStays ==
  ASSUME NEW L, NEW arity, NEW s \in StmtSet(L, arity), NEW body, NEW new, NEW table,
         \A p \in StmtPlaces(s) : PlaceLike(p, body, p, new), StmtWellFormed(s, body, table)
  PROVE  StmtWellFormed(s, new, table)
<1>1. CASE s = Noop
  BY <1>1 DEF Noop, StmtWellFormed
<1>2. CASE s \in [kind : {"print"}, op : OperandSet(L)]
  BY <1>2, OperandStays, PrintStandsFor DEF StmtPlaces
<1>3. CASE s \in [kind : {"assign"}, place : PlaceSet(L), rv : RvalueSet(L, arity)]
  <2>1. \A i \in DOMAIN s.rv.args : s.rv.args[i] \in OperandSet(L)
    BY <1>3 DEF RvalueSet
  <2>2. /\ \A i \in DOMAIN s.rv.args : \A p \in OperandPlaces(s.rv.args[i]) : PlaceLike(p, body, p, new)
        /\ \A i \in DOMAIN s.rv.places : PlaceLike(s.rv.places[i], body, s.rv.places[i], new)
        /\ PlaceLike(s.place, body, s.place, new)
    BY <1>3 DEF StmtPlaces
  <2>3. \A i \in DOMAIN s.rv.args : OperandLike(s.rv.args[i], body, s.rv.args[i], new)
    BY <2>1, <2>2, OperandStays
  <2> QED BY <1>3, <2>2, <2>3, AssignStandsFor
<1> QED BY <1>1, <1>2, <1>3 DEF StmtSet

LEMMA BlockStays ==
  ASSUME NEW L, NEW B, NEW arity, NEW b \in BlockSet(L, B, arity), NEW body, NEW new, NEW table,
         \A p \in BlockPlaces(b) : PlaceLike(p, body, p, new), WellFormedBlock(b, body, table)
  PROVE  WellFormedBlock(b, new, table)
<1>1. b.stmts \in Seq(StmtSet(L, arity)) /\ b.term \in TermSet(L, B)
  BY DEF BlockSet
<1>2. ASSUME NEW i \in DOMAIN b.stmts
      PROVE  StmtWellFormed(b.stmts[i], new, table)
  <2>1. /\ b.stmts[i] \in StmtSet(L, arity) /\ StmtWellFormed(b.stmts[i], body, table)
        /\ \A p \in StmtPlaces(b.stmts[i]) : PlaceLike(p, body, p, new)
    BY <1>1 DEF WellFormedBlock, BlockPlaces
  <2> QED BY <2>1, StmtStays
<1>3. OperandLike(b.term.on, body, b.term.on, new)
  <2>1. b.term.on \in OperandSet(L) /\ \A p \in OperandPlaces(b.term.on) : PlaceLike(p, body, p, new)
    BY <1>1 DEF TermSet, BlockPlaces
  <2> QED BY <2>1, OperandStays
<1> QED BY <1>2, <1>3 DEF WellFormedBlock, OperandLike

(* The types of the locals a block is about are all that matters.          *)
LEMMA SamePlaceTypes ==
  ASSUME NEW L, NEW p \in PlaceSet(L), NEW body, NEW new, body.ret = new.ret,
         \A l \in PlaceLocals(p) : new.locals[l].ty = body.locals[l].ty
  PROVE  PlaceLike(p, body, p, new)
BY DEF PlaceSet, PlaceLocals, PlaceLike, PlaceWellFormed, PlaceType, TypeIn

LEMMA SameTypes ==
  ASSUME NEW L, NEW B, NEW arity, NEW b \in BlockSet(L, B, arity), NEW body, NEW new, NEW table,
         body.ret = new.ret, \A l \in BlockLocals(b) : new.locals[l].ty = body.locals[l].ty,
         WellFormedBlock(b, body, table)
  PROVE  WellFormedBlock(b, new, table)
<1>1. ASSUME NEW p \in BlockPlaces(b)
      PROVE  PlaceLike(p, body, p, new)
  <2>1. p \in PlaceSet(L) /\ \A l \in PlaceLocals(p) : new.locals[l].ty = body.locals[l].ty
    BY PlacesOfBlock DEF BlockLocals
  <2> QED BY <2>1, SamePlaceTypes
<1> QED BY <1>1, BlockStays

(* The signatures of the callees are all that matters of them.             *)
LEMMA SameCallees ==
  ASSUME NEW L, NEW B, NEW arity, NEW b \in BlockSet(L, B, arity), NEW body,
         NEW table, NEW other,
         \A f \in DOMAIN arity : SameSignature(table[f], other[f]), WellFormedBlock(b, body, table)
  PROVE  WellFormedBlock(b, body, other)
<1>1. ASSUME NEW rv \in RvalueSet(L, arity), RvalueWellFormed(rv, body, table)
      PROVE  RvalueWellFormed(rv, body, other) /\ RvalueType(rv, body, other) = RvalueType(rv, body, table)
  <2>1. CASE rv.kind \in CallKinds
    <3>1. SameSignature(table[rv.callee], other[rv.callee])
      BY <2>1 DEF RvalueSet
    <3>2. ArgsFit(rv.args, body, table[rv.callee])
      BY <1>1, <2>1 DEF RvalueWellFormed
    <3>3. ArgsFit(rv.args, body, other[rv.callee])
      BY <3>1, <3>2 DEF ArgsFit, SameSignature
    <3>4. RvalueType(rv, body, other) = RvalueType(rv, body, table)
      BY <2>1, <3>1 DEF RvalueType, SameSignature, CallKinds
    <3> QED BY <1>1, <3>3, <3>4 DEF RvalueWellFormed
  <2>2. CASE rv.kind \notin CallKinds
    <3>1. rv.kind \in RvalueKinds
      BY DEF RvalueSet
    <3> QED BY <1>1, <2>2, <3>1 DEF RvalueWellFormed, RvalueType, RvalueKinds, CallKinds
  <2> QED BY <2>1, <2>2
<1>2. ASSUME NEW i \in DOMAIN b.stmts
      PROVE  StmtWellFormed(b.stmts[i], body, other)
  <2>1. b.stmts[i] \in StmtSet(L, arity) /\ StmtWellFormed(b.stmts[i], body, table)
    BY DEF BlockSet, WellFormedBlock
  <2>2. b.stmts[i].kind = "assign" => b.stmts[i].rv \in RvalueSet(L, arity)
    BY <2>1 DEF StmtSet, Noop
  <2> QED BY <1>1, <2>1, <2>2 DEF StmtWellFormed
<1> QED BY <1>2 DEF WellFormedBlock

-----------------------------------------------------------------------------
(* Statement by statement.                                                 *)

(* What BodyTyped asks of a block, of a statement and of a terminator.     *)
ReturnWhole(places) == \A p \in places : p.base = ReturnPlace => p.proj # "index"
TypedBlock(b, body, table) == WellFormedBlock(b, body, table) /\ ReturnWhole(BlockPlaces(b))
TypedStmt(s, body, table) == StmtWellFormed(s, body, table) /\ ReturnWhole(StmtPlaces(s))
TypedTerm(t, body) ==
  /\ OperandWellFormed(t.on, body) /\ ReturnWhole(OperandPlaces(t.on))
  /\ t.kind \in {"switch", "assert"} => OperandType(t.on, body) = "bool"

LEMMA BlockByParts ==
  ASSUME NEW b, NEW body, NEW table
  PROVE  TypedBlock(b, body, table) <=>
           /\ \A i \in DOMAIN b.stmts : TypedStmt(b.stmts[i], body, table)
           /\ TypedTerm(b.term, body)
<1>1. ReturnWhole(BlockPlaces(b)) <=>
        /\ \A i \in DOMAIN b.stmts : ReturnWhole(StmtPlaces(b.stmts[i]))
        /\ ReturnWhole(OperandPlaces(b.term.on))
  BY DEF ReturnWhole, BlockPlaces
<1>2. WellFormedBlock(b, body, table) <=>
        /\ \A i \in DOMAIN b.stmts : StmtWellFormed(b.stmts[i], body, table)
        /\ OperandWellFormed(b.term.on, body)
        /\ b.term.kind \in {"switch", "assert"} => OperandType(b.term.on, body) = "bool"
  BY DEF WellFormedBlock
<1> QED BY <1>1, <1>2 DEF TypedBlock, TypedStmt, TypedTerm

LEMMA BodyByBlocks ==
  ASSUME NEW body, NEW table
  PROVE  BodyTyped(body, table) <=> \A b \in DOMAIN body.blocks : TypedBlock(body.blocks[b], body, table)
BY DEF BodyTyped, TypedBlock, ReturnWhole

LEMMA NoopIsTyped ==
  ASSUME NEW body, NEW table
  PROVE  TypedStmt(Noop, body, table)
BY DEF TypedStmt, Noop, StmtWellFormed, ReturnWhole, StmtPlaces

LEMMA JoinedTyped ==
  ASSUME NEW S, NEW q \in Seq(S), NEW R, NEW r \in Seq(R), NEW body, NEW table,
         \A i \in DOMAIN q : TypedStmt(q[i], body, table),
         \A i \in DOMAIN r : TypedStmt(r[i], body, table)
  PROVE  \A i \in DOMAIN (q \o r) : TypedStmt((q \o r)[i], body, table)
<1>1. q \in Seq(S \cup R) /\ r \in Seq(S \cup R)
  BY ListOfMembers
<1>2. \A i \in DOMAIN (q \o r) : \/ \E j \in DOMAIN q : (q \o r)[i] = q[j]
                                 \/ \E j \in DOMAIN r : (q \o r)[i] = r[j]
  BY <1>1, JoinedFrom
<1> QED BY <1>2

(* A body is its locals and its return type, as far as types go.           *)
LEMMA LocalsAndReturn ==
  ASSUME NEW body, NEW new, NEW table, body.locals = new.locals, body.ret = new.ret
  PROVE  /\ \A s : TypedStmt(s, body, table) <=> TypedStmt(s, new, table)
         /\ \A t : TypedTerm(t, body) <=> TypedTerm(t, new)
<1>1. \A p : PlaceType(p, body) = PlaceType(p, new)
  BY DEF PlaceType
<1>2. \A p : PlaceWellFormed(p, body) = PlaceWellFormed(p, new)
  BY DEF PlaceWellFormed
<1>3. \A op : /\ OperandType(op, body) = OperandType(op, new)
              /\ OperandWellFormed(op, body) = OperandWellFormed(op, new)
  BY <1>1, <1>2 DEF OperandType, OperandWellFormed
<1>4. \A args, callee : ArgsFit(args, body, callee) = ArgsFit(args, new, callee)
  BY <1>3 DEF ArgsFit
<1>5. \A rv : /\ RvalueType(rv, body, table) = RvalueType(rv, new, table)
              /\ RvalueWellFormed(rv, body, table) = RvalueWellFormed(rv, new, table)
  BY <1>1, <1>2, <1>3, <1>4 DEF RvalueType, RvalueWellFormed
<1>6. \A s : StmtWellFormed(s, body, table) = StmtWellFormed(s, new, table)
  BY <1>1, <1>2, <1>3, <1>5 DEF StmtWellFormed
<1> QED BY <1>3, <1>6 DEF TypedStmt, TypedTerm

LEMMA BlockInAnother ==
  ASSUME NEW b, NEW body, NEW new, NEW table, body.locals = new.locals, body.ret = new.ret,
         TypedBlock(b, body, table)
  PROVE  TypedBlock(b, new, table)
BY BlockByParts, LocalsAndReturn

(* Other statements before the same kind of terminator, on as good an      *)
(* operand.                                                                *)
LEMMA BlockRebuilt ==
  ASSUME NEW b, NEW new, NEW body, NEW table, TypedBlock(b, body, table),
         \A i \in DOMAIN new.stmts :
           \/ TypedStmt(new.stmts[i], body, table)
           \/ \E j \in DOMAIN b.stmts : new.stmts[i] = b.stmts[j],
         new.term.kind = b.term.kind, new.term.on = b.term.on
  PROVE  TypedBlock(new, body, table)
<1>1. TypedTerm(new.term, body)
  BY BlockByParts DEF TypedTerm
<1>2. \A i \in DOMAIN new.stmts : TypedStmt(new.stmts[i], body, table)
  BY BlockByParts
<1> QED BY <1>1, <1>2, BlockByParts

-----------------------------------------------------------------------------
(* The invariant.                                                          *)

(* While the locals are being swapped the blocks are about where they were *)
(* before: a local that has a new number is to be found under it.          *)
Unswapped ==
  [blocks |-> blocks, cache |-> cache, ret |-> retType,
   locals |-> [l \in DOMAIN locals |->
                 IF l \in found /\ l < compacted THEN locals[localMap[l]] ELSE locals[l]]]
SpokenOf == IF pc = "compact" THEN Unswapped ELSE WorkedOn

TypesInv ==
  /\ \A f \in DOMAIN bodies : BodyTyped(bodies[f], bodies)
  /\ SameSignature(WorkedOn, bodies[running])
  /\ \A b \in BlockIds : TypedBlock(blocks[b], SpokenOf, bodies)

(* New blocks over the same locals.                                        *)
LEMMA BlocksRewritten ==
  ASSUME TypesInv, UNCHANGED <<bodies, running, retType, locals>>,
         pc # "compact", pc' # "compact",
         \A b \in DOMAIN blocks' : TypedBlock(blocks'[b], WorkedOn, bodies)
  PROVE  TypesInv'
<1>1. \A f \in DOMAIN bodies' : BodyTyped(bodies'[f], bodies')
  BY DEF TypesInv
<1>2. SameSignature(WorkedOn, bodies[running])'
  BY DEF TypesInv, SameSignature, WorkedOn, ParamsOf
<1>3. ASSUME NEW b \in DOMAIN blocks'
      PROVE  TypedBlock(blocks'[b], WorkedOn', bodies)
  <2>1. WorkedOn'.locals = WorkedOn.locals /\ WorkedOn'.ret = WorkedOn.ret
    BY DEF WorkedOn
  <2> QED BY <2>1, BlockInAnother
<1> QED BY <1>1, <1>2, <1>3 DEF TypesInv, SpokenOf, BlockIds

LEMMA BlocksAre ==
  ASSUME TypesInv, pc # "compact"
  PROVE  \A b \in BlockIds : TypedBlock(blocks[b], WorkedOn, bodies)
BY DEF TypesInv, SpokenOf

LEMMA BlocksLeftAlone ==
  ASSUME TypesInv, UNCHANGED <<bodies, running, retType, locals, blocks>>,
         pc # "compact", pc' # "compact"
  PROVE  TypesInv'
BY BlocksAre, BlocksRewritten DEF BlockIds

-----------------------------------------------------------------------------
(* The statement passes.                                                   *)

(* A load of a unit becomes the unit.                                      *)
LEMMA ZstOperandLike ==
  ASSUME NEW L, NEW op \in OperandSet(L)
  PROVE  /\ OperandLike(op, WorkedOn, ZstOperand(op), WorkedOn)
         /\ OperandPlaces(ZstOperand(op)) \subseteq OperandPlaces(op)
<1>1. CASE ZstOperand(op) = op
  BY <1>1 DEF OperandLike
<1>2. CASE ZstOperand(op) # op
  <2>1. op.kind = "load" /\ PlaceType(op.place, WorkedOn) = "unit" /\ ZstOperand(op) = ZeroSized
    BY <1>2 DEF ZstOperand, IsZst, TypeOf, PlaceType, WorkedOn
  <2> QED BY <2>1 DEF OperandLike, OperandWellFormed, OperandType, OperandPlaces, ZeroSized
<1> QED BY <1>1, <1>2

LEMMA ZstStmtTyped ==
  ASSUME NEW L, NEW arity, NEW s \in StmtSet(L, arity), NEW table, TypedStmt(s, WorkedOn, table)
  PROVE  TypedStmt(ZstStmt(s), WorkedOn, table)
<1>1. CASE s = Noop
  BY <1>1 DEF ZstStmt, Noop
<1>2. CASE s \in [kind : {"print"}, op : OperandSet(L)]
  <2>1. ZstStmt(s) = [s EXCEPT !.op = ZstOperand(s.op)]
    BY <1>2 DEF ZstStmt
  <2>2. ZstStmt(s).kind = "print" /\ ZstStmt(s).op = ZstOperand(s.op)
    BY <1>2, <2>1
  <2>3. /\ OperandLike(s.op, WorkedOn, ZstOperand(s.op), WorkedOn)
        /\ OperandPlaces(ZstOperand(s.op)) \subseteq OperandPlaces(s.op)
    BY <1>2, ZstOperandLike
  <2>4. StmtWellFormed(ZstStmt(s), WorkedOn, table)
    BY <1>2, <2>2, <2>3, PrintStandsFor DEF TypedStmt
  <2>5. StmtPlaces(ZstStmt(s)) \subseteq StmtPlaces(s)
    BY <1>2, <2>2, <2>3 DEF StmtPlaces
  <2> QED BY <2>4, <2>5 DEF TypedStmt, ReturnWhole
<1>3. CASE s \in [kind : {"assign"}, place : PlaceSet(L), rv : RvalueSet(L, arity)]
  <2> DEFINE args == [i \in DOMAIN s.rv.args |-> ZstOperand(s.rv.args[i])]
             t == [s EXCEPT !.rv.args = args]
  <2>1. ZstStmt(s) = Noop \/ ZstStmt(s) = t
    BY <1>3 DEF ZstStmt
  <2>2. \A i \in DOMAIN s.rv.args : s.rv.args[i] \in OperandSet(L)
    BY <1>3 DEF RvalueSet
  <2>3. \A i \in DOMAIN s.rv.args :
          /\ OperandLike(s.rv.args[i], WorkedOn, args[i], WorkedOn)
          /\ OperandPlaces(args[i]) \subseteq OperandPlaces(s.rv.args[i])
    BY <2>2, ZstOperandLike
  <2>4. DOMAIN args = DOMAIN s.rv.args
    OBVIOUS
  <2> HIDE DEF args
  <2>5. /\ t.kind = "assign" /\ t.place = s.place /\ t.rv.kind = s.rv.kind
        /\ t.rv.callee = s.rv.callee /\ t.rv.places = s.rv.places /\ t.rv.args = args
    BY <1>3 DEF RvalueSet
  <2> HIDE DEF t
  <2>6. StmtWellFormed(t, WorkedOn, table)
    <3>1. PlaceLike(s.place, WorkedOn, t.place, WorkedOn)
      BY <2>5 DEF PlaceLike
    <3>2. \A i \in DOMAIN s.rv.places : PlaceLike(s.rv.places[i], WorkedOn, t.rv.places[i], WorkedOn)
      BY <2>5 DEF PlaceLike
    <3> QED BY <1>3, <2>3, <2>4, <2>5, <3>1, <3>2, AssignStandsFor DEF TypedStmt
  <2>7. StmtPlaces(t) \subseteq StmtPlaces(s)
    BY <1>3, <2>3, <2>4, <2>5 DEF StmtPlaces
  <2>8. TypedStmt(t, WorkedOn, table)
    BY <2>6, <2>7 DEF TypedStmt, ReturnWhole
  <2> QED BY <2>1, <2>8, NoopIsTyped
<1> QED BY <1>1, <1>2, <1>3 DEF StmtSet

LEMMA RemoveZstTyped ==
  ASSUME BodyInv, TypesInv, RunStmtPass, RemoveZst
  PROVE  TypesInv'
<1>1. /\ pc = "zst" /\ pc' = "done" /\ UNCHANGED <<bodies, running, retType, locals>>
      /\ blocks' = [b \in BlockIds |->
                      Block([i \in DOMAIN blocks[b].stmts |-> ZstStmt(blocks[b].stmts[i])],
                            On(blocks[b].term, ZstOperand(blocks[b].term.on)))]
  BY DEF RunStmtPass, RemoveZst, BlocksMutDontDirty
<1>2. ASSUME NEW b \in BlockIds
      PROVE  TypedBlock(blocks'[b], WorkedOn, bodies)
  <2> DEFINE L == DOMAIN locals
             stmts == [i \in DOMAIN blocks[b].stmts |-> ZstStmt(blocks[b].stmts[i])]
             term == On(blocks[b].term, ZstOperand(blocks[b].term.on))
  <2>1. /\ blocks[b].stmts \in Seq(StmtSet(L, Arity)) /\ blocks[b].term \in TermSet(L, Edges)
        /\ TypedBlock(blocks[b], WorkedOn, bodies)
    BY <1>1, BodyIs, BlocksAre
  <2>2. \A i \in DOMAIN stmts : TypedStmt(stmts[i], WorkedOn, bodies)
    <3>1. ASSUME NEW i \in DOMAIN blocks[b].stmts
          PROVE  TypedStmt(ZstStmt(blocks[b].stmts[i]), WorkedOn, bodies)
      <4>1. blocks[b].stmts[i] \in StmtSet(L, Arity)
        BY <2>1
      <4>2. TypedStmt(blocks[b].stmts[i], WorkedOn, bodies)
        BY <2>1, BlockByParts
      <4> QED BY <4>1, <4>2, ZstStmtTyped
    <3> QED BY <3>1
  <2>3. TypedTerm(term, WorkedOn)
    <3>1. blocks[b].term.on \in OperandSet(L)
      BY <2>1 DEF TermSet
    <3>2. TypedTerm(blocks[b].term, WorkedOn)
      BY <2>1, BlockByParts
    <3>3. term.kind = blocks[b].term.kind /\ term.on = ZstOperand(blocks[b].term.on)
      BY DEF On, Terminator
    <3> HIDE DEF term
    <3>4. /\ OperandLike(blocks[b].term.on, WorkedOn, term.on, WorkedOn)
          /\ OperandPlaces(term.on) \subseteq OperandPlaces(blocks[b].term.on)
      BY <3>1, <3>3, ZstOperandLike
    <3> QED BY <3>2, <3>3, <3>4 DEF TypedTerm, OperandLike, ReturnWhole
  <2>4. blocks'[b].stmts = stmts /\ blocks'[b].term = term
    BY <1>1 DEF Block
  <2> HIDE DEF stmts, term
  <2> QED BY <2>2, <2>3, <2>4, BlockByParts
<1>3. DOMAIN blocks' = BlockIds
  BY <1>1
<1> QED BY <1>1, <1>2, <1>3, BlocksRewritten

LEMMA DeadStoreElimTyped ==
  ASSUME TypesInv, RunStmtPass, DeadStoreElim
  PROVE  TypesInv'
<1>1. /\ pc = "deadstore" /\ pc' = "done" /\ UNCHANGED <<bodies, running, retType, locals>>
      /\ DOMAIN blocks' = BlockIds
  BY DEF RunStmtPass, DeadStoreElim, BlocksMut
<1>2. ASSUME NEW b \in BlockIds
      PROVE  TypedBlock(blocks'[b], WorkedOn, bodies)
  <2>1. /\ blocks'[b].term = blocks[b].term
        /\ \A i \in DOMAIN blocks'[b].stmts :
             blocks'[b].stmts[i] = Noop \/ \E j \in DOMAIN blocks[b].stmts :
                                             blocks'[b].stmts[i] = blocks[b].stmts[j]
    BY DEF DeadStoreElim, BlocksMut, Block
  <2>2. TypedBlock(blocks[b], WorkedOn, bodies)
    BY <1>1, BlocksAre
  <2> QED BY <2>1, <2>2, NoopIsTyped, BlockRebuilt
<1> QED BY <1>1, <1>2, BlocksRewritten

-----------------------------------------------------------------------------
(* simplify-cfg.                                                           *)

LEMMA NoopsRemovedTyped ==
  ASSUME BodyInv, TypesInv, RunSimplify, pc \in {"simplify", "sweep"}, pc' \in {"sweep", "done"},
         blocks' = [b \in BlockIds |-> RemoveNoops(blocks[b])]
  PROVE  TypesInv'
<1>1. UNCHANGED <<bodies, running, retType, locals>>
  BY DEF RunSimplify
<1>2. ASSUME NEW b \in BlockIds
      PROVE  TypedBlock(blocks'[b], WorkedOn, bodies)
  <2> DEFINE S == {i \in DOMAIN blocks[b].stmts : ~IsNoop(blocks[b].stmts[i])}
             kept == InOrder(S)
  <2>1. /\ blocks'[b].term = blocks[b].term
        /\ blocks'[b].stmts = [k \in {i + 1 : i \in DOMAIN kept} |-> blocks[b].stmts[kept[k - 1]]]
    BY DEF RemoveNoops, Block
  <2>2. blocks[b].stmts \in Seq(StmtSet(DOMAIN locals, Arity))
    BY BodyIs
  <2>3. Len(blocks[b].stmts) + 1 \in Nat /\ S \subseteq 0 .. (Len(blocks[b].stmts) + 1) - 1
    BY <2>2
  <2>4. S \subseteq DOMAIN blocks[b].stmts
    OBVIOUS
  <2> HIDE DEF S
  <2>5. /\ DOMAIN kept \subseteq Int /\ \A k \in DOMAIN kept : kept[k] \in S
    <3>1. /\ DOMAIN kept = 0 .. Cardinality(S) - 1 /\ \A k \in DOMAIN kept : kept[k] \in S
      BY <2>3, InOrderLists
    <3> QED BY <3>1
  <2> HIDE DEF kept
  <2>6. \A i \in DOMAIN blocks'[b].stmts : \E j \in DOMAIN blocks[b].stmts :
          blocks'[b].stmts[i] = blocks[b].stmts[j]
    <3>1. ASSUME NEW i \in DOMAIN blocks'[b].stmts
          PROVE  i - 1 \in DOMAIN kept
      BY <2>1, <2>5
    <3> QED BY <2>1, <2>4, <2>5, <3>1
  <2>7. TypedBlock(blocks[b], WorkedOn, bodies)
    BY BlocksAre
  <2> QED BY <2>1, <2>6, <2>7, BlockRebuilt
<1>3. DOMAIN blocks' = BlockIds
  OBVIOUS
<1> QED BY <1>1, <1>2, <1>3, BlocksRewritten

LEMMA StolenTyped ==
  ASSUME BodyInv, TypesInv, RunSimplify, pc = "sweep", pc' = "sweep", current \in BlockIds,
         NEW target \in BlockIds, blocks' = Steal(blocks, target, current)
  PROVE  TypesInv'
<1> DEFINE S == StmtSet(DOMAIN locals, Arity)
           q == IF target = current THEN <<>> ELSE blocks[current].stmts
           r == blocks[target].stmts
<1>1. UNCHANGED <<bodies, running, retType, locals>>
  BY DEF RunSimplify
<1>2. /\ blocks[target].stmts \in Seq(S) /\ blocks[current].stmts \in Seq(S)
      /\ TypedBlock(blocks[target], WorkedOn, bodies)
      /\ TypedBlock(blocks[current], WorkedOn, bodies)
  BY BodyIs, BlocksAre
<1>3. TypedBlock(Block(<<>>, Unreachable), WorkedOn, bodies)
  <2>1. TypedTerm(Unreachable, WorkedOn)
    BY DEF TypedTerm, Unreachable, Terminator, ZeroSized, OperandWellFormed, OperandPlaces, ReturnWhole
  <2>2. Block(<<>>, Unreachable).stmts = <<>> /\ Block(<<>>, Unreachable).term = Unreachable
    BY DEF Block
  <2>3. \A i \in DOMAIN <<>> : FALSE
    OBVIOUS
  <2> QED BY <2>1, <2>2, <2>3, BlockByParts
<1>4. TypedBlock(Block(q \o r, blocks[target].term), WorkedOn, bodies)
  <2>1. /\ \A i \in DOMAIN q : TypedStmt(q[i], WorkedOn, bodies)
        /\ \A i \in DOMAIN r : TypedStmt(r[i], WorkedOn, bodies)
    BY <1>2, BlockByParts
  <2>2. q \in Seq(S) /\ r \in Seq(S)
    <3> HIDE DEF S
    <3>1. CASE target = current
      BY <1>2, <3>1
    <3>2. CASE target # current
      BY <1>2, <3>2
    <3> QED BY <3>1, <3>2
  <2>3. TypedTerm(blocks[target].term, WorkedOn)
    BY <1>2, BlockByParts
  <2> HIDE DEF q, r, S
  <2>4. \A i \in DOMAIN (q \o r) : TypedStmt((q \o r)[i], WorkedOn, bodies)
    BY <2>1, <2>2, JoinedTyped
  <2>5. /\ Block(q \o r, blocks[target].term).stmts = q \o r
        /\ Block(q \o r, blocks[target].term).term = blocks[target].term
    BY DEF Block
  <2> QED BY <2>3, <2>4, <2>5, BlockByParts
<1>5. ASSUME NEW b \in BlockIds
      PROVE  TypedBlock(blocks'[b], WorkedOn, bodies)
  <2>1. \/ blocks'[b] = blocks[b]
        \/ blocks'[b] = Block(<<>>, Unreachable)
        \/ blocks'[b] = Block(q \o r, blocks[target].term)
    BY DEF Steal, BlockIds
  <2>2. TypedBlock(blocks[b], WorkedOn, bodies)
    BY BlocksAre
  <2> HIDE DEF q, r
  <2> QED BY <1>3, <1>4, <2>1, <2>2
<1>6. DOMAIN blocks' = BlockIds
  BY DEF Steal, BlockIds
<1> QED BY <1>1, <1>5, <1>6, BlocksRewritten

LEMMA SimplifyTyped ==
  ASSUME BodyInv, TypesInv, RunSimplify
  PROVE  TypesInv'
<1>1. UNCHANGED <<bodies, running, retType, locals>> /\ SimplifyStep
  BY DEF RunSimplify
<1>2. CASE RemoveNoopsFirst
  BY <1>2, NoopsRemovedTyped DEF RemoveNoopsFirst, BlocksMut
<1>3. CASE VisitGoto
  <2> DEFINE target == blocks[current].term.succs[1]
  <2>1. /\ pc = "sweep" /\ pc' = "sweep" /\ current \in BlockIds
        /\ blocks[current].term.kind = "goto"
    BY <1>3 DEF VisitGoto, AtBlock, NextBlock
  <2>2. target \in BlockIds
    BY <2>1, BodyIs, SuccessorsAreThere DEF Edges
  <2>3. CASE SinglePredecessor(target)
    <3>1. blocks' = Steal(blocks, target, current)
      BY <1>3, <2>3 DEF VisitGoto, StealFrom, BlocksMut
    <3> HIDE DEF target
    <3> QED BY <2>1, <2>2, <3>1, StolenTyped
  <2>4. CASE ~SinglePredecessor(target)
    <3>1. blocks' = blocks
      BY <1>3, <2>4 DEF VisitGoto
    <3> QED BY <1>1, <2>1, <3>1, BlocksLeftAlone
  <2> QED BY <2>3, <2>4
<1>4. CASE VisitSwitch
  <2>1. /\ pc = "sweep" /\ pc' = "sweep" /\ current \in BlockIds
        /\ blocks[current].term.kind = "switch"
    BY <1>4 DEF VisitSwitch, AtBlock, NextBlock
  <2>2. CASE StealsTaken
    <3>1. blocks' = Steal(blocks, TakenTarget, current)
      BY <1>4, <2>2 DEF VisitSwitch, StealFrom, BlocksMut
    <3>2. TakenTarget \in BlockIds
      BY <2>1, BodyIs, BranchIsASuccessor DEF Edges, TakenTarget
    <3> QED BY <2>1, <3>1, <3>2, StolenTyped
  <2>3. CASE ~StealsTaken
    <3> DEFINE succs == [i \in DOMAIN blocks[current].term.succs |->
                           SkipTarget(blocks[current].term.succs[i])]
    <3>1. blocks' = [blocks EXCEPT ![current].term = [blocks[current].term EXCEPT !.succs = succs]]
      BY <1>4, <2>3 DEF VisitSwitch, BlocksMut
    <3>2. blocks[current] \in BlockSet(DOMAIN locals, Edges, Arity)
      BY <2>1, BodyIs
    <3> HIDE DEF succs
    <3>3. ASSUME NEW b \in BlockIds
          PROVE  TypedBlock(blocks'[b], WorkedOn, bodies)
      <4>1. /\ blocks'[b].stmts = blocks[b].stmts /\ blocks'[b].term.kind = blocks[b].term.kind
            /\ blocks'[b].term.on = blocks[b].term.on
        BY <3>1, <3>2 DEF BlockSet, TermSet, BlockIds
      <4>2. TypedBlock(blocks[b], WorkedOn, bodies)
        BY <2>1, BlocksAre
      <4> QED BY <4>1, <4>2, BlockRebuilt
    <3> QED BY <1>1, <2>1, <3>1, <3>3, BlocksRewritten DEF BlockIds
  <2> QED BY <2>2, <2>3
<1>5. CASE VisitOther
  BY <1>1, <1>5, BlocksLeftAlone DEF VisitOther, AtBlock, NextBlock
<1>6. CASE SweepAgain
  BY <1>1, <1>6, BlocksLeftAlone DEF SweepAgain
<1>7. CASE RemoveNoopsLast
  BY <1>7, NoopsRemovedTyped DEF RemoveNoopsLast, BlocksMutDontDirty
<1> QED BY <1>1, <1>2, <1>3, <1>4, <1>5, <1>6, <1>7 DEF SimplifyStep

-----------------------------------------------------------------------------
(* remove-unreachable.                                                     *)

LEMMA UnreachableTyped ==
  ASSUME BodyInv, TypesInv, RunUnreachable
  PROVE  TypesInv'
<1>1. UNCHANGED <<bodies, running, retType, locals>> /\ UnreachableStep
  BY DEF RunUnreachable
<1>2. CASE StartWalk \/ Walk \/ EndWalk \/ Number
  <2>1. pc # "compact" /\ pc' # "compact" /\ blocks' = blocks
    BY <1>2 DEF StartWalk, Walk, EndWalk, Number
  <2> QED BY <1>1, <2>1, BlocksLeftAlone
<1>3. CASE RewriteEdges
  <2>1. /\ pc = "number" /\ pc' = "retain"
        /\ blocks' = [b \in BlockIds |->
                        [blocks[b] EXCEPT !.term = Retarget(@, [c \in BlockIds |-> Renumber(c)])]]
    BY <1>3 DEF RewriteEdges, BlocksMutDontDirty
  <2>2. ASSUME NEW b \in BlockIds
        PROVE  TypedBlock(blocks'[b], WorkedOn, bodies)
    <3>1. blocks[b] \in BlockSet(DOMAIN locals, Edges, Arity)
      BY <2>1, BodyIs
    <3>2. /\ blocks'[b].stmts = blocks[b].stmts /\ blocks'[b].term.kind = blocks[b].term.kind
          /\ blocks'[b].term.on = blocks[b].term.on
      BY <2>1, <3>1 DEF BlockSet, Retarget, Terminator
    <3>3. TypedBlock(blocks[b], WorkedOn, bodies)
      BY <2>1, BlocksAre
    <3> QED BY <3>2, <3>3, BlockRebuilt
  <2> QED BY <1>1, <2>1, <2>2, BlocksRewritten
<1>4. CASE Retain
  <2>1. /\ pc = "retain" /\ pc' = "done"
        /\ blocks' = [i \in DOMAIN InOrder(Retained) |-> blocks[InOrder(Retained)[i]]]
    BY <1>4 DEF Retain, BlocksMut
  <2>2. Numbered(blocks) /\ Retained \subseteq BlockIds
    BY <2>1 DEF BodyInv, RetainInv
  <2>3. Count(blocks) \in Nat /\ Retained \subseteq 0 .. Count(blocks) - 1
    BY <2>2, NumberedCounts DEF Count, BlockIds
  <2>4. \A i \in DOMAIN InOrder(Retained) : InOrder(Retained)[i] \in BlockIds
    BY <2>2, <2>3, InOrderLists
  <2>5. \A b \in DOMAIN blocks' : TypedBlock(blocks'[b], WorkedOn, bodies)
    BY <2>1, <2>4, BlocksAre
  <2> QED BY <1>1, <2>1, <2>5, BlocksRewritten
<1> QED BY <1>1, <1>2, <1>3, <1>4 DEF UnreachableStep

-----------------------------------------------------------------------------
(* remove-unused-locals.                                                   *)

(* A block is still about the same types if its locals are.                *)
LEMMA SameTypesTyped ==
  ASSUME NEW L, NEW B, NEW arity, NEW b \in BlockSet(L, B, arity), NEW body, NEW new, NEW table,
         body.ret = new.ret, \A l \in BlockLocals(b) : new.locals[l].ty = body.locals[l].ty,
         TypedBlock(b, body, table)
  PROVE  TypedBlock(b, new, table)
BY SameTypes DEF TypedBlock

LEMMA FindLocalsTyped ==
  ASSUME BodyInv, TypesInv, RunUnused, FindLocals
  PROVE  TypesInv'
<1>1. /\ pc = "unused" /\ pc' = "compact" /\ compacted' = 0
      /\ UNCHANGED <<bodies, running, retType, blocks, locals>>
  BY DEF RunUnused, FindLocals
<1>2. DOMAIN locals = 0 .. Count(locals) - 1 /\ Count(locals) \in Nat
  BY <1>1, LocalsAre
<1>3. Unswapped'.ret = retType /\ \A l \in DOMAIN locals : Unswapped'.locals[l] = locals[l]
  BY <1>1, <1>2 DEF Unswapped
<1>4. ASSUME NEW b \in BlockIds
      PROVE  TypedBlock(blocks[b], Unswapped', bodies)
  <2>1. /\ blocks[b] \in BlockSet(DOMAIN locals, Edges, Arity)
        /\ TypedBlock(blocks[b], WorkedOn, bodies)
    BY <1>1, BodyIs, BlocksAre
  <2>2. BlockLocals(blocks[b]) \subseteq DOMAIN locals
    BY <2>1, PlacesOfBlock
  <2>3. WorkedOn.ret = retType /\ WorkedOn.locals = locals
    BY DEF WorkedOn
  <2> QED BY <1>3, <2>1, <2>2, <2>3, SameTypesTyped
<1>5. SameSignature(WorkedOn, bodies[running])'
  BY <1>1 DEF TypesInv, SameSignature, WorkedOn, ParamsOf
<1> QED BY <1>1, <1>4, <1>5 DEF TypesInv, SpokenOf, BlockIds

(* The parameters keep their types, and the passes their signature.        *)
LEMMA SignatureKept ==
  ASSUME BodyInv, BodyInv', TypesInv, pc # "retain", pc' # "retain",
         UNCHANGED <<bodies, running, retType, program>>,
         \A l \in 0 .. Arity[running] - 1 : locals'[l].ty = locals[l].ty
  PROVE  SameSignature(WorkedOn, bodies[running])'
<1>1. ParamsOf(WorkedOn) = 0 .. Arity[running] - 1
  BY BodyIs DEF BodyOK
<1>2. ParamsOf(WorkedOn)' = 0 .. Arity[running] - 1
  BY DEF BodyInv, BodyStaysNumbered, BodyOK, Arity
<1>3. /\ WorkedOn.ret = retType /\ WorkedOn.locals = locals
      /\ WorkedOn'.ret = retType /\ WorkedOn'.locals = locals'
  BY DEF WorkedOn
<1>4. ParamsOf(WorkedOn') = ParamsOf(WorkedOn)
  BY <1>1, <1>2
<1> QED BY <1>1, <1>3, <1>4 DEF TypesInv, SameSignature

LEMMA CompactTyped ==
  ASSUME BodyInv, BodyInv', TypesInv, RunUnused, Compact
  PROVE  TypesInv'
<1> DEFINE a == Arity[running]
<1>1. /\ pc = "compact" /\ pc' = "compact" /\ compacted \in DOMAIN locals
      /\ compacted' = compacted + 1 /\ found' = found
      /\ UNCHANGED <<bodies, running, retType, blocks, program>>
  BY DEF RunUnused, Compact, managerVars
<1>2. /\ a \in Nat /\ Count(locals) \in Nat /\ DOMAIN locals = 0 .. Count(locals) - 1
      /\ compacted \in Nat /\ nextLocal \in Nat /\ nextLocal <= compacted
      /\ nextLocal \in DOMAIN locals /\ found \subseteq DOMAIN locals
      /\ compacted <= a => nextLocal = compacted
      /\ compacted > a => nextLocal >= a
      /\ \A l \in found : l < compacted => localMap[l] \in 0 .. nextLocal - 1
      /\ DOMAIN localMap = DOMAIN locals
      /\ \A b \in BlockIds : BlockLocals(blocks[b]) \subseteq found
  BY <1>1, LocalsAre DEF BodyInv, CompactInv
<1> HIDE DEF a
<1>3. DOMAIN locals' = DOMAIN locals
  BY DEF Compact, Swap
<1>4. /\ \A l \in 0 .. a - 1 : locals'[l] = locals[l]
      /\ \A l \in found : Unswapped'.locals[l] = Unswapped.locals[l]
  <2>1. /\ \A l \in found : Unswapped.locals[l] = IF l < compacted THEN locals[localMap[l]] ELSE locals[l]
        /\ \A l \in found : Unswapped'.locals[l] = IF l < compacted + 1 THEN locals'[localMap'[l]]
                                                   ELSE locals'[l]
    BY <1>1, <1>2, <1>3 DEF Unswapped
  <2>2. CASE compacted \notin found
    <3>1. UNCHANGED <<locals, localMap>>
      BY <2>2 DEF Compact
    <3>2. \A l \in found : l < compacted + 1 <=> l < compacted
      BY <1>2, <2>2
    <3> QED BY <2>1, <3>1, <3>2
  <2>3. CASE compacted \in found
    <3>1. /\ locals' = Swap(locals, compacted, nextLocal)
          /\ localMap' = [localMap EXCEPT ![compacted] = nextLocal]
      BY <2>3 DEF Compact
    <3>2. /\ locals'[compacted] = locals[nextLocal]
          /\ locals'[nextLocal] = locals[compacted]
          /\ \A l \in DOMAIN locals \ {compacted, nextLocal} : locals'[l] = locals[l]
      BY <1>1, <1>2, <3>1 DEF Swap
    <3>3. localMap'[compacted] = nextLocal /\ \A l \in found \ {compacted} : localMap'[l] = localMap[l]
      BY <1>1, <1>2, <3>1
    <3>4. \A l \in DOMAIN locals : l < a => locals'[l] = locals[l]
      BY <1>1, <1>2, <3>2
    <3>5. \A l \in 0 .. a - 1 : l \in DOMAIN locals
      BY <1>1, LocalsAre DEF a
    <3>6. ASSUME NEW l \in found
          PROVE  Unswapped'.locals[l] = Unswapped.locals[l]
      <4>1. CASE l < compacted
        <5>1. /\ localMap[l] \in DOMAIN locals \ {compacted, nextLocal}
              /\ l # compacted /\ l < compacted + 1
          BY <1>2, <4>1
        <5> QED BY <2>1, <3>2, <3>3, <4>1, <5>1
      <4>2. CASE l = compacted
        BY <1>2, <2>1, <3>2, <3>3, <4>2
      <4>3. CASE l > compacted
        <5>1. ~(l < compacted) /\ ~(l < compacted + 1) /\ l \in DOMAIN locals \ {compacted, nextLocal}
          BY <1>2, <4>3
        <5> QED BY <2>1, <3>2, <5>1
      <4> QED BY <1>2, <4>1, <4>2, <4>3
    <3> QED BY <1>2, <3>4, <3>5, <3>6
  <2> QED BY <2>2, <2>3
<1>5. SameSignature(WorkedOn, bodies[running])'
  BY <1>1, <1>4, SignatureKept DEF a
<1>6. ASSUME NEW b \in BlockIds
      PROVE  TypedBlock(blocks[b], Unswapped', bodies)
  <2>1. /\ blocks[b] \in BlockSet(DOMAIN locals, Edges, Arity)
        /\ TypedBlock(blocks[b], Unswapped, bodies)
    BY <1>1, BodyIs DEF TypesInv, SpokenOf
  <2>2. Unswapped'.ret = Unswapped.ret
    BY <1>1 DEF Unswapped
  <2> QED BY <1>2, <1>4, <2>1, <2>2, SameTypesTyped
<1> QED BY <1>1, <1>5, <1>6 DEF TypesInv, SpokenOf, BlockIds

(* Every place renumbered: a block is about the same types if the locals   *)
(* have them under their new numbers.                                      *)
LEMMA RenamedTyped ==
  ASSUME NEW L, NEW B, NEW arity, NEW b \in BlockSet(L, B, arity), NEW f,
         NEW body, NEW new, NEW table, body.ret = new.ret,
         \A l \in BlockLocals(b) : /\ f[l] # ReturnPlace
                                   /\ new.locals[f[l]].ty = body.locals[l].ty,
         TypedBlock(b, body, table)
  PROVE  TypedBlock(RenameBlock(b, f), new, table)
<1> DEFINE g == [p \in BlockPlaces(b) |-> RenamePlace(p, f)]
<1>1. ASSUME NEW p \in BlockPlaces(b)
      PROVE  /\ PlaceLike(p, body, g[p], new)
             /\ g[p].base = ReturnPlace => p.base = ReturnPlace /\ g[p].proj = p.proj
  <2>1. /\ p \in PlaceSet(L)
        /\ \A l \in PlaceLocals(p) : f[l] # ReturnPlace /\ new.locals[f[l]].ty = body.locals[l].ty
    BY PlacesOfBlock DEF BlockLocals
  <2>2. /\ g[p].proj = p.proj
        /\ g[p].base = IF IsLocal(p.base) THEN f[p.base] ELSE p.base
        /\ g[p].by = IF p.proj = "index" THEN f[p.by] ELSE p.by
    BY DEF RenamePlace, Place
  <2>3. /\ IsLocal(p.base) => p.base \in PlaceLocals(p)
        /\ p.proj = "index" => p.by \in PlaceLocals(p)
    BY DEF PlaceLocals
  <2>4. p.proj \in {"none", "deref", "first", "index"}
    BY <2>1 DEF PlaceSet
  <2> HIDE DEF g
  <2>5. PlaceLike(p, body, g[p], new)
    BY <2>1, <2>2, <2>3, <2>4 DEF PlaceLike, PlaceWellFormed, PlaceType, TypeIn, IsLocal
  <2> QED BY <2>1, <2>2, <2>3, <2>5 DEF IsLocal
<1> HIDE DEF g
<1>2. WellFormedBlock(MapPlaces(b, g), new, table)
  BY <1>1, BlockMapped DEF TypedBlock
<1>3. ReturnWhole(BlockPlaces(MapPlaces(b, g)))
  <2>1. BlockPlaces(MapPlaces(b, g)) \subseteq {g[p] : p \in BlockPlaces(b)}
    BY MappedPlaces
  <2> QED BY <1>1, <2>1 DEF TypedBlock, ReturnWhole
<1> QED BY <1>2, <1>3 DEF TypedBlock, RenameBlock, g

LEMMA ReplaceTyped ==
  ASSUME BodyInv, BodyInv', TypesInv, RunUnused, Replace
  PROVE  TypesInv'
<1>1. /\ pc = "compact" /\ compacted \notin DOMAIN locals
      /\ UNCHANGED <<bodies, running, retType, program>>
  BY DEF RunUnused, Replace, managerVars
<1>2. /\ Count(locals) \in Nat /\ DOMAIN locals = 0 .. Count(locals) - 1
      /\ found \subseteq DOMAIN locals /\ compacted = Count(locals)
      /\ nextLocal \in 0 .. compacted
      /\ \A l \in found : l < compacted => localMap[l] \in 0 .. nextLocal - 1
      /\ 0 .. Arity[running] - 1 \subseteq found
      /\ Arity[running] \in Nat
      /\ compacted <= Arity[running] => nextLocal = compacted
      /\ compacted > Arity[running] => nextLocal >= Arity[running]
      /\ \A b \in BlockIds : BlockLocals(blocks[b]) \subseteq found
  BY <1>1, LocalsAre DEF BodyInv, CompactInv
<1>3. pc' = "done"
  BY <1>1, ReplaceKeeps DEF RunUnused, managerVars
<1>4. /\ blocks' = [b \in BlockIds |-> RenameBlock(blocks[b], localMap)]
      /\ locals' = [l \in {k \in DOMAIN locals : k < KeptCount} |-> locals[l]]
  BY <1>3 DEF Replace, BlocksMut
<1>5. ASSUME NEW l \in found
      PROVE  /\ l < compacted /\ localMap[l] # ReturnPlace
             /\ locals'[localMap[l]] = Unswapped.locals[l]
  <2>1. l < compacted /\ l \in DOMAIN locals
    BY <1>2
  <2>2. localMap[l] \in DOMAIN locals /\ localMap[l] < KeptCount /\ localMap[l] # ReturnPlace
    BY <1>2, <2>1 DEF KeptCount, ReturnPlace
  <2>3. Unswapped.locals[l] = locals[localMap[l]]
    BY <2>1 DEF Unswapped
  <2> QED BY <1>4, <2>1, <2>2, <2>3
<1>6. \A l \in 0 .. Arity[running] - 1 : locals'[l].ty = locals[l].ty
  <2>1. ASSUME NEW l \in 0 .. Arity[running] - 1
        PROVE  l \in DOMAIN locals /\ l < KeptCount
    <3>1. l \in DOMAIN locals
      BY <1>2
    <3> QED BY <1>2, <3>1 DEF KeptCount
  <2> QED BY <1>4, <2>1
<1>7. SameSignature(WorkedOn, bodies[running])'
  BY <1>1, <1>3, <1>6, SignatureKept
<1>8. ASSUME NEW b \in BlockIds
      PROVE  TypedBlock(blocks'[b], WorkedOn', bodies)
  <2>1. /\ blocks[b] \in BlockSet(DOMAIN locals, Edges, Arity)
        /\ TypedBlock(blocks[b], Unswapped, bodies)
    BY <1>1, BodyIs DEF TypesInv, SpokenOf
  <2>2. Unswapped.ret = WorkedOn'.ret /\ WorkedOn'.locals = locals'
    BY <1>1 DEF Unswapped, WorkedOn
  <2>3. \A l \in BlockLocals(blocks[b]) : /\ localMap[l] # ReturnPlace
                                          /\ WorkedOn'.locals[localMap[l]].ty = Unswapped.locals[l].ty
    BY <1>2, <1>5, <2>2
  <2>4. TypedBlock(RenameBlock(blocks[b], localMap), WorkedOn', bodies)
    BY <2>1, <2>2, <2>3, RenamedTyped
  <2> QED BY <1>4, <2>4
<1> QED BY <1>1, <1>3, <1>4, <1>7, <1>8 DEF TypesInv, SpokenOf, BlockIds

LEMMA UnusedTyped ==
  ASSUME BodyInv, BodyInv', TypesInv, RunUnused
  PROVE  TypesInv'
BY FindLocalsTyped, CompactTyped, ReplaceTyped DEF RunUnused, UnusedStep

-----------------------------------------------------------------------------
(* inline.                                                                 *)

(* An argument is assigned to a local that is what it is.                  *)
LEMMA ArgumentTyped ==
  ASSUME NEW l \in Nat, NEW op, NEW new, NEW table,
         OperandWellFormed(op, new), ReturnWhole(OperandPlaces(op)),
         new.locals[l].ty = OperandType(op, new)
  PROVE  TypedStmt(Assign(LocalPlace(l), Use(op)), new, table)
<1> DEFINE s == Assign(LocalPlace(l), Use(op))
<1>1. /\ s.kind = "assign" /\ s.place = LocalPlace(l) /\ s.rv = Use(op)
  BY DEF Assign
<1>2. /\ DOMAIN Use(op).args = {1} /\ Use(op).args[1] = op /\ DOMAIN Use(op).places = {}
      /\ Use(op).kind = "use"
  BY DEF Use, Rvalue
<1>3. LocalPlace(l).base = l /\ LocalPlace(l).proj = "none" /\ l # ReturnPlace
  BY DEF LocalPlace, Place, ReturnPlace
<1> HIDE DEF s
<1>4. RvalueWellFormed(Use(op), new, table) /\ RvalueType(Use(op), new, table) = OperandType(op, new)
  BY <1>2 DEF RvalueWellFormed, RvalueType, CallKinds
<1>5. PlaceWellFormed(LocalPlace(l), new) /\ PlaceType(LocalPlace(l), new) = new.locals[l].ty
  BY <1>3 DEF PlaceWellFormed, PlaceType, TypeIn, IsLocal
<1>6. StmtWellFormed(s, new, table)
  BY <1>1, <1>4, <1>5 DEF StmtWellFormed
<1>7. StmtPlaces(s) = {LocalPlace(l)} \cup OperandPlaces(op)
  BY <1>1, <1>2 DEF StmtPlaces
<1> QED BY <1>3, <1>6, <1>7 DEF TypedStmt, ReturnWhole, s

(* A jump is well typed wherever it goes.                                  *)
LEMMA GotoTyped ==
  ASSUME NEW b, NEW body
  PROVE  TypedTerm(Goto(b), body)
BY DEF TypedTerm, Goto, Terminator, ZeroSized, OperandWellFormed, OperandPlaces, ReturnWhole

(* A place of the callee, moved behind the caller's locals or to where the *)
(* call is assigned, which is what the callee returns.                     *)
LEMMA PlaceIntoLike ==
  ASSUME NEW k \in Nat, NEW c \in Nat, NEW p \in PlaceSet(0 .. c - 1),
         NEW dest, NEW callee, NEW new,
         \A l \in 0 .. c - 1 : new.locals[l + k].ty = callee.locals[l].ty,
         PlaceWellFormed(dest, new), PlaceType(dest, new) = callee.ret,
         ReturnWhole({dest}), ReturnWhole({p})
  PROVE  PlaceLike(p, callee, PlaceInto(p, dest, k), new) /\ ReturnWhole({PlaceInto(p, dest, k)})
<1> DEFINE q == PlaceInto(p, dest, k)
<1>1. p.proj \in {"none", "deref", "first", "index"}
  BY DEF PlaceSet
<1>2. CASE p.base # ReturnPlace
  <2>1. /\ p.base \in 0 .. c - 1
        /\ p.proj = "index" => p.by \in 0 .. c - 1
    BY <1>2 DEF PlaceSet
  <2>2. /\ q.proj = p.proj /\ q.base = p.base + k
        /\ q.by = IF p.proj = "index" THEN p.by + k ELSE p.by
    BY <1>2 DEF PlaceInto, RenamePlace, Place, PlaceLocals, IsLocal
  <2>3. q.base # ReturnPlace
    BY <2>1, <2>2 DEF ReturnPlace
  <2> HIDE DEF q
  <2>4. PlaceLike(p, callee, q, new)
    BY <1>1, <1>2, <2>1, <2>2, <2>3 DEF PlaceLike, PlaceWellFormed, PlaceType, TypeIn, IsLocal
  <2> QED BY <2>3, <2>4 DEF ReturnWhole, q
<1>3. CASE p.base = ReturnPlace /\ p.proj = "none"
  <2>1. q = dest
    BY <1>3 DEF PlaceInto
  <2>2. PlaceType(p, callee) = callee.ret
    BY <1>3 DEF PlaceType, TypeIn, IsLocal
  <2> QED BY <2>1, <2>2 DEF PlaceLike
<1>4. CASE p.base = ReturnPlace /\ p.proj # "none"
  <2>1. p.proj \in {"deref", "first"}
    BY <1>1, <1>4 DEF ReturnWhole
  <2>2. q.base = dest.base /\ q.proj = p.proj
    BY <1>4 DEF PlaceInto, PlaceSet
  <2> HIDE DEF q
  <2>3. ASSUME PlaceWellFormed(p, callee)
        PROVE  PlaceWellFormed(q, new) /\ PlaceType(q, new) = PlaceType(p, callee)
    <3>1. callee.ret = IF p.proj = "deref" THEN "ptr" ELSE "array"
      BY <1>4, <2>1, <2>3 DEF PlaceWellFormed, IsLocal
    <3>2. dest.proj = "none" /\ callee.ret = IF IsLocal(dest.base) THEN new.locals[dest.base].ty ELSE new.ret
      BY <3>1 DEF PlaceType, TypeIn
    <3>3. PlaceWellFormed(q, new)
      BY <2>1, <2>2, <3>1, <3>2 DEF PlaceWellFormed
    <3> QED BY <1>4, <2>2, <3>3 DEF PlaceType, TypeIn
  <2> QED BY <2>1, <2>2, <2>3 DEF PlaceLike, ReturnWhole, q
<1> QED BY <1>2, <1>3, <1>4

(* So a block of the callee is about the same types in the caller.         *)
LEMMA InlinedBlockTyped ==
  ASSUME NEW k \in Nat, NEW c \in Nat, NEW B, NEW arity, NEW b \in BlockSet(0 .. c - 1, B, arity),
         NEW dest, NEW n, NEW r, NEW callee, NEW new, NEW table,
         \A l \in 0 .. c - 1 : new.locals[l + k].ty = callee.locals[l].ty,
         PlaceWellFormed(dest, new), PlaceType(dest, new) = callee.ret, ReturnWhole({dest}),
         TypedBlock(b, callee, table)
  PROVE  TypedBlock(InlinedBlock(b, dest, k, n, r), new, table)
<1> DEFINE g == [p \in BlockPlaces(b) |-> PlaceInto(p, dest, k)]
           copy == MapPlaces(b, g)
           block == InlinedBlock(b, dest, k, n, r)
<1>1. ASSUME NEW p \in BlockPlaces(b)
      PROVE  PlaceLike(p, callee, g[p], new) /\ ReturnWhole({g[p]})
  <2>1. p \in PlaceSet(0 .. c - 1) /\ ReturnWhole({p})
    BY PlacesOfBlock DEF TypedBlock, ReturnWhole
  <2>2. g[p] = PlaceInto(p, dest, k)
    OBVIOUS
  <2> HIDE DEF g
  <2> QED BY <2>1, <2>2, PlaceIntoLike
<1>2. TypedBlock(copy, new, table)
  <2> HIDE DEF g
  <2>1. WellFormedBlock(copy, new, table)
    BY <1>1, BlockMapped DEF TypedBlock
  <2>2. BlockPlaces(copy) \subseteq {g[p] : p \in BlockPlaces(b)}
    BY MappedPlaces
  <2>3. ReturnWhole(BlockPlaces(copy))
    BY <1>1, <2>2 DEF ReturnWhole
  <2> QED BY <2>1, <2>3 DEF TypedBlock
<1>3. copy = [stmts |-> copy.stmts, term |-> Terminator(copy.term.kind, copy.term.on,
                                                       copy.term.values, copy.term.succs)]
  <2> HIDE DEF g
  <2> QED BY DEF MapPlaces, Block, On, Terminator
<1>4. block = IF copy.term.kind = "return" THEN [copy EXCEPT !.term = Goto(r)]
              ELSE [copy EXCEPT !.term.succs = [i \in DOMAIN copy.term.succs |-> copy.term.succs[i] + n]]
  BY DEF InlinedBlock
<1> HIDE DEF copy, block
<1>5. CASE copy.term.kind = "return"
  <2>1. block.stmts = copy.stmts /\ block.term = Goto(r)
    BY <1>3, <1>4, <1>5
  <2>2. \A i \in DOMAIN copy.stmts : TypedStmt(copy.stmts[i], new, table)
    BY <1>2, BlockByParts
  <2>3. TypedBlock(block, new, table)
    BY <2>1, <2>2, GotoTyped, BlockByParts
  <2> QED BY <2>3 DEF block
<1>6. CASE copy.term.kind # "return"
  <2>1. /\ block.stmts = copy.stmts
        /\ block.term.kind = copy.term.kind /\ block.term.on = copy.term.on
    BY <1>3, <1>4, <1>6 DEF Terminator
  <2>2. TypedBlock(block, new, table)
    BY <1>2, <2>1, BlockRebuilt
  <2> QED BY <2>2 DEF block
<1> QED BY <1>5, <1>6

(* Where the blocks of the longer list come from.                          *)
LEMMA SplicedFrom ==
  ASSUME NEW n \in Nat, NEW m \in Nat, NEW f, NEW g, NEW e, NEW new,
         new = AppendAfter(AppendAfter(f, n, g, m), n + m, e, 1), NEW b \in DOMAIN new
  PROVE  \/ \E d \in 0 .. n - 1 : new[b] = f[d]
         \/ \E d \in 0 .. m - 1 : new[b] = g[d]
         \/ new[b] = e[0]
<1> DEFINE h == AppendAfter(f, n, g, m)
<1>1. \A d \in 0 .. n + m - 1 : h[d] = IF d < n THEN f[d] ELSE g[d - n]
  BY DEF AppendAfter
<1>2. new = AppendAfter(h, n + m, e, 1)
  OBVIOUS
<1> HIDE DEF h
<1>3. b \in 0 .. n + m /\ new[b] = IF b < n + m THEN h[b] ELSE e[b - (n + m)]
  BY <1>2 DEF AppendAfter
<1>4. CASE b < n
  BY <1>1, <1>3, <1>4
<1>5. CASE b >= n /\ b < n + m
  <2>1. b - n \in 0 .. m - 1 /\ new[b] = g[b - n]
    BY <1>1, <1>3, <1>5
  <2> QED BY <2>1
<1>6. CASE b = n + m
  BY <1>3, <1>6
<1> QED BY <1>3, <1>4, <1>5, <1>6

LEMMA InlineCallTyped ==
  ASSUME BodyInv, BodyInv', TypesInv, RunInline, InlineCall
  PROVE  TypesInv'
<1> DEFINE site   == FirstSite
           caller == blocks[site[1]]
           call   == caller.stmts[site[2]]
           callee == bodies[call.rv.callee]
           n      == Cardinality(BlockIds)
           m      == Cardinality(DOMAIN callee.blocks)
           k      == Cardinality(DOMAIN locals)
           c      == Cardinality(DOMAIN callee.locals)
           args   == [i \in DOMAIN call.rv.args |->
                        Assign(LocalPlace(k + i - 1), Use(call.rv.args[i]))]
           first  == SubSeq(caller.stmts, 1, site[2] - 1)
           rest   == SubSeq(caller.stmts, site[2] + 1, Len(caller.stmts))
           before == Block(first \o args, Goto(n))
           after  == Block(<<Noop>> \o rest, caller.term)
           copies == [d \in DOMAIN callee.blocks |->
                        InlinedBlock(callee.blocks[d], call.place, k, n, n + m)]
           moved  == [l \in DOMAIN callee.locals |-> InlinedLocal(callee.locals[l])]
           L == DOMAIN locals
           new == WorkedOn'
<1>1. /\ pc = "inlining" /\ Sites # {} /\ UNCHANGED <<bodies, running, retType, program>>
  BY DEF RunInline, InlineCall, managerVars
<1>2. CASE ~CanBorrow(call.rv.callee)
  <2>1. pc' = "panicked" /\ UNCHANGED <<blocks, locals>>
    BY <1>2 DEF InlineCall
  <2> QED BY <1>1, <2>1, BlocksLeftAlone
<1>3. CASE CanBorrow(call.rv.callee)
  <2>1. /\ blocks' = AppendAfter(AppendAfter([blocks EXCEPT ![site[1]] = before], n, copies, m),
                                 n + m, [d \in {0} |-> after], 1)
        /\ locals' = AppendAfter(locals, k, moved, c)
        /\ pc' = pc
    BY <1>3 DEF InlineCall, BlocksMut
  <2>2. site[1] \in BlockIds /\ site[2] \in DOMAIN caller.stmts /\ IsSite(call)
    BY <1>1, FirstSiteIsASite
  <2>3. /\ n \in Nat /\ BlockIds = 0 .. n - 1 /\ k \in Nat /\ L = 0 .. k - 1
    BY <1>1, BodyIs, NumberedCounts DEF BlockIds
  <2>4. BodyOK(callee, call.rv.callee, Arity) /\ BodyTyped(callee, bodies)
    BY <1>3 DEF CanBorrow, BodyInv, BodiesInv, TypesInv
  <2>5. /\ m \in Nat /\ DOMAIN callee.blocks = 0 .. m - 1
        /\ c \in Nat /\ DOMAIN callee.locals = 0 .. c - 1
        /\ \A d \in DOMAIN callee.blocks :
             /\ callee.blocks[d] \in BlockSet(0 .. c - 1, DOMAIN callee.blocks \ {ENTRY}, Arity)
             /\ TypedBlock(callee.blocks[d], callee, bodies)
    <3>1. Numbered(callee.blocks) /\ Numbered(callee.locals)
      BY <2>4 DEF BodyOK
    <3>2. /\ m \in Nat /\ DOMAIN callee.blocks = 0 .. m - 1
          /\ c \in Nat /\ DOMAIN callee.locals = 0 .. c - 1
      BY <3>1, NumberedCounts
    <3> QED BY <2>4, <3>2, BodyByBlocks DEF BodyOK
  <2>6. /\ caller \in BlockSet(L, Edges, Arity) /\ caller.stmts \in Seq(StmtSet(L, Arity))
    BY <1>1, <2>2, BodyIs
  <2>7. /\ call \in StmtSet(L, Arity) /\ call.kind = "assign" /\ call.rv.kind = "call"
        /\ call.rv \in RvalueSet(L, Arity)
    BY <2>2, <2>6 DEF IsSite, StmtSet, Noop
  <2>8. /\ call.rv.args \in Seq(OperandSet(L)) /\ DOMAIN call.rv.args \subseteq Nat \ {0}
    BY <2>7 DEF RvalueSet
  <2>9. /\ \A l \in L : locals'[l] = locals[l]
        /\ \A l \in 0 .. c - 1 : locals'[l + k].ty = callee.locals[l].ty
    <3>1. \A l \in 0 .. k + c - 1 : locals'[l] = IF l < k THEN locals[l] ELSE moved[l - k]
      BY <2>1 DEF AppendAfter
    <3>2. \A l \in 0 .. c - 1 : moved[l].ty = callee.locals[l].ty
      <4>1. \A l \in 0 .. c - 1 : callee.locals[l] \in LocalSet
        BY <2>4, <2>5 DEF BodyOK
      <4> QED BY <2>5, <4>1 DEF InlinedLocal, LocalSet
    <3> HIDE DEF k, c, moved, callee
    <3>3. \A l \in 0 .. c - 1 : l + k \in 0 .. k + c - 1 /\ ~(l + k < k) /\ (l + k) - k = l
      BY <2>3, <2>5
    <3>4. \A l \in 0 .. k - 1 : l \in 0 .. k + c - 1 /\ l < k
      BY <2>3, <2>5
    <3> QED BY <2>3, <3>1, <3>2, <3>3, <3>4
  <2>10. new.locals = locals' /\ new.ret = retType
    BY <1>1 DEF WorkedOn
  <2> HIDE DEF new
  <2>11. ASSUME NEW b \in BlockIds
         PROVE  TypedBlock(blocks[b], new, bodies)
    <3>1. blocks[b] \in BlockSet(L, Edges, Arity) /\ TypedBlock(blocks[b], WorkedOn, bodies)
      BY <1>1, BodyIs, BlocksAre
    <3>2. BlockLocals(blocks[b]) \subseteq L
      BY <3>1, PlacesOfBlock
    <3>3. WorkedOn.ret = retType /\ WorkedOn.locals = locals
      BY DEF WorkedOn
    <3> QED BY <2>9, <2>10, <3>1, <3>2, <3>3, SameTypesTyped
  <2>12. /\ \A i \in DOMAIN caller.stmts : TypedStmt(caller.stmts[i], new, bodies)
         /\ TypedTerm(caller.term, new) /\ TypedStmt(call, new, bodies)
    BY <2>2, <2>11, BlockByParts
  <2> HIDE DEF site, caller, callee, n, m, k, c, L
  <2>13. /\ PlaceWellFormed(call.place, new) /\ PlaceType(call.place, new) = callee.ret
         /\ ArgsFit(call.rv.args, new, callee)
         /\ \A i \in DOMAIN call.rv.args : OperandWellFormed(call.rv.args[i], new)
         /\ ReturnWhole({call.place})
         /\ \A i \in DOMAIN call.rv.args : ReturnWhole(OperandPlaces(call.rv.args[i]))
    <3>1. StmtWellFormed(call, new, bodies) /\ ReturnWhole(StmtPlaces(call))
      BY <2>12 DEF TypedStmt
    <3>2. /\ PlaceWellFormed(call.place, new) /\ RvalueWellFormed(call.rv, new, bodies)
          /\ PlaceType(call.place, new) = RvalueType(call.rv, new, bodies)
      BY <2>7, <3>1 DEF StmtWellFormed
    <3>3. /\ {call.place} \subseteq StmtPlaces(call)
          /\ \A i \in DOMAIN call.rv.args : OperandPlaces(call.rv.args[i]) \subseteq StmtPlaces(call)
      BY <2>7 DEF StmtPlaces
    <3>4. RvalueType(call.rv, new, bodies) = callee.ret
      BY <2>7 DEF RvalueType, CallKinds, callee
    <3>5. /\ ArgsFit(call.rv.args, new, callee)
          /\ \A i \in DOMAIN call.rv.args : OperandWellFormed(call.rv.args[i], new)
      BY <2>7, <3>2 DEF RvalueWellFormed, CallKinds, callee
    <3> QED BY <3>1, <3>2, <3>3, <3>4, <3>5 DEF ReturnWhole
  <2>14. \A i \in DOMAIN args : TypedStmt(args[i], new, bodies)
    <3>1. ASSUME NEW i \in DOMAIN call.rv.args
          PROVE  TypedStmt(Assign(LocalPlace(k + i - 1), Use(call.rv.args[i])), new, bodies)
      <4> DEFINE l == i - 1
      <4>1. i \in Nat \ {0}
        BY <2>8
      <4>2. l \in ParamsOf(callee) /\ OperandType(call.rv.args[i], new) = callee.locals[l].ty
        BY <2>13 DEF ArgsFit
      <4>3. l \in 0 .. c - 1
        BY <2>5, <4>2 DEF ParamsOf
      <4>4. k + i - 1 \in Nat /\ k + i - 1 = l + k
        BY <2>3, <4>1
      <4>5. new.locals[k + i - 1].ty = OperandType(call.rv.args[i], new)
        BY <2>9, <2>10, <4>2, <4>3, <4>4
      <4> QED BY <2>13, <4>4, <4>5, ArgumentTyped
    <3> QED BY <3>1
  <2>15. /\ \A i \in DOMAIN first : TypedStmt(first[i], new, bodies)
         /\ \A i \in DOMAIN rest : TypedStmt(rest[i], new, bodies)
         /\ first \in Seq(StmtSet(L, Arity)) /\ rest \in Seq(StmtSet(L, Arity))
    <3> DEFINE T == {s \in StmtSet(L, Arity) : TypedStmt(s, new, bodies)}
    <3>1. \A i \in DOMAIN caller.stmts : caller.stmts[i] \in T
      BY <2>6, <2>12
    <3>2. \A s \in T : TypedStmt(s, new, bodies)
      OBVIOUS
    <3>3. first \in Seq(StmtSet(L, Arity)) /\ rest \in Seq(StmtSet(L, Arity))
      BY <2>2, <2>6, ListSplit
    <3> HIDE DEF T
    <3>4. caller.stmts \in Seq(T)
      BY <2>6, <3>1, ListOfMembers
    <3>5. first \in Seq(T) /\ rest \in Seq(T)
      BY <2>2, <3>4, ListSplit
    <3> HIDE DEF first, rest
    <3>6. /\ \A i \in DOMAIN first : first[i] \in T
          /\ \A i \in DOMAIN rest : rest[i] \in T
      BY <3>5
    <3> QED BY <3>2, <3>3, <3>6
  <2>16. first \in Seq(StmtSet(L, Arity)) /\ \E S : args \in Seq(S)
    <3> DEFINE ops == call.rv.args
               S == {args[i] : i \in DOMAIN ops}
    <3>1. ops \in Seq(OperandSet(L))
      BY <2>8
    <3>2. args = [i \in DOMAIN ops |-> args[i]]
      OBVIOUS
    <3> HIDE DEF args, ops
    <3>3. \A i \in DOMAIN ops : args[i] \in S
      OBVIOUS
    <3> HIDE DEF S
    <3>4. args \in Seq(S)
      BY <3>1, <3>2, <3>3, ListOver
    <3> QED BY <2>15, <3>4
  <2> HIDE DEF first, rest, args
  <2>17. TypedBlock(before, new, bodies)
    <3>1. before.stmts = first \o args /\ before.term = Goto(n)
      BY DEF Block
    <3>2. \A i \in DOMAIN (first \o args) : TypedStmt((first \o args)[i], new, bodies)
      BY <2>14, <2>15, <2>16, JoinedTyped
    <3> HIDE DEF before
    <3> QED BY <3>1, <3>2, GotoTyped, BlockByParts
  <2>18. TypedBlock(after, new, bodies)
    <3>1. after.stmts = <<Noop>> \o rest /\ after.term = caller.term
      BY DEF Block
    <3>2. <<Noop>> \in Seq({Noop}) /\ \A i \in DOMAIN <<Noop>> : TypedStmt(<<Noop>>[i], new, bodies)
      BY NoopIsTyped
    <3>3. \A i \in DOMAIN (<<Noop>> \o rest) : TypedStmt((<<Noop>> \o rest)[i], new, bodies)
      BY <2>15, <3>2, JoinedTyped
    <3> HIDE DEF after
    <3> QED BY <2>12, <3>1, <3>3, BlockByParts
  <2>19. \A d \in 0 .. m - 1 : TypedBlock(copies[d], new, bodies)
    <3>1. ASSUME NEW d \in DOMAIN callee.blocks
          PROVE  TypedBlock(InlinedBlock(callee.blocks[d], call.place, k, n, n + m), new, bodies)
      <4>1. \A l \in 0 .. c - 1 : new.locals[l + k].ty = callee.locals[l].ty
        BY <2>9, <2>10
      <4> QED BY <2>3, <2>5, <2>13, <4>1, InlinedBlockTyped
    <3> QED BY <2>5, <3>1
  <2> HIDE DEF before, after, copies
  <2>20. ASSUME NEW b \in DOMAIN blocks'
         PROVE  TypedBlock(blocks'[b], new, bodies)
    <3> DEFINE f == [blocks EXCEPT ![site[1]] = before]
               e == [d \in {0} |-> after]
    <3>1. \A d \in 0 .. n - 1 : TypedBlock(f[d], new, bodies)
      BY <2>3, <2>11, <2>17 DEF BlockIds
    <3>2. e[0] = after
      OBVIOUS
    <3>3. blocks' = AppendAfter(AppendAfter(f, n, copies, m), n + m, e, 1)
      BY <2>1
    <3> HIDE DEF f, e
    <3>4. \/ \E d \in 0 .. n - 1 : blocks'[b] = f[d]
          \/ \E d \in 0 .. m - 1 : blocks'[b] = copies[d]
          \/ blocks'[b] = e[0]
      BY <2>3, <2>5, <3>3, SplicedFrom
    <3> QED BY <2>18, <2>19, <3>1, <3>2, <3>4
  <2>21. SameSignature(WorkedOn, bodies[running])'
    <3>1. \A l \in 0 .. Arity[running] - 1 : l \in L
      BY <1>1, LocalsAre DEF L
    <3> QED BY <1>1, <2>1, <2>9, <3>1, SignatureKept
  <2> QED BY <1>1, <2>1, <2>20, <2>21 DEF TypesInv, SpokenOf, BlockIds, new
<1> QED BY <1>2, <1>3

LEMMA InlineTyped ==
  ASSUME BodyInv, BodyInv', TypesInv, RunInline
  PROVE  TypesInv'
<1>1. UNCHANGED <<bodies, running, retType>> /\ InlineStep
  BY DEF RunInline
<1>2. CASE StartInline
  BY <1>1, <1>2, BlocksLeftAlone DEF StartInline
<1>3. CASE InlineCall
  BY <1>3, InlineCallTyped
<1>4. CASE StopInlining
  BY <1>1, <1>4, BlocksLeftAlone DEF StopInlining
<1> QED BY <1>1, <1>2, <1>3, <1>4 DEF InlineStep

-----------------------------------------------------------------------------
(* The pass manager.                                                       *)

(* The table with one body replaced by what its passes made of it: calls   *)
(* of it are as good as before.                                            *)
LEMMA NextBodyTyped ==
  ASSUME BodyInv, BodyInv', TypesInv, NextBody
  PROVE  TypesInv'
<1>1. /\ pc = "done" /\ bodies' = [bodies EXCEPT ![running] = WorkedOn]
      /\ pc' \in {"done", "finished"}
  BY DEF NextBody
<1>2. /\ DOMAIN bodies' = DOMAIN bodies /\ running \in DOMAIN bodies
      /\ DOMAIN Arity = DOMAIN bodies
      /\ \A f \in DOMAIN bodies : BodyOK(bodies[f], f, Arity)
      /\ BodyOK(WorkedOn, running, Arity)
  BY <1>1, BodyIs DEF BodyInv, BodiesInv, Arity, Arities
<1>3. \A f \in DOMAIN Arity : SameSignature(bodies[f], bodies'[f]) /\ SameSignature(bodies'[f], bodies'[f])
  BY <1>1, <1>2 DEF TypesInv, SameSignature
<1>4. ASSUME NEW body, NEW f \in DOMAIN bodies, BodyOK(body, f, Arity), BodyTyped(body, bodies)
      PROVE  BodyTyped(body, bodies')
  <2>1. ASSUME NEW b \in DOMAIN body.blocks
        PROVE  TypedBlock(body.blocks[b], body, bodies')
    <3>1. /\ body.blocks[b] \in BlockSet(DOMAIN body.locals, DOMAIN body.blocks \ {ENTRY}, Arity)
          /\ TypedBlock(body.blocks[b], body, bodies)
      BY <1>4, BodyByBlocks DEF BodyOK
    <3> QED BY <1>3, <3>1, SameCallees DEF TypedBlock
  <2> QED BY <2>1, BodyByBlocks
<1>5. BodyTyped(WorkedOn, bodies)
  <2>1. \A b \in DOMAIN WorkedOn.blocks : TypedBlock(WorkedOn.blocks[b], WorkedOn, bodies)
    BY <1>1, BlocksAre DEF WorkedOn, BlockIds
  <2> QED BY <2>1, BodyByBlocks
<1>6. BodyTyped(WorkedOn, bodies') /\ \A f \in DOMAIN bodies : BodyTyped(bodies[f], bodies')
  BY <1>2, <1>4, <1>5 DEF TypesInv
<1>7. \A f \in DOMAIN bodies' : BodyTyped(bodies'[f], bodies')
  BY <1>1, <1>2, <1>6
<1>8. \E body : /\ blocks' = body.blocks /\ locals' = body.locals /\ retType' = body.ret
                /\ BodyTyped(body, bodies') /\ SameSignature(body, bodies'[running'])
  <2>1. CASE turn < Len(program.sources)
    <3> DEFINE f == running'
    <3>1. blocks' = bodies[f].blocks /\ locals' = bodies[f].locals /\ retType' = bodies[f].ret
      BY <2>1 DEF NextBody, Borrow
    <3>2. f \in DOMAIN bodies
      BY <1>2 DEF BodyInv, BodiesInv
    <3> HIDE DEF f
    <3> WITNESS bodies[f]
    <3> QED BY <1>2, <1>3, <1>6, <3>1, <3>2 DEF f
  <2>2. CASE ~(turn < Len(program.sources))
    <3>1. UNCHANGED <<running, blocks, locals, retType>>
      BY <2>2 DEF NextBody
    <3>2. bodies'[running'] = WorkedOn
      BY <1>1, <1>2, <3>1
    <3>3. blocks' = WorkedOn.blocks /\ locals' = WorkedOn.locals /\ retType' = WorkedOn.ret
      BY <3>1 DEF WorkedOn
    <3>4. SameSignature(WorkedOn, bodies'[running'])
      BY <3>2 DEF SameSignature
    <3> QED BY <1>6, <3>3, <3>4
  <2> QED BY <2>1, <2>2
<1>9. PICK body : /\ blocks' = body.blocks /\ locals' = body.locals /\ retType' = body.ret
                  /\ BodyTyped(body, bodies') /\ SameSignature(body, bodies'[running'])
  BY <1>8
<1>10. WorkedOn'.locals = body.locals /\ WorkedOn'.ret = body.ret
  BY <1>9 DEF WorkedOn
<1>11. SameSignature(WorkedOn, bodies[running])'
  BY <1>9, <1>10 DEF SameSignature, ParamsOf
<1>12. ASSUME NEW b \in DOMAIN blocks'
       PROVE  TypedBlock(blocks'[b], WorkedOn', bodies')
  <2>1. TypedBlock(blocks'[b], body, bodies')
    BY <1>9, BodyByBlocks
  <2> QED BY <1>10, <2>1, BlockInAnother
<1> QED BY <1>1, <1>7, <1>11, <1>12 DEF TypesInv, SpokenOf, BlockIds

LEMMA TypesStart == Init => TypesInv
<1> SUFFICES ASSUME Init
             PROVE  TypesInv
  OBVIOUS
<1>1. PICK c \in Compilations : program = c.program
  BY DEF Init
<1>2. /\ bodies = program.bodies /\ running \in DOMAIN bodies /\ pc = "done"
      /\ blocks = bodies[running].blocks
      /\ locals = bodies[running].locals /\ retType = bodies[running].ret
  BY BodiesStart DEF Init, BodyInv, BodiesInv
<1>3. \A f \in DOMAIN bodies : BodyTyped(bodies[f], bodies)
  BY <1>1, <1>2, CompilationsAssumption
<1>4. WorkedOn.locals = bodies[running].locals /\ WorkedOn.ret = bodies[running].ret
  BY <1>2 DEF WorkedOn
<1>5. SameSignature(WorkedOn, bodies[running])
  BY <1>4 DEF SameSignature, ParamsOf
<1>6. ASSUME NEW b \in BlockIds
      PROVE  TypedBlock(blocks[b], WorkedOn, bodies)
  <2>1. TypedBlock(blocks[b], bodies[running], bodies)
    BY <1>2, <1>3, BodyByBlocks DEF BlockIds
  <2> QED BY <1>4, <2>1, BlockInAnother
<1> QED BY <1>2, <1>3, <1>5, <1>6 DEF TypesInv, SpokenOf

LEMMA TypesStep == BodyInv /\ BodyInv' /\ TypesInv /\ [Next]_vars => TypesInv'
<1> SUFFICES ASSUME BodyInv, BodyInv', TypesInv, [Next]_vars
             PROVE  TypesInv'
  OBVIOUS
<1>1. CASE NextPass
  <2>1. /\ pc = "done" /\ pc' \in {PassList[passIndex + 1], "done"} /\ passIndex + 1 \in 1 .. Len(PassList)
        /\ UNCHANGED <<blocks, locals, retType, bodies, running>>
    BY <1>1 DEF NextPass, BodyInv, BodiesInv, PassList
  <2>2. pc' # "compact"
    BY <2>1 DEF PassList
  <2> QED BY <2>1, <2>2, BlocksLeftAlone
<1>2. CASE NextBody
  BY <1>2, NextBodyTyped
<1>3. CASE RunStmtPass
  BY <1>3, RemoveZstTyped, DeadStoreElimTyped DEF RunStmtPass, StmtStep
<1>4. CASE RunSimplify
  BY <1>4, SimplifyTyped
<1>5. CASE RunInline
  BY <1>5, InlineTyped
<1>6. CASE RunUnreachable
  BY <1>6, UnreachableTyped
<1>7. CASE RunUnused
  BY <1>7, UnusedTyped
<1>8. CASE UNCHANGED vars
  BY <1>8 DEF vars, passVars, unusedVars, TypesInv, SameSignature, ParamsOf, SpokenOf, WorkedOn,
     Unswapped, BlockIds
<1> QED BY <1>1, <1>2, <1>3, <1>4, <1>5, <1>6, <1>7, <1>8 DEF Next, Step, Stopped

LEMMA TypesHold == Spec => [](BodyInv /\ TypesInv)
<1>1. Init => BodyInv /\ TypesInv
  BY BodiesStart, TypesStart
<1>2. BodyInv /\ TypesInv /\ [Next]_vars => (BodyInv /\ TypesInv)'
  BY BodiesStep, TypesStep
<1> QED BY <1>1, <1>2, PTL DEF Spec

(* What well_formed/mod.rs asserts of a body when it has been built stays  *)
(* true through every pass (src/mir/passes), although nothing asserts it   *)
(* again: a value of its type is assigned to every place and given for     *)
(* every parameter, pointers are what is dereferenced, arrays are what is  *)
(* indexed and conditions are booleans; whatever locals are swapped,       *)
(* whatever places are renumbered and whatever callee is spliced in.       *)
THEOREM TypesAreKept == Spec => []StaysWellFormed
<1>1. BodyInv /\ TypesInv => StaysWellFormed
  BY BlocksAre DEF StaysWellFormed, TypedBlock
<1> QED BY <1>1, TypesHold, PTL
=============================================================================
