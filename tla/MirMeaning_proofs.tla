--------------------------- MODULE MirMeaning_proofs ---------------------------
(***************************************************************************)
(* Proofs that the passes keep what a body means, for every set of         *)
(* compilations.                                                           *)
(***************************************************************************)
EXTENDS MirTypes_proofs

-----------------------------------------------------------------------------
(* The body under way, and the passes that rewrite statements.             *)

AsIs == [blocks |-> blocks, locals |-> locals, ret |-> retType]

LEMMA AsIsIs ==
  /\ AsIs.blocks = blocks /\ AsIs.locals = locals /\ AsIs.ret = retType
  /\ Types(AsIs) = [l \in {ReturnPlace} \cup DOMAIN locals |-> IF IsLocal(l) THEN locals[l].ty ELSE retType]
  /\ Bases(AsIs) = {ReturnPlace} \cup DOMAIN locals
BY DEF AsIs, Types, Bases

LEMMA AsIsMeant ==
  /\ pc \notin {"retain", "compact"} => Meant = AsIs
  /\ pc' \notin {"retain", "compact"} => Meant' = AsIs'
BY DEF Meant, AsIs

LEMMA AsIsShaped ==
  ASSUME BodyInv, pc # "retain"
  PROVE  Shaped(AsIs, Arity)
<1>1. /\ Numbered(blocks) /\ Numbered(locals) /\ ENTRY \in BlockIds
      /\ \A b \in BlockIds : blocks[b] \in BlockSet(DOMAIN locals, Edges, Arity)
  BY BodyIs
<1>2. DOMAIN blocks \subseteq Nat /\ DOMAIN locals \subseteq Nat
  BY <1>1, NumberedCounts
<1> QED BY <1>1, <1>2 DEF Shaped, AsIs, BlockIds, Edges

(* New statements and terminators in the same places, over the same locals.*)
LEMMA BlocksReplaced ==
  ASSUME BodyInv, pc # "retain", UNCHANGED <<locals, retType>>, DOMAIN blocks' = BlockIds,
         NEW M, NEW X, NEW Y, M \in SUBSET (X \X Y), NEW arity,
         \A args \in [1 .. arity -> Values], heap \in Heaps :
           <<Entered(AsIs, args, heap).mem, Entered(AsIs', args, heap).mem>> \in M,
         \A b \in BlockIds :
           /\ DOMAIN blocks'[b].stmts = DOMAIN blocks[b].stmts
           /\ blocks'[b].term.succs = blocks[b].term.succs
           /\ \A m, w : <<m, w>> \in M =>
                /\ \A i \in DOMAIN blocks[b].stmts :
                     StmtsAlike(M, AsIs, AsIs', blocks[b].stmts[i], blocks'[b].stmts[i], m, w)
                /\ TermsAlike(AsIs, AsIs', blocks[b].term, blocks'[b].term, m, w)
  PROVE  DoesTheSame(arity, AsIs, AsIs')
<1> DEFINE g == [b \in BlockIds |-> b]
           L == DOMAIN locals
<1>1. AsIs.blocks = blocks /\ AsIs'.blocks = blocks'
  BY DEF AsIs
<1>2. /\ ENTRY \in BlockIds /\ BlockIds \subseteq Nat /\ Edges \in SUBSET BlockIds
      /\ \A b \in BlockIds : blocks[b].term \in TermSet(L, Edges)
  BY BodyIs, NumberedCounts DEF Edges, BlockIds
<1>3. ASSUME NEW b \in BlockIds
      PROVE  BlocksAlike(M, AsIs, AsIs', blocks[b], blocks'[g[b]], L, Edges, g)
  <2> DEFINE x == blocks[b]
             y == blocks'[b]
  <2>1. \A e \in DOMAIN x.term.succs : y.term.succs[e] = g[x.term.succs[e]]
    <3>1. \A e \in DOMAIN x.term.succs : x.term.succs[e] \in BlockIds
      BY <1>2, SuccessorsAreThere
    <3> QED BY <3>1
  <2>2. g[b] = b /\ x.term \in TermSet(L, Edges) /\ DOMAIN y.stmts = DOMAIN x.stmts
    BY <1>2
  <2>3. \A m, w : <<m, w>> \in M =>
          /\ \A i \in DOMAIN x.stmts : StmtsAlike(M, AsIs, AsIs', x.stmts[i], y.stmts[i], m, w)
          /\ TermsAlike(AsIs, AsIs', x.term, y.term, m, w)
    OBVIOUS
  <2> HIDE DEF x, y, g
  <2>4. BlocksAlike(M, AsIs, AsIs', x, y, L, Edges, g)
    BY <2>1, <2>2, <2>3 DEF BlocksAlike
  <2> QED BY <2>2, <2>4 DEF x, y
<1>4. \A b \in BlockIds : g[b] \in Nat /\ g[ENTRY] = ENTRY
  BY <1>2
<1> HIDE DEF g, L
<1>5. \A b \in BlockIds : BlocksAlike(M, AsIs, AsIs', AsIs.blocks[b], AsIs'.blocks[g[b]], L, Edges, g)
  BY <1>1, <1>3
<1> QED BY <1>2, <1>4, <1>5, SameByBlocks

(* A value that occupies no bytes is 0 wherever it is loaded from.         *)
LEMMA ZstOperandAlike ==
  ASSUME NEW L, L \subseteq DOMAIN locals, L \subseteq Nat, NEW op \in OperandSet(L), NEW new,
         Types(new) = Types(AsIs)
  PROVE  OperandsAlike(Equal(AsIs, new), AsIs, new, op, ZstOperand(op))
<1>1. CASE ZstOperand(op) = op
  <2>1. OperandRenamed(op, op, Stay(AsIs)) /\ OperandIn(op, Bases(AsIs))
    BY OperandStaysRenamed, AsIsIs
  <2>2. Renames(AsIs, new, Bases(AsIs), Stay(AsIs))
    BY StayRenames
  <2> QED BY <1>1, <2>1, <2>2, OperandsAgree DEF Equal
<1>2. CASE ZstOperand(op) # op
  <2>1. op.kind = "load" /\ IsZst(TypeOf(op.place)) /\ ZstOperand(op) = ZeroSized
    BY <1>2 DEF ZstOperand
  <2>2. Whole(op.place) /\ IsZst(Types(AsIs)[op.place.base])
    <3>1. op.place.base \in L \cup {ReturnPlace}
      BY DEF OperandSet, PlaceSet
    <3> QED BY <2>1, <3>1, AsIsIs DEF TypeOf, TypeIn, IsZst, Whole, IsLocal
  <2>3. \A m : ValueOf(Types(AsIs), m, op) = 0
    BY <2>1, <2>2 DEF ValueOf, Loaded
  <2>4. \A w : ValueOf(Types(new), w, ZeroSized) = 0 /\ CanEval(w, ZeroSized)
    BY DEF ValueOf, CanEval, ZeroSized
  <2> QED BY <2>1, <2>3, <2>4 DEF OperandsAlike, Values
<1> QED BY <1>1, <1>2

LEMMA ZstStmtAlike ==
  ASSUME NEW L, L \subseteq DOMAIN locals, L \subseteq Nat, NEW arity, NEW s \in StmtSet(L, arity), NEW new,
         Types(new) = Types(AsIs), NEW m, NEW w, <<m, w>> \in Equal(AsIs, new)
  PROVE  StmtsAlike(Equal(AsIs, new), AsIs, new, s, ZstStmt(s), m, w)
<1> DEFINE M == Equal(AsIs, new)
<1>1. CASE s = Noop
  <2>1. ZstStmt(s) = Noop
    BY <1>1 DEF ZstStmt, Noop
  <2> QED BY <1>1, <2>1, NoopsAlike
<1>2. CASE s \in [kind : {"print"}, op : OperandSet(L)]
  <2>1. s.kind = "print" /\ ZstStmt(s).kind = "print" /\ ZstStmt(s).op = ZstOperand(s.op)
    BY <1>2 DEF ZstStmt
  <2>2. OperandsAlike(M, AsIs, new, s.op, ZstOperand(s.op))
    BY <1>2, ZstOperandAlike
  <2> QED BY <2>1, <2>2, PrintsAlike
<1>3. CASE s \in [kind : {"assign"}, place : PlaceSet(L), rv : RvalueSet(L, arity)]
  <2>1. s.kind = "assign" /\ s.place \in PlaceSet(L) /\ s.rv \in RvalueSet(L, arity)
    BY <1>3
  <2>2. CASE CanRemoveIfUnused(s.rv) /\ IsZst(TypeOf(s.place))
    <3>1. ZstStmt(s) = Noop
      BY <2>1, <2>2 DEF ZstStmt
    <3>2. Whole(s.place) /\ IsZst(Types(AsIs)[s.place.base])
      <4>1. s.place.base \in L \cup {ReturnPlace}
        BY <2>1 DEF PlaceSet
      <4> QED BY <2>2, <4>1, AsIsIs DEF TypeOf, TypeIn, IsZst, Whole, IsLocal
    <3>3. ~IsCall(s.rv) /\ AfterComputing(m, s.rv) = m
      BY <2>2 DEF CanRemoveIfUnused, IsCall, CallKinds, AfterComputing
    <3>4. \A v : Storing(Types(AsIs), m, s.place, v) = Doing(Silent, m)
      BY <3>2 DEF Storing, CanReach, Stored
    <3>5. StmtDoes(Types(AsIs), m, s) \in {Doing(Undefined, m), Doing(Silent, m)}
      BY <2>1, <3>3, <3>4 DEF StmtDoes, Assigning
    <3>6. StmtDoes(Types(new), w, ZstStmt(s)) = Doing(Silent, w)
      BY <3>1 DEF StmtDoes, Noop
    <3> QED BY <3>5, <3>6 DEF StmtsAlike, Doing, Silent, Event
  <2>3. CASE ~(CanRemoveIfUnused(s.rv) /\ IsZst(TypeOf(s.place)))
    <3>1. ZstStmt(s) = [s EXCEPT !.rv.args = [i \in DOMAIN s.rv.args |-> ZstOperand(s.rv.args[i])]]
      BY <2>1, <2>3 DEF ZstStmt
    <3>2. /\ ZstStmt(s).kind = "assign" /\ ZstStmt(s).place = s.place
          /\ ZstStmt(s).rv.kind = s.rv.kind /\ ZstStmt(s).rv.callee = s.rv.callee
          /\ ZstStmt(s).rv.places = s.rv.places
          /\ ZstStmt(s).rv.args = [i \in DOMAIN s.rv.args |-> ZstOperand(s.rv.args[i])]
      <4>1. s.rv \in [kind : RvalueKinds, args : Seq(OperandSet(L)), places : Seq(PlaceSet(L)),
                      callee : DOMAIN arity \cup {NoFunction}]
        BY <2>1 DEF RvalueSet
      <4> QED BY <1>3, <3>1, <4>1
    <3>3. \A i \in DOMAIN s.rv.args : s.rv.args[i] \in OperandSet(L)
      BY <2>1 DEF RvalueSet
    <3>4. \A i \in DOMAIN s.rv.args : OperandsAlike(M, AsIs, new, s.rv.args[i], ZstStmt(s).rv.args[i])
      BY <3>2, <3>3, ZstOperandAlike
    <3>5. \A p \in PlaceSet(L) : PlacesAlike(M, AsIs, new, p, p) /\ StoresAlike(M, AsIs, new, p, p)
      <4>1. Renames(AsIs, new, Bases(AsIs), Stay(AsIs))
        BY StayRenames
      <4>2. L \subseteq DOMAIN AsIs.locals
        BY AsIsIs
      <4>3. \A p \in PlaceSet(L) :
              /\ RenamePlace(p, Stay(AsIs)) = p
              /\ ReadIn(p, Bases(AsIs)) /\ WrittenIn(p, Bases(AsIs), Bases(AsIs))
        BY <4>2, StaysWhatItIs
      <4>4. \A p \in PlaceSet(L) : PlacesAlike(M, AsIs, new, p, RenamePlace(p, Stay(AsIs)))
        BY <4>1, <4>3, LoadsAgree DEF ReadIn, Equal
      <4>5. \A p \in PlaceSet(L) : StoresAlike(M, AsIs, new, p, RenamePlace(p, Stay(AsIs)))
        BY <4>1, <4>3, StoresAgree DEF Equal
      <4> QED BY <4>3, <4>4, <4>5
    <3>6. \A i \in DOMAIN s.rv.places : s.rv.places[i] \in PlaceSet(L)
      BY <2>1 DEF RvalueSet
    <3>7. \A i \in DOMAIN s.rv.places : PlacesAlike(M, AsIs, new, s.rv.places[i], ZstStmt(s).rv.places[i])
      BY <3>2, <3>5, <3>6
    <3>8. SharesHeap(M)
      BY AgreeingSharesHeap DEF Equal
    <3>9. StoresAlike(M, AsIs, new, s.place, ZstStmt(s).place)
      BY <2>1, <3>2, <3>5
    <3>10. DOMAIN ZstStmt(s).rv.args = DOMAIN s.rv.args /\ DOMAIN ZstStmt(s).rv.places = DOMAIN s.rv.places
      BY <3>2
    <3> HIDE DEF M
    <3>11. <<m, w>> \in M
      BY DEF M
    <3>12. StmtsAlike(M, AsIs, new, s, ZstStmt(s), m, w)
      BY <2>1, <3>2, <3>4, <3>7, <3>8, <3>9, <3>10, <3>11, AssignsAlike
    <3> QED BY <3>12 DEF M
  <2> QED BY <2>2, <2>3
<1> QED BY <1>1, <1>2, <1>3 DEF StmtSet

LEMMA RemoveZstSame ==
  ASSUME BodyInv, RunStmtPass, RemoveZst, NEW arity
  PROVE  DoesTheSame(arity, AsIs, AsIs')
<1> DEFINE M == Equal(AsIs, AsIs')
           L == DOMAIN locals
<1>1. /\ pc = "zst" /\ UNCHANGED <<locals, retType>>
      /\ blocks' = [b \in BlockIds |->
           Block([i \in DOMAIN blocks[b].stmts |-> ZstStmt(blocks[b].stmts[i])],
                 On(blocks[b].term, ZstOperand(blocks[b].term.on)))]
  BY DEF RunStmtPass, RemoveZst, BlocksMutDontDirty
<1>2. Types(AsIs') = Types(AsIs) /\ Bases(AsIs') = Bases(AsIs)
  BY <1>1 DEF AsIs, Types, Bases
<1>3. /\ L \subseteq Nat
      /\ \A b \in BlockIds : /\ blocks[b].stmts \in Seq(StmtSet(L, Arity))
                             /\ blocks[b].term \in TermSet(L, Edges)
  BY <1>1, BodyIs, NumberedCounts
<1>4. M \in SUBSET (Memories(Types(AsIs)) \X Memories(Types(AsIs')))
  BY EqualIsARelation
<1>5. \A args \in [1 .. arity -> Values], heap \in Heaps :
        <<Entered(AsIs, args, heap).mem, Entered(AsIs', args, heap).mem>> \in M
  BY <1>2, EntersEqual
<1>6. ASSUME NEW b \in BlockIds
      PROVE  /\ DOMAIN blocks'[b].stmts = DOMAIN blocks[b].stmts
             /\ blocks'[b].term.succs = blocks[b].term.succs
             /\ \A m, w : <<m, w>> \in M =>
                  /\ \A i \in DOMAIN blocks[b].stmts :
                       StmtsAlike(M, AsIs, AsIs', blocks[b].stmts[i], blocks'[b].stmts[i], m, w)
                  /\ TermsAlike(AsIs, AsIs', blocks[b].term, blocks'[b].term, m, w)
  <2> DEFINE x == blocks[b]
             y == blocks'[b]
  <2>1. /\ y.stmts = [i \in DOMAIN x.stmts |-> ZstStmt(x.stmts[i])]
        /\ y.term = On(x.term, ZstOperand(x.term.on))
    BY <1>1 DEF Block
  <2>2. /\ y.term.kind = x.term.kind /\ y.term.values = x.term.values /\ y.term.succs = x.term.succs
        /\ y.term.on = ZstOperand(x.term.on)
    BY <2>1 DEF On, Terminator
  <2>3. /\ \A i \in DOMAIN x.stmts : x.stmts[i] \in StmtSet(L, Arity)
        /\ x.term \in TermSet(L, Edges) /\ x.term.on \in OperandSet(L)
    BY <1>3 DEF TermSet
  <2> HIDE DEF x, y
  <2>4. ASSUME NEW m, NEW w, <<m, w>> \in M
        PROVE  /\ \A i \in DOMAIN x.stmts : StmtsAlike(M, AsIs, AsIs', x.stmts[i], y.stmts[i], m, w)
               /\ TermsAlike(AsIs, AsIs', x.term, y.term, m, w)
    <3>1. \A i \in DOMAIN x.stmts : StmtsAlike(M, AsIs, AsIs', x.stmts[i], ZstStmt(x.stmts[i]), m, w)
      BY <1>2, <1>3, <2>3, <2>4, ZstStmtAlike
    <3>2. OperandsAlike(M, AsIs, AsIs', x.term.on, y.term.on)
      BY <1>2, <1>3, <2>2, <2>3, ZstOperandAlike
    <3>3. PlacesAlike(M, AsIs, AsIs', LocalPlace(ReturnPlace), LocalPlace(ReturnPlace))
      <4>1. Renames(AsIs, AsIs', Bases(AsIs), Stay(AsIs))
        BY <1>2, StayRenames
      <4> DEFINE r == LocalPlace(ReturnPlace)
      <4>2. RenamePlace(r, Stay(AsIs)) = r /\ r.base \in Bases(AsIs) /\ r.proj # "index"
        BY DEF RenamePlace, LocalPlace, Place, IsLocal, Bases
      <4> HIDE DEF r
      <4>3. PlacesAlike(M, AsIs, AsIs', r, RenamePlace(r, Stay(AsIs)))
        BY <4>1, <4>2, LoadsAgree DEF Equal
      <4> QED BY <4>2, <4>3 DEF r
    <3>4. SharesHeap(M)
      BY AgreeingSharesHeap DEF Equal
    <3> HIDE DEF M
    <3>5. TermsAlike(AsIs, AsIs', x.term, y.term, m, w)
      BY <2>2, <2>3, <2>4, <3>2, <3>3, <3>4, EndsAlike
    <3> QED BY <2>1, <3>1, <3>5
  <2> QED BY <2>1, <2>2, <2>4 DEF x, y
<1>7. DOMAIN blocks' = BlockIds
  BY <1>1
<1> HIDE DEF M, L
<1> QED BY <1>1, <1>4, <1>5, <1>6, <1>7, BlocksReplaced

(* What is read of a statement that stays, and what it stores through, has *)
(* been found.                                                             *)
Found == ReadAnywhere \cup {ReturnPlace}

LEMMA StaysFound ==
  ASSUME BodyInv, pc # "retain", PointersAreRead, NEW b \in BlockIds
  PROVE  /\ \A i \in DOMAIN blocks[b].stmts : StmtIn(blocks[b].stmts[i], Found, Bases(AsIs))
         /\ OperandIn(blocks[b].term.on, Found)
         /\ Found \subseteq Bases(AsIs)
<1> DEFINE L == DOMAIN locals
<1>1. /\ L \subseteq Nat /\ blocks[b].stmts \in Seq(StmtSet(L, Arity))
      /\ blocks[b].term \in TermSet(L, Edges) /\ blocks[b].term.on \in OperandSet(L)
  <2>1. pc # "retain" /\ Numbered(locals)
    BY BodyIs
  <2> QED BY <2>1, BodyIs, NumberedCounts DEF TermSet
<1>2. \A p \in PlaceSet(L) : (p.proj = "index" => IsLocal(p.by)) /\ p.base \in Bases(AsIs)
  BY <1>1, AsIsIs DEF PlaceSet, IsLocal, ReturnPlace
<1>3. ASSUME NEW op \in OperandSet(L), OperandLocals(op) \subseteq ReadAnywhere
      PROVE  OperandIn(op, Found)
  <2>1. op.place \in PlaceSet(L)
    BY DEF OperandSet
  <2> QED BY <1>2, <1>3, <2>1 DEF OperandIn, ReadIn, OperandLocals, PlaceLocals, Found, IsLocal
<1>4. BlockReads(blocks[b]) \subseteq ReadAnywhere
  BY DEF ReadAnywhere
<1>5. ASSUME NEW i \in DOMAIN blocks[b].stmts
      PROVE  StmtIn(blocks[b].stmts[i], Found, Bases(AsIs))
  <2> DEFINE s == blocks[b].stmts[i]
  <2>1. s \in StmtSet(L, Arity)
    BY <1>1
  <2>2. ReadLocals(s) \subseteq ReadAnywhere
    BY <1>4 DEF BlockReads
  <2>3. \A p \in PointerPlaces(s) : p.base \in Found
    BY DEF PointersAreRead, Found, IsLocal
  <2> HIDE DEF s
  <2>4. CASE s.kind = "assign"
    <3>1. s.place \in PlaceSet(L) /\ s.rv \in RvalueSet(L, Arity)
      BY <2>1, <2>4 DEF StmtSet, Noop
    <3>2. /\ \A k \in DOMAIN s.rv.args : s.rv.args[k] \in OperandSet(L)
          /\ \A k \in DOMAIN s.rv.places : s.rv.places[k] \in PlaceSet(L)
      BY <3>1 DEF RvalueSet
    <3>3. /\ IndexLocals(s.place) \subseteq ReadAnywhere
          /\ \A k \in DOMAIN s.rv.args : OperandLocals(s.rv.args[k]) \subseteq ReadAnywhere
          /\ \A k \in DOMAIN s.rv.places : IndexLocals(s.rv.places[k]) \subseteq ReadAnywhere
      BY <2>2, <2>4 DEF ReadLocals, ArgLocals
    <3>4. /\ s.place.proj # "none" => s.place.base \in Found
          /\ \A k \in DOMAIN s.rv.places : s.rv.places[k].base \in Found
      <4>1. s.place \in StmtPlaces(s)
        BY <2>4 DEF StmtPlaces
      <4> QED BY <2>3, <2>4, <4>1 DEF PointerPlaces, Whole
    <3>5. WrittenIn(s.place, Found, Bases(AsIs))
      BY <1>2, <3>1, <3>3, <3>4 DEF WrittenIn, IndexLocals, Found
    <3>6. \A k \in DOMAIN s.rv.args : OperandIn(s.rv.args[k], Found)
      BY <1>3, <3>2, <3>3
    <3>7. \A k \in DOMAIN s.rv.places : ReadIn(s.rv.places[k], Found)
      BY <1>2, <3>2, <3>3, <3>4 DEF ReadIn, IndexLocals, Found
    <3> QED BY <2>4, <3>5, <3>6, <3>7 DEF StmtIn, s
  <2>5. CASE s.kind = "print"
    <3>1. s.op \in OperandSet(L)
      BY <2>1, <2>5 DEF StmtSet, Noop
    <3>2. OperandLocals(s.op) \subseteq ReadAnywhere
      BY <2>2, <2>5 DEF ReadLocals
    <3> QED BY <1>3, <2>5, <3>1, <3>2 DEF StmtIn, s
  <2>6. CASE s.kind \notin {"assign", "print"}
    BY <2>6 DEF StmtIn, s
  <2> QED BY <2>4, <2>5, <2>6 DEF s
<1>6. OperandIn(blocks[b].term.on, Found)
  <2>1. OperandLocals(blocks[b].term.on) \subseteq ReadAnywhere
    BY <1>4 DEF BlockReads
  <2> QED BY <1>1, <1>3, <2>1
<1>7. Found \subseteq Bases(AsIs)
  <2>1. ASSUME NEW c \in BlockIds
        PROVE  BlockReads(blocks[c]) \subseteq L
    <3>1. blocks[c].stmts \in Seq(StmtSet(L, Arity)) /\ blocks[c].term \in TermSet(L, Edges)
      BY BodyIs
    <3>2. \A op \in OperandSet(L) : OperandLocals(op) \subseteq L
      BY DEF OperandSet, OperandLocals, PlaceLocals, PlaceSet, IsLocal
    <3>3. \A p \in PlaceSet(L) : IndexLocals(p) \subseteq L
      BY DEF PlaceSet, IndexLocals
    <3>4. OperandLocals(blocks[c].term.on) \subseteq L
      BY <3>1, <3>2 DEF TermSet
    <3>5. ASSUME NEW s \in StmtSet(L, Arity)
          PROVE  ReadLocals(s) \subseteq L
      <4>1. CASE s = Noop
        BY <4>1 DEF ReadLocals, Noop
      <4>2. CASE s \in [kind : {"print"}, op : OperandSet(L)]
        BY <3>2, <4>2 DEF ReadLocals
      <4>3. CASE s \in [kind : {"assign"}, place : PlaceSet(L), rv : RvalueSet(L, Arity)]
        <5>1. /\ \A k \in DOMAIN s.rv.args : s.rv.args[k] \in OperandSet(L)
              /\ \A k \in DOMAIN s.rv.places : s.rv.places[k] \in PlaceSet(L)
          BY <4>3 DEF RvalueSet
        <5>2. ArgLocals(s.rv) \subseteq L
          BY <3>2, <5>1 DEF ArgLocals
        <5>3. UNION {IndexLocals(s.rv.places[k]) : k \in DOMAIN s.rv.places} \subseteq L
          BY <3>3, <5>1
        <5> QED BY <3>3, <4>3, <5>2, <5>3 DEF ReadLocals
      <4> QED BY <4>1, <4>2, <4>3 DEF StmtSet
    <3>6. \A k \in DOMAIN blocks[c].stmts : ReadLocals(blocks[c].stmts[k]) \subseteq L
      BY <3>1, <3>5
    <3> QED BY <3>4, <3>6 DEF BlockReads
  <2>2. Params \subseteq L
    BY DEF Params
  <2> QED BY <2>1, <2>2, AsIsIs DEF Found, ReadAnywhere
<1> QED BY <1>5, <1>6, <1>7

(* What a removed statement would have stored nobody loads.                *)
LEMMA DeadStoreAlike ==
  ASSUME NEW new, Types(new) = Types(AsIs), Found \subseteq Bases(AsIs),
         NEW L, L \subseteq DOMAIN locals, L \subseteq Nat, NEW arity, NEW s \in StmtSet(L, arity),
         StmtIn(s, Found, Bases(AsIs)), IsDeadStore(s, ReadAnywhere),
         NEW m, NEW w, <<m, w>> \in Agreeing(AsIs, new, Found, Stay(AsIs))
  PROVE  StmtsAlike(Agreeing(AsIs, new, Found, Stay(AsIs)), AsIs, new, s, Noop, m, w)
<1> DEFINE M == Agreeing(AsIs, new, Found, Stay(AsIs))
           o == StmtDoes(Types(AsIs), m, s)
           l == s.place.base
           v == Computed(Types(AsIs), m, s.rv)
<1>1. /\ s.kind = "assign" /\ Whole(s.place) /\ ~IsCall(s.rv) /\ s.rv.kind # "alloc"
      /\ l \notin Found /\ s.rv \in RvalueSet(L, arity)
      /\ \A i \in DOMAIN s.rv.args : s.rv.args[i] \in OperandSet(L)
      /\ \A i \in DOMAIN s.rv.places : s.rv.places[i] \in PlaceSet(L)
  BY DEF IsDeadStore, Whole, IsCall, CallKinds, CanRemoveIfUnused, Found, IsLocal, StmtSet, Noop, RvalueSet
<1>2. l \in Bases(AsIs) /\ DOMAIN Types(AsIs) = Bases(AsIs)
  BY <1>1 DEF StmtIn, WrittenIn, Types
<1>3. Renames(AsIs, new, Bases(AsIs), Stay(AsIs)) /\ L \subseteq DOMAIN AsIs.locals
  BY StayRenames, AsIsIs
<1>4. \A i \in DOMAIN s.rv.args : OperandsAlike(M, AsIs, new, s.rv.args[i], s.rv.args[i])
  BY <1>1, <1>3, OperandsAgree, OperandStaysRenamed DEF StmtIn
<1>5. \A i \in DOMAIN s.rv.places : PlacesAlike(M, AsIs, new, s.rv.places[i], s.rv.places[i])
  <2>1. \A p \in PlaceSet(L) : RenamePlace(p, Stay(AsIs)) = p
    BY <1>3, StaysWhatItIs
  <2>2. \A i \in DOMAIN s.rv.places :
          PlacesAlike(M, AsIs, new, s.rv.places[i], RenamePlace(s.rv.places[i], Stay(AsIs)))
    BY <1>1, <1>3, LoadsAgree DEF StmtIn, ReadIn
  <2> QED BY <1>1, <2>1, <2>2
<1>6. SharesHeap(M)
  BY AgreeingSharesHeap
<1>7. CanCompute(m, s.rv) => v \in Values
  <2> DEFINE a == s.rv
  <2>1. /\ a \in RvalueSet(L, arity) /\ ~IsCall(a) /\ <<m, w>> \in M
        /\ \A i \in DOMAIN a.args : OperandsAlike(M, AsIs, new, a.args[i], a.args[i])
        /\ \A i \in DOMAIN a.places : PlacesAlike(M, AsIs, new, a.places[i], a.places[i])
    BY <1>1, <1>4, <1>5
  <2> HIDE DEF a, M
  <2>2. CanCompute(m, a) => Computed(Types(AsIs), m, a) \in Values
    BY <1>6, <2>1, ComputesAlike
  <2> QED BY <2>2 DEF a
<1>8. /\ m \in Memories(Types(AsIs)) /\ w \in Memories(Types(new)) /\ w.heap = m.heap
      /\ \A k \in Found : w.env[As(Stay(AsIs), k)] = m.env[k]
  BY InAgreement
<1>9. StmtDoes(Types(new), w, Noop) = Doing(Silent, w)
  BY DEF StmtDoes, Noop
<1>10. ~CanCompute(m, s.rv) => o = Doing(Undefined, m)
  BY <1>1 DEF StmtDoes, Assigning
<1>11. CanCompute(m, s.rv) => o = Doing(Silent, Stored(Types(AsIs), m, s.place, v))
  BY <1>1 DEF StmtDoes, Assigning, AfterComputing, Storing, CanReach
<1>12. v \in Values => <<Stored(Types(AsIs), m, s.place, v), w>> \in M
  <2> HIDE DEF v, l
  <2>1. CASE IsZst(Types(AsIs)[l])
    BY <1>1, <2>1 DEF Stored, l
  <2>2. CASE ~IsZst(Types(AsIs)[l])
    <3> DEFINE n == [m EXCEPT !.env[l] = v]
    <3>1. Stored(Types(AsIs), m, s.place, v) = n
      BY <1>1, <2>2 DEF Stored, l
    <3> SUFFICES ASSUME v \in Values
                 PROVE  <<n, w>> \in M
      BY <3>1
    <3>2. n \in Memories(Types(AsIs)) /\ n.env = [m.env EXCEPT ![l] = v] /\ n.heap = m.heap
      BY <1>2, <1>8, MemoryWritten
    <3> HIDE DEF n
    <3>3. \A k \in Found : n.env[k] = m.env[k]
      BY <1>1, <3>2
    <3>4. <<n, w>> \in M
      BY <1>8, <3>2, <3>3, InAgreement
    <3> QED BY <3>4
  <2> QED BY <2>1, <2>2
<1> HIDE DEF o, v, M
<1> QED BY <1>7, <1>9, <1>10, <1>11, <1>12 DEF StmtsAlike, Doing, Silent, Event, o, M

LEMMA DeadStoreElimSame ==
  ASSUME BodyInv, RunStmtPass, DeadStoreElim, PointersAreRead, NEW arity
  PROVE  DoesTheSame(arity, AsIs, AsIs')
<1> DEFINE M == Agreeing(AsIs, AsIs', Found, Stay(AsIs))
           L == DOMAIN locals
<1>1. /\ pc = "deadstore" /\ UNCHANGED <<locals, retType>>
      /\ blocks' = [b \in BlockIds |->
           Block([i \in DOMAIN blocks[b].stmts |->
                    IF IsDeadStore(blocks[b].stmts[i], ReadAnywhere)
                    THEN Noop ELSE blocks[b].stmts[i]],
                 blocks[b].term)]
  BY DEF RunStmtPass, DeadStoreElim, BlocksMut
<1>2. Types(AsIs') = Types(AsIs) /\ Bases(AsIs') = Bases(AsIs)
  BY <1>1 DEF AsIs, Types, Bases
<1>3. /\ L \subseteq Nat
      /\ \A b \in BlockIds : /\ blocks[b].stmts \in Seq(StmtSet(L, Arity))
                             /\ blocks[b].term \in TermSet(L, Edges)
  BY <1>1, BodyIs, NumberedCounts
<1>4. M \in SUBSET (Memories(Types(AsIs)) \X Memories(Types(AsIs')))
  BY EqualIsARelation
<1>5. Renames(AsIs, AsIs', Bases(AsIs), Stay(AsIs)) /\ \A l \in Bases(AsIs) : As(Stay(AsIs), l) = l
  BY <1>2, StayRenames
<1>6. Found \subseteq Bases(AsIs)
  <2>1. ENTRY \in BlockIds
    BY <1>1, BodyIs
  <2> QED BY <1>1, <2>1, StaysFound
<1>7. \A args \in [1 .. arity -> Values], heap \in Heaps :
        <<Entered(AsIs, args, heap).mem, Entered(AsIs', args, heap).mem>> \in M
  <2>1. \A l \in Found : As(Stay(AsIs), l) = l
    BY <1>5, <1>6
  <2>2. KeepsParams(arity, Found, Stay(AsIs))
    BY <2>1 DEF KeepsParams
  <2> QED BY <1>5, <1>6, <2>2, EnteredAgreeing
<1>8. ASSUME NEW b \in BlockIds
      PROVE  /\ DOMAIN blocks'[b].stmts = DOMAIN blocks[b].stmts
             /\ blocks'[b].term.succs = blocks[b].term.succs
             /\ \A m, w : <<m, w>> \in M =>
                  /\ \A i \in DOMAIN blocks[b].stmts :
                       StmtsAlike(M, AsIs, AsIs', blocks[b].stmts[i], blocks'[b].stmts[i], m, w)
                  /\ TermsAlike(AsIs, AsIs', blocks[b].term, blocks'[b].term, m, w)
  <2> DEFINE x == blocks[b]
             y == blocks'[b]
  <2>1. /\ y.stmts = [i \in DOMAIN x.stmts |->
                        IF IsDeadStore(x.stmts[i], ReadAnywhere) THEN Noop ELSE x.stmts[i]]
        /\ y.term = x.term
    BY <1>1 DEF Block
  <2>2. /\ \A i \in DOMAIN x.stmts : x.stmts[i] \in StmtSet(L, Arity)
        /\ x.term \in TermSet(L, Edges) /\ x.term.on \in OperandSet(L)
        /\ x.term.succs \in Seq(Edges) /\ L \subseteq DOMAIN AsIs.locals
    BY <1>3, AsIsIs DEF TermSet
  <2>3. /\ \A i \in DOMAIN x.stmts : StmtIn(x.stmts[i], Found, Bases(AsIs))
        /\ OperandIn(x.term.on, Found)
    BY <1>1, StaysFound
  <2> HIDE DEF x, y
  <2>4. ASSUME NEW m, NEW w, <<m, w>> \in M
        PROVE  /\ \A i \in DOMAIN x.stmts : StmtsAlike(M, AsIs, AsIs', x.stmts[i], y.stmts[i], m, w)
               /\ TermsAlike(AsIs, AsIs', x.term, y.term, m, w)
    <3>1. ASSUME NEW i \in DOMAIN x.stmts
          PROVE  StmtsAlike(M, AsIs, AsIs', x.stmts[i], y.stmts[i], m, w)
      <4> DEFINE s == x.stmts[i]
      <4>1. s \in StmtSet(L, Arity) /\ StmtIn(s, Found, Bases(AsIs))
        BY <2>2, <2>3
      <4>2. y.stmts[i] = IF IsDeadStore(s, ReadAnywhere) THEN Noop ELSE s
        BY <2>1
      <4> HIDE DEF s
      <4>3. CASE IsDeadStore(s, ReadAnywhere)
        <5>1. StmtsAlike(M, AsIs, AsIs', s, Noop, m, w)
          BY <1>2, <1>3, <1>6, <2>4, <4>1, <4>3, DeadStoreAlike
        <5> QED BY <4>2, <4>3, <5>1 DEF s
      <4>4. CASE ~IsDeadStore(s, ReadAnywhere)
        <5>1. StmtRenamed(s, s, Stay(AsIs))
          BY <1>3, <2>2, <4>1, StmtStaysRenamed
        <5>2. StmtsAlike(M, AsIs, AsIs', s, s, m, w)
          BY <1>5, <1>6, <2>4, <4>1, <5>1, RenamedAlike
        <5> QED BY <4>2, <4>4, <5>2 DEF s
      <4> QED BY <4>3, <4>4
    <3>2. TermRenamed(x.term, x.term, Stay(AsIs))
      BY <1>3, <2>2, OperandStaysRenamed DEF TermRenamed
    <3>3. ReturnPlace \in Found
      BY DEF Found
    <3>4. TermsAlike(AsIs, AsIs', x.term, x.term, m, w)
      BY <1>5, <1>6, <2>2, <2>3, <2>4, <3>2, <3>3, RenamedEnds
    <3> QED BY <2>1, <3>1, <3>4
  <2> QED BY <2>1, <2>4 DEF x, y
<1>9. DOMAIN blocks' = BlockIds
  BY <1>1
<1> HIDE DEF M, L
<1> QED BY <1>1, <1>4, <1>7, <1>8, <1>9, BlocksReplaced

-----------------------------------------------------------------------------
(* The passes that drop and move whole statements wait a bounded time.     *)

LEMMA Bounded ==
  ASSUME NEW n \in Nat, NEW f, \A b \in 0 .. n - 1 : f[b] \in Nat
  PROVE  \E K \in Nat : \A b \in 0 .. n - 1 : f[b] <= K
<1> DEFINE T == {m \in Nat : m <= n /\ ~ \E K \in Nat : \A b \in 0 .. m - 1 : f[b] <= K}
<1>1. CASE n \notin T
  <2>1. n <= n
    OBVIOUS
  <2> QED BY <1>1, <2>1
<1>2. CASE n \in T
  <2>1. PICK t \in T : \A m \in T : t <= m
    <3>1. T \subseteq Nat /\ T # {}
      BY <1>2
    <3> QED BY <3>1, LeastNumber
  <2>2. t \in Nat /\ t <= n /\ ~ \E K \in Nat : \A b \in 0 .. t - 1 : f[b] <= K
    BY <2>1
  <2>3. t # 0
    BY <2>2
  <2>4. t - 1 \in Nat /\ t - 1 <= n /\ ~(t <= t - 1) /\ t - 1 \in 0 .. n - 1
    BY <2>2, <2>3
  <2>5. t - 1 \notin T
    BY <2>1, <2>4
  <2>6. PICK K \in Nat : \A b \in 0 .. (t - 1) - 1 : f[b] <= K
    BY <2>4, <2>5
  <2>7. f[t - 1] \in Nat
    BY <2>4
  <2> DEFINE G == IF K <= f[t - 1] THEN f[t - 1] ELSE K
  <2>8. G \in Nat /\ K <= G /\ f[t - 1] <= G
    BY <2>7
  <2>9. ASSUME NEW b \in 0 .. t - 1
        PROVE  f[b] <= G
    <3>1. b = t - 1 \/ b \in 0 .. (t - 1) - 1
      BY <2>2
    <3>2. f[b] \in Nat
      BY <2>2
    <3> HIDE DEF G
    <3> QED BY <2>6, <2>8, <3>1, <3>2
  <2> HIDE DEF G
  <2> QED BY <2>2, <2>8, <2>9
<1> QED BY <1>1, <1>2

LEMMA BlocksAreBounded ==
  ASSUME BodyInv, pc # "retain"
  PROVE  \E K \in Nat : \A b \in BlockIds : Len(blocks[b].stmts) <= K
<1> DEFINE n == Count(blocks)
           f == [b \in BlockIds |-> Len(blocks[b].stmts)]
<1>1. n \in Nat /\ BlockIds = 0 .. n - 1
  BY BodyIs, NumberedCounts DEF BlockIds, Count
<1>2. \A b \in BlockIds : f[b] \in Nat /\ f[b] = Len(blocks[b].stmts)
  BY BodyIs
<1> HIDE DEF n, f
<1>3. PICK K \in Nat : \A b \in 0 .. n - 1 : f[b] <= K
  BY <1>1, <1>2, Bounded
<1> QED BY <1>1, <1>2, <1>3

(* Where the statement i of b is once the noops are gone: after as many    *)
(* others as are kept before it.                                           *)
Remains(b) == {i \in DOMAIN b.stmts : ~IsNoop(b.stmts[i])}
NewPlace(b, i) == Cardinality(Below(Remains(b), i)) + 1

LEMMA NewPlaceHolds ==
  ASSUME NEW S, NEW b, b.stmts \in Seq(S)
  PROVE  /\ NewPlace(b, 1) = 1
         /\ \A i \in 1 .. Len(b.stmts) + 1 : NewPlace(b, i) \in Nat
         /\ \A i \in DOMAIN b.stmts :
              IF IsNoop(b.stmts[i]) THEN NewPlace(b, i + 1) = NewPlace(b, i)
              ELSE /\ NewPlace(b, i + 1) = NewPlace(b, i) + 1
                   /\ NewPlace(b, i) \in DOMAIN RemoveNoops(b).stmts
                   /\ RemoveNoops(b).stmts[NewPlace(b, i)] = b.stmts[i]
         /\ NewPlace(b, Len(b.stmts) + 1) \notin DOMAIN RemoveNoops(b).stmts
         /\ RemoveNoops(b).term = b.term
<1> DEFINE R == Remains(b)
           n == Len(b.stmts)
           kept == InOrder(R)
           C(i) == Cardinality(Below(R, i))
<1>1. n \in Nat /\ DOMAIN b.stmts = 1 .. n /\ R \subseteq 0 .. (n + 1) - 1 /\ n + 1 \in Nat /\ ~(0 \in R)
  BY DEF Remains
<1>2. /\ IsFiniteSet(R) /\ R \subseteq Int /\ Cardinality(R) \in Nat
      /\ C(0) = 0 /\ C(n + 1) = Cardinality(R)
  BY <1>1, BelowEnds
<1>3. \A i \in Int : C(i) \in Nat /\ C(i + 1) = IF i \in R THEN C(i) + 1 ELSE C(i)
  BY <1>2, BelowIsFinite, BelowNext
<1>4. \A d \in R, e \in Int : d < e => C(d) < C(e)
  BY <1>2, BelowIncreases
<1>5. \A d, e \in R : C(d) = C(e) => d = e
  <2> SUFFICES ASSUME NEW d \in R, NEW e \in R, C(d) = C(e)
               PROVE  d = e
    OBVIOUS
  <2>1. d \in Int /\ e \in Int /\ C(d) \in Nat /\ C(e) \in Nat
    BY <1>2, <1>3
  <2>2. d < e => C(d) < C(e)
    BY <1>4, <2>1
  <2>3. e < d => C(e) < C(d)
    BY <1>4, <2>1
  <2> HIDE DEF C
  <2> QED BY <2>1, <2>2, <2>3
<1>6. /\ DOMAIN kept = 0 .. Cardinality(R) - 1
      /\ \A k \in DOMAIN kept : kept[k] \in R /\ C(kept[k]) = k
  BY <1>1, InOrderLists
<1>7. /\ RemoveNoops(b).stmts = [k \in {i + 1 : i \in DOMAIN kept} |-> b.stmts[kept[k - 1]]]
      /\ RemoveNoops(b).term = b.term
  BY DEF RemoveNoops, Remains, Block
<1>8. DOMAIN RemoveNoops(b).stmts = 1 .. Cardinality(R)
  <2> HIDE DEF kept, R
  <2>1. {i + 1 : i \in DOMAIN kept} = 1 .. Cardinality(R)
    <3>1. \A k \in 1 .. Cardinality(R) : k - 1 \in DOMAIN kept /\ k = (k - 1) + 1
      BY <1>2, <1>6
    <3>2. \A i \in DOMAIN kept : i + 1 \in 1 .. Cardinality(R)
      BY <1>2, <1>6
    <3> QED BY <3>1, <3>2
  <2> QED BY <1>7, <2>1
<1>9. \A i : NewPlace(b, i) = C(i) + 1
  BY DEF NewPlace
<1> HIDE DEF C
<1>10. ASSUME NEW i \in R
       PROVE  /\ NewPlace(b, i) \in DOMAIN RemoveNoops(b).stmts
              /\ RemoveNoops(b).stmts[NewPlace(b, i)] = b.stmts[i]
  <2>1. i \in Int /\ i < n + 1 /\ n + 1 \in Int
    BY <1>1, <1>2
  <2>2. C(i) < C(n + 1) /\ C(i) \in Nat
    BY <1>1, <1>3, <1>4, <2>1
  <2>3. C(i) \in DOMAIN kept
    BY <1>2, <1>6, <2>2
  <2>4. kept[C(i)] = i
    BY <1>5, <1>6, <2>3
  <2>5. C(i) + 1 \in 1 .. Cardinality(R) /\ (C(i) + 1) - 1 = C(i)
    BY <1>2, <2>2
  <2>6. RemoveNoops(b).stmts[C(i) + 1] = b.stmts[kept[(C(i) + 1) - 1]]
    BY <1>7, <1>8, <2>5
  <2> QED BY <1>8, <1>9, <2>4, <2>5, <2>6
<1>11. ASSUME NEW i \in DOMAIN b.stmts
       PROVE  IF IsNoop(b.stmts[i]) THEN NewPlace(b, i + 1) = NewPlace(b, i)
              ELSE /\ NewPlace(b, i + 1) = NewPlace(b, i) + 1
                   /\ NewPlace(b, i) \in DOMAIN RemoveNoops(b).stmts
                   /\ RemoveNoops(b).stmts[NewPlace(b, i)] = b.stmts[i]
  <2>1. i \in Int /\ C(i) \in Nat /\ (i \in R <=> ~IsNoop(b.stmts[i]))
    BY <1>1, <1>3 DEF Remains
  <2>2. C(i + 1) = IF i \in R THEN C(i) + 1 ELSE C(i)
    BY <1>3, <2>1
  <2> QED BY <1>9, <1>10, <2>1, <2>2
<1>12. NewPlace(b, 1) = 1
  <2>1. C(0 + 1) = 0
    BY <1>1, <1>2, <1>3
  <2> QED BY <1>9, <2>1
<1>13. ASSUME NEW i \in 1 .. n + 1
       PROVE  NewPlace(b, i) \in Nat
  <2>1. i \in Int
    BY <1>1
  <2>2. C(i) \in Nat
    BY <1>3, <2>1
  <2>3. C(i) + 1 \in Nat
    BY <2>2
  <2> QED BY <1>9, <2>3
<1>14. NewPlace(b, n + 1) \notin DOMAIN RemoveNoops(b).stmts
  BY <1>2, <1>8, <1>9
<1> QED BY <1>7, <1>11, <1>12, <1>13, <1>14

(* The same, over the same locals: every statement is where it was, or     *)
(* somewhere else, and so is the end of every block.                       *)
Goes(P, x, y, b, i, c, j, n) ==
  \/ /\ i \in DOMAIN x.stmts /\ IsNoop(x.stmts[i])
     /\ \E k \in 0 .. n - 1 : <<b, i + 1, c, j, k>> \in P
  \/ /\ i \in DOMAIN x.stmts /\ j \in DOMAIN y.stmts /\ y.stmts[j] = x.stmts[i]
     /\ \E k : <<b, i + 1, c, j + 1, k>> \in P
  \/ /\ i \notin DOMAIN x.stmts /\ j \notin DOMAIN y.stmts
     /\ y.term.kind = x.term.kind /\ y.term.on = x.term.on /\ y.term.values = x.term.values
     /\ \A e \in DOMAIN x.term.succs :
          \E k : <<x.term.succs[e], 1, y.term.succs[e], 1, k>> \in P
  \/ /\ i \notin DOMAIN x.stmts
     /\ \E e : /\ AlwaysExits(x.term, e) /\ e \in DOMAIN x.term.succs
               /\ \E k \in 0 .. n - 1 : <<x.term.succs[e], 1, c, j, k>> \in P

LEMMA SameByMoving ==
  ASSUME BodyInv, BodyInv', pc # "retain", pc' # "retain", UNCHANGED <<locals, retType>>, NEW arity,
         NEW K \in Nat, NEW P \in SUBSET Positions,
         \A b, i, c, j, n : <<b, i, c, j, n>> \in P =>
           /\ b \in BlockIds /\ c \in BlockIds' /\ n \in 0 .. K
           /\ Goes(P, blocks[b], blocks'[c], b, i, c, j, n),
         \E n : <<ENTRY, 1, ENTRY, 1, n>> \in P
  PROVE  DoesTheSame(arity, AsIs, AsIs')
<1> DEFINE M == Equal(AsIs, AsIs')
           L == DOMAIN locals
<1>1. Types(AsIs') = Types(AsIs) /\ Bases(AsIs') = Bases(AsIs)
  BY DEF AsIs, Types, Bases
<1>2. AsIs.blocks = blocks /\ AsIs'.blocks = blocks' /\ L \subseteq DOMAIN AsIs.locals
  BY DEF AsIs
<1>3. L \subseteq Nat /\ L' = L
  BY BodyIs, NumberedCounts
<1>4. \A b \in BlockIds : /\ blocks[b].stmts \in Seq(StmtSet(L, Arity))
                          /\ blocks[b].term \in TermSet(L, Edges)
  BY BodyIs
<1>5. \A c \in BlockIds' : blocks'[c].term \in TermSet(L, Edges')
  <2>1. BodyOK(WorkedOn, running, Arity)'
    BY DEF BodyInv, BodyStaysNumbered, Arity
  <2>2. \A c \in BlockIds' : blocks'[c] \in BlockSet(L', Edges', Arity')
    BY <2>1 DEF BodyOK, WorkedOn, BlockIds, Edges, Arity
  <2> QED BY <1>3, <2>2 DEF BlockSet
<1>6. M \in SUBSET (Memories(Types(AsIs)) \X Memories(Types(AsIs')))
  BY EqualIsARelation
<1>7. \A args \in [1 .. arity -> Values], heap \in Heaps :
        <<Entered(AsIs, args, heap).mem, Entered(AsIs', args, heap).mem>> \in M
  BY <1>1, EntersEqual
<1>8. ASSUME NEW m, NEW w, <<m, w>> \in M
      PROVE  /\ \A s \in StmtSet(L, Arity) : StmtsAlike(M, AsIs, AsIs', s, s, m, w)
             /\ \A x \in TermSet(L, Edges), y \in TermSet(L, Edges') :
                  y.kind = x.kind /\ y.on = x.on /\ y.values = x.values =>
                    TermsAlike(AsIs, AsIs', x, y, m, w)
  BY <1>1, <1>2, <1>3, <1>8, StaysAlike
<1> HIDE DEF M, L
<1>9. ASSUME NEW b, NEW i, NEW c, NEW j, NEW n, <<b, i, c, j, n>> \in P
      PROVE  /\ n \in 0 .. K /\ AsIs.blocks[b].term \in TermSet(L, Edges)
             /\ Moves(P, M, AsIs, AsIs', b, i, c, j, n)
  <2> DEFINE x == blocks[b]
             y == blocks'[c]
  <2>1. b \in BlockIds /\ c \in BlockIds' /\ n \in 0 .. K /\ Goes(P, x, y, b, i, c, j, n)
    BY <1>9
  <2>2. /\ AsIs.blocks[b] = x /\ AsIs'.blocks[c] = y
        /\ \A k \in DOMAIN x.stmts : x.stmts[k] \in StmtSet(L, Arity)
        /\ x.term \in TermSet(L, Edges) /\ y.term \in TermSet(L, Edges')
    BY <1>2, <1>4, <1>5, <2>1
  <2> HIDE DEF x, y
  <2>3. \A k \in DOMAIN x.stmts : \A m, w : <<m, w>> \in M =>
          StmtsAlike(M, AsIs, AsIs', x.stmts[k], x.stmts[k], m, w)
    BY <1>8, <2>2
  <2>4. y.term.kind = x.term.kind /\ y.term.on = x.term.on /\ y.term.values = x.term.values =>
          \A m, w : <<m, w>> \in M => TermsAlike(AsIs, AsIs', x.term, y.term, m, w)
    BY <1>8, <2>2
  <2>5. Moves(P, M, AsIs, AsIs', b, i, c, j, n)
    <3>1. CASE /\ i \in DOMAIN x.stmts /\ IsNoop(x.stmts[i])
               /\ \E k \in 0 .. n - 1 : <<b, i + 1, c, j, k>> \in P
      BY <2>2, <3>1 DEF Moves
    <3>2. CASE /\ i \in DOMAIN x.stmts /\ j \in DOMAIN y.stmts /\ y.stmts[j] = x.stmts[i]
               /\ \E k : <<b, i + 1, c, j + 1, k>> \in P
      BY <2>2, <2>3, <3>2 DEF Moves
    <3>3. CASE /\ i \notin DOMAIN x.stmts /\ j \notin DOMAIN y.stmts
               /\ y.term.kind = x.term.kind /\ y.term.on = x.term.on /\ y.term.values = x.term.values
               /\ \A e \in DOMAIN x.term.succs :
                    \E k : <<x.term.succs[e], 1, y.term.succs[e], 1, k>> \in P
      BY <2>2, <2>4, <3>3 DEF Moves
    <3>4. CASE /\ i \notin DOMAIN x.stmts
               /\ \E e : /\ AlwaysExits(x.term, e) /\ e \in DOMAIN x.term.succs
                         /\ \E k \in 0 .. n - 1 : <<x.term.succs[e], 1, c, j, k>> \in P
      BY <2>2, <3>4 DEF Moves
    <3> QED BY <2>1, <3>1, <3>2, <3>3, <3>4 DEF Goes
  <2> QED BY <2>1, <2>2, <2>5
<1> QED BY <1>6, <1>7, <1>9, SameByPlaces

(* Wherever a statement was, it is at its new place once the noops are     *)
(* gone, and each noop is passed by.                                       *)
LEMMA RemoveNoopsSame ==
  ASSUME BodyInv, BodyInv', pc # "retain", pc' # "retain", UNCHANGED <<locals, retType>>,
         blocks' = [b \in BlockIds |-> RemoveNoops(blocks[b])], NEW arity
  PROVE  DoesTheSame(arity, AsIs, AsIs')
<1> DEFINE Size(b) == Len(blocks[b].stmts)
           P == UNION {{<<b, i, b, NewPlace(blocks[b], i), Size(b) + 1 - i>> : i \in 1 .. Size(b) + 1} :
                       b \in BlockIds}
<1>1. /\ ENTRY \in BlockIds /\ BlockIds \subseteq Nat /\ Edges \subseteq BlockIds /\ BlockIds' = BlockIds
      /\ \A b \in BlockIds : /\ blocks[b].stmts \in Seq(StmtSet(DOMAIN locals, Arity))
                             /\ blocks[b].term \in TermSet(DOMAIN locals, Edges)
                             /\ blocks'[b] = RemoveNoops(blocks[b])
  BY BodyIs, NumberedCounts DEF Edges, BlockIds
<1>2. PICK K \in Nat : \A b \in BlockIds : Size(b) <= K
  BY BlocksAreBounded
<1>3. \A b \in BlockIds : Size(b) \in Nat /\ DOMAIN blocks[b].stmts = 1 .. Size(b)
  BY <1>1
<1> HIDE DEF Size
<1>4. \A b \in BlockIds : \A i \in 1 .. Size(b) + 1 :
        <<b, i, b, NewPlace(blocks[b], i), Size(b) + 1 - i>> \in P
  OBVIOUS
<1>5. ASSUME NEW b, NEW i, NEW c, NEW j, NEW n, <<b, i, c, j, n>> \in P
      PROVE  /\ b \in BlockIds /\ c = b /\ i \in 1 .. Size(b) + 1
             /\ j = NewPlace(blocks[b], i) /\ n = Size(b) + 1 - i
  BY <1>5
<1>6. P \in SUBSET Positions
  <2>1. ASSUME NEW b \in BlockIds, NEW i \in 1 .. Size(b) + 1
        PROVE  <<b, i, b, NewPlace(blocks[b], i), Size(b) + 1 - i>> \in Positions
    <3>1. NewPlace(blocks[b], i) \in Nat
      BY <1>1, NewPlaceHolds DEF Size
    <3>2. Size(b) + 1 - i \in Nat /\ i \in Nat /\ b \in Nat
      BY <1>1, <1>3
    <3> QED BY <3>1, <3>2 DEF Positions
  <2> QED BY <2>1
<1>7. \E n : <<ENTRY, 1, ENTRY, 1, n>> \in P
  <2>1. NewPlace(blocks[ENTRY], 1) = 1 /\ 1 \in 1 .. Size(ENTRY) + 1
    BY <1>1, <1>3, NewPlaceHolds
  <2> QED BY <1>1, <1>4, <2>1
<1>8. ASSUME NEW u \in BlockIds
      PROVE  \E k : <<u, 1, u, 1, k>> \in P
  <2>1. blocks[u].stmts \in Seq(StmtSet(DOMAIN locals, Arity)) /\ Size(u) \in Nat
    BY <1>1, <1>3
  <2>2. NewPlace(blocks[u], 1) = 1
    BY <2>1, NewPlaceHolds
  <2>3. 1 \in 1 .. Size(u) + 1
    BY <2>1
  <2> QED BY <1>4, <2>2, <2>3
<1> HIDE DEF P
<1>9. ASSUME NEW b, NEW i, NEW c, NEW j, NEW n, <<b, i, c, j, n>> \in P
      PROVE  /\ b \in BlockIds /\ c \in BlockIds' /\ n \in 0 .. K + 1
             /\ Goes(P, blocks[b], blocks'[c], b, i, c, j, n)
  <2> DEFINE x == blocks[b]
             y == blocks'[c]
  <2>1. /\ b \in BlockIds /\ c = b /\ i \in 1 .. Size(b) + 1
        /\ j = NewPlace(x, i) /\ n = Size(b) + 1 - i
    BY <1>5, <1>9
  <2>2. /\ Size(b) \in Nat /\ Size(b) <= K /\ DOMAIN x.stmts = 1 .. Size(b) /\ y = RemoveNoops(x)
        /\ x.stmts \in Seq(StmtSet(DOMAIN locals, Arity)) /\ x.term \in TermSet(DOMAIN locals, Edges)
        /\ Len(x.stmts) = Size(b)
    BY <1>1, <1>2, <1>3, <2>1 DEF Size
  <2> HIDE DEF x, y
  <2>3. /\ \A k \in DOMAIN x.stmts :
             IF IsNoop(x.stmts[k]) THEN NewPlace(x, k + 1) = NewPlace(x, k)
             ELSE /\ NewPlace(x, k + 1) = NewPlace(x, k) + 1
                  /\ NewPlace(x, k) \in DOMAIN y.stmts
                  /\ y.stmts[NewPlace(x, k)] = x.stmts[k]
        /\ NewPlace(x, Size(b) + 1) \notin DOMAIN y.stmts
        /\ y.term = x.term
    BY <2>2, NewPlaceHolds
  <2>4. n \in 0 .. K + 1
    BY <2>1, <2>2
  <2>5. CASE i \in DOMAIN x.stmts
    <3>1. i + 1 \in 1 .. Size(b) + 1 /\ n - 1 \in 0 .. n - 1 /\ Size(b) + 1 - (i + 1) = n - 1
      BY <2>1, <2>2, <2>5
    <3>2. <<b, i + 1, b, NewPlace(x, i + 1), Size(b) + 1 - (i + 1)>> \in P
      BY <1>4, <2>1, <3>1 DEF x
    <3>3. <<b, i + 1, c, NewPlace(x, i + 1), n - 1>> \in P
      BY <2>1, <3>1, <3>2
    <3>4. Goes(P, x, y, b, i, c, j, n)
      <4>1. CASE IsNoop(x.stmts[i])
        <5>1. NewPlace(x, i + 1) = j
          BY <2>1, <2>3, <2>5, <4>1
        <5>2. \E k \in 0 .. n - 1 : <<b, i + 1, c, j, k>> \in P
          BY <3>1, <3>3, <5>1
        <5> QED BY <2>5, <4>1, <5>2 DEF Goes
      <4>2. CASE ~IsNoop(x.stmts[i])
        <5>1. NewPlace(x, i + 1) = j + 1 /\ j \in DOMAIN y.stmts /\ y.stmts[j] = x.stmts[i]
          BY <2>1, <2>3, <2>5, <4>2
        <5>2. <<b, i + 1, c, j + 1, n - 1>> \in P
          BY <3>3, <5>1
        <5> QED BY <2>5, <5>1, <5>2 DEF Goes
      <4> QED BY <4>1, <4>2
    <3> QED BY <1>1, <2>1, <2>4, <3>4 DEF x, y
  <2>6. CASE i \notin DOMAIN x.stmts
    <3>1. i = Size(b) + 1
      BY <2>1, <2>2, <2>6
    <3>2. j \notin DOMAIN y.stmts
      BY <2>1, <2>3, <3>1
    <3>3. ASSUME NEW e \in DOMAIN x.term.succs
          PROVE  \E k : <<x.term.succs[e], 1, y.term.succs[e], 1, k>> \in P
      <4>1. x.term.succs[e] \in BlockIds
        BY <1>1, <2>2, SuccessorsAreThere
      <4> QED BY <1>8, <2>3, <4>1
    <3>4. Goes(P, x, y, b, i, c, j, n)
      BY <2>3, <2>6, <3>2, <3>3 DEF Goes
    <3> QED BY <1>1, <2>1, <2>4, <3>4 DEF x, y
  <2> QED BY <2>5, <2>6
<1>10. K + 1 \in Nat
  OBVIOUS
<1> QED BY <1>6, <1>7, <1>9, <1>10, SameByMoving

-----------------------------------------------------------------------------
(* simplify-cfg.                                                           *)

(* An edge into t makes its slot a predecessor of t.                       *)
LEMMA EdgesArePredecessors ==
  ASSUME NEW t \in BlockIds, NEW b \in BlockIds, NEW k \in DOMAIN blocks[b].term.succs,
         blocks[b].term.succs[k] = t
  PROVE  <<b, k>> \in Predecessors(blocks)[t]
BY DEF Predecessors, BlockIds

LEMMA Joined ==
  ASSUME NEW S, NEW s \in Seq(S), NEW t \in Seq(S), NEW u, u = s \o t
  PROVE  /\ DOMAIN u = 1 .. Len(s) + Len(t)
         /\ \A i \in 1 .. Len(s) : u[i] = s[i]
         /\ \A i \in 1 .. Len(t) : u[Len(s) + i] = t[i]
OBVIOUS

(* A block that is stolen is entered from where it is stolen to and from   *)
(* nowhere else, so it goes on there when the one before it has ended.     *)
LEMMA StealSame ==
  ASSUME BodyInv, BodyInv', pc # "retain", pc' # "retain", UNCHANGED <<locals, retType>>, NEW arity,
         NEW c \in BlockIds, NEW t \in Edges, NEW e \in DOMAIN blocks[c].term.succs,
         AlwaysExits(blocks[c].term, e), blocks[c].term.succs[e] = t,
         Predecessors(blocks)[t] = {<<c, e>>}, blocks' = Steal(blocks, t, c), t # c
  PROVE  DoesTheSame(arity, AsIs, AsIs')
<1> DEFINE Size(b) == Len(blocks[b].stmts)
           U == BlockIds \ {t}
           P == (UNION {{<<b, i, b, i, 1>> : i \in 1 .. Size(b) + 1} : b \in U})
                  \cup {<<t, i, c, Size(c) + i, 0>> : i \in 1 .. Size(t) + 1}
<1>1. /\ ENTRY \in BlockIds /\ BlockIds \subseteq Nat /\ Edges \subseteq BlockIds /\ ~(ENTRY \in Edges)
      /\ \A b \in BlockIds : /\ blocks[b].stmts \in Seq(StmtSet(DOMAIN locals, Arity))
                             /\ blocks[b].term \in TermSet(DOMAIN locals, Edges)
  BY BodyIs, NumberedCounts DEF Edges, BlockIds
<1>2. /\ BlockIds' = BlockIds /\ t \in BlockIds /\ c \in U
      /\ blocks'[c].stmts = blocks[c].stmts \o blocks[t].stmts /\ blocks'[c].term = blocks[t].term
      /\ \A b \in U : b # c => blocks'[b] = blocks[b]
  BY <1>1 DEF Steal, Block, BlockIds
<1>3. \A b \in BlockIds : Size(b) \in Nat /\ DOMAIN blocks[b].stmts = 1 .. Size(b)
  BY <1>1
<1>4. /\ DOMAIN blocks'[c].stmts = 1 .. Size(c) + Size(t)
      /\ \A i \in 1 .. Size(c) : blocks'[c].stmts[i] = blocks[c].stmts[i]
      /\ \A i \in 1 .. Size(t) : blocks'[c].stmts[Size(c) + i] = blocks[t].stmts[i]
  <2> DEFINE u == blocks[c].stmts
             v == blocks[t].stmts
             w == blocks'[c].stmts
  <2>1. u \in Seq(StmtSet(DOMAIN locals, Arity)) /\ v \in Seq(StmtSet(DOMAIN locals, Arity)) /\ w = u \o v
    BY <1>1, <1>2
  <2> HIDE DEF u, v, w
  <2>2. /\ DOMAIN w = 1 .. Len(u) + Len(v)
        /\ \A i \in 1 .. Len(u) : w[i] = u[i]
        /\ \A i \in 1 .. Len(v) : w[Len(u) + i] = v[i]
    BY <2>1, Joined
  <2> QED BY <2>2 DEF u, v, w
<1>5. ASSUME NEW b \in BlockIds, NEW k \in DOMAIN blocks[b].term.succs, b # c
      PROVE  blocks[b].term.succs[k] \in U
  <2>1. blocks[b].term.succs[k] \in BlockIds
    BY <1>1, SuccessorsAreThere
  <2>2. blocks[b].term.succs[k] # t
    BY <1>2, <1>5, EdgesArePredecessors
  <2> QED BY <2>1, <2>2
<1> HIDE DEF Size
<1>6. /\ \A b \in U : \A i \in 1 .. Size(b) + 1 : <<b, i, b, i, 1>> \in P
      /\ \A i \in 1 .. Size(t) + 1 : <<t, i, c, Size(c) + i, 0>> \in P
  OBVIOUS
<1>7. ASSUME NEW b, NEW i, NEW d, NEW j, NEW n, <<b, i, d, j, n>> \in P
      PROVE  \/ b \in U /\ d = b /\ i \in 1 .. Size(b) + 1 /\ j = i /\ n = 1
             \/ b = t /\ d = c /\ i \in 1 .. Size(t) + 1 /\ j = Size(c) + i /\ n = 0
  BY <1>7
<1>8. P \in SUBSET Positions
  <2>1. ASSUME NEW b \in U, NEW i \in 1 .. Size(b) + 1
        PROVE  <<b, i, b, i, 1>> \in Positions
    BY <1>1, <1>3 DEF Positions
  <2>2. ASSUME NEW i \in 1 .. Size(t) + 1
        PROVE  <<t, i, c, Size(c) + i, 0>> \in Positions
    BY <1>1, <1>2, <1>3 DEF Positions
  <2> QED BY <2>1, <2>2
<1>9. ASSUME NEW u \in U
      PROVE  <<u, 1, u, 1, 1>> \in P
  <2>1. 1 \in 1 .. Size(u) + 1
    BY <1>3
  <2> QED BY <1>6, <2>1
<1>10. \E n : <<ENTRY, 1, ENTRY, 1, n>> \in P
  BY <1>1, <1>9
<1>11. <<t, 1, c, Size(c) + 1, 0>> \in P
  <2>1. 1 \in 1 .. Size(t) + 1
    BY <1>2, <1>3
  <2> QED BY <1>6, <2>1
<1> HIDE DEF P
<1>12. ASSUME NEW b \in U, NEW i \in 1 .. Size(b) + 1
       PROVE  Goes(P, blocks[b], blocks'[b], b, i, b, i, 1)
  <2> DEFINE x == blocks[b]
             y == blocks'[b]
  <2>1. Size(b) \in Nat /\ DOMAIN x.stmts = 1 .. Size(b)
    BY <1>3
  <2>2. b # c => y = x /\ \A k \in DOMAIN x.term.succs : x.term.succs[k] \in U
    BY <1>2, <1>5
  <2>3. b = c => /\ \A k \in DOMAIN x.stmts : k \in DOMAIN y.stmts /\ y.stmts[k] = x.stmts[k]
                 /\ AlwaysExits(x.term, e) /\ e \in DOMAIN x.term.succs /\ x.term.succs[e] = t
    <3>1. Size(t) \in Nat
      BY <1>2, <1>3
    <3> QED BY <1>4, <2>1, <3>1
  <2> HIDE DEF x, y
  <2>4. CASE i \in DOMAIN x.stmts
    <3>1. i \in DOMAIN y.stmts /\ y.stmts[i] = x.stmts[i]
      BY <2>2, <2>3, <2>4
    <3>2. i + 1 \in 1 .. Size(b) + 1
      BY <2>1, <2>4
    <3>3. <<b, i + 1, b, i + 1, 1>> \in P
      BY <1>6, <3>2
    <3>4. Goes(P, x, y, b, i, b, i, 1)
      BY <2>4, <3>1, <3>3 DEF Goes
    <3> QED BY <3>4 DEF x, y
  <2>5. CASE i \notin DOMAIN x.stmts /\ b # c
    <3>1. y = x /\ \A k \in DOMAIN x.term.succs : <<x.term.succs[k], 1, y.term.succs[k], 1, 1>> \in P
      BY <1>9, <2>2, <2>5
    <3>2. Goes(P, x, y, b, i, b, i, 1)
      BY <2>5, <3>1 DEF Goes
    <3> QED BY <3>2 DEF x, y
  <2>6. CASE i \notin DOMAIN x.stmts /\ b = c
    <3>1. i = Size(c) + 1
      BY <2>1, <2>6
    <3>2. <<x.term.succs[e], 1, b, i, 0>> \in P
      BY <1>11, <2>3, <2>6, <3>1
    <3>3. 0 \in 0 .. 1 - 1
      OBVIOUS
    <3>4. Goes(P, x, y, b, i, b, i, 1)
      BY <2>3, <2>6, <3>2, <3>3 DEF Goes
    <3> QED BY <3>4 DEF x, y
  <2> QED BY <2>4, <2>5, <2>6
<1>13. ASSUME NEW i \in 1 .. Size(t) + 1
       PROVE  Goes(P, blocks[t], blocks'[c], t, i, c, Size(c) + i, 0)
  <2> DEFINE x == blocks[t]
             y == blocks'[c]
             j == Size(c) + i
  <2>1. /\ Size(t) \in Nat /\ Size(c) \in Nat /\ DOMAIN x.stmts = 1 .. Size(t)
        /\ DOMAIN y.stmts = 1 .. Size(c) + Size(t)
    BY <1>2, <1>3, <1>4
  <2>2. /\ \A k \in 1 .. Size(t) : y.stmts[Size(c) + k] = x.stmts[k]
        /\ y.term = x.term /\ \A k \in DOMAIN x.term.succs : x.term.succs[k] \in U
    BY <1>2, <1>4, <1>5
  <2> HIDE DEF x, y
  <2>4. CASE i \in DOMAIN x.stmts
    <3>1. j \in DOMAIN y.stmts /\ y.stmts[j] = x.stmts[i]
      BY <2>1, <2>2, <2>4
    <3>2. i + 1 \in 1 .. Size(t) + 1 /\ Size(c) + (i + 1) = j + 1
      BY <2>1, <2>4
    <3>3. <<t, i + 1, c, Size(c) + (i + 1), 0>> \in P
      BY <1>6, <3>2
    <3>4. <<t, i + 1, c, j + 1, 0>> \in P
      BY <3>2, <3>3
    <3> HIDE DEF j
    <3>5. Goes(P, x, y, t, i, c, j, 0)
      BY <2>4, <3>1, <3>4 DEF Goes
    <3> QED BY <3>5 DEF x, y, j
  <2>5. CASE i \notin DOMAIN x.stmts
    <3>1. j \notin DOMAIN y.stmts
      BY <2>1, <2>5
    <3>2. \A k \in DOMAIN x.term.succs : <<x.term.succs[k], 1, y.term.succs[k], 1, 1>> \in P
      BY <1>9, <2>2
    <3> HIDE DEF j
    <3>3. Goes(P, x, y, t, i, c, j, 0)
      BY <2>2, <2>5, <3>1, <3>2 DEF Goes
    <3> QED BY <3>3 DEF x, y, j
  <2> QED BY <2>4, <2>5
<1>14. ASSUME NEW b, NEW i, NEW d, NEW j, NEW n, <<b, i, d, j, n>> \in P
       PROVE  /\ b \in BlockIds /\ d \in BlockIds' /\ n \in 0 .. 1
              /\ Goes(P, blocks[b], blocks'[d], b, i, d, j, n)
  <2>1. CASE b \in U /\ d = b /\ i \in 1 .. Size(b) + 1 /\ j = i /\ n = 1
    BY <1>2, <1>12, <2>1
  <2>2. CASE b = t /\ d = c /\ i \in 1 .. Size(t) + 1 /\ j = Size(c) + i /\ n = 0
    BY <1>2, <1>13, <2>2
  <2> QED BY <1>7, <1>14, <2>1, <2>2
<1>15. 1 \in Nat
  OBVIOUS
<1> QED BY <1>8, <1>10, <1>14, <1>15, SameByMoving

(* A switch is pointed past blocks that do nothing but jump on: who would  *)
(* have gone through one of them waits at the block it leads to.           *)
LEMMA SkipSame ==
  ASSUME BodyInv, BodyInv', pc # "retain", pc' # "retain", UNCHANGED <<locals, retType>>, NEW arity,
         NEW c \in BlockIds,
         blocks' = [blocks EXCEPT ![c].term =
           [blocks[c].term EXCEPT !.succs =
              [k \in DOMAIN blocks[c].term.succs |-> SkipTarget(blocks[c].term.succs[k])]]]
  PROVE  DoesTheSame(arity, AsIs, AsIs')
<1> DEFINE Size(b) == Len(blocks[b].stmts)
           U == {b \in BlockIds : AllNoops(blocks[b]) /\ blocks[b].term.kind = "goto"}
           On1(b) == blocks[b].term.succs[1]
           P == (UNION {{<<b, i, b, i, 0>> : i \in 1 .. Size(b) + 1} : b \in BlockIds})
                  \cup (UNION {{<<b, i, On1(b), 1, Size(b) + 2 - i>> : i \in 1 .. Size(b) + 1} : b \in U})
<1>1. /\ ENTRY \in BlockIds /\ BlockIds \subseteq Nat /\ Edges \subseteq BlockIds
      /\ \A b \in BlockIds : /\ blocks[b].stmts \in Seq(StmtSet(DOMAIN locals, Arity))
                             /\ blocks[b].term \in TermSet(DOMAIN locals, Edges)
  BY BodyIs, NumberedCounts DEF Edges, BlockIds
<1>2. BlockIds' = BlockIds
  BY DEF BlockIds
<1>3. ASSUME NEW b \in BlockIds
      PROVE  /\ blocks'[b].stmts = blocks[b].stmts
             /\ blocks'[b].term.kind = blocks[b].term.kind /\ blocks'[b].term.on = blocks[b].term.on
             /\ blocks'[b].term.values = blocks[b].term.values
             /\ \A k \in DOMAIN blocks[b].term.succs :
                  \/ blocks'[b].term.succs[k] = blocks[b].term.succs[k]
                  \/ blocks[b].term.succs[k] \in U /\ blocks'[b].term.succs[k] = On1(blocks[b].term.succs[k])
  <2>1. CASE b # c
    BY <2>1 DEF BlockIds
  <2>2. CASE b = c
    <3>1. blocks[c] \in [stmts : Seq(StmtSet(DOMAIN locals, Arity)), term : TermSet(DOMAIN locals, Edges)]
      BY BodyIs DEF BlockSet
    <3> DEFINE t == blocks[c].term
    <3>2. t \in [kind : TermKinds, on : OperandSet(DOMAIN locals), values : Seq(Int), succs : Seq(Edges)]
      BY <3>1 DEF TermSet
    <3>3. /\ blocks'[c].stmts = blocks[c].stmts
          /\ blocks'[c].term = [t EXCEPT !.succs = [k \in DOMAIN t.succs |-> SkipTarget(t.succs[k])]]
      BY <3>1 DEF BlockIds
    <3>4. /\ blocks'[c].term.kind = t.kind /\ blocks'[c].term.on = t.on /\ blocks'[c].term.values = t.values
          /\ \A k \in DOMAIN t.succs : blocks'[c].term.succs[k] = SkipTarget(t.succs[k])
      BY <3>2, <3>3
    <3>5. \A k \in DOMAIN t.succs : t.succs[k] \in BlockIds
      BY <1>1, SuccessorsAreThere
    <3>6. \A k \in DOMAIN t.succs :
            \/ blocks'[c].term.succs[k] = t.succs[k]
            \/ t.succs[k] \in U /\ blocks'[c].term.succs[k] = On1(t.succs[k])
      BY <3>4, <3>5 DEF SkipTarget, CanSkip
    <3> QED BY <2>2, <3>3, <3>4, <3>6
  <2> QED BY <2>1, <2>2
<1>4. PICK K \in Nat : \A b \in BlockIds : Size(b) <= K
  BY BlocksAreBounded
<1>5. \A b \in BlockIds : Size(b) \in Nat /\ DOMAIN blocks[b].stmts = 1 .. Size(b)
  BY <1>1
<1>6. ASSUME NEW b \in U
      PROVE  /\ b \in BlockIds /\ 1 \in DOMAIN blocks[b].term.succs /\ On1(b) \in BlockIds
             /\ AlwaysExits(blocks[b].term, 1)
             /\ \A i \in DOMAIN blocks[b].stmts : IsNoop(blocks[b].stmts[i])
  <2>1. blocks[b].term \in TermSet(DOMAIN locals, Edges) /\ blocks[b].term.kind = "goto"
    BY <1>1
  <2>2. 1 \in DOMAIN blocks[b].term.succs
    BY <2>1 DEF TermSet
  <2>3. On1(b) \in Edges
    BY <2>1, <2>2, SuccessorsAreThere
  <2> QED BY <1>1, <2>1, <2>2, <2>3 DEF AlwaysExits, AllNoops
<1> HIDE DEF Size, U, On1
<1>7. /\ \A b \in BlockIds : \A i \in 1 .. Size(b) + 1 : <<b, i, b, i, 0>> \in P
      /\ \A b \in U : \A i \in 1 .. Size(b) + 1 : <<b, i, On1(b), 1, Size(b) + 2 - i>> \in P
  OBVIOUS
<1>8. ASSUME NEW b, NEW i, NEW d, NEW j, NEW n, <<b, i, d, j, n>> \in P
      PROVE  \/ b \in BlockIds /\ d = b /\ i \in 1 .. Size(b) + 1 /\ j = i /\ n = 0
             \/ b \in U /\ d = On1(b) /\ i \in 1 .. Size(b) + 1 /\ j = 1 /\ n = Size(b) + 2 - i
  BY <1>8
<1>9. P \in SUBSET Positions
  <2>1. ASSUME NEW b \in BlockIds, NEW i \in 1 .. Size(b) + 1
        PROVE  <<b, i, b, i, 0>> \in Positions
    BY <1>1, <1>5 DEF Positions
  <2>2. ASSUME NEW b \in U, NEW i \in 1 .. Size(b) + 1
        PROVE  <<b, i, On1(b), 1, Size(b) + 2 - i>> \in Positions
    <3>1. b \in Nat /\ On1(b) \in Nat /\ Size(b) \in Nat
      BY <1>1, <1>5, <1>6
    <3>2. i \in Nat /\ Size(b) + 2 - i \in Nat
      BY <3>1
    <3> QED BY <3>1, <3>2 DEF Positions
  <2> QED BY <2>1, <2>2
<1>10. \A u \in BlockIds : 1 \in 1 .. Size(u) + 1 /\ <<u, 1, u, 1, 0>> \in P
  <2>1. \A u \in BlockIds : 1 \in 1 .. Size(u) + 1
    BY <1>5
  <2> QED BY <1>7, <2>1
<1>11. \E n : <<ENTRY, 1, ENTRY, 1, n>> \in P
  BY <1>1, <1>10
<1>12. ASSUME NEW u \in BlockIds, NEW v, v = u \/ (u \in U /\ v = On1(u))
       PROVE  \E k : <<u, 1, v, 1, k>> \in P
  BY <1>7, <1>10, <1>12
<1> HIDE DEF P
<1>13. ASSUME NEW b \in BlockIds, NEW i \in 1 .. Size(b) + 1
       PROVE  Goes(P, blocks[b], blocks'[b], b, i, b, i, 0)
  <2> DEFINE x == blocks[b]
             y == blocks'[b]
  <2>1. Size(b) \in Nat /\ DOMAIN x.stmts = 1 .. Size(b) /\ y.stmts = x.stmts
    BY <1>3, <1>5
  <2>2. y.term.kind = x.term.kind /\ y.term.on = x.term.on /\ y.term.values = x.term.values
    BY <1>3
  <2>3. ASSUME NEW k \in DOMAIN x.term.succs
        PROVE  \E q : <<x.term.succs[k], 1, y.term.succs[k], 1, q>> \in P
    <3>1. x.term.succs[k] \in BlockIds
      BY <1>1, SuccessorsAreThere
    <3>2. \/ y.term.succs[k] = x.term.succs[k]
          \/ x.term.succs[k] \in U /\ y.term.succs[k] = On1(x.term.succs[k])
      BY <1>3
    <3> QED BY <1>12, <3>1, <3>2
  <2> HIDE DEF x, y
  <2>4. CASE i \in DOMAIN x.stmts
    <3>1. i + 1 \in 1 .. Size(b) + 1
      BY <2>1, <2>4
    <3>2. <<b, i + 1, b, i + 1, 0>> \in P
      BY <1>7, <3>1
    <3>3. Goes(P, x, y, b, i, b, i, 0)
      BY <2>1, <2>4, <3>2 DEF Goes
    <3> QED BY <3>3 DEF x, y
  <2>5. CASE i \notin DOMAIN x.stmts
    <3>1. Goes(P, x, y, b, i, b, i, 0)
      BY <2>1, <2>2, <2>3, <2>5 DEF Goes
    <3> QED BY <3>1 DEF x, y
  <2> QED BY <2>4, <2>5
<1>14. ASSUME NEW b \in U, NEW i \in 1 .. Size(b) + 1
       PROVE  Goes(P, blocks[b], blocks'[On1(b)], b, i, On1(b), 1, Size(b) + 2 - i)
  <2> DEFINE x == blocks[b]
             d == On1(b)
             y == blocks'[d]
             n == Size(b) + 2 - i
  <2>1. /\ b \in BlockIds /\ Size(b) \in Nat /\ DOMAIN x.stmts = 1 .. Size(b) /\ d \in BlockIds
        /\ 1 \in DOMAIN x.term.succs /\ AlwaysExits(x.term, 1) /\ x.term.succs[1] = d
        /\ \A k \in DOMAIN x.stmts : IsNoop(x.stmts[k])
    BY <1>5, <1>6 DEF On1
  <2>2. n \in Nat \ {0}
    BY <2>1
  <2>3. <<d, 1, d, 1, 0>> \in P
    BY <1>10, <2>1
  <2> HIDE DEF x, y
  <2>4. CASE i \in DOMAIN x.stmts
    <3>1. i + 1 \in 1 .. Size(b) + 1 /\ Size(b) + 2 - (i + 1) = n - 1 /\ n - 1 \in 0 .. n - 1
      BY <2>1, <2>2, <2>4
    <3>2. <<b, i + 1, d, 1, Size(b) + 2 - (i + 1)>> \in P
      BY <1>7, <3>1
    <3>3. <<b, i + 1, d, 1, n - 1>> \in P
      BY <3>1, <3>2
    <3>4. IsNoop(x.stmts[i])
      BY <2>1, <2>4
    <3> HIDE DEF n, d
    <3>5. Goes(P, x, y, b, i, d, 1, n)
      BY <2>4, <3>1, <3>3, <3>4 DEF Goes
    <3> QED BY <3>5 DEF x, y, n, d
  <2>5. CASE i \notin DOMAIN x.stmts
    <3>1. 0 \in 0 .. n - 1
      BY <2>2
    <3>2. <<x.term.succs[1], 1, d, 1, 0>> \in P
      BY <2>1, <2>3
    <3> HIDE DEF n, d
    <3>3. Goes(P, x, y, b, i, d, 1, n)
      BY <2>1, <2>5, <3>1, <3>2 DEF Goes
    <3> QED BY <3>3 DEF x, y, n, d
  <2> QED BY <2>4, <2>5
<1>15. ASSUME NEW b, NEW i, NEW d, NEW j, NEW n, <<b, i, d, j, n>> \in P
       PROVE  /\ b \in BlockIds /\ d \in BlockIds' /\ n \in 0 .. K + 1
              /\ Goes(P, blocks[b], blocks'[d], b, i, d, j, n)
  <2>1. CASE b \in BlockIds /\ d = b /\ i \in 1 .. Size(b) + 1 /\ j = i /\ n = 0
    BY <1>2, <1>13, <2>1
  <2>2. CASE b \in U /\ d = On1(b) /\ i \in 1 .. Size(b) + 1 /\ j = 1 /\ n = Size(b) + 2 - i
    <3>1. b \in BlockIds /\ d \in BlockIds /\ Size(b) \in Nat /\ Size(b) <= K
      BY <1>4, <1>5, <1>6, <2>2
    <3>2. n \in 0 .. K + 1
      BY <2>2, <3>1
    <3> QED BY <1>2, <1>14, <2>2, <3>1, <3>2
  <2> QED BY <1>8, <1>15, <2>1, <2>2
<1>16. K + 1 \in Nat
  OBVIOUS
<1> QED BY <1>9, <1>11, <1>15, <1>16, SameByMoving

(* A body that is as it was means what it did.                             *)
LEMMA UnchangedSame ==
  ASSUME BodyInv, pc # "retain", UNCHANGED <<locals, retType>>, NEW arity,
         DOMAIN blocks' = BlockIds, \A b \in BlockIds : blocks'[b] = blocks[b]
  PROVE  DoesTheSame(arity, AsIs, AsIs')
<1> DEFINE M == Equal(AsIs, AsIs')
           L == DOMAIN locals
<1>1. Types(AsIs') = Types(AsIs) /\ L \subseteq DOMAIN AsIs.locals /\ L \subseteq Nat
  BY BodyIs, NumberedCounts DEF AsIs, Types, Bases
<1>2. M \in SUBSET (Memories(Types(AsIs)) \X Memories(Types(AsIs')))
  BY EqualIsARelation
<1>3. \A args \in [1 .. arity -> Values], heap \in Heaps :
        <<Entered(AsIs, args, heap).mem, Entered(AsIs', args, heap).mem>> \in M
  BY <1>1, EntersEqual
<1>4. ASSUME NEW b \in BlockIds, NEW m, NEW w, <<m, w>> \in M
      PROVE  /\ \A i \in DOMAIN blocks[b].stmts :
                  StmtsAlike(M, AsIs, AsIs', blocks[b].stmts[i], blocks[b].stmts[i], m, w)
             /\ TermsAlike(AsIs, AsIs', blocks[b].term, blocks[b].term, m, w)
  <2> DEFINE x == blocks[b]
  <2>1. /\ \A i \in DOMAIN x.stmts : x.stmts[i] \in StmtSet(L, Arity)
        /\ x.term \in TermSet(L, Edges)
    BY BodyIs
  <2> HIDE DEF x
  <2>2. /\ \A i \in DOMAIN x.stmts : StmtsAlike(M, AsIs, AsIs', x.stmts[i], x.stmts[i], m, w)
        /\ TermsAlike(AsIs, AsIs', x.term, x.term, m, w)
    BY <1>1, <1>4, <2>1, StaysAlike
  <2> QED BY <2>2 DEF x
<1> HIDE DEF M
<1> QED BY <1>2, <1>3, <1>4, BlocksReplaced

LEMMA StealFromSame ==
  ASSUME BodyInv, BodyInv', CacheCoherent, pc # "retain", pc' # "retain",
         UNCHANGED <<locals, retType>>, NEW arity,
         NEW c \in BlockIds, NEW e \in DOMAIN blocks[c].term.succs,
         AlwaysExits(blocks[c].term, e), NEW t, t = blocks[c].term.succs[e],
         SinglePredecessor(t), blocks' = Steal(blocks, t, c)
  PROVE  DoesTheSame(arity, AsIs, AsIs')
<1>1. /\ Edges \subseteq BlockIds
      /\ \A b \in BlockIds : /\ blocks[b] \in BlockSet(DOMAIN locals, Edges, Arity)
                             /\ blocks[b].stmts \in Seq(StmtSet(DOMAIN locals, Arity))
                             /\ blocks[b].term \in TermSet(DOMAIN locals, Edges)
  BY BodyIs DEF Edges
<1>2. t \in Edges
  BY <1>1, SuccessorsAreThere
<1>3. CASE t = c
  <2>1. /\ blocks[c].stmts \in Seq(StmtSet(DOMAIN locals, Arity))
        /\ blocks[c] = [stmts |-> blocks[c].stmts, term |-> blocks[c].term]
    BY <1>1 DEF BlockSet
  <2>2. <<>> \o blocks[c].stmts = blocks[c].stmts
    BY <2>1
  <2>3. Block(<<>> \o blocks[c].stmts, blocks[c].term) = blocks[c]
    BY <2>1, <2>2 DEF Block
  <2>4. DOMAIN blocks' = BlockIds /\ \A b \in BlockIds : blocks'[b] = blocks[b]
    BY <1>3, <2>3 DEF Steal, BlockIds
  <2> QED BY <2>4, UnchangedSame
<1>4. CASE t # c
  <2>1. PredecessorsOf = Predecessors(blocks)
    <3>1. cache = {} \/ cache = {Predecessors(blocks)}
      BY DEF CacheCoherent
    <3> QED BY <3>1 DEF PredecessorsOf
  <2>2. <<c, e>> \in Predecessors(blocks)[t]
    BY <1>1, <1>2, EdgesArePredecessors
  <2>3. Predecessors(blocks)[t] = {<<c, e>>}
    BY <2>1, <2>2 DEF SinglePredecessor
  <2> QED BY <1>2, <1>4, <2>3, StealSame
<1> QED BY <1>3, <1>4

LEMMA SimplifySame ==
  ASSUME BodyInv, BodyInv', CacheCoherent, RunSimplify, NEW arity
  PROVE  DoesTheSame(arity, AsIs, AsIs')
<1>1. UNCHANGED <<locals, retType>>
  BY DEF RunSimplify
<1>2. pc # "retain" /\ pc' # "retain"
  BY DEF RunSimplify, SimplifyStep, RemoveNoopsFirst, VisitGoto, VisitSwitch, VisitOther, SweepAgain,
         RemoveNoopsLast, AtBlock, NextBlock
<1>3. CASE RemoveNoopsFirst \/ RemoveNoopsLast
  <2>1. blocks' = [b \in BlockIds |-> RemoveNoops(blocks[b])]
    BY <1>3 DEF RemoveNoopsFirst, RemoveNoopsLast, BlocksMut, BlocksMutDontDirty
  <2> QED BY <1>1, <1>2, <2>1, RemoveNoopsSame
<1>4. CASE UNCHANGED blocks
  BY <1>1, <1>2, <1>4, UnchangedSame DEF BlockIds
<1>5. CASE VisitGoto /\ blocks' # blocks
  <2> DEFINE t == blocks[current].term.succs[1]
  <2>1. /\ current \in BlockIds /\ blocks[current].term.kind = "goto"
        /\ SinglePredecessor(t) /\ blocks' = Steal(blocks, t, current)
    BY <1>5 DEF VisitGoto, AtBlock, StealFrom, BlocksMut
  <2>2. blocks[current].term \in TermSet(DOMAIN locals, Edges)
    BY <1>2, <2>1, BodyIs
  <2>3. 1 \in DOMAIN blocks[current].term.succs
    BY <2>1, <2>2 DEF TermSet
  <2>4. AlwaysExits(blocks[current].term, 1)
    BY <2>1 DEF AlwaysExits
  <2> QED BY <1>1, <1>2, <2>1, <2>3, <2>4, StealFromSame
<1>6. CASE VisitSwitch /\ StealsTaken
  <2> DEFINE x == blocks[current].term
             e == BranchForValue(x, x.on.value)
  <2>1. /\ current \in BlockIds /\ x.kind = "switch" /\ x.on.kind = "scalar"
        /\ SinglePredecessor(x.succs[e]) /\ blocks' = Steal(blocks, x.succs[e], current)
    BY <1>6 DEF VisitSwitch, AtBlock, StealFrom, BlocksMut, StealsTaken, TakenTarget
  <2>2. x \in TermSet(DOMAIN locals, Edges)
    BY <1>2, <2>1, BodyIs
  <2>3. e \in DOMAIN x.succs
    BY <2>1, <2>2, BranchIsThere DEF TermSet
  <2>4. AlwaysExits(x, e)
    BY <2>1 DEF AlwaysExits
  <2> HIDE DEF e
  <2> QED BY <1>1, <1>2, <2>1, <2>3, <2>4, StealFromSame
<1>7. CASE VisitSwitch /\ ~StealsTaken
  BY <1>1, <1>2, <1>7, SkipSame DEF VisitSwitch, AtBlock, BlocksMut
<1>8. CASE VisitOther \/ SweepAgain
  BY <1>4, <1>8 DEF VisitOther, SweepAgain
<1> QED BY <1>3, <1>4, <1>5, <1>6, <1>7, <1>8 DEF RunSimplify, SimplifyStep

-----------------------------------------------------------------------------
(* remove-unreachable.                                                     *)

(* The block with number k among those that are kept is the one of which k *)
(* are before it.                                                          *)
LEMMA InOrderFinds ==
  ASSUME NEW n \in Nat, NEW S, S \subseteq 0 .. n - 1, NEW b \in S
  PROVE  /\ Cardinality(Below(S, b)) \in DOMAIN InOrder(S)
         /\ InOrder(S)[Cardinality(Below(S, b))] = b
<1> DEFINE k == Cardinality(Below(S, b))
           d == InOrder(S)[k]
<1>1. /\ IsFiniteSet(S) /\ S \subseteq Int /\ Cardinality(S) \in Nat
      /\ Cardinality(Below(S, n)) = Cardinality(S)
  BY BelowEnds
<1>2. k \in Nat /\ k < Cardinality(S)
  <2>1. b < n /\ n \in Int
    OBVIOUS
  <2> QED BY <1>1, <2>1, BelowIncreases, BelowIsFinite
<1>3. k \in DOMAIN InOrder(S)
  <2>1. DOMAIN InOrder(S) = 0 .. Cardinality(S) - 1
    BY InOrderLists
  <2> HIDE DEF k
  <2> QED BY <1>1, <1>2, <2>1
<1>4. d \in S /\ Cardinality(Below(S, d)) = k
  BY <1>3, InOrderLists
<1> HIDE DEF d
<1>5. b \in Int /\ d \in Int
  BY <1>1, <1>4
<1>6. b < d => k < k
  BY <1>1, <1>4, <1>5, BelowIncreases
<1>7. d < b => k < k
  BY <1>1, <1>4, <1>5, BelowIncreases
<1>8. b = d
  BY <1>2, <1>5, <1>6, <1>7
<1> QED BY <1>3, <1>8 DEF d

LEMMA RewriteEdgesSame ==
  ASSUME BodyInv, BodyInv', RewriteEdges, UNCHANGED <<locals, retType, program>>, NEW arity
  PROVE  DoesTheSame(arity, AsIs, Meant')
<1> DEFINE L == DOMAIN locals
           S == seen
           new == Meant'
           M == Equal(AsIs, new)
           g == [b \in seen |-> Cardinality(Below(seen, b))]
           C == 1 .. Cardinality(seen) - 1
<1>1. /\ pc = "number" /\ pc' = "retain" /\ numbered \notin BlockIds /\ UNCHANGED <<seen, blockMap>>
      /\ blocks' = [b \in BlockIds |->
                      [blocks[b] EXCEPT !.term = Retarget(@, [c \in BlockIds |-> Renumber(c)])]]
  BY DEF RewriteEdges, BlocksMutDontDirty, unreachableVars
<1>2. /\ seen \subseteq BlockIds /\ ENTRY \in seen
      /\ \A b \in seen : Leads(b) \subseteq seen
      /\ numbered \in 0 .. Count(blocks) /\ DOMAIN blockMap = BlockIds
      /\ \A b \in BlockIds : blockMap[b] = IF b < numbered THEN NewNumber(b) ELSE Dropped
  BY <1>1 DEF BodyInv, NumberInv
<1>3. Count(blocks) \in Nat /\ BlockIds = 0 .. Count(blocks) - 1 /\ L \subseteq Nat
  BY <1>1, BodyIs, NumberedCounts DEF Count, BlockIds
<1>4. numbered = Count(blocks)
  BY <1>1, <1>2, <1>3
<1>5. \A b \in BlockIds : blockMap[b] = NewNumber(b)
  BY <1>2, <1>3, <1>4
<1>6. \A b \in seen : g[b] \in Nat /\ Renumber(b) = g[b] /\ g[b] \in DOMAIN InOrder(seen) /\ InOrder(seen)[g[b]] = b
  <2> SUFFICES ASSUME NEW b \in seen
               PROVE  g[b] \in Nat /\ Renumber(b) = g[b] /\ g[b] \in DOMAIN InOrder(seen) /\ InOrder(seen)[g[b]] = b
    OBVIOUS
  <2>1. g[b] = Cardinality(Below(seen, b))
    OBVIOUS
  <2>2. Cardinality(Below(seen, b)) \in 0 .. Cardinality(seen) - 1
    BY <1>2, <1>3, NewNumbers
  <2>3. g[b] \in Nat /\ g[b] # Dropped
    BY <2>1, <2>2 DEF Dropped
  <2>4. g[b] \in DOMAIN InOrder(seen) /\ InOrder(seen)[g[b]] = b
    BY <1>2, <1>3, <2>1, InOrderFinds
  <2>5. blockMap[b] = g[b]
    BY <1>2, <1>5, <2>1 DEF NewNumber
  <2> QED BY <2>3, <2>4, <2>5 DEF Renumber
<1>7. g[ENTRY] = ENTRY
  <2>1. Cardinality(Below(seen, 0)) = 0
    BY <1>2, <1>3, BelowEnds
  <2> QED BY <1>2, <2>1 DEF ENTRY
<1>8. /\ \A b \in seen : blocks'[b] \in BlockSet(L, C, Arity)
      /\ Retained' = seen
  <2>1. RetainInv' /\ Arity' = Arity /\ L' = L
    BY DEF BodyInv, Arity
  <2> QED BY <1>1, <2>1 DEF RetainInv
<1>9. \A b \in seen : new.blocks[g[b]] = blocks'[b]
  <2>1. Meant'.blocks = Remaining'
    BY <1>1 DEF Meant
  <2>2. Remaining' = [k \in DOMAIN InOrder(Retained') |-> blocks'[InOrder(Retained')[k]]]
    BY DEF Remaining, InOrder
  <2>3. Meant'.blocks = [k \in DOMAIN InOrder(seen) |-> blocks'[InOrder(seen)[k]]]
    BY <1>8, <2>1, <2>2
  <2> HIDE DEF g
  <2> QED BY <1>6, <2>3
<1>10. Types(new) = Types(AsIs) /\ L \subseteq DOMAIN AsIs.locals /\ AsIs.blocks = blocks
  <2>1. Meant'.locals = locals /\ Meant'.ret = retType
    BY <1>1 DEF Meant
  <2> QED BY <2>1 DEF Types, Bases, AsIs
<1>11. ASSUME NEW b \in seen
       PROVE  BlocksAlike(M, AsIs, new, blocks[b], blocks'[b], L, S, g)
  <2> DEFINE x == blocks[b]
             y == blocks'[b]
  <2>1. x \in BlockSet(L, Edges, Arity) /\ b \in BlockIds /\ x.term \in TermSet(L, Edges)
    BY <1>1, <1>2, BodyIs
  <2>2. /\ y.stmts = x.stmts
        /\ y.term = Retarget(x.term, [c \in BlockIds |-> Renumber(c)])
    BY <1>1, <2>1 DEF BlockSet
  <2>3. /\ y.term.kind = x.term.kind /\ y.term.on = x.term.on /\ y.term.values = x.term.values
        /\ \A e \in DOMAIN x.term.succs :
             y.term.succs[e] = [c \in BlockIds |-> Renumber(c)][x.term.succs[e]]
    BY <2>2 DEF Retarget, Terminator
  <2>4. \A e \in DOMAIN x.term.succs : x.term.succs[e] \in seen /\ x.term.succs[e] \in BlockIds
    BY <1>2 DEF Leads
  <2>5. \A e \in DOMAIN x.term.succs : y.term.succs[e] = g[x.term.succs[e]]
    <3> HIDE DEF x, y, g
    <3> QED BY <1>6, <2>3, <2>4
  <2>6. x.term.succs \in Seq(S)
    <3>1. x.term.succs \in Seq(Edges)
      BY <2>1 DEF TermSet
    <3> QED BY <2>4, <3>1
  <2>7. x.term \in TermSet(L, S)
    <3> HIDE DEF x
    <3> QED BY <2>1, <2>6 DEF TermSet
  <2>8. x \in BlockSet(L, S, Arity)
    BY <2>1, <2>7 DEF BlockSet
  <2>9. y \in BlockSet(L, C, Arity)
    BY <1>8
  <2> HIDE DEF x, y, g, S, C, new
  <2>10. BlocksAlike(M, AsIs, new, x, y, L, S, g)
    BY <1>3, <1>10, <2>2, <2>3, <2>5, <2>8, <2>9, BlockStaysAlike
  <2> QED BY <2>10 DEF x, y
<1>12. M \in SUBSET (Memories(Types(AsIs)) \X Memories(Types(new)))
  BY EqualIsARelation
<1>13. \A args \in [1 .. arity -> Values], heap \in Heaps :
         <<Entered(AsIs, args, heap).mem, Entered(new, args, heap).mem>> \in M
  BY <1>10, EntersEqual
<1>14. S \subseteq Nat /\ S \in SUBSET S /\ ENTRY \in S /\ \A b \in S : g[b] \in Nat
  BY <1>2, <1>3, <1>6
<1> HIDE DEF g, L, M, new
<1>15. \A b \in S : BlocksAlike(M, AsIs, new, AsIs.blocks[b], new.blocks[g[b]], L, S, g)
  BY <1>9, <1>10, <1>11
<1> HIDE DEF S
<1>16. DoesTheSame(arity, AsIs, new)
  BY <1>7, <1>12, <1>13, <1>14, <1>15, SameByBlocks DEF S
<1> QED BY <1>16 DEF new

LEMMA UnreachableSame ==
  ASSUME BodyInv, BodyInv', RunUnreachable, NEW arity
  PROVE  DoesTheSame(arity, Meant, Meant')
<1>1. UNCHANGED <<locals, retType, program, running>>
  BY DEF RunUnreachable, managerVars
<1>2. CASE StartWalk \/ Walk \/ EndWalk \/ Number
  <2>1. UNCHANGED blocks /\ pc \notin {"retain", "compact"} /\ pc' \notin {"retain", "compact"}
    BY <1>2 DEF StartWalk, Walk, EndWalk, Number
  <2>2. DoesTheSame(arity, AsIs, AsIs')
    BY <1>1, <2>1, UnchangedSame DEF BlockIds
  <2> QED BY <2>1, <2>2, AsIsMeant
<1>3. CASE RewriteEdges
  <2>1. pc \notin {"retain", "compact"}
    BY <1>3 DEF RewriteEdges
  <2> QED BY <1>1, <1>3, <2>1, AsIsMeant, RewriteEdgesSame
<1>4. CASE Retain
  <2>1. pc = "retain" /\ pc' = "done" /\ blocks' = Remaining
    BY <1>4 DEF Retain, BlocksMut, Remaining
  <2>2. Meant' = AsIs' /\ Meant' = Meant
    BY <1>1, <2>1 DEF Meant, AsIs
  <2>3. Shaped(AsIs', Arity')
    <3>1. BodyOK(WorkedOn, running, Arity)'
      BY <2>1 DEF BodyInv, BodyStaysNumbered, Arity
    <3>2. /\ Numbered(blocks') /\ Numbered(locals') /\ ENTRY \in DOMAIN blocks'
          /\ \A b \in DOMAIN blocks' :
               blocks'[b] \in BlockSet(DOMAIN locals', DOMAIN blocks' \ {ENTRY}, Arity')
      BY <3>1 DEF BodyOK, WorkedOn, Numbered, Arity
    <3>3. DOMAIN blocks' \subseteq Nat /\ DOMAIN locals' \subseteq Nat
      BY <3>2, NumberedCounts
    <3> QED BY <3>2, <3>3 DEF Shaped, AsIs
  <2>4. DoesTheSame(arity, AsIs', AsIs')
    BY <2>3, Reflexive
  <2> QED BY <2>2, <2>4
<1> QED BY <1>2, <1>3, <1>4 DEF RunUnreachable, UnreachableStep

-----------------------------------------------------------------------------
(* remove-unused-locals.                                                   *)

BlockRenamed(x, y, f) ==
  /\ DOMAIN y.stmts = DOMAIN x.stmts
  /\ \A i \in DOMAIN x.stmts : StmtRenamed(x.stmts[i], y.stmts[i], f)
  /\ TermRenamed(x.term, y.term, f) /\ y.term.succs = x.term.succs

(* A block whose locals are all in D is found by what D holds.             *)
LEMMA PlacesIn ==
  ASSUME NEW L, L \subseteq Nat, NEW p \in PlaceSet(L), NEW D, ReturnPlace \in D, PlaceLocals(p) \subseteq D
  PROVE  ReadIn(p, D) /\ WrittenIn(p, D, D)
<1>1. p.proj = "index" => p.by \in L /\ p.by \in PlaceLocals(p)
  BY DEF PlaceSet, PlaceLocals
<1>2. IsLocal(p.base) => p.base \in PlaceLocals(p)
  BY DEF PlaceLocals
<1>3. p.base \in D
  BY <1>2 DEF IsLocal
<1>4. \A l \in L : IsLocal(l)
  BY DEF IsLocal, ReturnPlace
<1> QED BY <1>1, <1>3, <1>4 DEF ReadIn, WrittenIn

LEMMA BlockIn ==
  ASSUME NEW L, L \subseteq Nat, NEW B, NEW table, NEW x \in BlockSet(L, B, table),
         NEW D, ReturnPlace \in D, BlockLocals(x) \subseteq D
  PROVE  (\A i \in DOMAIN x.stmts : StmtIn(x.stmts[i], D, D)) /\ OperandIn(x.term.on, D)
<1>1. \A p \in BlockPlaces(x) : ReadIn(p, D) /\ WrittenIn(p, D, D)
  <2> SUFFICES ASSUME NEW p \in BlockPlaces(x)
               PROVE  ReadIn(p, D) /\ WrittenIn(p, D, D)
    OBVIOUS
  <2>1. p \in PlaceSet(L)
    BY PlacesOfBlock
  <2>2. PlaceLocals(p) \subseteq D
    BY DEF BlockLocals
  <2> QED BY <2>1, <2>2, PlacesIn
<1>2. ASSUME NEW i \in DOMAIN x.stmts
      PROVE  StmtIn(x.stmts[i], D, D)
  <2> DEFINE s == x.stmts[i]
  <2>1. \A p \in StmtPlaces(s) : ReadIn(p, D) /\ WrittenIn(p, D, D)
    BY <1>1 DEF BlockPlaces
  <2> HIDE DEF s
  <2>2. ASSUME s.kind = "print"
        PROVE  OperandIn(s.op, D)
    BY <2>1, <2>2 DEF OperandIn, StmtPlaces, OperandPlaces
  <2>3. ASSUME s.kind = "assign"
        PROVE  /\ WrittenIn(s.place, D, D)
               /\ \A k \in DOMAIN s.rv.args : OperandIn(s.rv.args[k], D)
               /\ \A k \in DOMAIN s.rv.places : ReadIn(s.rv.places[k], D)
    <3>1. StmtPlaces(s) = {s.place} \cup {s.rv.places[k] : k \in DOMAIN s.rv.places} \cup
                            UNION {OperandPlaces(s.rv.args[k]) : k \in DOMAIN s.rv.args}
      BY <2>3 DEF StmtPlaces
    <3>2. s.place \in StmtPlaces(s) /\ \A k \in DOMAIN s.rv.places : s.rv.places[k] \in StmtPlaces(s)
      BY <3>1
    <3>3. \A k \in DOMAIN s.rv.args : OperandPlaces(s.rv.args[k]) \subseteq StmtPlaces(s)
      BY <3>1
    <3> QED BY <2>1, <3>2, <3>3 DEF OperandIn, OperandPlaces
  <2> QED BY <2>2, <2>3 DEF StmtIn, s
<1>3. OperandIn(x.term.on, D)
  BY <1>1 DEF OperandIn, BlockPlaces, OperandPlaces
<1> QED BY <1>2, <1>3

(* Two bodies of which one is the other over other locals.                 *)
LEMMA RenamedSame ==
  ASSUME NEW arity, NEW table, NEW old, NEW new, NEW S, S \subseteq Nat, ENTRY \in S,
         NEW L, L \subseteq Nat, NEW D, ReturnPlace \in D, NEW f, Renames(old, new, D, f),
         \A b \in S : /\ old.blocks[b] \in BlockSet(L, S \ {ENTRY}, table)
                      /\ new.blocks[b].term \in TermSet(Nat, S \ {ENTRY})
                      /\ BlockLocals(old.blocks[b]) \subseteq D
                      /\ BlockRenamed(old.blocks[b], new.blocks[b], f),
         KeepsParams(arity, D, f)
  PROVE  DoesTheSame(arity, old, new)
<1> DEFINE M == Agreeing(old, new, D, f)
           B == S \ {ENTRY}
           g == [b \in S |-> b]
<1>1. M \in SUBSET (Memories(Types(old)) \X Memories(Types(new)))
  BY EqualIsARelation
<1>2. \A args \in [1 .. arity -> Values], heap \in Heaps :
        <<Entered(old, args, heap).mem, Entered(new, args, heap).mem>> \in M
  BY EnteredAgreeing
<1>3. ASSUME NEW b \in S
      PROVE  BlocksAlike(M, old, new, old.blocks[b], new.blocks[g[b]], L, B, g)
  <2> DEFINE x == old.blocks[b]
             y == new.blocks[b]
  <2>1. /\ x \in BlockSet(L, B, table) /\ y.term \in TermSet(Nat, B)
        /\ BlockLocals(x) \subseteq D /\ BlockRenamed(x, y, f) /\ g[b] = b
    OBVIOUS
  <2> HIDE DEF x, y
  <2>2. /\ x.stmts \in Seq(StmtSet(L, table)) /\ x.term \in TermSet(L, B) /\ y.term.succs \in Seq(B)
        /\ \A i \in DOMAIN x.stmts : x.stmts[i] \in StmtSet(L, table)
    BY <2>1 DEF BlockSet, TermSet
  <2>3. (\A i \in DOMAIN x.stmts : StmtIn(x.stmts[i], D, D)) /\ OperandIn(x.term.on, D)
    BY <2>1, BlockIn
  <2>4. /\ DOMAIN y.stmts = DOMAIN x.stmts
        /\ \A i \in DOMAIN x.stmts : StmtRenamed(x.stmts[i], y.stmts[i], f)
        /\ TermRenamed(x.term, y.term, f) /\ y.term.succs = x.term.succs
    BY <2>1 DEF BlockRenamed
  <2>5. ASSUME NEW i \in DOMAIN x.stmts, NEW m, NEW w, <<m, w>> \in M
        PROVE  StmtsAlike(M, old, new, x.stmts[i], y.stmts[i], m, w)
    BY <2>2, <2>3, <2>4, <2>5, RenamedAlike
  <2>6. ASSUME NEW m, NEW w, <<m, w>> \in M
        PROVE  TermsAlike(old, new, x.term, y.term, m, w)
    BY <2>2, <2>3, <2>4, <2>6, RenamedEnds
  <2>7. \A e \in DOMAIN x.term.succs : y.term.succs[e] = g[x.term.succs[e]]
    <3>1. \A e \in DOMAIN x.term.succs : x.term.succs[e] \in B
      BY <2>2, SuccessorsAreThere
    <3> QED BY <2>4, <3>1
  <2> HIDE DEF M, B, g
  <2>8. BlocksAlike(M, old, new, x, y, L, B, g)
    BY <2>2, <2>4, <2>5, <2>6, <2>7 DEF BlocksAlike
  <2> QED BY <2>1, <2>8 DEF x, y
<1>4. B \in SUBSET S /\ (\A b \in S : g[b] \in Nat) /\ g[ENTRY] = ENTRY
  OBVIOUS
<1> HIDE DEF M, B, g
<1> QED BY <1>1, <1>2, <1>3, <1>4, SameByBlocks

(* Every place renumbered.                                                 *)
LEMMA OperandIsRenamed ==
  ASSUME NEW L, NEW op \in OperandSet(L), NEW g, NEW f,
         \A p \in OperandPlaces(op) : g[p] = RenamePlace(p, f)
  PROVE  OperandRenamed(op, MapOperand(op, g), f)
<1>1. op.kind = "load" => g[op.place] = RenamePlace(op.place, f)
  BY DEF OperandPlaces
<1>2. op \in [kind : {"load", "scalar", "zst"}, place : PlaceSet(L), value : Int]
  BY DEF OperandSet
<1> QED BY <1>1, <1>2 DEF OperandRenamed, MapOperand

LEMMA StmtIsRenamed ==
  ASSUME NEW L, NEW table, NEW s \in StmtSet(L, table), NEW g, NEW f,
         \A p \in StmtPlaces(s) : g[p] = RenamePlace(p, f)
  PROVE  StmtRenamed(s, MapStmt(s, g), f)
<1>1. CASE s = Noop
  BY <1>1 DEF StmtRenamed, MapStmt, Noop
<1>2. CASE s \in [kind : {"print"}, op : OperandSet(L)]
  <2>1. \A p \in OperandPlaces(s.op) : g[p] = RenamePlace(p, f)
    BY <1>2 DEF StmtPlaces
  <2>2. OperandRenamed(s.op, MapOperand(s.op, g), f)
    BY <1>2, <2>1, OperandIsRenamed
  <2>3. MapStmt(s, g) = PrintStmt(MapOperand(s.op, g)) /\ s.kind = "print"
    BY <1>2 DEF MapStmt
  <2> QED BY <2>2, <2>3 DEF StmtRenamed, PrintStmt
<1>3. CASE s \in [kind : {"assign"}, place : PlaceSet(L), rv : RvalueSet(L, table)]
  <2>1. s.kind = "assign" /\ \A i \in DOMAIN s.rv.args : s.rv.args[i] \in OperandSet(L)
    BY <1>3 DEF RvalueSet
  <2>2. StmtPlaces(s) = {s.place} \cup {s.rv.places[k] : k \in DOMAIN s.rv.places} \cup
                          UNION {OperandPlaces(s.rv.args[k]) : k \in DOMAIN s.rv.args}
    BY <2>1 DEF StmtPlaces
  <2>3. /\ g[s.place] = RenamePlace(s.place, f)
        /\ \A k \in DOMAIN s.rv.places : g[s.rv.places[k]] = RenamePlace(s.rv.places[k], f)
    BY <2>2
  <2>4. \A k \in DOMAIN s.rv.args : OperandRenamed(s.rv.args[k], MapOperand(s.rv.args[k], g), f)
    <3> SUFFICES ASSUME NEW k \in DOMAIN s.rv.args
                 PROVE  OperandRenamed(s.rv.args[k], MapOperand(s.rv.args[k], g), f)
      OBVIOUS
    <3>1. \A p \in OperandPlaces(s.rv.args[k]) : g[p] = RenamePlace(p, f)
      BY <2>2
    <3> QED BY <2>1, <3>1, OperandIsRenamed
  <2> DEFINE y == MapStmt(s, g)
  <2>5. /\ y.kind = "assign" /\ y.place = g[s.place]
        /\ y.rv.kind = s.rv.kind /\ y.rv.callee = s.rv.callee
        /\ y.rv.args = [i \in DOMAIN s.rv.args |-> MapOperand(s.rv.args[i], g)]
        /\ y.rv.places = [i \in DOMAIN s.rv.places |-> g[s.rv.places[i]]]
    BY <2>1 DEF MapStmt, Assign, Rvalue
  <2> HIDE DEF y
  <2>6. StmtRenamed(s, y, f)
    BY <2>1, <2>3, <2>4, <2>5 DEF StmtRenamed
  <2> QED BY <2>6 DEF y
<1> QED BY <1>1, <1>2, <1>3 DEF StmtSet

LEMMA BlockIsRenamed ==
  ASSUME NEW L, NEW B, NEW table, NEW x \in BlockSet(L, B, table), NEW f
  PROVE  BlockRenamed(x, RenameBlock(x, f), f)
<1> DEFINE g == [p \in BlockPlaces(x) |-> RenamePlace(p, f)]
           y == RenameBlock(x, f)
<1>1. /\ y.stmts = [i \in DOMAIN x.stmts |-> MapStmt(x.stmts[i], g)]
      /\ y.term = On(x.term, MapOperand(x.term.on, g))
  BY DEF RenameBlock, MapPlaces, Block
<1>2. \A p \in BlockPlaces(x) : g[p] = RenamePlace(p, f)
  OBVIOUS
<1>3. /\ \A i \in DOMAIN x.stmts : x.stmts[i] \in StmtSet(L, table) /\ StmtPlaces(x.stmts[i]) \subseteq BlockPlaces(x)
      /\ x.term.on \in OperandSet(L) /\ OperandPlaces(x.term.on) \subseteq BlockPlaces(x)
  BY DEF BlockSet, TermSet, BlockPlaces
<1> HIDE DEF g, y
<1>4. \A i \in DOMAIN x.stmts : StmtRenamed(x.stmts[i], MapStmt(x.stmts[i], g), f)
  BY <1>2, <1>3, StmtIsRenamed
<1>5. OperandRenamed(x.term.on, MapOperand(x.term.on, g), f)
  BY <1>2, <1>3, OperandIsRenamed
<1>6. /\ y.term.kind = x.term.kind /\ y.term.values = x.term.values /\ y.term.succs = x.term.succs
      /\ y.term.on = MapOperand(x.term.on, g)
  BY <1>1 DEF On, Terminator
<1>7. BlockRenamed(x, y, f)
  BY <1>1, <1>4, <1>5, <1>6 DEF BlockRenamed, TermRenamed
<1> QED BY <1>7 DEF y

(* A local that is kept gets the number of those that are kept before it.  *)
NumbersInv ==
  pc = "compact" =>
    /\ nextLocal = Cardinality(Below(found, compacted))
    /\ \A l \in found : l < compacted => localMap[l] = Cardinality(Below(found, l))

LEMMA NumbersStart == Init => NumbersInv
BY DEF Init, NumbersInv

LEMMA NumbersStep ==
  ASSUME BodyInv, BodyInv', NumbersInv, [Next]_vars
  PROVE  NumbersInv'
<1>1. CASE RunUnused /\ FindLocals
  <2>1. compacted' = 0 /\ nextLocal' = 0 /\ pc' = "compact"
    BY <1>1 DEF FindLocals
  <2>2. found' \subseteq DOMAIN locals' /\ pc' # "retain"
    BY <2>1 DEF BodyInv, CompactInv
  <2>3. UNCHANGED locals /\ pc # "retain"
    BY <1>1 DEF FindLocals
  <2>4. DOMAIN locals = 0 .. Count(locals) - 1 /\ Count(locals) \in Nat
    BY <2>3, LocalsAre
  <2>5. Cardinality(Below(found', 0)) = 0
    BY <2>2, <2>3, <2>4, BelowEnds
  <2>6. \A l \in found' : ~(l < 0)
    BY <2>2, <2>3, <2>4
  <2>7. nextLocal' = Cardinality(Below(found', compacted'))
    BY <2>1, <2>5
  <2> QED BY <2>1, <2>6, <2>7 DEF NumbersInv, Below
<1>2. CASE RunUnused /\ Compact
  <2>1. /\ pc = "compact" /\ compacted \in DOMAIN locals /\ UNCHANGED found
        /\ compacted' = compacted + 1
        /\ IF compacted \in found
           THEN localMap' = [localMap EXCEPT ![compacted] = nextLocal] /\ nextLocal' = nextLocal + 1
           ELSE UNCHANGED <<localMap, nextLocal>>
    BY <1>2 DEF Compact
  <2>2. /\ DOMAIN locals = 0 .. Count(locals) - 1 /\ Count(locals) \in Nat
        /\ found \subseteq DOMAIN locals /\ DOMAIN localMap = DOMAIN locals
    BY <2>1, LocalsAre DEF BodyInv, CompactInv
  <2>3. IsFiniteSet(found) /\ found \subseteq Int
    BY <2>2, BelowEnds
  <2>4. /\ nextLocal = Cardinality(Below(found, compacted))
        /\ \A l \in found : l < compacted => localMap[l] = Cardinality(Below(found, l))
    BY <2>1 DEF NumbersInv
  <2>5. compacted \in Int
    BY <2>1, <2>2
  <2>6. nextLocal' = Cardinality(Below(found, compacted + 1))
    BY <2>1, <2>3, <2>4, <2>5, BelowNext
  <2>7. ASSUME NEW l \in found, l < compacted + 1
        PROVE  localMap'[l] = Cardinality(Below(found, l))
    <3>1. l \in DOMAIN localMap /\ l \in Int /\ compacted \in DOMAIN localMap
      BY <2>1, <2>2, <2>3
    <3>2. CASE l = compacted
      <4>1. localMap'[l] = nextLocal
        BY <2>1, <2>7, <3>1, <3>2
      <4> QED BY <2>4, <3>2, <4>1
    <3>3. CASE l # compacted
      <4>1. l < compacted
        BY <2>5, <2>7, <3>1, <3>3
      <4>2. localMap'[l] = localMap[l]
        BY <2>1, <3>1, <3>3
      <4> QED BY <2>4, <4>1, <4>2
    <3> QED BY <3>2, <3>3
  <2>8. nextLocal' = Cardinality(Below(found', compacted'))
    BY <2>1, <2>6
  <2>9. \A l \in found' : l < compacted' => localMap'[l] = Cardinality(Below(found', l))
    BY <2>1, <2>7
  <2> QED BY <2>8, <2>9 DEF NumbersInv, Below
<1>3. CASE pc' # "compact"
  BY <1>3 DEF NumbersInv
<1>4. CASE UNCHANGED vars
  <2>1. UNCHANGED <<pc, found, compacted, nextLocal, localMap>>
    BY <1>4 DEF vars, passVars, unusedVars
  <2> QED BY <2>1 DEF NumbersInv, Below
<1>5. CASE NextPass \/ NextBody \/ RunStmtPass \/ RunSimplify \/ RunInline \/ RunUnreachable
  <2>1. pc' # "compact"
    <3>1. CASE NextPass
      <4>1. \A k \in 1 .. Len(PassList) : PassList[k] # "compact"
        BY DEF PassList
      <4>2. passIndex \in Nat /\ passIndex < Len(PassList)
        BY <3>1 DEF NextPass, BodyInv, BodiesInv
      <4>3. passIndex + 1 \in 1 .. Len(PassList)
        BY <4>2 DEF PassList
      <4> QED BY <3>1, <4>1, <4>3 DEF NextPass
    <3>2. CASE NextBody
      BY <3>2 DEF NextBody
    <3>3. CASE RunStmtPass
      BY <3>3 DEF RunStmtPass, StmtStep, RemoveZst, DeadStoreElim
    <3>4. CASE RunSimplify
      BY <3>4, SimplifyKeeps
    <3>5. CASE RunInline
      BY <3>5, InlineKeeps
    <3>6. CASE RunUnreachable
      BY <3>6, UnreachableKeeps
    <3> QED BY <1>5, <3>1, <3>2, <3>3, <3>4, <3>5, <3>6
  <2> QED BY <1>3, <2>1
<1>6. CASE RunUnused /\ Replace
  BY <1>3, <1>6, ReplaceKeeps DEF RunUnused, managerVars
<1>7. CASE RunUnused
  BY <1>1, <1>2, <1>6, <1>7 DEF RunUnused, UnusedStep
<1> QED BY <1>4, <1>5, <1>7 DEF Next, Step, Stopped

(* A block, that blocks about more locals are.                             *)
LEMMA TermsOverMore ==
  ASSUME NEW L, NEW M, L \subseteq M, NEW B, NEW t \in TermSet(L, B)
  PROVE  t \in TermSet(M, B)
<1>1. PlaceSet(L) \subseteq PlaceSet(M)
  BY DEF PlaceSet
<1>2. OperandSet(L) \subseteq OperandSet(M)
  BY <1>1 DEF OperandSet
<1> QED BY <1>2 DEF TermSet

(* A block stays what it is under the numbers its locals have.             *)
LEMMA BlockStaysRenamed ==
  ASSUME NEW body, NEW L, L \subseteq DOMAIN body.locals, L \subseteq Nat, NEW B, NEW table,
         NEW x \in BlockSet(L, B, table)
  PROVE  BlockRenamed(x, x, Stay(body))
<1>1. /\ \A i \in DOMAIN x.stmts : x.stmts[i] \in StmtSet(L, table)
      /\ x.term.on \in OperandSet(L)
  BY DEF BlockSet, TermSet
<1>2. \A i \in DOMAIN x.stmts : StmtRenamed(x.stmts[i], x.stmts[i], Stay(body))
  BY <1>1, StmtStaysRenamed
<1>3. OperandRenamed(x.term.on, x.term.on, Stay(body))
  BY <1>1, OperandStaysRenamed
<1> QED BY <1>2, <1>3 DEF BlockRenamed, TermRenamed

(* The same blocks, about locals of D that are of the same types.          *)
LEMMA SameOnFound ==
  ASSUME BodyInv, pc # "retain", NEW arity, NEW old, NEW new, NEW D, D \subseteq DOMAIN locals,
         DOMAIN old.locals = DOMAIN locals, DOMAIN new.locals = DOMAIN locals, new.ret = old.ret,
         \A l \in D : new.locals[l] = old.locals[l],
         \A b \in BlockIds : /\ old.blocks[b] = blocks[b] /\ new.blocks[b] = blocks[b]
                             /\ BlockLocals(blocks[b]) \subseteq D
  PROVE  DoesTheSame(arity, old, new)
<1> DEFINE L == DOMAIN locals
           f == Stay(old)
           E == D \cup {ReturnPlace}
<1>1. /\ BlockIds \subseteq Nat /\ ENTRY \in BlockIds /\ L \subseteq Nat /\ Edges = BlockIds \ {ENTRY}
      /\ \A b \in BlockIds : blocks[b] \in BlockSet(L, Edges, Arity)
  BY BodyIs, NumberedCounts DEF Edges, BlockIds
<1>2. /\ E \subseteq Bases(old) /\ E \subseteq Bases(new)
      /\ \A l \in Bases(old) : As(f, l) = l
  BY DEF Bases, As, Stay, IsLocal
<1>3. \A l \in E : Types(new)[l] = Types(old)[l]
  BY <1>2 DEF Types, IsLocal
<1>4. Renames(old, new, E, f)
  <2>1. \A l \in E : As(f, l) = l /\ l \in Bases(new)
    BY <1>2
  <2> HIDE DEF E, f
  <2> QED BY <1>2, <1>3, <2>1 DEF Renames
<1>5. ASSUME NEW b \in BlockIds
      PROVE  /\ old.blocks[b] \in BlockSet(L, Edges, Arity)
             /\ new.blocks[b].term \in TermSet(Nat, Edges)
             /\ BlockLocals(old.blocks[b]) \subseteq E
             /\ BlockRenamed(old.blocks[b], new.blocks[b], f)
  <2>1. blocks[b] \in BlockSet(L, Edges, Arity) /\ blocks[b].term \in TermSet(L, Edges)
    BY <1>1 DEF BlockSet
  <2>2. blocks[b].term \in TermSet(Nat, Edges)
    BY <1>1, <2>1, TermsOverMore
  <2>3. BlockRenamed(blocks[b], blocks[b], f)
    BY <1>1, <2>1, BlockStaysRenamed
  <2> QED BY <2>1, <2>2, <2>3
<1>6. KeepsParams(arity, E, f)
  <2>1. \A l \in E : As(f, l) = l
    BY <1>2
  <2> HIDE DEF E, f
  <2> QED BY <2>1 DEF KeepsParams
<1>7. ReturnPlace \in E
  OBVIOUS
<1> DEFINE S == BlockIds
<1>8. \A b \in S : /\ old.blocks[b] \in BlockSet(L, S \ {ENTRY}, Arity)
                   /\ new.blocks[b].term \in TermSet(Nat, S \ {ENTRY})
                   /\ BlockLocals(old.blocks[b]) \subseteq E
                   /\ BlockRenamed(old.blocks[b], new.blocks[b], f)
  BY <1>1, <1>5
<1>9. S \subseteq Nat /\ ENTRY \in S /\ L \subseteq Nat
  BY <1>1
<1> HIDE DEF L, f, E, S
<1> QED BY <1>4, <1>6, <1>7, <1>8, <1>9, RenamedSame

LEMMA FindLocalsSame ==
  ASSUME BodyInv, RunUnused, FindLocals, NEW arity
  PROVE  DoesTheSame(arity, Meant, Meant')
<1> DEFINE D == DOMAIN locals
<1>1. pc = "unused" /\ pc' = "compact" /\ compacted' = 0 /\ UNCHANGED <<retType, blocks, locals>>
  BY DEF RunUnused, FindLocals
<1>2. DOMAIN locals = 0 .. Count(locals) - 1 /\ Count(locals) \in Nat
  BY <1>1, LocalsAre
<1>3. Meant.blocks = blocks /\ Meant.locals = locals /\ Meant.ret = retType
  BY <1>1 DEF Meant
<1>4. /\ Meant'.blocks = blocks /\ Meant'.ret = retType
      /\ DOMAIN Meant'.locals = D /\ \A l \in D : Meant'.locals[l] = locals[l]
  <2>1. Meant'.blocks = blocks /\ Meant'.ret = retType /\ Meant'.locals = SwappedBack'
    BY <1>1 DEF Meant
  <2>2. SwappedBack' = [l \in D |-> IF l \in found' /\ l < 0 THEN locals[localMap'[l]] ELSE locals[l]]
    BY <1>1 DEF SwappedBack
  <2>3. \A l \in D : ~(l < 0)
    BY <1>2
  <2> QED BY <2>1, <2>2, <2>3
<1>5. \A b \in BlockIds : BlockLocals(blocks[b]) \subseteq D
  <2>1. \A b \in BlockIds : blocks[b] \in BlockSet(D, Edges, Arity)
    BY <1>1, BodyIs
  <2> QED BY <2>1, PlacesOfBlock
<1> QED BY <1>1, <1>3, <1>4, <1>5, SameOnFound

LEMMA CompactSame ==
  ASSUME BodyInv, RunUnused, Compact, NEW arity
  PROVE  DoesTheSame(arity, Meant, Meant')
<1>1. /\ pc = "compact" /\ pc' = "compact" /\ compacted \in DOMAIN locals
      /\ compacted' = compacted + 1 /\ found' = found
      /\ UNCHANGED <<retType, blocks>>
  BY DEF RunUnused, Compact
<1>2. /\ Count(locals) \in Nat /\ DOMAIN locals = 0 .. Count(locals) - 1
      /\ compacted \in Nat /\ nextLocal \in Nat /\ nextLocal <= compacted
      /\ nextLocal \in DOMAIN locals /\ found \subseteq DOMAIN locals
      /\ \A l \in found : l < compacted => localMap[l] \in 0 .. nextLocal - 1
      /\ DOMAIN localMap = DOMAIN locals
      /\ \A b \in BlockIds : BlockLocals(blocks[b]) \subseteq found
  BY <1>1, LocalsAre DEF BodyInv, CompactInv
<1>3. DOMAIN locals' = DOMAIN locals
  BY DEF Compact, Swap
<1>4. /\ Meant.blocks = blocks /\ Meant.ret = retType /\ Meant.locals = SwappedBack
      /\ Meant'.blocks = blocks /\ Meant'.ret = retType /\ Meant'.locals = SwappedBack'
  BY <1>1 DEF Meant
<1>5. DOMAIN Meant.locals = DOMAIN locals /\ DOMAIN Meant'.locals = DOMAIN locals
  BY <1>3, <1>4 DEF SwappedBack
<1>6. \A l \in found : SwappedBack'[l] = SwappedBack[l]
  <2>1. /\ \A l \in found : SwappedBack[l] = IF l < compacted THEN locals[localMap[l]] ELSE locals[l]
        /\ \A l \in found : SwappedBack'[l] = IF l < compacted + 1 THEN locals'[localMap'[l]]
                                                   ELSE locals'[l]
    BY <1>1, <1>2, <1>3 DEF SwappedBack
  <2>2. CASE compacted \notin found
    <3>1. UNCHANGED <<locals, localMap>>
      BY <2>2 DEF Compact
    <3>2. \A l \in found : l < compacted + 1 <=> l < compacted
      BY <1>2, <2>2
    <3> QED BY <2>1, <3>1, <3>2
  <2>3. CASE compacted \in found
    <3>1. /\ locals' = Swap(locals, compacted, nextLocal)
          /\ localMap' = [localMap EXCEPT ![compacted] = nextLocal]
      BY <2>3 DEF Compact
    <3>2. /\ locals'[compacted] = locals[nextLocal]
          /\ locals'[nextLocal] = locals[compacted]
          /\ \A l \in DOMAIN locals \ {compacted, nextLocal} : locals'[l] = locals[l]
      BY <1>1, <1>2, <3>1 DEF Swap
    <3>3. localMap'[compacted] = nextLocal /\ \A l \in found \ {compacted} : localMap'[l] = localMap[l]
      BY <1>1, <1>2, <3>1
    <3>4. ASSUME NEW l \in found
          PROVE  SwappedBack'[l] = SwappedBack[l]
      <4>1. CASE l < compacted
        <5>1. /\ localMap[l] \in DOMAIN locals \ {compacted, nextLocal}
              /\ l # compacted /\ l < compacted + 1
          BY <1>2, <4>1
        <5> QED BY <2>1, <3>2, <3>3, <4>1, <5>1
      <4>2. CASE l = compacted
        BY <1>2, <2>1, <3>2, <3>3, <4>2
      <4>3. CASE l > compacted
        <5>1. ~(l < compacted) /\ ~(l < compacted + 1) /\ l \in DOMAIN locals \ {compacted, nextLocal}
          BY <1>2, <4>3
        <5> QED BY <2>1, <3>2, <5>1
      <4> QED BY <1>2, <4>1, <4>2, <4>3
    <3> QED BY <3>4
  <2> QED BY <2>2, <2>3
<1> QED BY <1>1, <1>2, <1>4, <1>5, <1>6, SameOnFound

(* When every local of the body has its new number, the new body is the    *)
(* old one in those numbers.                                               *)
LEMMA ReplaceSame ==
  ASSUME BodyInv, BodyInv', NumbersInv, RunUnused, Replace
  PROVE  DoesTheSame(Arity[running], Meant, Meant')
<1> DEFINE a == Arity[running]
           L == DOMAIN locals
           f == localMap
           E == found \cup {ReturnPlace}
           old == Meant
           new == Meant'
<1>1. /\ pc = "compact" /\ compacted \notin DOMAIN locals
      /\ UNCHANGED <<running, retType, program>>
  BY DEF RunUnused, Replace, managerVars
<1>2. /\ Count(locals) \in Nat /\ L = 0 .. Count(locals) - 1
      /\ found \subseteq L /\ compacted = Count(locals)
      /\ nextLocal \in 0 .. compacted
      /\ \A l \in found : l < compacted => localMap[l] \in 0 .. nextLocal - 1
      /\ 0 .. a - 1 \subseteq found /\ a \in Nat
      /\ \A b \in BlockIds : BlockLocals(blocks[b]) \subseteq found
  BY <1>1, LocalsAre DEF BodyInv, CompactInv
<1>3. pc' = "done"
  BY <1>1, ReplaceKeeps DEF RunUnused, managerVars
<1>4. /\ blocks' = [b \in BlockIds |-> RenameBlock(blocks[b], localMap)]
      /\ locals' = [l \in {k \in DOMAIN locals : k < KeptCount} |-> locals[l]]
  BY <1>3 DEF Replace, BlocksMut
<1>5. /\ old.blocks = blocks /\ old.ret = retType /\ old.locals = SwappedBack
      /\ new.blocks = blocks' /\ new.ret = retType /\ new.locals = locals'
  BY <1>1, <1>3 DEF Meant
<1>6. \A l \in found : localMap[l] = Cardinality(Below(found, l)) /\ l \in Int /\ l < compacted
  BY <1>1, <1>2 DEF NumbersInv
<1>7. IsFiniteSet(found) /\ found \subseteq Int
  BY <1>2, BelowEnds
<1> HIDE DEF a, L
<1>8. ASSUME NEW l \in found
      PROVE  /\ localMap[l] \in Nat /\ localMap[l] # ReturnPlace /\ l # ReturnPlace
             /\ localMap[l] \in DOMAIN locals'
             /\ locals'[localMap[l]] = SwappedBack[l]
  <2>1. l < compacted /\ l \in DOMAIN locals /\ l # ReturnPlace
    BY <1>2, <1>6 DEF L, ReturnPlace
  <2>2. localMap[l] \in DOMAIN locals /\ localMap[l] < KeptCount /\ localMap[l] # ReturnPlace /\ localMap[l] \in Nat
    BY <1>2, <2>1 DEF KeptCount, ReturnPlace, L
  <2>3. SwappedBack[l] = locals[localMap[l]]
    BY <2>1 DEF SwappedBack
  <2> QED BY <1>4, <2>1, <2>2, <2>3
<1>9. ASSUME NEW l \in found
      PROVE  IF l < a THEN localMap[l] = l ELSE localMap[l] >= a
  <2>1. l \in Nat /\ a \in Nat
    BY <1>2 DEF L
  <2>2. CASE l < a
    <3>1. Below(found, l) = 0 .. l - 1
      <4>1. \A d \in found : d \in Nat
        BY <1>2 DEF L
      <4>2. \A d \in 0 .. l - 1 : d \in 0 .. a - 1 /\ d < l
        BY <2>1, <2>2
      <4>3. \A d \in 0 .. l - 1 : d \in found
        BY <1>2, <4>2
      <4>4. \A d \in found : d < l => d \in 0 .. l - 1
        BY <2>1, <4>1
      <4> QED BY <4>2, <4>3, <4>4, Zenon DEF Below
    <3>2. Cardinality(0 .. l - 1) = l
      BY <2>1, FS_Interval
    <3> QED BY <1>6, <2>2, <3>1, <3>2
  <2>3. CASE ~(l < a)
    <3>1. 0 .. a - 1 \subseteq Below(found, l)
      BY <1>2, <2>1, <2>3 DEF Below
    <3>2. Cardinality(0 .. a - 1) = a
      BY <2>1, FS_Interval
    <3>3. IsFiniteSet(Below(found, l)) /\ Cardinality(Below(found, l)) \in Nat
      BY <1>7, <2>1, BelowIsFinite
    <3>4. a <= Cardinality(Below(found, l))
      BY <3>1, <3>2, <3>3, FS_Subset
    <3> QED BY <1>6, <2>1, <2>3, <3>3, <3>4
  <2> QED BY <2>2, <2>3
<1>10. \A l, k \in found : localMap[l] = localMap[k] => l = k
  <2> SUFFICES ASSUME NEW l \in found, NEW k \in found, l < k
               PROVE  localMap[l] # localMap[k]
    BY <1>6
  <2>1. Cardinality(Below(found, l)) < Cardinality(Below(found, k))
    BY <1>6, <1>7, BelowIncreases
  <2> QED BY <1>6, <1>8, <2>1
<1>11. DOMAIN old.locals = DOMAIN locals /\ DOMAIN SwappedBack = DOMAIN locals
  BY <1>5 DEF SwappedBack
<1>12. \A l \in found : As(f, l) = localMap[l]
  BY <1>8 DEF As, IsLocal
<1>13. As(f, ReturnPlace) = ReturnPlace
  BY DEF As, IsLocal
<1>14. Renames(old, new, E, f)
  <2>1. E \subseteq Bases(old)
    BY <1>2, <1>11 DEF Bases, L
  <2>2. ASSUME NEW l \in E
        PROVE  As(f, l) \in Bases(new) /\ Types(new)[As(f, l)] = Types(old)[l]
    <3>1. CASE l \in found
      <4>1. localMap[l] \in DOMAIN new.locals /\ new.locals[localMap[l]] = old.locals[l]
        BY <1>5, <1>8, <3>1
      <4>2. localMap[l] \in Bases(new) /\ l \in Bases(old) /\ IsLocal(l) /\ IsLocal(localMap[l])
        BY <1>8, <2>1, <3>1, <4>1 DEF Bases, IsLocal
      <4> HIDE DEF new, old
      <4>3. Types(new)[localMap[l]] = new.locals[localMap[l]].ty /\ Types(old)[l] = old.locals[l].ty
        BY <4>2 DEF Types
      <4> QED BY <1>12, <3>1, <4>1, <4>2, <4>3
    <3>2. CASE l = ReturnPlace
      <4>1. ReturnPlace \in Bases(new) /\ ReturnPlace \in Bases(old) /\ ~IsLocal(ReturnPlace)
        BY DEF Bases, IsLocal
      <4> HIDE DEF new, old
      <4>2. Types(new)[ReturnPlace] = new.ret /\ Types(old)[ReturnPlace] = old.ret
        BY <4>1 DEF Types
      <4> QED BY <1>5, <1>13, <3>2, <4>1, <4>2
    <3> QED BY <3>1, <3>2
  <2>3. \A l, k \in E : As(f, l) = As(f, k) => l = k
    BY <1>8, <1>10, <1>12, <1>13
  <2> HIDE DEF new, old, E, f
  <2> QED BY <2>1, <2>2, <2>3 DEF Renames
<1>15. /\ BlockIds \subseteq Nat /\ ENTRY \in BlockIds /\ L \subseteq Nat /\ Edges = BlockIds \ {ENTRY}
       /\ \A b \in BlockIds : blocks[b] \in BlockSet(L, Edges, Arity)
  BY <1>1, BodyIs, NumberedCounts DEF Edges, BlockIds, L
<1>16. ASSUME NEW b \in BlockIds
       PROVE  /\ old.blocks[b] \in BlockSet(L, Edges, Arity)
              /\ new.blocks[b].term \in TermSet(Nat, Edges)
              /\ BlockLocals(old.blocks[b]) \subseteq E
              /\ BlockRenamed(old.blocks[b], new.blocks[b], f)
  <2>1. new.blocks[b] = RenameBlock(blocks[b], f) /\ old.blocks[b] = blocks[b]
    BY <1>4, <1>5
  <2>2. BlockRenamed(blocks[b], RenameBlock(blocks[b], f), f)
    BY <1>15, BlockIsRenamed
  <2>3. BlockLocals(blocks[b]) \subseteq E
    BY <1>2
  <2>4. blocks'[b].term \in TermSet(Nat, Edges)
    <3>1. BodyOK(WorkedOn, running, Arity)'
      BY <1>3 DEF BodyInv, BodyStaysNumbered, Arity
    <3>2. Numbered(locals') /\ blocks'[b] \in BlockSet(DOMAIN locals', DOMAIN blocks' \ {ENTRY}, Arity') /\ DOMAIN blocks' = BlockIds
      BY <1>4, <3>1 DEF BodyOK, WorkedOn, Numbered, Arity
    <3>3. blocks'[b].term \in TermSet(DOMAIN locals', Edges) /\ DOMAIN locals' \subseteq Nat
      BY <1>15, <3>2, NumberedCounts DEF BlockSet
    <3> QED BY <3>3, TermsOverMore
  <2> QED BY <1>5, <1>15, <2>1, <2>2, <2>3, <2>4
<1>17. KeepsParams(a, E, f)
  <2>1. a \in Nat /\ \A l \in found : l \in Int /\ localMap[l] \in Nat
    BY <1>2, <1>6, <1>8
  <2>2. ASSUME NEW l \in found
        PROVE  /\ l + 1 \in 1 .. a <=> localMap[l] + 1 \in 1 .. a
               /\ l + 1 \in 1 .. a => localMap[l] = l
    <3>1. l \in Nat
      BY <1>2 DEF L
    <3> QED BY <1>9, <2>1, <3>1
  <2> QED BY <1>12, <1>13, <2>2 DEF KeepsParams
<1>18. ReturnPlace \in E
  OBVIOUS
<1> HIDE DEF old, new, E, f
<1>19. DoesTheSame(a, old, new)
  BY <1>14, <1>15, <1>16, <1>17, <1>18, RenamedSame
<1> QED BY <1>19 DEF a, old, new

LEMMA UnusedSame ==
  ASSUME BodyInv, BodyInv', NumbersInv, RunUnused
  PROVE  DoesTheSame(Arity[running], Meant, Meant')
BY FindLocalsSame, CompactSame, ReplaceSame DEF RunUnused, UnusedStep

-----------------------------------------------------------------------------
(* What every body means, through all the passes.                          *)

LEMMA StepKeepsMeaning ==
  ASSUME BodyInv, BodyInv', CacheCoherent, NumbersInv, Step
  PROVE  KeepsMeaning
<1> SUFFICES ASSUME Covered, UNCHANGED turn
             PROVE  DoesTheSame(TakenBy(running), Meant, Meant')
  BY DEF KeepsMeaning
<1> DEFINE a == TakenBy(running)
<1>1. a = Arity[running]
  BY DEF TakenBy, Arity
<1> HIDE DEF a
<1>2. CASE NextPass
  <2>1. /\ pc = "done" /\ UNCHANGED <<blocks, locals, retType>>
        /\ pc' \notin {"retain", "compact"}
    <3>1. \A k \in 1 .. Len(PassList) : PassList[k] \notin {"retain", "compact"}
      BY DEF PassList
    <3>2. passIndex \in Nat /\ passIndex < Len(PassList)
      BY <1>2 DEF NextPass, BodyInv, BodiesInv
    <3>3. passIndex + 1 \in 1 .. Len(PassList)
      BY <3>2 DEF PassList
    <3> QED BY <1>2, <3>1, <3>3 DEF NextPass
  <2>2. DoesTheSame(a, AsIs, AsIs')
    BY <2>1, UnchangedSame DEF BlockIds
  <2> QED BY <2>1, <2>2, AsIsMeant DEF a
<1>3. CASE NextBody
  <2>1. turn \in Nat
    BY DEF BodyInv, BodiesInv
  <2>2. pc = "done" /\ pc' = "finished" /\ UNCHANGED <<blocks, locals, retType>>
    BY <1>3, <2>1 DEF NextBody
  <2>3. DoesTheSame(a, AsIs, AsIs')
    BY <2>2, UnchangedSame DEF BlockIds
  <2> QED BY <2>2, <2>3, AsIsMeant DEF a
<1>4. CASE RunStmtPass
  <2>1. pc \notin {"retain", "compact"} /\ pc' \notin {"retain", "compact"}
    BY <1>4 DEF RunStmtPass, StmtStep, RemoveZst, DeadStoreElim
  <2>2. DoesTheSame(a, AsIs, AsIs')
    BY <1>4, RemoveZstSame, DeadStoreElimSame DEF RunStmtPass, StmtStep, Covered
  <2> QED BY <2>1, <2>2, AsIsMeant DEF a
<1>5. CASE RunSimplify
  <2>1. pc' \notin {"retain", "compact"}
    BY <1>5, SimplifyKeeps
  <2>2. pc \notin {"retain", "compact"}
    BY <1>5 DEF RunSimplify, SimplifyStep, RemoveNoopsFirst, VisitGoto,
                  VisitSwitch, VisitOther, SweepAgain, RemoveNoopsLast, AtBlock
  <2>3. DoesTheSame(a, AsIs, AsIs')
    BY <1>5, SimplifySame
  <2> QED BY <2>1, <2>2, <2>3, AsIsMeant DEF a
<1>6. CASE RunInline
  <2>1. /\ UNCHANGED <<blocks, locals, retType>>
        /\ pc \notin {"retain", "compact"} /\ pc' \notin {"retain", "compact"}
    BY <1>6 DEF RunInline, InlineStep, StartInline, StopInlining, Covered
  <2>2. DoesTheSame(a, AsIs, AsIs')
    BY <2>1, UnchangedSame DEF BlockIds
  <2> QED BY <2>1, <2>2, AsIsMeant DEF a
<1>7. CASE RunUnreachable
  BY <1>7, UnreachableSame
<1>8. CASE RunUnused
  BY <1>1, <1>8, UnusedSame DEF a
<1> QED BY <1>2, <1>3, <1>4, <1>5, <1>6, <1>7, <1>8 DEF Step

LEMMA NumbersHold == Spec => []NumbersInv
<1>1. Init => NumbersInv
  BY NumbersStart
<1>2. BodyInv /\ BodyInv' /\ NumbersInv /\ [Next]_vars => NumbersInv'
  BY NumbersStep
<1> QED BY <1>1, <1>2, BodiesHold, PTL DEF Spec

(* remove-zst, simplify-cfg, remove-unreachable, dead-store-elim where no  *)
(* pointer is lost, and remove-unused-locals: no step of any of them (the  *)
(* passes of src/mir/passes but inline) changes what the body under way    *)
(* means, half-way through a renumbering as little as at its end.          *)
THEOREM MeaningIsKept == Spec => [][KeepsMeaning]_vars
<1>1. BodyInv /\ BodyInv' /\ CacheInv /\ NumbersInv /\ [Next]_vars => [KeepsMeaning]_vars
  <2> SUFFICES ASSUME BodyInv, BodyInv', CacheInv, NumbersInv, Next, ~UNCHANGED vars
               PROVE  KeepsMeaning
    OBVIOUS
  <2>1. Step
    BY DEF Next, Stopped
  <2>2. CacheCoherent
    BY DEF CacheInv
  <2> QED BY <2>1, <2>2, StepKeepsMeaning
<1> QED BY <1>1, BodiesHold, CacheHolds, NumbersHold, PTL DEF Spec

(* A body of a table means what it means.                                  *)
LEMMA CodeIsShaped ==
  ASSUME NEW body, NEW f, NEW table, BodyOK(body, f, table)
  PROVE  Shaped(Code(body), table)
<1>1. /\ Numbered(body.blocks) /\ Numbered(body.locals) /\ ENTRY \in DOMAIN body.blocks
      /\ \A b \in DOMAIN body.blocks :
           body.blocks[b] \in BlockSet(DOMAIN body.locals, DOMAIN body.blocks \ {ENTRY}, table)
  BY DEF BodyOK
<1>2. DOMAIN body.blocks \subseteq Nat /\ DOMAIN body.locals \subseteq Nat
  BY <1>1, NumberedCounts
<1>3. Code(body).blocks = body.blocks /\ Code(body).locals = body.locals
  BY DEF Code
<1> QED BY <1>1, <1>2, <1>3 DEF Shaped

LEMMA MeaningStart == Init => SameMeaning
<1> SUFFICES ASSUME Init
             PROVE  SameMeaning
  OBVIOUS
<1>1. BodiesInv /\ bodies = program.bodies /\ pc = "done"
  BY BodiesStart DEF Init, BodyInv
<1>2. ASSUME NEW f \in DOMAIN program.bodies, NEW arity
      PROVE  DoesTheSame(arity, Code(program.bodies[f]), Code(program.bodies[f]))
  <2>1. BodyOK(program.bodies[f], f, Arity)
    BY <1>1 DEF BodiesInv
  <2> QED BY <2>1, CodeIsShaped, Reflexive
<1>3. Meant = Code(program.bodies[running]) /\ running \in DOMAIN program.bodies
  BY <1>1 DEF Init, Meant, Code, BodiesInv
<1> QED BY <1>1, <1>2, <1>3 DEF SameMeaning

LEMMA MeaningStep ==
  ASSUME BodyInv, BodyInv', CacheCoherent, NumbersInv, Step, Covered, SameMeaning
  PROVE  SameMeaning'
<1>1. KeepsMeaning
  BY StepKeepsMeaning
<1>2. UNCHANGED program
  BY DEF Step, NextPass, NextBody, RunStmtPass, RunSimplify, RunInline, RunUnreachable, RunUnused, managerVars
<1>3. \A f : TakenBy(f)' = TakenBy(f)
  BY <1>2 DEF TakenBy
<1>4. CASE ~NextBody
  <2>1. UNCHANGED <<bodies, running, turn>>
    BY <1>4 DEF Step, NextPass, RunStmtPass, RunSimplify, RunInline, RunUnreachable, RunUnused, managerVars
  <2>2. DoesTheSame(TakenBy(running), Meant, Meant')
    BY <1>1, <2>1 DEF KeepsMeaning
  <2>3. DoesTheSame(TakenBy(running), Code(program.bodies[running]), Meant')
    BY <2>2, Transitive DEF SameMeaning
  <2> QED BY <1>2, <1>3, <2>1, <2>3 DEF SameMeaning
<1>5. CASE NextBody
  <2>1. pc = "done" /\ bodies' = [bodies EXCEPT ![running] = WorkedOn]
    BY <1>5 DEF NextBody
  <2>2. Code(WorkedOn) = Meant
    BY <2>1 DEF Code, WorkedOn, Meant
  <2>3. DOMAIN bodies = DOMAIN program.bodies
    BY DEF BodyInv, BodiesInv
  <2>4. ASSUME NEW f \in DOMAIN program.bodies
        PROVE  DoesTheSame(TakenBy(f), Code(program.bodies[f]), Code(bodies'[f]))
    <3>1. CASE f = running
      BY <2>1, <2>2, <2>3, <3>1 DEF SameMeaning
    <3>2. CASE f # running
      <4>1. bodies'[f] = bodies[f]
        BY <2>1, <3>2
      <4> QED BY <4>1 DEF SameMeaning
    <3> QED BY <3>1, <3>2
  <2>5. DoesTheSame(TakenBy(running'), Code(program.bodies[running']), Meant')
    <3>1. CASE turn < Len(program.sources)
      <4>1. pc' = "done" /\ Borrow(program.sources[turn + 1], bodies)
        BY <1>5, <3>1 DEF NextBody
      <4>2. Meant' = Code(bodies[running'])
        BY <4>1 DEF Borrow, Meant, Code
      <4>3. running' \in DOMAIN program.bodies
        BY <1>2 DEF BodyInv, BodiesInv
      <4> QED BY <4>2, <4>3 DEF SameMeaning
    <3>2. CASE ~(turn < Len(program.sources))
      <4>1. /\ pc' = "finished" /\ UNCHANGED <<running, blocks, locals, retType>>
        BY <1>5, <3>2 DEF NextBody
      <4>2. Meant' = Meant
        BY <2>1, <4>1 DEF Meant
      <4> QED BY <4>1, <4>2 DEF SameMeaning
    <3> QED BY <3>1, <3>2
  <2> QED BY <1>2, <1>3, <2>4, <2>5 DEF SameMeaning
<1> QED BY <1>4, <1>5

(* A pass runs because it was asked to.                                    *)
ChosenInv ==
  /\ pc \in {"inline", "inlining"} => ShouldRun("inline")
  /\ pc = "deadstore" => ShouldRun("deadstore")

LEMMA ChosenStep ==
  ASSUME BodyInv, ChosenInv, [Next]_vars
  PROVE  ChosenInv' /\ UNCHANGED config
<1>1. UNCHANGED config
  BY DEF Next, Step, Stopped, NextPass, NextBody, RunStmtPass, RunSimplify, RunInline, RunUnreachable, RunUnused,
         managerVars, vars
<1>2. \A p : ShouldRun(p)' = ShouldRun(p)
  BY <1>1 DEF ShouldRun, Enabled
<1>3. CASE UNCHANGED vars
  <2>1. UNCHANGED pc
    BY <1>3 DEF vars
  <2> QED BY <1>1, <1>2, <2>1 DEF ChosenInv
<1>4. CASE NextPass
  <2>1. pc' \in {"inline", "inlining", "deadstore"} => pc' # "inlining" /\ ShouldRun(pc')
    <3>1. \A k \in 1 .. Len(PassList) : PassList[k] # "inlining"
      BY DEF PassList
    <3>2. passIndex \in Nat /\ passIndex < Len(PassList)
      BY <1>4 DEF NextPass, BodyInv, BodiesInv
    <3>3. passIndex + 1 \in 1 .. Len(PassList)
      BY <3>2 DEF PassList
    <3>4. pc' = "done" \/ (pc' = PassList[passIndex + 1] /\ ShouldRun(PassList[passIndex + 1]))
      BY <1>4 DEF NextPass
    <3> QED BY <3>1, <3>3, <3>4
  <2> QED BY <1>1, <1>2, <2>1 DEF ChosenInv
<1>5. CASE RunInline
  <2>1. pc \in {"inline", "inlining"} /\ pc' # "deadstore"
    <3>1. pc \in {"inline", "inlining"}
      BY <1>5 DEF RunInline, InlineStep, StartInline, InlineCall, StopInlining
    <3> QED BY <1>5, <3>1, InlineKeeps
  <2> QED BY <1>1, <1>2, <2>1 DEF ChosenInv
<1>6. CASE NextBody \/ RunStmtPass \/ RunSimplify \/ RunUnreachable \/ RunUnused
  <2>1. pc' \notin {"inline", "inlining", "deadstore"}
    <3>1. CASE NextBody
      BY <3>1 DEF NextBody
    <3>2. CASE RunStmtPass
      BY <3>2 DEF RunStmtPass, StmtStep, RemoveZst, DeadStoreElim
    <3>3. CASE RunSimplify
      BY <3>3, SimplifyKeeps
    <3>4. CASE RunUnreachable
      BY <3>4, UnreachableKeeps
    <3>5. CASE RunUnused
      <4>1. CASE Replace
        BY <3>5, <4>1, ReplaceKeeps DEF RunUnused, managerVars
      <4> QED BY <3>5, <4>1 DEF RunUnused, UnusedStep, FindLocals, Compact
    <3> QED BY <1>6, <3>1, <3>2, <3>3, <3>4, <3>5
  <2> QED BY <1>1, <2>1 DEF ChosenInv
<1> QED BY <1>3, <1>4, <1>5, <1>6 DEF Next, Step, Stopped

LEMMA ChosenHold == Spec => []ChosenInv
<1>1. Init => ChosenInv
  BY DEF Init, ChosenInv
<1>2. BodyInv /\ ChosenInv /\ [Next]_vars => ChosenInv'
  BY ChosenStep
<1> QED BY <1>1, <1>2, BodiesHold, PTL DEF Spec

LEMMA UnchangedMeaning ==
  ASSUME SameMeaning, UNCHANGED vars
  PROVE  SameMeaning'
<1>1. UNCHANGED <<program, bodies, running, blocks, locals, retType, pc, found, compacted, localMap, blockMap>>
  BY DEF vars, passVars, simplifyVars, unreachableVars, unusedVars, managerVars
<1>2. Meant' = Meant
  BY <1>1 DEF Meant, Remaining, Retained, BlockIds, SwappedBack
<1> QED BY <1>1, <1>2 DEF SameMeaning, TakenBy

(* Whatever passes are asked for, as long as no call is inlined and no     *)
(* dead store was into what a pointer leads to: every body the code        *)
(* generator gets does what the body the builder made does.                *)
THEOREM CompilingKeepsMeaning == Spec /\ [][Covered]_vars => []SameMeaning
<1>1. Init => SameMeaning
  BY MeaningStart
<1>2. BodyInv /\ BodyInv' /\ CacheInv /\ NumbersInv /\ [Next]_vars /\ [Covered]_vars /\ SameMeaning
        => SameMeaning'
  <2> SUFFICES ASSUME BodyInv, BodyInv', CacheInv, NumbersInv, [Next]_vars, [Covered]_vars, SameMeaning
               PROVE  SameMeaning'
    OBVIOUS
  <2>1. CASE UNCHANGED vars
    BY <2>1, UnchangedMeaning
  <2>2. CASE Step /\ Covered
    BY <2>2, MeaningStep DEF CacheInv
  <2> QED BY <2>1, <2>2 DEF Next, Stopped
<1> QED BY <1>1, <1>2, BodiesHold, CacheHolds, NumbersHold, PTL DEF Spec

(* Without inline and dead-store-elim, as in every compilation that is not *)
(* asked to optimise, the passes keep the meaning of every program.        *)
THEOREM PlainCompilingKeepsMeaning == Spec => []PlainMeansTheSame
<1>1. Init => PlainMeansTheSame
  BY MeaningStart DEF PlainMeansTheSame
<1>2. BodyInv /\ BodyInv' /\ CacheInv /\ NumbersInv /\ ChosenInv /\ [Next]_vars /\ PlainMeansTheSame
        => PlainMeansTheSame'
  <2> SUFFICES ASSUME BodyInv, BodyInv', CacheInv, NumbersInv, ChosenInv, [Next]_vars, PlainMeansTheSame,
                      ~ShouldRun("inline")', ~ShouldRun("deadstore")'
               PROVE  SameMeaning'
    BY DEF PlainMeansTheSame
  <2>1. ~ShouldRun("inline") /\ ~ShouldRun("deadstore")
    BY ChosenStep DEF ShouldRun, Enabled
  <2>2. SameMeaning
    BY <2>1 DEF PlainMeansTheSame
  <2>3. CASE UNCHANGED vars
    BY <2>2, <2>3, UnchangedMeaning
  <2>4. CASE Step
    <3>1. Covered
      BY <2>1 DEF ChosenInv, Covered, InlineCall, DeadStoreElim
    <3> QED BY <2>2, <2>4, <3>1, MeaningStep DEF CacheInv
  <2> QED BY <2>3, <2>4 DEF Next, Stopped
<1> QED BY <1>1, <1>2, BodiesHold, CacheHolds, NumbersHold, ChosenHold, PTL DEF Spec

-----------------------------------------------------------------------------
(* Whole programs.                                                         *)

LEMMA SameMeaningBehaves ==
  ASSUME BodyInv, SameMeaning
  PROVE  ProgramBehaves
<1> DEFINE table == Arities(program.bodies)
           old == Codes(program.bodies)
           new == Codes(bodies)
<1>1. DOMAIN table = DOMAIN program.bodies
  BY DEF Arities
<1>2. ASSUME NEW f \in DOMAIN program.bodies
      PROVE  Shaped(old[f], table) /\ DoesTheSame(table[f], old[f], new[f])
  <2>1. old[f] = Code(program.bodies[f]) /\ new[f] = Code(bodies[f])
    BY DEF Codes
  <2>2. BodyOK(program.bodies[f], f, table)
    BY CompilationsAssumption DEF BodyInv, BodiesInv, Programs, table
  <2>3. Shaped(Code(program.bodies[f]), table)
    BY <2>2, CodeIsShaped
  <2>4. DoesTheSame(table[f], Code(program.bodies[f]), Code(bodies[f]))
    BY DEF SameMeaning, TakenBy
  <2> QED BY <2>1, <2>3, <2>4
<1> HIDE DEF table, old, new
<1>3. BehavesAs(table, old, new)
  BY <1>1, <1>2, ProgramBehavesAs
<1> QED BY <1>3 DEF ProgramBehaves, table, old, new

(* The program the code generator gets behaves as the one that was built:  *)
(* it prints the same, in the same order, ends the same, and does not go   *)
(* on for ever unseen where that one does not; whatever passes are asked   *)
(* for, but for the steps Covered leaves out.                              *)
THEOREM CompiledProgramsBehave == Spec /\ [][Covered]_vars => []ProgramBehaves
<1>1. BodyInv /\ SameMeaning => ProgramBehaves
  BY SameMeaningBehaves
<1> QED BY <1>1, CompilingKeepsMeaning, BodiesHold, PTL

(* Without inline and dead-store-elim that is every program.               *)
THEOREM PlainCompiledProgramsBehave == Spec => []PlainBehaves
<1>1. BodyInv /\ PlainMeansTheSame => PlainBehaves
  BY SameMeaningBehaves DEF PlainMeansTheSame, PlainBehaves
<1> QED BY <1>1, PlainCompilingKeepsMeaning, BodiesHold, PTL
=============================================================================
