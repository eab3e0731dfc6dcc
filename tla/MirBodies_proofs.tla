--------------------------- MODULE MirBodies_proofs ---------------------------
(***************************************************************************)
(* Proofs about the pass manager, for every set of compilations: the       *)
(* predecessors a pass is answered with are those of the blocks, a body    *)
(* stays well numbered through every pass, and what bodies call is within  *)
(* reach of what the program's functions call, so that the passes panic    *)
(* only on recursion.                                                      *)
(***************************************************************************)
EXTENDS MirPasses, Mir_proofs

Programs == {c.program : c \in Compilations}

(* The table of bodies: its functions stay the program's, and the body put *)
(* back and the bodies not yet taken hold coherent caches.                 *)
TableInv ==
  /\ program \in Programs
  /\ DOMAIN bodies = DOMAIN program.bodies
  /\ \A f \in DOMAIN bodies : bodies[f].cache \subseteq {Predecessors(bodies[f].blocks)}
  /\ turn \in Nat \ {0} /\ passIndex \in Nat

CacheInv == TableInv /\ CacheCoherent

(* The predecessors of two lists of blocks with the same edges agree.      *)
LEMMA SameEdges ==
  ASSUME NEW bs, NEW cs, DOMAIN bs = DOMAIN cs,
         \A b \in DOMAIN bs : bs[b].term.succs = cs[b].term.succs
  PROVE  Predecessors(bs) = Predecessors(cs)
BY DEF Predecessors

(* blocks_mut(): an empty cache agrees with any blocks.                    *)
LEMMA Cleared ==
  ASSUME NEW bs, BlocksMut(bs)
  PROVE  CacheCoherent'
BY DEF BlocksMut, CacheCoherent

(* predecessors(): what an unchanged body's cache is filled with agrees.   *)
LEMMA Filled ==
  ASSUME CacheCoherent, pc # "retain", FillCache, blocks' = blocks
  PROVE  CacheCoherent'
<1>1. cache = {} \/ cache = {Predecessors(blocks)}
  BY DEF CacheCoherent
<1>2. PredecessorsOf = Predecessors(blocks)
  BY <1>1 DEF PredecessorsOf
<1> QED BY <1>2 DEF FillCache, CacheCoherent, Predecessors

(* blocks_mut_dont_dirty(): the cache still agrees with blocks whose edges *)
(* are the old ones.                                                       *)
LEMMA Kept ==
  ASSUME CacheCoherent, pc # "retain", cache' = cache, DOMAIN blocks' = DOMAIN blocks,
         \A b \in DOMAIN blocks : blocks'[b].term.succs = blocks[b].term.succs
  PROVE  CacheCoherent'
<1>1. Predecessors(blocks') = Predecessors(blocks)
  BY SameEdges
<1>2. Predecessors(blocks)' = Predecessors(blocks')
  BY DEF Predecessors
<1> QED BY <1>1, <1>2 DEF CacheCoherent

(* remove-zst changes no edge; dead-store-elim empties the cache.          *)
LEMMA StmtPassCoherent ==
  ASSUME CacheCoherent, RunStmtPass
  PROVE  CacheCoherent'
<1>1. CASE RemoveZst
  <2>1. /\ cache' = cache /\ pc # "retain" /\ DOMAIN blocks' = DOMAIN blocks
        /\ \A b \in DOMAIN blocks : blocks'[b].term.succs = blocks[b].term.succs
    BY <1>1 DEF RemoveZst, BlocksMutDontDirty, BlockIds, Block, On, Terminator
  <2> QED BY <2>1, Kept
<1>2. CASE DeadStoreElim
  BY <1>2, Cleared DEF DeadStoreElim
<1> QED BY <1>1, <1>2 DEF RunStmtPass, StmtStep

(* simplify-cfg steals and retargets through blocks_mut(), and drops its   *)
(* last noops without changing an edge.                                    *)
LEMMA SimplifyCoherent ==
  ASSUME CacheCoherent, RunSimplify
  PROVE  CacheCoherent'
<1>1. CASE RemoveNoopsFirst
  BY <1>1, Cleared DEF RemoveNoopsFirst
<1>2. CASE VisitGoto
  <2>1. CASE SinglePredecessor(blocks[current].term.succs[1])
    BY <1>2, <2>1, Cleared DEF VisitGoto, StealFrom
  <2>2. CASE ~SinglePredecessor(blocks[current].term.succs[1])
    BY <1>2, <2>2, Filled DEF VisitGoto, AtBlock
  <2> QED BY <2>1, <2>2
<1>3. CASE VisitSwitch
  <2>1. CASE StealsTaken
    BY <1>3, <2>1, Cleared DEF VisitSwitch, StealFrom
  <2>2. CASE ~StealsTaken
    BY <1>3, <2>2, Cleared DEF VisitSwitch
  <2> QED BY <2>1, <2>2
<1>4. CASE VisitOther
  BY <1>4, Kept DEF VisitOther, AtBlock
<1>5. CASE SweepAgain
  BY <1>5, Kept DEF SweepAgain
<1>6. CASE RemoveNoopsLast
  <2>1. /\ cache' = cache /\ pc # "retain" /\ DOMAIN blocks' = DOMAIN blocks
        /\ \A b \in DOMAIN blocks : blocks'[b].term.succs = blocks[b].term.succs
    BY <1>6 DEF RemoveNoopsLast, BlocksMutDontDirty, BlockIds, RemoveNoops, Block
  <2> QED BY <2>1, Kept
<1> QED BY <1>1, <1>2, <1>3, <1>4, <1>5, <1>6 DEF RunSimplify, SimplifyStep

(* Inlining a call rewrites the blocks through blocks_mut().               *)
LEMMA InlineCoherent ==
  ASSUME CacheCoherent, RunInline
  PROVE  CacheCoherent'
<1>1. CASE StartInline
  BY <1>1, Kept DEF StartInline
<1>2. CASE InlineCall
  <2>1. pc # "retain" /\ (UNCHANGED <<blocks, cache>> \/ \E bs : BlocksMut(bs))
    BY <1>2 DEF InlineCall
  <2> QED BY <2>1, Cleared, Kept
<1>3. CASE StopInlining
  BY <1>3, Kept DEF StopInlining
<1> QED BY <1>1, <1>2, <1>3 DEF RunInline, InlineStep

(* remove-unreachable rewrites edges without clearing the cache, but has   *)
(* dropped the blocks through blocks_mut() before anything can ask.        *)
LEMMA UnreachableCoherent ==
  ASSUME CacheCoherent, RunUnreachable
  PROVE  CacheCoherent'
<1>1. CASE StartWalk \/ Walk \/ EndWalk \/ Number
  <2>1. pc # "retain" /\ UNCHANGED blockVars
    BY <1>1 DEF StartWalk, Walk, EndWalk, Number, blockVars
  <2> QED BY <2>1, Kept DEF blockVars
<1>2. CASE RewriteEdges
  BY <1>2 DEF RewriteEdges, CacheCoherent
<1>3. CASE Retain
  BY <1>3, Cleared DEF Retain
<1> QED BY <1>1, <1>2, <1>3 DEF RunUnreachable, UnreachableStep

(* remove-unused-locals renumbers places through blocks_mut().             *)
LEMMA UnusedCoherent ==
  ASSUME CacheCoherent, RunUnused
  PROVE  CacheCoherent'
<1>1. CASE FindLocals \/ Compact
  <2>1. pc # "retain" /\ UNCHANGED blockVars
    BY <1>1 DEF FindLocals, Compact, blockVars
  <2> QED BY <2>1, Kept DEF blockVars
<1>2. CASE Replace
  <2>1. CASE CanReplace
    BY <1>2, <2>1, Cleared DEF Replace
  <2>2. CASE ~CanReplace
    BY <1>2, <2>2, Kept DEF Replace
  <2> QED BY <2>1, <2>2
<1> QED BY <1>1, <1>2 DEF RunUnused, UnusedStep

-----------------------------------------------------------------------------
(* Changing from body to body.                                             *)

(* Every body the pass manager takes is in the table of bodies.            *)
LEMMA SourcesInTable ==
  ASSUME program \in Programs, NEW k \in 1 .. Len(program.sources)
  PROVE  program.sources[k] \in DOMAIN program.bodies
BY CompilationsAssumption DEF Programs

(* Putting a body back and taking the next one keeps coherence.            *)
LEMMA NextBodyCoherent ==
  ASSUME CacheInv, NextBody
  PROVE  CacheInv'
<1> USE DEF CacheInv, TableInv
<1>1. bodies' = [bodies EXCEPT ![running] = WorkedOn] /\ program' = program /\ pc = "done"
  BY DEF NextBody
<1>2. WorkedOn.cache \subseteq {Predecessors(WorkedOn.blocks)}
  BY <1>1 DEF WorkedOn, CacheCoherent
<1>3. ASSUME NEW f \in DOMAIN bodies'
      PROVE  bodies'[f].cache \subseteq {Predecessors(bodies'[f].blocks)}
  <2>1. f \in DOMAIN bodies /\ (bodies'[f] = bodies[f] \/ bodies'[f] = WorkedOn)
    BY <1>1, <1>3
  <2> QED BY <1>2, <2>1
<1>4. DOMAIN bodies' = DOMAIN bodies
  BY <1>1
<1>5. CASE turn < Len(program.sources)
  <2> DEFINE f == program.sources[turn + 1]
  <2>1. turn' = turn + 1 /\ passIndex' = 0 /\ Borrow(f, bodies)
    BY <1>5 DEF NextBody
  <2>2. Len(program.sources) \in Nat
    BY CompilationsAssumption DEF Programs
  <2>3. f \in DOMAIN bodies
    BY <1>5, <2>2, SourcesInTable
  <2>4. cache' \subseteq {Predecessors(blocks')}
    BY <2>1, <2>3 DEF Borrow
  <2> QED BY <1>1, <1>3, <1>4, <2>1, <2>4 DEF CacheCoherent, Predecessors, Programs
<1>6. CASE ~(turn < Len(program.sources))
  <2>1. UNCHANGED <<turn, passIndex, blocks, cache>>
    BY <1>6 DEF NextBody
  <2> QED BY <1>1, <1>3, <1>4, <2>1 DEF CacheCoherent, Predecessors
<1> QED BY <1>5, <1>6

LEMMA CacheHolds == Spec => []CacheInv
<1>1. Init => CacheInv
  <2> SUFFICES ASSUME Init
               PROVE  CacheInv
    OBVIOUS
  <2>1. PICK c \in Compilations : program = c.program
    BY DEF Init
  <2>2. bodies = program.bodies /\ \A f \in DOMAIN bodies : bodies[f].cache = {}
    BY <2>1, CompilationsAssumption DEF Init
  <2>3. running \in DOMAIN bodies
    <3>1. program.sources \in Seq(DOMAIN program.bodies) /\ program.sources # <<>>
      BY <2>1, CompilationsAssumption
    <3>2. program.sources[1] \in DOMAIN program.bodies
      BY <3>1
    <3> QED BY <2>2, <3>2 DEF Init
  <2> QED BY <2>1, <2>2, <2>3 DEF Init, CacheInv, TableInv, CacheCoherent, Programs
<1>2. CacheInv /\ [Next]_vars => CacheInv'
  <2> SUFFICES ASSUME CacheInv, [Next]_vars
               PROVE  CacheInv'
    OBVIOUS
  <2>1. ASSUME UNCHANGED <<bodies, program, turn>>, passIndex' \in Nat
        PROVE  TableInv'
    BY <2>1 DEF CacheInv, TableInv, Programs, Predecessors
  <2>2. CASE NextPass
    <3>1. passIndex' \in Nat /\ UNCHANGED <<bodies, program, turn, blocks, cache>> /\ pc = "done"
      BY <2>2 DEF NextPass, CacheInv, TableInv
    <3>2. CacheCoherent'
      BY <3>1, Kept DEF CacheInv
    <3> QED BY <2>1, <3>1, <3>2 DEF CacheInv
  <2>3. CASE NextBody
    BY <2>3, NextBodyCoherent
  <2>4. CASE RunStmtPass
    BY <2>1, <2>4, StmtPassCoherent DEF RunStmtPass, managerVars, CacheInv, TableInv
  <2>5. CASE RunSimplify
    BY <2>1, <2>5, SimplifyCoherent DEF RunSimplify, managerVars, CacheInv, TableInv
  <2>6. CASE RunInline
    BY <2>1, <2>6, InlineCoherent DEF RunInline, managerVars, CacheInv, TableInv
  <2>7. CASE RunUnreachable
    BY <2>1, <2>7, UnreachableCoherent DEF RunUnreachable, managerVars, CacheInv, TableInv
  <2>8. CASE RunUnused
    BY <2>1, <2>8, UnusedCoherent DEF RunUnused, managerVars, CacheInv, TableInv
  <2>9. CASE UNCHANGED vars
    BY <2>1, <2>9 DEF vars, managerVars, CacheInv, TableInv, CacheCoherent, Predecessors
  <2> QED BY <2>2, <2>3, <2>4, <2>5, <2>6, <2>7, <2>8, <2>9 DEF Next, Step, Stopped
<1> QED BY <1>1, <1>2, PTL DEF Spec

(* Whenever a pass may ask, the predecessors kept for the body it works on *)
(* are those of its blocks (src/mir/basic_blocks.rs): no pass has changed  *)
(* an edge behind blocks_mut_dont_dirty() and gone on, and a body comes    *)
(* out of the table, and goes back, with a cache that fits.                *)
THEOREM CacheIsCoherent == Spec => []CacheCoherent
<1>1. CacheInv => CacheCoherent
  BY DEF CacheInv
<1> QED BY <1>1, CacheHolds, PTL

-----------------------------------------------------------------------------
(* The numbers of blocks and locals.                                       *)

Arity == Arities(program.bodies)
Edges == BlockIds \ {ENTRY}
Count(f) == Cardinality(DOMAIN f)

(* The table of bodies: a body that no pass works on is well numbered.     *)
BodiesInv ==
  /\ program \in Programs
  /\ DOMAIN bodies = DOMAIN program.bodies /\ running \in DOMAIN bodies
  /\ \A f \in DOMAIN bodies : BodyOK(bodies[f], f, Arity)
  /\ turn \in Nat \ {0} /\ passIndex \in Nat

(* The sweep of simplify-cfg counts blocks.                                *)
SweepInv == pc = "sweep" => current \in Nat

(* The walk: whatever a visited block leads to has been visited or queues. *)
Waiting == {queue[i] : i \in DOMAIN queue}
Leads(b) == {blocks[b].term.succs[i] : i \in DOMAIN blocks[b].term.succs}
WalkInv ==
  pc = "walk" =>
    /\ queue \in Seq(BlockIds) /\ seen \subseteq BlockIds
    /\ ENTRY \in seen \cup Waiting
    /\ \A b \in seen : Leads(b) \subseteq seen \cup Waiting
    /\ numbered = 0 /\ nextBlock = 0

(* The numbering: a visited block gets the number of visited blocks before *)
(* it, the others none.                                                    *)
NewNumber(b) == IF b \in seen THEN Cardinality(Below(seen, b)) ELSE Dropped
NumberInv ==
  pc = "number" =>
    /\ seen \subseteq BlockIds /\ ENTRY \in seen
    /\ \A b \in seen : Leads(b) \subseteq seen
    /\ numbered \in 0 .. Count(blocks) /\ nextBlock = Cardinality(Below(seen, numbered))
    /\ DOMAIN blockMap = BlockIds
    /\ \A b \in BlockIds : blockMap[b] = IF b < numbered THEN NewNumber(b) ELSE Dropped

(* Between the edges and the blocks: those that are kept have edges in the *)
(* new numbering, the others are about to go.                              *)
RetainInv ==
  pc = "retain" =>
    /\ Numbered(blocks) /\ Numbered(locals)
    /\ \A l \in DOMAIN locals : locals[l] \in LocalSet
    /\ ParamsOf(WorkedOn) = 0 .. Arity[running] - 1
    /\ seen \subseteq BlockIds /\ ENTRY \in seen /\ Retained = seen
    /\ \A b \in seen :
         blocks[b] \in BlockSet(DOMAIN locals, 1 .. Cardinality(seen) - 1, Arity)

(* The compaction: every local of the body will have got a number among    *)
(* those given out, and the parameters keep theirs.                        *)
CompactInv ==
  pc = "compact" =>
    /\ found \subseteq DOMAIN locals /\ 0 .. Arity[running] - 1 \subseteq found
    /\ \A b \in BlockIds : BlockLocals(blocks[b]) \subseteq found
    /\ compacted \in 0 .. Count(locals) /\ nextLocal \in 0 .. compacted
    /\ compacted <= Arity[running] => nextLocal = compacted
    /\ compacted > Arity[running] => nextLocal >= Arity[running]
    /\ DOMAIN localMap = DOMAIN locals
    /\ \A l \in found : l < compacted => localMap[l] \in 0 .. nextLocal - 1

BodyInv ==
  /\ BodiesInv /\ BodyStaysNumbered
  /\ SweepInv /\ WalkInv /\ NumberInv /\ RetainInv /\ CompactInv

-----------------------------------------------------------------------------
(* What most steps leave alone.                                            *)

LEMMA BodiesKept ==
  ASSUME BodiesInv, UNCHANGED <<bodies, program, running, turn>>, passIndex' \in Nat
  PROVE  BodiesInv' /\ Arity' = Arity
BY DEF BodiesInv, Arity, BodyOK, Numbered, ParamsOf, Programs

(* New blocks over the same locals, and as many of them.                   *)
LEMMA SameLocals ==
  ASSUME BodyOK(WorkedOn, running, Arity), UNCHANGED <<locals, running, program>>,
         DOMAIN blocks' = BlockIds,
         \A b \in BlockIds : blocks'[b] \in BlockSet(DOMAIN locals, Edges, Arity)
  PROVE  BodyStaysNumbered'
BY DEF BodyOK, WorkedOn, BlockIds, Edges, Arity, BodyStaysNumbered, Numbered, ParamsOf

(* What BodyStaysNumbered says where a pass stands.                        *)
LEMMA BodyIs ==
  ASSUME BodyInv, pc # "retain"
  PROVE  /\ BodyOK(WorkedOn, running, Arity)
         /\ Numbered(blocks) /\ Numbered(locals) /\ ENTRY \in BlockIds
         /\ \A b \in BlockIds : blocks[b] \in BlockSet(DOMAIN locals, Edges, Arity)
         /\ \A b \in BlockIds : /\ blocks[b].stmts \in Seq(StmtSet(DOMAIN locals, Arity))
                                /\ blocks[b].term \in TermSet(DOMAIN locals, Edges)
BY DEF BodyInv, BodyStaysNumbered, BodyOK, WorkedOn, BlockIds, Edges, Arity, BlockSet

-----------------------------------------------------------------------------
(* The statement passes.                                                   *)

LEMMA ZstOperandOver ==
  ASSUME NEW L, NEW op \in OperandSet(L)
  PROVE  ZstOperand(op) \in OperandSet(L)
BY ConstantsHaveNoPlace DEF ZstOperand, ZeroSized, OperandSet

LEMMA ZstOperandsOver ==
  ASSUME NEW L, NEW ops \in Seq(OperandSet(L)), NEW new,
         new = [i \in DOMAIN ops |-> ZstOperand(ops[i])]
  PROVE  new \in Seq(OperandSet(L)) /\ Len(new) = Len(ops)
<1>1. \A i \in DOMAIN ops : new[i] \in OperandSet(L)
  BY ZstOperandOver
<1>2. new = [i \in DOMAIN ops |-> new[i]]
  OBVIOUS
<1> QED BY <1>1, <1>2, ListOver

LEMMA ZstStmtOver ==
  ASSUME NEW L, NEW arity, NEW s \in StmtSet(L, arity)
  PROVE  ZstStmt(s) \in StmtSet(L, arity)
<1>1. CASE s = Noop
  BY <1>1 DEF ZstStmt, Noop, StmtSet
<1>2. CASE s \in [kind : {"print"}, op : OperandSet(L)]
  <2>1. ZstOperand(s.op) \in OperandSet(L)
    BY <1>2, ZstOperandOver
  <2>2. ZstStmt(s) = [s EXCEPT !.op = ZstOperand(s.op)]
    BY <1>2 DEF ZstStmt
  <2> QED BY <1>2, <2>1, <2>2 DEF StmtSet
<1>3. CASE s \in [kind : {"assign"}, place : PlaceSet(L), rv : RvalueSet(L, arity)]
  <2> DEFINE args == [i \in DOMAIN s.rv.args |-> ZstOperand(s.rv.args[i])]
  <2>0. s.rv \in RvalueSet(L, arity)
    BY <1>3
  <2>1. s.rv.args \in Seq(OperandSet(L))
    BY <2>0 DEF RvalueSet
  <2>4. ZstStmt(s) = Noop \/ ZstStmt(s) = [s EXCEPT !.rv.args = args]
    BY <1>3 DEF ZstStmt
  <2>3. \A new : new = args => new \in Seq(OperandSet(L)) /\ Len(new) = Len(s.rv.args)
    BY <2>1, ZstOperandsOver
  <2> HIDE DEF args
  <2>5. args \in Seq(OperandSet(L)) /\ Len(args) = Len(s.rv.args)
    BY <2>3
  <2>6. [s.rv EXCEPT !.args = args] \in RvalueSet(L, arity)
    BY <2>0, <2>5 DEF RvalueSet
  <2>7. [s EXCEPT !.rv.args = args] = [s EXCEPT !.rv = [s.rv EXCEPT !.args = args]]
    BY <1>3
  <2> QED BY <1>3, <2>4, <2>6, <2>7 DEF StmtSet
<1> QED BY <1>1, <1>2, <1>3 DEF StmtSet

(* Statements replaced one by one.                                         *)
LEMMA StmtsReplaced ==
  ASSUME NEW L, NEW M, NEW B, NEW arity, NEW b \in BlockSet(L, B, arity),
         NEW t, t = [i \in DOMAIN b.stmts |-> t[i]],
         \A i \in DOMAIN b.stmts : t[i] \in StmtSet(M, arity),
         NEW term \in TermSet(M, B)
  PROVE  Block(t, term) \in BlockSet(M, B, arity)
BY ListOver DEF BlockSet, Block

LEMMA RemoveZstKeeps ==
  ASSUME BodyInv, RunStmtPass, RemoveZst
  PROVE  BodyStaysNumbered'
<1>1. pc # "retain" /\ UNCHANGED <<locals, running, program>>
  BY DEF RunStmtPass, RemoveZst, managerVars
<1>2. DOMAIN blocks' = BlockIds
  BY DEF RemoveZst, BlocksMutDontDirty
<1>3. ASSUME NEW b \in BlockIds
      PROVE  blocks'[b] \in BlockSet(DOMAIN locals, Edges, Arity)
  <2> DEFINE stmts == [i \in DOMAIN blocks[b].stmts |-> ZstStmt(blocks[b].stmts[i])]
             term == On(blocks[b].term, ZstOperand(blocks[b].term.on))
  <2>1. blocks[b] \in BlockSet(DOMAIN locals, Edges, Arity)
    BY <1>1, BodyIs
  <2>2. blocks[b].stmts \in Seq(StmtSet(DOMAIN locals, Arity))
    BY <2>1 DEF BlockSet
  <2>3. \A i \in DOMAIN blocks[b].stmts : stmts[i] \in StmtSet(DOMAIN locals, Arity)
    BY <2>2, ZstStmtOver
  <2>4. stmts = [i \in DOMAIN blocks[b].stmts |-> stmts[i]]
    OBVIOUS
  <2>5. term \in TermSet(DOMAIN locals, Edges)
    <3>1. ZstOperand(blocks[b].term.on) \in OperandSet(DOMAIN locals)
      BY <2>1, ZstOperandOver DEF BlockSet, TermSet
    <3> QED BY <2>1, <3>1 DEF On, Terminator, BlockSet, TermSet
  <2>6. blocks'[b] = Block(stmts, term)
    BY DEF RemoveZst, BlocksMutDontDirty
  <2> HIDE DEF stmts, term
  <2> QED BY <2>1, <2>3, <2>4, <2>5, <2>6, StmtsReplaced
<1> QED BY <1>1, <1>2, <1>3, BodyIs, SameLocals

LEMMA DeadStoreElimKeeps ==
  ASSUME BodyInv, RunStmtPass, DeadStoreElim
  PROVE  BodyStaysNumbered'
<1>1. pc # "retain" /\ UNCHANGED <<locals, running, program>>
  BY DEF RunStmtPass, DeadStoreElim, managerVars
<1>2. DOMAIN blocks' = BlockIds
  BY DEF DeadStoreElim, BlocksMut
<1>3. ASSUME NEW b \in BlockIds
      PROVE  blocks'[b] \in BlockSet(DOMAIN locals, Edges, Arity)
  <2> DEFINE stmts == [i \in DOMAIN blocks[b].stmts |->
                         IF IsDeadStore(blocks[b].stmts[i], ReadAnywhere)
                         THEN Noop ELSE blocks[b].stmts[i]]
  <2>1. blocks[b] \in BlockSet(DOMAIN locals, Edges, Arity)
    BY <1>1, BodyIs
  <2>2. \A i \in DOMAIN blocks[b].stmts : stmts[i] \in StmtSet(DOMAIN locals, Arity)
    BY <2>1 DEF BlockSet, StmtSet
  <2>3. stmts = [i \in DOMAIN blocks[b].stmts |-> stmts[i]]
    OBVIOUS
  <2>4. blocks'[b] = Block(stmts, blocks[b].term)
    BY DEF DeadStoreElim, BlocksMut
  <2>5. blocks[b].term \in TermSet(DOMAIN locals, Edges)
    BY <2>1 DEF BlockSet
  <2> HIDE DEF stmts
  <2> QED BY <2>1, <2>2, <2>3, <2>4, <2>5, StmtsReplaced
<1> QED BY <1>1, <1>2, <1>3, BodyIs, SameLocals

-----------------------------------------------------------------------------
(* simplify-cfg.                                                           *)

LEMMA RemoveNoopsOver ==
  ASSUME NEW L, NEW B, NEW arity, NEW b \in BlockSet(L, B, arity)
  PROVE  RemoveNoops(b) \in BlockSet(L, B, arity)
<1> DEFINE S == {i \in DOMAIN b.stmts : ~IsNoop(b.stmts[i])}
           kept == InOrder(S)
           stmts == [k \in {i + 1 : i \in DOMAIN kept} |-> b.stmts[kept[k - 1]]]
<1>1. b.stmts \in Seq(StmtSet(L, arity)) /\ b.term \in TermSet(L, B)
  BY DEF BlockSet
<1>2. Len(b.stmts) + 1 \in Nat /\ S \subseteq 0 .. (Len(b.stmts) + 1) - 1
  BY <1>1
<1>3. S \subseteq DOMAIN b.stmts
  OBVIOUS
<1>4. RemoveNoops(b) = Block(stmts, b.term)
  BY DEF RemoveNoops
<1> HIDE DEF S
<1>5. /\ Cardinality(S) \in Nat /\ DOMAIN kept = 0 .. Cardinality(S) - 1
      /\ \A k \in DOMAIN kept : kept[k] \in S
  BY <1>2, InOrderLists
<1> HIDE DEF kept
<1>6. {i + 1 : i \in DOMAIN kept} = 1 .. Cardinality(S)
  <2>1. \A k \in 1 .. Cardinality(S) : k - 1 \in DOMAIN kept /\ k = (k - 1) + 1
    BY <1>5
  <2>2. \A i \in DOMAIN kept : i + 1 \in 1 .. Cardinality(S)
    BY <1>5
  <2> QED BY <2>1, <2>2
<1>7. ASSUME NEW k \in 1 .. Cardinality(S)
      PROVE  stmts[k] \in StmtSet(L, arity)
  <2>1. k - 1 \in DOMAIN kept
    BY <1>5
  <2>2. kept[k - 1] \in DOMAIN b.stmts
    BY <1>3, <1>5, <2>1
  <2>3. stmts[k] = b.stmts[kept[k - 1]]
    BY <1>6
  <2> QED BY <1>1, <2>2, <2>3
<1>8. stmts = [k \in 1 .. Cardinality(S) |-> stmts[k]]
  BY <1>6
<1> HIDE DEF stmts
<1>9. stmts \in Seq(StmtSet(L, arity))
  BY <1>5, <1>7, <1>8, ListUpTo
<1> QED BY <1>1, <1>4, <1>9 DEF Block, BlockSet

LEMMA NoopsRemoved ==
  ASSUME BodyInv, pc # "retain", UNCHANGED <<locals, running, program>>,
         blocks' = [b \in BlockIds |-> RemoveNoops(blocks[b])]
  PROVE  BodyStaysNumbered'
<1>1. ASSUME NEW b \in BlockIds
      PROVE  blocks'[b] \in BlockSet(DOMAIN locals, Edges, Arity)
  <2>1. blocks[b] \in BlockSet(DOMAIN locals, Edges, Arity)
    BY BodyIs
  <2> QED BY <2>1, RemoveNoopsOver
<1> QED BY <1>1, BodyIs, SameLocals

(* The block that takes over another one holds what both held.             *)
LEMMA StolenKeeps ==
  ASSUME BodyInv, pc # "retain", UNCHANGED <<locals, running, program>>, current \in BlockIds,
         NEW target \in BlockIds, blocks' = Steal(blocks, target, current)
  PROVE  BodyStaysNumbered'
<1> DEFINE L == DOMAIN locals
<1>1. /\ blocks[target].stmts \in Seq(StmtSet(L, Arity))
      /\ blocks[current].stmts \in Seq(StmtSet(L, Arity))
      /\ blocks[target].term \in TermSet(L, Edges)
  BY BodyIs
<1>2. Block(<<>>, Unreachable) \in BlockSet(L, Edges, Arity)
  <2>1. ZeroSized \in OperandSet(L)
    BY ConstantsHaveNoPlace DEF ZeroSized, OperandSet
  <2>2. Unreachable \in TermSet(L, Edges)
    BY <2>1 DEF Unreachable, Terminator, TermSet, TermKinds
  <2> QED BY <2>2 DEF Block, BlockSet
<1> DEFINE stmts == (IF target = current THEN <<>> ELSE blocks[current].stmts)
                       \o blocks[target].stmts
<1>3. stmts \in Seq(StmtSet(L, Arity))
  <2> HIDE DEF L
  <2>1. CASE target = current
    BY <1>1, <2>1
  <2>2. CASE target # current
    BY <1>1, <2>2
  <2> QED BY <2>1, <2>2
<1>4. Block(stmts, blocks[target].term) \in BlockSet(L, Edges, Arity)
  BY <1>1, <1>3 DEF Block, BlockSet
<1>5. ASSUME NEW b \in BlockIds
      PROVE  blocks'[b] \in BlockSet(DOMAIN locals, Edges, Arity)
  <2>1. \/ blocks'[b] = blocks[b]
        \/ blocks'[b] = Block(<<>>, Unreachable)
        \/ blocks'[b] = Block(stmts, blocks[target].term)
    BY DEF Steal, BlockIds
  <2>2. blocks[b] \in BlockSet(L, Edges, Arity)
    BY BodyIs
  <2> HIDE DEF stmts
  <2> QED BY <1>2, <1>4, <2>1, <2>2
<1>6. DOMAIN blocks' = BlockIds
  BY DEF Steal, BlockIds
<1> QED BY <1>5, <1>6, BodyIs, SameLocals

(* A value selects one of the successors.                                  *)
LEMMA BranchIsASuccessor ==
  ASSUME NEW L, NEW B, NEW t \in TermSet(L, B), t.kind = "switch", NEW v
  PROVE  t.succs[BranchForValue(t, v)] \in B
<1> DEFINE hits == {i \in DOMAIN t.values : t.values[i] = v}
<1>1. /\ t.values \in Seq(Int) /\ t.succs \in Seq(B) /\ Len(t.succs) = Len(t.values) + 1
  BY DEF TermSet
<1>2. hits \subseteq Nat /\ \A i \in hits : i \in 1 .. Len(t.values)
  BY <1>1
<1>3. BranchForValue(t, v) = IF hits = {} THEN Len(t.succs)
                             ELSE CHOOSE i \in hits : \A j \in hits : i <= j
  BY DEF BranchForValue
<1> HIDE DEF hits
<1>4. BranchForValue(t, v) \in 1 .. Len(t.succs)
  <2>1. CASE hits = {}
    BY <1>1, <1>3, <2>1
  <2>2. CASE hits # {}
    <3>1. \E i \in hits : \A j \in hits : i <= j
      BY <1>2, <2>2, LeastNumber
    <3>2. BranchForValue(t, v) \in hits
      BY <1>3, <2>2, <3>1
    <3>3. Len(t.values) \in Nat /\ \A i \in 1 .. Len(t.values) : i \in 1 .. Len(t.values) + 1
      BY <1>1
    <3> QED BY <1>1, <1>2, <3>2, <3>3
  <2> QED BY <2>1, <2>2
<1> QED BY <1>1, <1>4

LEMMA SkipTargetIsThere ==
  ASSUME BodyInv, pc # "retain", NEW succ \in Edges
  PROVE  SkipTarget(succ) \in Edges
<1>1. blocks[succ].term \in TermSet(DOMAIN locals, Edges)
  BY BodyIs DEF Edges
<1> QED BY <1>1, SuccessorsAreThere DEF SkipTarget, CanSkip

LEMMA SkippingKeeps ==
  ASSUME BodyInv, pc # "retain", UNCHANGED <<locals, running, program>>, current \in BlockIds,
         blocks' = [blocks EXCEPT ![current].term =
                      [blocks[current].term EXCEPT !.succs =
                         [i \in DOMAIN blocks[current].term.succs |->
                            SkipTarget(blocks[current].term.succs[i])]]]
  PROVE  BodyStaysNumbered'
<1> DEFINE L == DOMAIN locals
           t == blocks[current].term
           succs == [i \in DOMAIN t.succs |-> SkipTarget(t.succs[i])]
<1>1. /\ blocks[current].stmts \in Seq(StmtSet(L, Arity)) /\ t \in TermSet(L, Edges)
      /\ blocks[current] \in BlockSet(L, Edges, Arity)
  BY BodyIs
<1>2. \A i \in DOMAIN t.succs : succs[i] \in Edges
  BY <1>1, SuccessorsAreThere, SkipTargetIsThere
<1>3. succs = [i \in DOMAIN t.succs |-> succs[i]] /\ t.succs \in Seq(Edges)
  BY <1>1 DEF TermSet
<1>4. blocks' = [blocks EXCEPT ![current] = [blocks[current] EXCEPT !.term = [t EXCEPT !.succs = succs]]]
  BY DEF BlockIds
<1> HIDE DEF succs
<1>5. succs \in Seq(Edges) /\ Len(succs) = Len(t.succs)
  <2> HIDE DEF t
  <2> QED BY <1>2, <1>3, ListOver
<1>6. [t EXCEPT !.succs = succs] \in TermSet(L, Edges)
  BY <1>1, <1>5 DEF TermSet
<1>7. ASSUME NEW b \in BlockIds
      PROVE  blocks'[b] \in BlockSet(L, Edges, Arity)
  <2>1. blocks[b] \in BlockSet(L, Edges, Arity)
    BY BodyIs
  <2>2. CASE b = current
    <3>1. blocks'[b] = [blocks[current] EXCEPT !.term = [t EXCEPT !.succs = succs]]
      BY <1>4, <2>2 DEF BlockIds
    <3> HIDE DEF t, L
    <3> QED BY <1>1, <1>6, <3>1 DEF BlockSet
  <2>3. CASE b # current
    BY <1>4, <2>1, <2>3 DEF BlockIds
  <2> QED BY <2>2, <2>3
<1>8. DOMAIN blocks' = BlockIds
  BY <1>4 DEF BlockIds
<1> QED BY <1>7, <1>8, BodyIs, SameLocals

LEMMA SimplifyKeeps ==
  ASSUME BodyInv, RunSimplify
  PROVE  BodyStaysNumbered' /\ SweepInv' /\ pc' \in {"sweep", "done"}
<1>1. UNCHANGED <<locals, running, program>> /\ SimplifyStep
  BY DEF RunSimplify, managerVars
<1>2. CASE RemoveNoopsFirst
  BY <1>1, <1>2, NoopsRemoved DEF RemoveNoopsFirst, BlocksMut, SweepInv
<1>3. CASE VisitGoto
  <2>1. /\ pc = "sweep" /\ pc' = "sweep" /\ current' = current + 1 /\ current \in BlockIds
        /\ blocks[current].term.kind = "goto"
    BY <1>3 DEF VisitGoto, AtBlock, NextBlock
  <2>2. SweepInv'
    BY <2>1 DEF BodyInv, SweepInv
  <2> DEFINE target == blocks[current].term.succs[1]
  <2>3. target \in BlockIds
    BY <2>1, BodyIs, SuccessorsAreThere DEF Edges
  <2>4. CASE SinglePredecessor(target)
    <3>1. blocks' = Steal(blocks, target, current)
      BY <1>3, <2>4 DEF VisitGoto, StealFrom, BlocksMut
    <3> HIDE DEF target
    <3> QED BY <1>1, <2>1, <2>2, <2>3, <3>1, StolenKeeps
  <2>5. CASE ~SinglePredecessor(target)
    <3>1. blocks' = blocks
      BY <1>3, <2>5 DEF VisitGoto
    <3> QED BY <1>1, <2>1, <2>2, <3>1, BodyIs, SameLocals DEF BlockIds
  <2> QED BY <2>4, <2>5
<1>4. CASE VisitSwitch
  <2>1. /\ pc = "sweep" /\ pc' = "sweep" /\ current' = current + 1 /\ current \in BlockIds
        /\ blocks[current].term.kind = "switch"
    BY <1>4 DEF VisitSwitch, AtBlock, NextBlock
  <2>2. SweepInv'
    BY <2>1 DEF BodyInv, SweepInv
  <2>3. TakenTarget \in BlockIds
    BY <2>1, BodyIs, BranchIsASuccessor DEF Edges, TakenTarget
  <2>4. CASE StealsTaken
    <3>1. blocks' = Steal(blocks, TakenTarget, current)
      BY <1>4, <2>4 DEF VisitSwitch, StealFrom, BlocksMut
    <3> QED BY <1>1, <2>1, <2>2, <2>3, <3>1, StolenKeeps
  <2>5. CASE ~StealsTaken
    <3>1. blocks' = [blocks EXCEPT ![current].term =
                      [blocks[current].term EXCEPT !.succs =
                         [i \in DOMAIN blocks[current].term.succs |->
                            SkipTarget(blocks[current].term.succs[i])]]]
      BY <1>4, <2>5 DEF VisitSwitch, BlocksMut
    <3> QED BY <1>1, <2>1, <2>2, <3>1, SkippingKeeps
  <2> QED BY <2>4, <2>5
<1>5. CASE VisitOther
  <2>1. /\ pc = "sweep" /\ pc' = "sweep" /\ current' = current + 1 /\ blocks' = blocks
    BY <1>5 DEF VisitOther, AtBlock, NextBlock
  <2> QED BY <1>1, <2>1, BodyIs, SameLocals DEF BlockIds, BodyInv, SweepInv
<1>6. CASE SweepAgain
  <2>1. pc = "sweep" /\ pc' = "sweep" /\ current' = 0 /\ blocks' = blocks
    BY <1>6 DEF SweepAgain
  <2> QED BY <1>1, <2>1, BodyIs, SameLocals DEF BlockIds, SweepInv
<1>7. CASE RemoveNoopsLast
  BY <1>1, <1>7, NoopsRemoved DEF RemoveNoopsLast, BlocksMutDontDirty, SweepInv
<1> QED BY <1>1, <1>2, <1>3, <1>4, <1>5, <1>6, <1>7 DEF SimplifyStep

-----------------------------------------------------------------------------
(* remove-unreachable.                                                     *)

LEMMA BodyKept ==
  ASSUME BodyInv, pc # "retain", UNCHANGED <<blocks, locals, running, program>>
  PROVE  BodyStaysNumbered'
BY BodyIs, SameLocals DEF BlockIds

LEMMA NumberedUpTo ==
  ASSUME NEW n \in Nat, NEW f, DOMAIN f = 0 .. n - 1
  PROVE  Numbered(f) /\ Cardinality(DOMAIN f) = n
<1>1. IsFiniteSet(0 .. n - 1) /\ Cardinality(0 .. n - 1) = n
  BY FS_Interval
<1> QED BY <1>1 DEF Numbered

LEMMA NumberedCounts ==
  ASSUME NEW f, Numbered(f)
  PROVE  /\ Cardinality(DOMAIN f) \in Nat /\ DOMAIN f = 0 .. Cardinality(DOMAIN f) - 1
         /\ IsFiniteSet(DOMAIN f) /\ DOMAIN f \subseteq Nat
BY FS_CardinalityType DEF Numbered

LEMMA StartWalkKeeps ==
  ASSUME BodyInv, pc # "retain", StartWalk, UNCHANGED <<locals, running, program>>
  PROVE  BodyStaysNumbered' /\ WalkInv'
<1>1. UNCHANGED <<blocks>> /\ queue' = <<ENTRY>> /\ seen' = {} /\ numbered' = 0 /\ nextBlock' = 0
  BY DEF StartWalk, ENTRY
<1>2. queue' \in Seq(BlockIds)' /\ ENTRY \in Waiting'
  <2>1. ENTRY \in BlockIds'
    BY <1>1, BodyIs DEF BlockIds, StartWalk
  <2>2. Waiting' = {queue'[i] : i \in {1}}
    BY <1>1 DEF Waiting
  <2> QED BY <1>1, <2>1, <2>2
<1> QED BY <1>1, <1>2, BodyKept DEF WalkInv

LEMMA WalkKeeps ==
  ASSUME BodyInv, Walk, UNCHANGED <<locals, running, program>>
  PROVE  BodyStaysNumbered' /\ WalkInv'
<1> DEFINE block == Head(queue)
<1>1. pc = "walk" /\ queue # <<>> /\ UNCHANGED <<blocks, numbered, nextBlock>>
  BY DEF Walk
<1>2. /\ queue \in Seq(BlockIds) /\ seen \subseteq BlockIds
      /\ ENTRY \in seen \cup Waiting
      /\ \A b \in seen : Leads(b) \subseteq seen \cup Waiting
      /\ numbered = 0 /\ nextBlock = 0
  BY <1>1 DEF BodyInv, WalkInv
<1>3. /\ block \in BlockIds /\ Tail(queue) \in Seq(BlockIds)
      /\ Waiting \subseteq {block} \cup {Tail(queue)[i] : i \in DOMAIN Tail(queue)}
  <2> USE <1>1, <1>2, HeadAndTail
  <2>1. block \in BlockIds /\ Tail(queue) \in Seq(BlockIds)
    OBVIOUS
  <2>2. \A i \in DOMAIN queue :
          queue[i] = block \/ \E j \in DOMAIN Tail(queue) : queue[i] = Tail(queue)[j]
    OBVIOUS
  <2> HIDE DEF block
  <2> QED BY <2>1, <2>2 DEF Waiting
<1>4. blocks[block].term.succs \in Seq(BlockIds)
  <2>1. blocks[block].term \in TermSet(DOMAIN locals, Edges)
    BY <1>1, <1>3, BodyIs
  <2>2. blocks[block].term.succs \in Seq(Edges)
    BY <2>1 DEF TermSet
  <2> QED BY <2>2 DEF Edges
<1>5. /\ queue' \in Seq(BlockIds) /\ seen' \subseteq BlockIds
      /\ seen \cup Waiting \subseteq seen' \cup Waiting'
      /\ \A b \in seen' : b \in seen \/ Leads(b) \subseteq Waiting'
  <2>1. CASE block \in seen
    <3>1. queue' = Tail(queue) /\ seen' = seen
      BY <2>1 DEF Walk
    <3> QED BY <1>2, <1>3, <2>1, <3>1 DEF Waiting
  <2>2. CASE block \notin seen
    <3>1. queue' = Tail(queue) \o blocks[block].term.succs /\ seen' = seen \cup {block}
      BY <2>2 DEF Walk
    <3>2. /\ queue' \in Seq(BlockIds)
          /\ {Tail(queue)[i] : i \in DOMAIN Tail(queue)} \subseteq Waiting'
          /\ Leads(block) \subseteq Waiting'
      <4> DEFINE q == Tail(queue)
                 r == blocks[block].term.succs
      <4>1. q \in Seq(BlockIds) /\ r \in Seq(BlockIds) /\ queue' = q \o r
        BY <1>3, <1>4, <3>1
      <4> HIDE DEF q, r
      <4>2. q \o r \in Seq(BlockIds)
        BY <4>1, JoinedMembers
      <4>3. \A i \in DOMAIN q : \E j \in DOMAIN (q \o r) : q[i] = (q \o r)[j]
        BY <4>1, JoinedMembers
      <4>4. \A i \in DOMAIN r : \E j \in DOMAIN (q \o r) : r[i] = (q \o r)[j]
        BY <4>1, JoinedMembers
      <4>5. {q[i] : i \in DOMAIN q} \subseteq Waiting' /\ {r[i] : i \in DOMAIN r} \subseteq Waiting'
        <5>1. Waiting' = {(q \o r)[j] : j \in DOMAIN (q \o r)}
          BY <4>1 DEF Waiting
        <5> QED BY <4>3, <4>4, <5>1
      <4> QED BY <4>1, <4>2, <4>5 DEF Leads, q, r
    <3> QED BY <1>2, <1>3, <3>1, <3>2
  <2> QED BY <2>1, <2>2
<1>6. \A b : Leads(b)' = Leads(b) /\ BlockIds' = BlockIds
  BY <1>1 DEF Leads, BlockIds
<1> QED BY <1>1, <1>2, <1>5, <1>6, BodyKept DEF WalkInv

LEMMA EndWalkKeeps ==
  ASSUME BodyInv, EndWalk, UNCHANGED <<locals, running, program>>
  PROVE  BodyStaysNumbered' /\ NumberInv'
<1>1. /\ pc = "walk" /\ queue = <<>> /\ UNCHANGED <<blocks, seen, numbered, nextBlock>>
      /\ blockMap' = [b \in BlockIds |-> Dropped]
  BY DEF EndWalk
<1>2. Waiting = {}
  BY <1>1 DEF Waiting
<1>3. /\ seen \subseteq BlockIds /\ ENTRY \in seen
      /\ \A b \in seen : Leads(b) \subseteq seen
      /\ numbered = 0 /\ nextBlock = 0
  BY <1>1, <1>2 DEF BodyInv, WalkInv
<1>4. /\ Count(blocks) \in Nat /\ BlockIds = 0 .. Count(blocks) - 1
  BY <1>1, BodyIs, NumberedCounts DEF Count, BlockIds
<1>5. Cardinality(Below(seen, 0)) = 0
  BY <1>3, <1>4, BelowEnds
<1>6. \A b \in BlockIds : ~(b < 0)
  BY <1>4
<1> QED BY <1>1, <1>3, <1>4, <1>5, <1>6, BodyKept DEF NumberInv, Leads, BlockIds, Count

LEMMA NumberKeeps ==
  ASSUME BodyInv, Number, UNCHANGED <<locals, running, program>>
  PROVE  BodyStaysNumbered' /\ NumberInv'
<1>1. pc = "number" /\ numbered \in BlockIds /\ numbered' = numbered + 1 /\ UNCHANGED <<blocks, seen>>
  BY DEF Number
<1>2. /\ seen \subseteq BlockIds /\ ENTRY \in seen
      /\ \A b \in seen : Leads(b) \subseteq seen
      /\ nextBlock = Cardinality(Below(seen, numbered))
      /\ DOMAIN blockMap = BlockIds
      /\ \A b \in BlockIds : blockMap[b] = IF b < numbered THEN NewNumber(b) ELSE Dropped
  BY <1>1 DEF BodyInv, NumberInv
<1>3. Count(blocks) \in Nat /\ BlockIds = 0 .. Count(blocks) - 1
  BY <1>1, BodyIs, NumberedCounts DEF Count, BlockIds
<1>4. IsFiniteSet(seen) /\ seen \subseteq Int /\ numbered \in Int
  BY <1>1, <1>2, <1>3, BelowEnds
<1>5. numbered' \in 0 .. Count(blocks)
  BY <1>1, <1>3
<1>6. nextBlock' = Cardinality(Below(seen, numbered + 1))
  <2>1. nextBlock' = IF numbered \in seen THEN nextBlock + 1 ELSE nextBlock
    BY <1>1 DEF Number
  <2> QED BY <1>2, <1>4, <2>1, BelowNext
<1>7. /\ DOMAIN blockMap' = BlockIds /\ blockMap'[numbered] = NewNumber(numbered)
      /\ \A b \in BlockIds \ {numbered} : blockMap'[b] = blockMap[b]
  <2>1. CASE numbered \in seen
    BY <1>1, <1>2, <2>1 DEF Number, NewNumber
  <2>2. CASE numbered \notin seen
    <3>1. blockMap' = blockMap /\ NewNumber(numbered) = Dropped
      BY <1>1, <2>2 DEF Number, NewNumber
    <3>2. blockMap[numbered] = Dropped
      BY <1>1, <1>2, <1>4
    <3> QED BY <1>1, <1>2, <3>1, <3>2
  <2> QED BY <2>1, <2>2
<1>8. \A b \in BlockIds : b < numbered + 1 <=> b < numbered \/ b = numbered
  BY <1>3, <1>4
<1>9. \A b \in BlockIds : blockMap'[b] = IF b < numbered + 1 THEN NewNumber(b) ELSE Dropped
  BY <1>1, <1>2, <1>4, <1>7, <1>8
<1> QED
  <2>1. /\ \A b \in BlockIds : NewNumber(b)' = NewNumber(b) /\ Leads(b)' = Leads(b)
        /\ BlockIds' = BlockIds /\ Count(blocks)' = Count(blocks) /\ DOMAIN blockMap' = BlockIds
    BY <1>1, <1>2, <1>7 DEF NewNumber, Leads, BlockIds, Count
  <2>2. BodyStaysNumbered'
    BY <1>1, BodyKept
  <2> QED BY <1>1, <1>2, <1>5, <1>6, <1>9, <2>1, <2>2 DEF NumberInv

(* The numbers of the blocks that are kept: none of them but the entry's   *)
(* is the entry's.                                                         *)
LEMMA NewNumbers ==
  ASSUME NEW n \in Nat, NEW S, S \subseteq 0 .. n - 1, ENTRY \in S
  PROVE  /\ Cardinality(S) \in Nat \ {0}
         /\ \A b \in S : Cardinality(Below(S, b)) \in 0 .. Cardinality(S) - 1
         /\ \A b \in S \ {ENTRY} : Cardinality(Below(S, b)) \in 1 .. Cardinality(S) - 1
<1>1. /\ IsFiniteSet(S) /\ S \subseteq Int /\ Cardinality(S) \in Nat
      /\ Cardinality(Below(S, 0)) = 0 /\ Cardinality(Below(S, n)) = Cardinality(S)
  BY BelowEnds
<1>2. ASSUME NEW b \in S
      PROVE  Cardinality(Below(S, b)) \in Nat /\ Cardinality(Below(S, b)) < Cardinality(S)
  <2>1. b < n /\ n \in Int
    OBVIOUS
  <2> QED BY <1>1, <2>1, BelowIncreases, BelowIsFinite
<1>3. ASSUME NEW b \in S \ {ENTRY}
      PROVE  0 < Cardinality(Below(S, b))
  <2>1. ENTRY < b /\ b \in Int
    BY DEF ENTRY
  <2> QED BY <1>1, <2>1, BelowIncreases DEF ENTRY
<1> QED BY <1>1, <1>2, <1>3

LEMMA RewriteEdgesKeeps ==
  ASSUME BodyInv, RewriteEdges, UNCHANGED <<locals, running, program>>
  PROVE  RetainInv'
<1> DEFINE L == DOMAIN locals
           k == Cardinality(seen)
<1>1. /\ pc = "number" /\ numbered \notin BlockIds /\ UNCHANGED <<seen, blockMap>>
      /\ blocks' = [b \in BlockIds |->
                      [blocks[b] EXCEPT !.term = Retarget(@, [c \in BlockIds |-> Renumber(c)])]]
  BY DEF RewriteEdges, BlocksMutDontDirty, unreachableVars
<1>2. /\ seen \subseteq BlockIds /\ ENTRY \in seen
      /\ \A b \in seen : Leads(b) \subseteq seen
      /\ numbered \in 0 .. Count(blocks) /\ DOMAIN blockMap = BlockIds
      /\ \A b \in BlockIds : blockMap[b] = IF b < numbered THEN NewNumber(b) ELSE Dropped
  BY <1>1 DEF BodyInv, NumberInv
<1>3. Count(blocks) \in Nat /\ BlockIds = 0 .. Count(blocks) - 1
  BY <1>1, BodyIs, NumberedCounts DEF Count, BlockIds
<1>4. numbered = Count(blocks)
  BY <1>1, <1>2, <1>3
<1>5. \A b \in BlockIds : blockMap[b] = NewNumber(b)
  BY <1>2, <1>3, <1>4
<1>6. /\ k \in Nat \ {0}
      /\ \A b \in seen : Cardinality(Below(seen, b)) \in 0 .. k - 1
      /\ \A b \in seen \ {ENTRY} : Cardinality(Below(seen, b)) \in 1 .. k - 1
  BY <1>2, <1>3, NewNumbers
<1>7. \A b \in BlockIds : blockMap[b] # Dropped <=> b \in seen
  BY <1>5, <1>6 DEF NewNumber, Dropped
<1>8. \A b \in seen \ {ENTRY} : Renumber(b) \in 1 .. k - 1
  BY <1>2, <1>5, <1>6, <1>7 DEF Renumber, NewNumber
<1>9. ASSUME NEW b \in seen
      PROVE  blocks'[b] \in BlockSet(L, 1 .. k - 1, Arity)
  <2> DEFINE t == blocks[b].term
             succs == [i \in DOMAIN t.succs |-> [c \in BlockIds |-> Renumber(c)][t.succs[i]]]
  <2>1. /\ blocks[b] \in BlockSet(L, Edges, Arity) /\ b \in BlockIds
        /\ t \in TermSet(L, Edges)
    BY <1>1, <1>2, BodyIs
  <2>2. t.succs \in Seq(Edges)
    BY <2>1 DEF TermSet
  <2>3. ASSUME NEW i \in DOMAIN t.succs
        PROVE  succs[i] \in 1 .. k - 1
    <3>1. t.succs[i] \in Edges /\ t.succs[i] \in Leads(b)
      BY <2>2 DEF Leads
    <3>2. t.succs[i] \in seen \ {ENTRY} /\ t.succs[i] \in BlockIds
      BY <1>2, <3>1 DEF Edges
    <3>3. succs[i] = Renumber(t.succs[i])
      BY <3>2
    <3> QED BY <1>8, <3>2, <3>3
  <2>4. succs = [i \in DOMAIN t.succs |-> succs[i]]
    OBVIOUS
  <2>5. blocks'[b] = [blocks[b] EXCEPT !.term = Terminator(t.kind, t.on, t.values, succs)]
    BY <1>1, <2>1 DEF Retarget
  <2>6. succs \in Seq(1 .. k - 1) /\ Len(succs) = Len(t.succs)
    <3> DEFINE New == 1 .. k - 1
    <3>1. \A i \in DOMAIN t.succs : succs[i] \in New
      BY <2>3
    <3> HIDE DEF succs, t, New
    <3>2. succs \in Seq(New)
      BY <2>2, <2>4, <3>1, ListOver
    <3>3. Len(succs) = Len(t.succs)
      BY <2>2, <2>4, <3>2, SameIndices
    <3> QED BY <3>2, <3>3 DEF New
  <2> HIDE DEF succs
  <2>7. Terminator(t.kind, t.on, t.values, succs) \in TermSet(L, 1 .. k - 1)
    BY <2>1, <2>6 DEF Terminator, TermSet
  <2> HIDE DEF t, k, L
  <2> QED BY <2>1, <2>5, <2>7 DEF BlockSet
<1> QED
  <2>1. Numbered(blocks)' /\ BlockIds' = BlockIds
    BY <1>1, BodyIs DEF Numbered, BlockIds
  <2>2. Retained' = seen
    BY <1>1, <1>2, <1>7, <2>1 DEF Retained
  <2>3. /\ Numbered(locals)' /\ \A l \in L : locals[l] \in LocalSet
        /\ ParamsOf(WorkedOn)' = 0 .. Arity[running] - 1
    BY <1>1, BodyIs DEF Numbered, BodyOK, WorkedOn, ParamsOf
  <2>4. Arity' = Arity
    BY DEF Arity
  <2> QED BY <1>1, <1>2, <1>9, <2>1, <2>2, <2>3, <2>4 DEF RetainInv

LEMMA RetainKeeps ==
  ASSUME BodyInv, Retain, UNCHANGED <<locals, running, program>>
  PROVE  BodyStaysNumbered'
<1> DEFINE L == DOMAIN locals
           k == Cardinality(seen)
<1>1. /\ pc = "retain" /\ pc' = "done"
      /\ blocks' = [i \in DOMAIN InOrder(Retained) |-> blocks[InOrder(Retained)[i]]]
  BY DEF Retain, BlocksMut
<1>2. /\ Numbered(blocks) /\ Numbered(locals)
      /\ \A l \in L : locals[l] \in LocalSet
      /\ ParamsOf(WorkedOn) = 0 .. Arity[running] - 1
      /\ seen \subseteq BlockIds /\ ENTRY \in seen /\ Retained = seen
      /\ \A b \in seen : blocks[b] \in BlockSet(L, 1 .. k - 1, Arity)
  BY <1>1 DEF BodyInv, RetainInv
<1>3. Count(blocks) \in Nat /\ seen \subseteq 0 .. Count(blocks) - 1
  BY <1>2, NumberedCounts DEF Count, BlockIds
<1>4. /\ DOMAIN InOrder(seen) = 0 .. k - 1
      /\ \A i \in DOMAIN InOrder(seen) : InOrder(seen)[i] \in seen
  BY <1>3, InOrderLists
<1>5. k \in Nat \ {0}
  BY <1>2, <1>3, NewNumbers
<1>6. DOMAIN blocks' = 0 .. k - 1
  BY <1>1, <1>2, <1>4
<1>7. Numbered(blocks')
  BY <1>5, <1>6, NumberedUpTo
<1>8. \A b \in DOMAIN blocks' : blocks'[b] \in BlockSet(L, 1 .. k - 1, Arity)
  BY <1>1, <1>2, <1>4
<1>9. DOMAIN blocks' \ {ENTRY} = 1 .. k - 1 /\ ENTRY \in DOMAIN blocks'
  BY <1>5, <1>6 DEF ENTRY
<1> QED
  <2>1. Numbered(locals)' /\ \A l \in DOMAIN locals' : locals'[l] \in LocalSet
    BY <1>2 DEF Numbered
  <2>2. ParamsOf(WorkedOn)' = 0 .. Arity[running] - 1 /\ Arity' = Arity
    BY <1>2 DEF ParamsOf, WorkedOn, Arity
  <2> QED BY <1>7, <1>8, <1>9, <2>1, <2>2 DEF BodyStaysNumbered, BodyOK, WorkedOn, Arity

LEMMA UnreachableKeeps ==
  ASSUME BodyInv, RunUnreachable
  PROVE  /\ BodyStaysNumbered' /\ WalkInv' /\ NumberInv' /\ RetainInv'
         /\ pc' \in {"walk", "number", "retain", "done"}
<1>1. UNCHANGED <<locals, running, program>> /\ UnreachableStep
  BY DEF RunUnreachable, managerVars
<1>2. CASE StartWalk
  <2>1. pc = "unreachable" /\ pc' = "walk"
    BY <1>2 DEF StartWalk
  <2> QED BY <1>1, <1>2, <2>1, StartWalkKeeps DEF NumberInv, RetainInv
<1>3. CASE Walk
  <2>1. pc' = "walk"
    BY <1>3 DEF Walk
  <2> QED BY <1>1, <1>3, <2>1, WalkKeeps DEF NumberInv, RetainInv
<1>4. CASE EndWalk
  <2>1. pc' = "number"
    BY <1>4 DEF EndWalk
  <2> QED BY <1>1, <1>4, <2>1, EndWalkKeeps DEF WalkInv, RetainInv
<1>5. CASE Number
  <2>1. pc' = "number"
    BY <1>5 DEF Number
  <2> QED BY <1>1, <1>5, <2>1, NumberKeeps DEF WalkInv, RetainInv
<1>6. CASE RewriteEdges
  <2>1. pc' = "retain"
    BY <1>6 DEF RewriteEdges
  <2> QED BY <1>1, <1>6, <2>1, RewriteEdgesKeeps DEF BodyStaysNumbered, WalkInv, NumberInv
<1>7. CASE Retain
  <2>1. pc' = "done"
    BY <1>7 DEF Retain
  <2> QED BY <1>1, <1>7, <2>1, RetainKeeps DEF WalkInv, NumberInv, RetainInv
<1> QED BY <1>1, <1>2, <1>3, <1>4, <1>5, <1>6, <1>7 DEF UnreachableStep

-----------------------------------------------------------------------------
(* remove-unused-locals.                                                   *)

LEMMA ArityIsANumber ==
  ASSUME program \in Programs, NEW f \in DOMAIN program.bodies
  PROVE  Arity[f] \in Nat
<1>1. Numbered(program.bodies[f].locals)
  BY CompilationsAssumption DEF Programs, BodyOK
<1>2. IsFiniteSet(ParamsOf(program.bodies[f]))
  BY <1>1, FS_Subset DEF Numbered, ParamsOf
<1>3. Arity[f] = Cardinality(ParamsOf(program.bodies[f]))
  BY DEF Arity, Arities
<1> QED BY <1>2, <1>3, FS_CardinalityType

(* The locals a compaction starts from and goes through.                   *)
LEMMA LocalsAre ==
  ASSUME BodyInv, pc # "retain"
  PROVE  /\ Arity[running] \in Nat
         /\ Count(locals) \in Nat /\ DOMAIN locals = 0 .. Count(locals) - 1
         /\ \A l \in DOMAIN locals : locals[l] \in LocalSet
         /\ {l \in DOMAIN locals : locals[l].kind = "param"} = 0 .. Arity[running] - 1
<1>1. running \in DOMAIN program.bodies /\ program \in Programs
  BY DEF BodyInv, BodiesInv
<1>2. Numbered(locals)
  BY BodyIs
<1>3. /\ \A l \in DOMAIN locals : locals[l] \in LocalSet
      /\ {l \in DOMAIN locals : locals[l].kind = "param"} = 0 .. Arity[running] - 1
  BY BodyIs DEF BodyOK, WorkedOn, ParamsOf
<1> QED BY <1>1, <1>2, <1>3, ArityIsANumber, NumberedCounts DEF Count

LEMMA FindLocalsKeeps ==
  ASSUME BodyInv, FindLocals, UNCHANGED <<running, program>>
  PROVE  BodyStaysNumbered' /\ CompactInv'
<1>1. /\ pc # "retain" /\ UNCHANGED <<blocks, locals>> /\ found' = UsedLocals
      /\ compacted' = 0 /\ nextLocal' = 0 /\ DOMAIN localMap' = DOMAIN locals
  BY DEF FindLocals
<1>2. \A b \in BlockIds : BlockLocals(blocks[b]) \subseteq DOMAIN locals
  BY <1>1, BodyIs, PlacesOfBlock
<1>3. /\ found' \subseteq DOMAIN locals /\ 0 .. Arity[running] - 1 \subseteq found'
      /\ \A b \in BlockIds : BlockLocals(blocks[b]) \subseteq found'
  BY <1>1, <1>2, LocalsAre DEF UsedLocals, Params
<1>4. \A l \in found' : ~(l < 0)
  BY <1>1, <1>3, LocalsAre
<1>5. Arity' = Arity /\ BlockIds' = BlockIds /\ Count(locals)' = Count(locals)
  BY <1>1 DEF Arity, BlockIds, Count
<1> QED BY <1>1, <1>3, <1>4, <1>5, BodyKept, LocalsAre DEF CompactInv

LEMMA CompactKeeps ==
  ASSUME BodyInv, Compact, UNCHANGED <<running, program>>
  PROVE  BodyStaysNumbered' /\ CompactInv'
<1> DEFINE a == Arity[running]
<1>1. /\ pc = "compact" /\ compacted \in DOMAIN locals
      /\ UNCHANGED <<blocks, found>> /\ compacted' = compacted + 1
  BY DEF Compact
<1>2. CompactInv
  BY DEF BodyInv
<1>3. /\ a \in Nat /\ Count(locals) \in Nat /\ DOMAIN locals = 0 .. Count(locals) - 1
      /\ compacted \in Nat /\ compacted < Count(locals) /\ nextLocal \in Nat
      /\ nextLocal <= compacted /\ nextLocal \in DOMAIN locals
      /\ found \subseteq DOMAIN locals /\ (compacted < a => compacted \in found)
  BY <1>1, <1>2, LocalsAre DEF CompactInv
<1> HIDE DEF a
<1>4. /\ DOMAIN locals' = DOMAIN locals
      /\ \A l \in DOMAIN locals : locals'[l] \in LocalSet
      /\ {l \in DOMAIN locals' : locals'[l].kind = "param"} = 0 .. a - 1
  <2>1. /\ \A l \in DOMAIN locals : locals[l] \in LocalSet
        /\ \A l \in DOMAIN locals : locals[l].kind = "param" <=> l \in 0 .. a - 1
        /\ {l \in DOMAIN locals : locals[l].kind = "param"} = 0 .. a - 1
    <3>1. pc # "retain"
      BY <1>1
    <3> QED BY <3>1, LocalsAre DEF a
  <2>2. CASE compacted \in found
    <3>1. locals' = Swap(locals, compacted, nextLocal)
      BY <2>2 DEF Compact
    <3>2. compacted < a => nextLocal = compacted
      BY <1>1, <1>2, <1>3 DEF CompactInv, a
    <3>3. ~(compacted < a) => ~(nextLocal < a)
      BY <1>1, <1>2, <1>3 DEF CompactInv, a
    <3>4. /\ DOMAIN locals' = DOMAIN locals
          /\ locals'[compacted] = locals[nextLocal]
          /\ locals'[nextLocal] = locals[compacted]
          /\ \A l \in DOMAIN locals \ {compacted, nextLocal} : locals'[l] = locals[l]
      BY <1>1, <1>3, <3>1 DEF Swap
    <3>5. \A l \in DOMAIN locals : l \in 0 .. a - 1 <=> l < a
      BY <1>3
    <3>6. \A l \in DOMAIN locals : locals'[l].kind = "param" <=> l \in 0 .. a - 1
      BY <1>1, <1>3, <2>1, <3>2, <3>3, <3>4, <3>5
    <3>7. \A l \in DOMAIN locals : locals'[l] \in LocalSet
      BY <1>1, <1>3, <2>1, <3>4
    <3>8. {l \in DOMAIN locals' : locals'[l].kind = "param"} =
            {l \in DOMAIN locals : locals[l].kind = "param"}
      BY <2>1, <3>4, <3>6
    <3> QED BY <2>1, <3>4, <3>7, <3>8
  <2>3. CASE compacted \notin found
    BY <2>1, <2>3 DEF Compact
  <2> QED BY <2>2, <2>3
<1>5. BodyStaysNumbered'
  <2>1. Numbered(blocks)' /\ Numbered(locals)' /\ BlockIds' = BlockIds /\ Arity' = Arity
    BY <1>1, <1>4, BodyIs DEF Numbered, BlockIds, Arity
  <2>2. ENTRY \in BlockIds
    BY <1>1, BodyIs
  <2>3. \A b \in BlockIds : blocks'[b] \in BlockSet(DOMAIN locals', Edges, Arity)
    BY <1>1, <1>4, BodyIs
  <2> QED BY <1>4, <2>1, <2>2, <2>3
          DEF BodyStaysNumbered, BodyOK, WorkedOn, ParamsOf, Arity, BlockIds, Edges, a
<1>6. CompactInv'
  <2>1. /\ BlockIds' = BlockIds /\ Arity'[running] = a /\ Count(locals') = Count(locals)
        /\ UNCHANGED <<blocks, found, running>>
    BY <1>1, <1>4 DEF BlockIds, Arity, Count, a
  <2>2. /\ 0 .. a - 1 \subseteq found
        /\ \A b \in BlockIds : BlockLocals(blocks[b]) \subseteq found
    BY <1>1, <1>2 DEF CompactInv, a
  <2>3. compacted' \in 0 .. Count(locals)
    BY <1>1, <1>3
  <2>4. /\ nextLocal' \in 0 .. compacted'
        /\ compacted' <= a => nextLocal' = compacted'
        /\ compacted' > a => nextLocal' >= a
    <3>1. nextLocal' = IF compacted \in found THEN nextLocal + 1 ELSE nextLocal
      BY DEF Compact
    <3>2. /\ compacted <= a => nextLocal = compacted
          /\ compacted > a => nextLocal >= a
      BY <1>1, <1>2 DEF CompactInv, a
    <3> QED BY <1>1, <1>3, <3>1, <3>2
  <2>5. /\ DOMAIN localMap' = DOMAIN locals
        /\ \A l \in found : l < compacted' => localMap'[l] \in 0 .. nextLocal' - 1
    <3>1. /\ DOMAIN localMap = DOMAIN locals
          /\ \A l \in found : l < compacted => localMap[l] \in 0 .. nextLocal - 1
      BY <1>1, <1>2 DEF CompactInv
    <3>2. \A l \in found : l < compacted + 1 <=> l < compacted \/ l = compacted
      BY <1>3
    <3>3. CASE compacted \in found
      <4>1. localMap' = [localMap EXCEPT ![compacted] = nextLocal] /\ nextLocal' = nextLocal + 1
        BY <3>3 DEF Compact
      <4>2. 0 .. nextLocal - 1 \subseteq 0 .. nextLocal' - 1 /\ nextLocal \in 0 .. nextLocal' - 1
        BY <1>3, <4>1
      <4> QED BY <1>1, <1>3, <3>1, <3>2, <4>1, <4>2
    <3>4. CASE compacted \notin found
      BY <1>1, <3>1, <3>2, <3>4 DEF Compact
    <3> QED BY <3>3, <3>4
  <2> QED BY <1>3, <1>4, <2>1, <2>2, <2>3, <2>4, <2>5 DEF CompactInv, Count
<1> QED BY <1>5, <1>6

LEMMA ReplaceKeeps ==
  ASSUME BodyInv, Replace, UNCHANGED <<running, program>>
  PROVE  BodyStaysNumbered' /\ pc' = "done"
<1> DEFINE a == Arity[running]
           n == Count(locals)
           StillThere == {l \in DOMAIN locals : l < KeptCount}
<1>1. pc = "compact" /\ compacted \notin DOMAIN locals
  BY DEF Replace
<1>2. CompactInv
  BY DEF BodyInv
<1>3. /\ a \in Nat /\ n \in Nat /\ DOMAIN locals = 0 .. n - 1 /\ compacted = n
      /\ nextLocal \in Nat /\ nextLocal <= n
      /\ found \subseteq DOMAIN locals
      /\ 0 .. a - 1 \subseteq found
      /\ compacted <= a => nextLocal = compacted
      /\ compacted > a => nextLocal >= a
  BY <1>1, <1>2, LocalsAre DEF CompactInv
<1>4. \A l \in found : localMap[l] \in 0 .. nextLocal - 1
  <2>1. \A l \in found : l < compacted
    BY <1>3
  <2> QED BY <1>1, <1>2, <2>1 DEF CompactInv
<1> HIDE DEF a, n
<1>5. a <= n /\ a <= nextLocal
  <2>1. a > 0 => a - 1 \in 0 .. a - 1
    BY <1>3
  <2>2. a > 0 => a - 1 \in 0 .. n - 1
    BY <1>3, <2>1
  <2>3. a <= n
    BY <1>3, <2>2
  <2> QED BY <1>3, <2>3
<1> DEFINE m == IF nextLocal < n THEN nextLocal + 1 ELSE n
<1>6. /\ m \in Nat /\ StillThere = 0 .. m - 1 /\ a <= m
      /\ 0 .. nextLocal - 1 \subseteq StillThere /\ StillThere \subseteq DOMAIN locals
  BY <1>3, <1>5 DEF KeptCount
<1> HIDE DEF m, StillThere
<1>7. \A b \in BlockIds : \A l \in BlockLocals(blocks[b]) : localMap[l] \in StillThere
  <2>1. \A b \in BlockIds : BlockLocals(blocks[b]) \subseteq found
    BY <1>1, <1>2 DEF CompactInv
  <2> QED BY <1>4, <1>6, <2>1
<1>8. CanReplace
  <2>1. \A l \in StillThere : l # Unmapped
    BY <1>6 DEF Unmapped
  <2> QED BY <1>7, <2>1 DEF CanReplace
<1>9. /\ blocks' = [b \in BlockIds |-> RenameBlock(blocks[b], localMap)]
      /\ locals' = [l \in StillThere |-> locals[l]] /\ pc' = "done"
  BY <1>8 DEF Replace, BlocksMut, StillThere
<1>10. ASSUME NEW b \in BlockIds
       PROVE  blocks'[b] \in BlockSet(StillThere, Edges, Arity)
  <2>1. blocks[b] \in BlockSet(DOMAIN locals, Edges, Arity)
    BY <1>1, BodyIs
  <2>2. StillThere \subseteq Nat /\ \A l \in BlockLocals(blocks[b]) : localMap[l] \in StillThere
    BY <1>6, <1>7
  <2>3. RenameBlock(blocks[b], localMap) \in BlockSet(StillThere, Edges, Arity)
    BY <2>1, <2>2, RenameBlockOver
  <2> QED BY <1>9, <2>3
<1>11. Numbered(blocks') /\ Numbered(locals')
  <2>1. Numbered(locals')
    BY <1>6, <1>9, NumberedUpTo
  <2>2. Numbered(blocks')
    BY <1>1, <1>9, BodyIs DEF Numbered, BlockIds
  <2> QED BY <2>1, <2>2
<1>12. /\ \A l \in StillThere : locals'[l] \in LocalSet
       /\ {l \in StillThere : locals'[l].kind = "param"} = 0 .. a - 1
  <2>1. /\ \A l \in DOMAIN locals : locals[l] \in LocalSet
        /\ {l \in DOMAIN locals : locals[l].kind = "param"} = 0 .. a - 1
    BY <1>1, LocalsAre DEF a
  <2>2. 0 .. a - 1 \subseteq StillThere
    BY <1>3, <1>6
  <2>3. {l \in StillThere : locals'[l].kind = "param"} = {l \in DOMAIN locals : locals[l].kind = "param"}
    BY <1>6, <1>9, <2>1, <2>2
  <2> QED BY <1>6, <1>9, <2>1, <2>3
<1> QED
  <2>1. /\ Numbered(blocks)' /\ Numbered(locals)' /\ BlockIds' = BlockIds
        /\ Arity' = Arity /\ DOMAIN locals' = StillThere /\ UNCHANGED running
    BY <1>9, <1>11 DEF Numbered, BlockIds, Arity
  <2>2. ENTRY \in BlockIds
    BY <1>1, BodyIs
  <2> QED BY <1>9, <1>10, <1>12, <2>1, <2>2
          DEF BodyStaysNumbered, BodyOK, WorkedOn, ParamsOf, Arity, BlockIds, Edges, a

LEMMA UnusedKeeps ==
  ASSUME BodyInv, RunUnused
  PROVE  BodyStaysNumbered' /\ CompactInv' /\ pc' \in {"compact", "done"}
<1>1. UNCHANGED <<running, program>> /\ UnusedStep
  BY DEF RunUnused, managerVars
<1>2. CASE FindLocals
  BY <1>1, <1>2, FindLocalsKeeps DEF FindLocals
<1>3. CASE Compact
  <2>1. pc' = "compact"
    BY <1>3 DEF Compact
  <2> QED BY <1>1, <1>3, <2>1, CompactKeeps
<1>4. CASE Replace
  BY <1>1, <1>4, ReplaceKeeps DEF CompactInv
<1> QED BY <1>1, <1>2, <1>3, <1>4 DEF UnusedStep

-----------------------------------------------------------------------------
(* inline.                                                                 *)

(* There is a first call site, as the visitor meets them.                  *)
LEMMA FirstSiteIsASite ==
  ASSUME BodyInv, pc # "retain", Sites # {}
  PROVE  /\ FirstSite[1] \in BlockIds
         /\ FirstSite[2] \in DOMAIN blocks[FirstSite[1]].stmts
         /\ IsSite(blocks[FirstSite[1]].stmts[FirstSite[2]])
<1> DEFINE In(b) == {i \in DOMAIN blocks[b].stmts : IsSite(blocks[b].stmts[i])}
           Bs == {b \in BlockIds : In(b) # {}}
<1>1. \A s : s \in Sites <=> \E b \in BlockIds : \E i \in In(b) : s = <<b, i>>
  BY DEF Sites
<1>2. BlockIds \subseteq Nat
  BY BodyIs, NumberedCounts DEF BlockIds
<1>3. ASSUME NEW b \in BlockIds
      PROVE  In(b) \subseteq Nat
  BY BodyIs
<1> HIDE DEF In
<1>4. PICK b \in Bs : \A c \in Bs : b <= c
  <2>1. Bs # {} /\ Bs \subseteq Nat
    BY <1>1, <1>2
  <2> HIDE DEF Bs
  <2> QED BY <2>1, LeastNumber
<1>5. PICK i \in In(b) : \A j \in In(b) : i <= j
  <2>1. In(b) # {} /\ In(b) \subseteq Nat
    BY <1>3, <1>4
  <2> QED BY <2>1, LeastNumber
<1>6. <<b, i>> \in Sites
  BY <1>1, <1>4, <1>5
<1>7. ASSUME NEW t \in Sites
      PROVE  b < t[1] \/ (b = t[1] /\ i <= t[2])
  <2>1. PICK c \in BlockIds : \E j \in In(c) : t = <<c, j>>
    BY <1>1
  <2>2. PICK j \in In(c) : t = <<c, j>>
    BY <2>1
  <2>3. b \in Nat /\ c \in Nat /\ b <= c
    BY <1>2, <1>4, <2>1, <2>2
  <2> QED BY <1>5, <2>2, <2>3
<1>8. \E s \in Sites : \A t \in Sites : s[1] < t[1] \/ (s[1] = t[1] /\ s[2] <= t[2])
  BY <1>6, <1>7
<1>9. FirstSite \in Sites
  BY <1>8 DEF FirstSite
<1>10. PICK c \in BlockIds : \E j \in In(c) : FirstSite = <<c, j>>
  BY <1>1, <1>9
<1> QED BY <1>10 DEF In

LEMMA AppendAfterOver ==
  ASSUME NEW f, NEW g, NEW n \in Nat, NEW m \in Nat, NEW T,
         \A k \in 0 .. n - 1 : f[k] \in T, \A k \in 0 .. m - 1 : g[k] \in T
  PROVE  /\ DOMAIN AppendAfter(f, n, g, m) = 0 .. n + m - 1
         /\ \A k \in 0 .. n + m - 1 : AppendAfter(f, n, g, m)[k] \in T
<1> DEFINE new == AppendAfter(f, n, g, m)
<1>1. /\ DOMAIN new = 0 .. n + m - 1
      /\ \A k \in 0 .. n + m - 1 : new[k] = IF k < n THEN f[k] ELSE g[k - n]
  BY DEF AppendAfter
<1> HIDE DEF new
<1>2. ASSUME NEW k \in 0 .. n + m - 1
      PROVE  new[k] \in T
  <2>1. CASE k < n
    BY <1>1, <2>1
  <2>2. CASE ~(k < n)
    <3>1. k - n \in 0 .. m - 1
      BY <2>2
    <3> QED BY <1>1, <2>2, <3>1
  <2> QED BY <2>1, <2>2
<1> QED BY <1>1, <1>2 DEF new

(* The caller's blocks, the copies and the rest of the calling block.      *)
LEMMA SplicedBlocks ==
  ASSUME NEW n \in Nat, NEW m \in Nat, NEW T, NEW f, NEW g, NEW e,
         \A b \in 0 .. n - 1 : f[b] \in T, \A d \in 0 .. m - 1 : g[d] \in T, e[0] \in T
  PROVE  LET new == AppendAfter(AppendAfter(f, n, g, m), n + m, e, 1)
         IN DOMAIN new = 0 .. n + m /\ \A b \in 0 .. n + m : new[b] \in T
<1> DEFINE h == AppendAfter(f, n, g, m)
           N == n + m
           new == AppendAfter(h, N, e, 1)
<1>1. N \in Nat /\ \A b \in 0 .. N - 1 : h[b] \in T
  <2>1. \A b \in 0 .. n + m - 1 : AppendAfter(f, n, g, m)[b] \in T
    BY AppendAfterOver
  <2> QED BY <2>1
<1>2. \A b \in 0 .. 1 - 1 : e[b] \in T
  OBVIOUS
<1> HIDE DEF h, N
<1>3. DOMAIN new = 0 .. N + 1 - 1 /\ \A b \in 0 .. N + 1 - 1 : new[b] \in T
  BY <1>1, <1>2, AppendAfterOver
<1>4. N + 1 - 1 = N
  BY <1>1
<1> QED BY <1>3, <1>4 DEF N, h

(* The caller's locals and the callee's: no more parameters than before.   *)
LEMMA SplicedLocals ==
  ASSUME NEW k \in Nat, NEW c \in Nat, NEW a \in Nat, NEW old, NEW callee, NEW moved, NEW new,
         \A l \in 0 .. k - 1 : old[l] \in LocalSet,
         {l \in 0 .. k - 1 : old[l].kind = "param"} = 0 .. a - 1,
         \A l \in 0 .. c - 1 : callee[l] \in LocalSet /\ moved[l] = InlinedLocal(callee[l]),
         new = AppendAfter(old, k, moved, c)
  PROVE  /\ DOMAIN new = 0 .. k + c - 1
         /\ \A l \in DOMAIN new : new[l] \in LocalSet
         /\ {l \in DOMAIN new : new[l].kind = "param"} = 0 .. a - 1
<1>1. \A l \in 0 .. c - 1 : moved[l] \in LocalSet /\ moved[l].kind # "param"
  BY DEF InlinedLocal, LocalSet
<1>3. /\ DOMAIN new = 0 .. k + c - 1
      /\ \A l \in 0 .. k + c - 1 : new[l] = IF l < k THEN old[l] ELSE moved[l - k]
  BY DEF AppendAfter
<1>4. \A l \in 0 .. k - 1 : old[l].kind = "param" <=> l \in 0 .. a - 1
  OBVIOUS
<1>5. 0 .. a - 1 \subseteq 0 .. k - 1 /\ 0 .. k - 1 \subseteq 0 .. k + c - 1
  OBVIOUS
<1>6. ASSUME NEW l \in 0 .. k + c - 1
      PROVE  new[l] \in LocalSet /\ (new[l].kind = "param" <=> l \in 0 .. a - 1)
  <2>1. CASE l < k
    <3>1. l \in 0 .. k - 1 /\ new[l] = old[l]
      BY <1>3, <2>1
    <3> QED BY <1>4, <3>1
  <2>2. CASE ~(l < k)
    <3>1. l \notin 0 .. k - 1 /\ l - k \in 0 .. c - 1 /\ new[l] = moved[l - k]
      BY <1>3, <2>2
    <3> QED BY <1>1, <1>5, <3>1
  <2> QED BY <2>1, <2>2
<1> QED BY <1>3, <1>5, <1>6

(* A callee's place, its locals behind the first k, is one of the caller's.*)
LEMMA PlaceIntoOver ==
  ASSUME NEW k \in Nat, NEW c \in Nat, NEW p \in PlaceSet(0 .. c - 1),
         NEW dest \in PlaceSet(0 .. k - 1)
  PROVE  PlaceInto(p, dest, k) \in PlaceSet(0 .. k + c - 1)
<1> DEFINE M == 0 .. k + c - 1
<1>1. 0 .. k - 1 \subseteq M /\ 0 .. c - 1 \subseteq M /\ M \subseteq Nat
  OBVIOUS
<1>2. CASE p.base # ReturnPlace
  <2> DEFINE f == [l \in PlaceLocals(p) |-> l + k]
  <2>1. PlaceLocals(p) \subseteq 0 .. c - 1
    BY DEF PlaceSet, PlaceLocals, IsLocal
  <2>2. \A l \in PlaceLocals(p) : f[l] \in M
    BY <2>1
  <2> HIDE DEF f, M
  <2>3. RenamePlace(p, f) \in PlaceSet(M)
    BY <1>1, <2>2, RenamePlaceOver
  <2> QED BY <1>2, <2>3 DEF PlaceInto, f, M
<1>3. CASE p.base = ReturnPlace /\ p.proj = "none"
  <2>1. dest \in PlaceSet(M)
    <3> HIDE DEF M
    <3> QED BY <1>1 DEF PlaceSet
  <2> QED BY <1>3, <2>1 DEF PlaceInto
<1>4. CASE p.base = ReturnPlace /\ p.proj # "none"
  <2>1. [p EXCEPT !.base = dest.base] \in PlaceSet(M)
    <3> HIDE DEF M
    <3> QED BY <1>1 DEF PlaceSet
  <2> QED BY <1>4, <2>1 DEF PlaceInto
<1> QED BY <1>2, <1>3, <1>4

LEMMA GotoOver ==
  ASSUME NEW L, NEW B, NEW b \in B
  PROVE  Goto(b) \in TermSet(L, B)
<1>1. ZeroSized \in OperandSet(L)
  BY ConstantsHaveNoPlace DEF ZeroSized, OperandSet
<1>2. Goto(b) \in [kind : TermKinds, on : OperandSet(L), values : Seq(Int), succs : Seq(B)]
  BY <1>1 DEF Goto, Terminator, TermKinds
<1>3. Goto(b).kind = "goto" /\ Len(Goto(b).succs) = 1
  BY DEF Goto, Terminator
<1> QED BY <1>2, <1>3 DEF TermSet

(* A callee's block, its locals behind the first k and its blocks behind   *)
(* the first n, goes where the caller has blocks.                          *)
LEMMA InlinedBlockOver ==
  ASSUME NEW k \in Nat, NEW c \in Nat, NEW n \in Nat \ {0}, NEW m \in Nat, NEW arity,
         NEW b \in BlockSet(0 .. c - 1, 1 .. m - 1, arity), NEW dest \in PlaceSet(0 .. k - 1)
  PROVE  InlinedBlock(b, dest, k, n, n + m) \in BlockSet(0 .. k + c - 1, 1 .. n + m, arity)
<1> DEFINE M == 0 .. k + c - 1
           C == 1 .. n + m
           g == [p \in BlockPlaces(b) |-> PlaceInto(p, dest, k)]
           copy == MapPlaces(b, g)
           succs == [i \in DOMAIN copy.term.succs |-> copy.term.succs[i] + n]
<1>1. copy \in BlockSet(M, 1 .. m - 1, arity)
  <2>1. \A p \in BlockPlaces(b) : p \in PlaceSet(0 .. c - 1)
    BY PlacesOfBlock
  <2>2. \A p \in BlockPlaces(b) : g[p] \in PlaceSet(M)
    BY <2>1, PlaceIntoOver
  <2> HIDE DEF g, M
  <2> QED BY <2>2, MapPlacesOver
<1>2. /\ copy.stmts \in Seq(StmtSet(M, arity)) /\ copy.term \in TermSet(M, 1 .. m - 1)
      /\ copy = [stmts |-> copy.stmts, term |-> copy.term]
  <2> HIDE DEF copy, M
  <2> QED BY <1>1 DEF BlockSet
<1>3. InlinedBlock(b, dest, k, n, n + m) =
        IF copy.term.kind = "return" THEN [copy EXCEPT !.term = Goto(n + m)]
        ELSE [copy EXCEPT !.term.succs = succs]
  BY DEF InlinedBlock
<1>4. CASE copy.term.kind = "return"
  <2>1. Goto(n + m) \in TermSet(M, C)
    <3>1. n + m \in C
      OBVIOUS
    <3> HIDE DEF C, M
    <3> QED BY <3>1, GotoOver
  <2>2. InlinedBlock(b, dest, k, n, n + m) = [copy EXCEPT !.term = Goto(n + m)]
    BY <1>3, <1>4
  <2> HIDE DEF copy, M, C
  <2>3. [copy EXCEPT !.term = Goto(n + m)] \in BlockSet(M, C, arity)
    BY <1>2, <2>1 DEF BlockSet
  <2> QED BY <2>2, <2>3 DEF M, C
<1>5. CASE copy.term.kind # "return"
  <2> HIDE DEF copy, M
  <2>1. copy.term.succs \in Seq(1 .. m - 1)
    BY <1>2 DEF TermSet
  <2>2. \A i \in DOMAIN copy.term.succs : succs[i] \in C
    <3>1. \A i \in DOMAIN copy.term.succs : copy.term.succs[i] \in 1 .. m - 1
      BY <2>1
    <3> QED BY <3>1
  <2>3. succs = [i \in DOMAIN copy.term.succs |-> succs[i]]
    OBVIOUS
  <2> HIDE DEF succs, C
  <2>4. succs \in Seq(C) /\ Len(succs) = Len(copy.term.succs)
    <3> DEFINE Old == 1 .. m - 1
               old == copy.term.succs
    <3>1. old \in Seq(Old) /\ succs = [i \in DOMAIN old |-> succs[i]]
      BY <2>1, <2>3
    <3>2. \A i \in DOMAIN old : succs[i] \in C
      BY <2>2
    <3> HIDE DEF Old, old
    <3>3. succs \in Seq(C)
      BY <3>1, <3>2, ListOver
    <3>4. Len(succs) = Len(old)
      BY <3>1, <3>3, SameIndices
    <3> QED BY <3>3, <3>4 DEF old
  <2>6. [copy.term EXCEPT !.succs = succs] \in TermSet(M, C)
    BY <1>2, <2>4 DEF TermSet
  <2>7. InlinedBlock(b, dest, k, n, n + m) = [copy EXCEPT !.term = [copy.term EXCEPT !.succs = succs]]
    BY <1>2, <1>3, <1>5
  <2>8. [copy EXCEPT !.term = [copy.term EXCEPT !.succs = succs]] \in BlockSet(M, C, arity)
    BY <1>2, <2>6 DEF BlockSet
  <2> QED BY <2>7, <2>8 DEF M, C
<1> QED BY <1>4, <1>5

(* The arguments are assigned to locals of the callee's, behind the first  *)
(* k: it takes no more than it has.                                        *)
LEMMA ArgumentsOver ==
  ASSUME NEW k \in Nat, NEW c \in Nat, NEW arity, NEW ops \in Seq(OperandSet(0 .. k - 1)),
         Len(ops) <= c, NEW new,
         new = [i \in DOMAIN ops |-> Assign(LocalPlace(k + i - 1), Use(ops[i]))]
  PROVE  new \in Seq(StmtSet(0 .. k + c - 1, arity))
<1> DEFINE M == 0 .. k + c - 1
<1>1. 0 .. k - 1 \subseteq M
  OBVIOUS
<1>2. ASSUME NEW i \in DOMAIN ops
      PROVE  new[i] \in StmtSet(M, arity)
  <2>1. k + i - 1 \in M
    OBVIOUS
  <2>2. ops[i] \in OperandSet(0 .. k - 1)
    OBVIOUS
  <2>3. new[i] = Assign(LocalPlace(k + i - 1), Use(ops[i]))
    OBVIOUS
  <2> HIDE DEF M
  <2>4. LocalPlace(k + i - 1) \in PlaceSet(M)
    BY <2>1 DEF LocalPlace, Place, PlaceSet
  <2>5. ops[i] \in OperandSet(M)
    <3>1. PlaceSet(0 .. k - 1) \subseteq PlaceSet(M)
      BY <1>1 DEF PlaceSet
    <3> QED BY <2>2, <3>1 DEF OperandSet
  <2>6. Use(ops[i]) \in RvalueSet(M, arity)
    BY <2>5, UseOver
  <2> QED BY <2>3, <2>4, <2>6 DEF Assign, StmtSet
<1>3. new = [i \in DOMAIN ops |-> new[i]]
  OBVIOUS
<1> HIDE DEF M
<1>4. new \in Seq(StmtSet(M, arity))
  BY <1>2, <1>3, ListOver
<1> QED BY <1>4 DEF M

LEMMA InlineCallKeeps ==
  ASSUME BodyInv, InlineCall, UNCHANGED <<running, program>>
  PROVE  BodyStaysNumbered' /\ pc' \in {"inlining", "panicked"}
<1> DEFINE site   == FirstSite
           caller == blocks[site[1]]
           call   == caller.stmts[site[2]]
           callee == bodies[call.rv.callee]
           n      == Cardinality(BlockIds)
           m      == Cardinality(DOMAIN callee.blocks)
           k      == Cardinality(DOMAIN locals)
           c      == Cardinality(DOMAIN callee.locals)
           args   == [i \in DOMAIN call.rv.args |->
                        Assign(LocalPlace(k + i - 1), Use(call.rv.args[i]))]
           before == Block(SubSeq(caller.stmts, 1, site[2] - 1) \o args, Goto(n))
           after  == Block(<<Noop>> \o SubSeq(caller.stmts, site[2] + 1, Len(caller.stmts)),
                           caller.term)
           copies == [d \in DOMAIN callee.blocks |->
                        InlinedBlock(callee.blocks[d], call.place, k, n, n + m)]
           moved  == [l \in DOMAIN callee.locals |-> InlinedLocal(callee.locals[l])]
           L == 0 .. k - 1
           M == 0 .. k + c - 1
           B == 1 .. n + m
<1>1. pc = "inlining" /\ Sites # {}
  BY DEF InlineCall
<1>2. CASE ~CanBorrow(call.rv.callee)
  <2>1. pc' = "panicked" /\ UNCHANGED <<blocks, locals>>
    BY <1>2 DEF InlineCall
  <2> QED BY <1>1, <2>1, BodyKept
<1>3. CASE CanBorrow(call.rv.callee)
  <2>1. /\ blocks' = AppendAfter(AppendAfter([blocks EXCEPT ![site[1]] = before], n, copies, m),
                                 n + m, [d \in {0} |-> after], 1)
        /\ locals' = AppendAfter(locals, k, moved, c)
        /\ pc' = pc
    BY <1>3 DEF InlineCall, BlocksMut
  <2>2. /\ site[1] \in BlockIds /\ site[2] \in DOMAIN caller.stmts /\ IsSite(call)
    BY <1>1, FirstSiteIsASite
  <2>3. /\ n \in Nat \ {0} /\ BlockIds = 0 .. n - 1 /\ k \in Nat /\ DOMAIN locals = L
    <3>1. Numbered(blocks) /\ Numbered(locals) /\ ENTRY \in BlockIds
      BY <1>1, BodyIs
    <3>2. /\ Cardinality(DOMAIN blocks) \in Nat
          /\ DOMAIN blocks = 0 .. Cardinality(DOMAIN blocks) - 1
          /\ k \in Nat /\ DOMAIN locals = L
      BY <3>1, NumberedCounts
    <3>3. n \in Nat /\ BlockIds = 0 .. n - 1
      BY <3>2 DEF BlockIds
    <3> HIDE DEF n
    <3>4. n # 0
      BY <3>1, <3>3
    <3> QED BY <3>2, <3>3, <3>4
  <2>4. BodyOK(callee, call.rv.callee, Arity)
    BY <1>3 DEF CanBorrow, BodyInv, BodiesInv
  <2>5. /\ m \in Nat /\ DOMAIN callee.blocks = 0 .. m - 1
        /\ c \in Nat /\ DOMAIN callee.locals = 0 .. c - 1
        /\ \A l \in DOMAIN callee.locals : callee.locals[l] \in LocalSet
        /\ 0 .. Arity[call.rv.callee] - 1 \subseteq 0 .. c - 1
        /\ \A d \in DOMAIN callee.blocks :
             callee.blocks[d] \in BlockSet(0 .. c - 1, 1 .. m - 1, Arity)
    <3>1. Numbered(callee.blocks) /\ Numbered(callee.locals)
      BY <2>4 DEF BodyOK
    <3>2. /\ m \in Nat /\ DOMAIN callee.blocks = 0 .. m - 1
          /\ c \in Nat /\ DOMAIN callee.locals = 0 .. c - 1
      BY <3>1, NumberedCounts
    <3>3. DOMAIN callee.blocks \ {ENTRY} = 1 .. m - 1
      <4> HIDE DEF callee, m
      <4> QED BY <3>2 DEF ENTRY
    <3>4. 0 .. Arity[call.rv.callee] - 1 \subseteq DOMAIN callee.locals
      BY <2>4 DEF BodyOK, ParamsOf
    <3> QED BY <2>4, <3>2, <3>3, <3>4 DEF BodyOK
  <2> HIDE DEF site, caller, callee, n, m, k, c
  <2>6. /\ caller.stmts \in Seq(StmtSet(L, Arity)) /\ caller.term \in TermSet(L, Edges)
        /\ caller \in BlockSet(L, Edges, Arity)
    BY <1>1, <2>2, <2>3, BodyIs DEF caller
  <2>7. call \in StmtSet(L, Arity)
    BY <2>2, <2>6
  <2> HIDE DEF call
  <2>8. call.place \in PlaceSet(L) /\ call.rv \in RvalueSet(L, Arity) /\ call.rv.kind = "call"
    BY <2>2, <2>7 DEF IsSite, StmtSet, Noop
  <2>9. /\ call.rv.args \in Seq(OperandSet(L)) /\ call.rv.callee \in DOMAIN Arity
        /\ Len(call.rv.args) = Arity[call.rv.callee]
    BY <2>8 DEF RvalueSet, CallKinds, ArgCount
  <2>10. Len(call.rv.args) <= c
    <3>1. Arity[call.rv.callee] \in Nat
      BY <2>9
    <3> DEFINE x == Arity[call.rv.callee]
    <3>2. x > 0 => x - 1 \in 0 .. c - 1
      BY <2>5, <3>1
    <3> QED BY <2>5, <2>9, <3>1, <3>2
  <2>11. L \subseteq M /\ Edges \subseteq B /\ n \in B /\ n + m \in B /\ M \subseteq Nat
    BY <2>3, <2>5 DEF Edges, ENTRY
  <2>12. args \in Seq(StmtSet(M, Arity))
    <3> DEFINE ops == call.rv.args
    <3>1. ops \in Seq(OperandSet(L)) /\ Len(ops) <= c
      BY <2>9, <2>10
    <3>2. args = [i \in DOMAIN ops |-> Assign(LocalPlace(k + i - 1), Use(ops[i]))]
      OBVIOUS
    <3> HIDE DEF ops, args
    <3> QED BY <2>3, <2>5, <3>1, <3>2, ArgumentsOver
  <2>13. caller \in BlockSet(M, B, Arity)
    <3> HIDE DEF L, M, B
    <3> QED BY <2>6, <2>11, BlockWidened
  <2>14. caller.stmts \in Seq(StmtSet(M, Arity)) /\ caller.term \in TermSet(M, B)
    BY <2>13 DEF BlockSet
  <2>15. /\ SubSeq(caller.stmts, 1, site[2] - 1) \in Seq(StmtSet(M, Arity))
         /\ SubSeq(caller.stmts, site[2] + 1, Len(caller.stmts)) \in Seq(StmtSet(M, Arity))
    <3> HIDE DEF M
    <3> QED BY <2>2, <2>14, ListSplit
  <2>16. before \in BlockSet(M, B, Arity)
    <3> HIDE DEF args, M, B
    <3>1. SubSeq(caller.stmts, 1, site[2] - 1) \o args \in Seq(StmtSet(M, Arity))
      BY <2>12, <2>15
    <3>2. Goto(n) \in TermSet(M, B)
      BY <2>11, GotoOver
    <3> QED BY <3>1, <3>2 DEF Block, BlockSet
  <2>17. after \in BlockSet(M, B, Arity)
    <3> HIDE DEF M, B
    <3>1. <<Noop>> \in Seq(StmtSet(M, Arity))
      BY DEF StmtSet
    <3>2. <<Noop>> \o SubSeq(caller.stmts, site[2] + 1, Len(caller.stmts)) \in Seq(StmtSet(M, Arity))
      BY <2>15, <3>1
    <3> QED BY <2>14, <3>2 DEF Block, BlockSet
  <2>18. \A d \in 0 .. m - 1 : copies[d] \in BlockSet(M, B, Arity)
    BY <2>3, <2>5, <2>8, InlinedBlockOver
  <2>19. \A b \in BlockIds : blocks[b] \in BlockSet(M, B, Arity)
    <3> HIDE DEF M, B
    <3>1. \A b \in BlockIds : blocks[b] \in BlockSet(L, Edges, Arity)
      BY <1>1, <2>3, BodyIs
    <3> HIDE DEF L
    <3> QED BY <2>11, <3>1, BlockWidened
  <2> HIDE DEF before, after, copies
  <2>20. DOMAIN blocks' = 0 .. n + m /\ \A b \in 0 .. n + m : blocks'[b] \in BlockSet(M, B, Arity)
    <3> DEFINE f == [blocks EXCEPT ![site[1]] = before]
               T == BlockSet(M, B, Arity)
    <3>1. \A b \in 0 .. n - 1 : f[b] \in T
      BY <2>3, <2>16, <2>19 DEF BlockIds
    <3>2. n \in Nat /\ m \in Nat /\ after \in T /\ \A d \in 0 .. m - 1 : copies[d] \in T
      BY <2>3, <2>5, <2>17, <2>18
    <3> DEFINE e == [d \in {0} |-> after]
    <3>3. e[0] \in T
      BY <3>2
    <3>4. blocks' = AppendAfter(AppendAfter(f, n, copies, m), n + m, e, 1)
      BY <2>1
    <3> HIDE DEF f, T, e
    <3> DEFINE new == AppendAfter(AppendAfter(f, n, copies, m), n + m, e, 1)
    <3>5. DOMAIN new = 0 .. n + m /\ \A b \in 0 .. n + m : new[b] \in T
      BY <3>1, <3>2, <3>3, SplicedBlocks
    <3> HIDE DEF new
    <3> QED BY <3>4, <3>5 DEF T, new
  <2>21. /\ DOMAIN locals' = M /\ \A l \in DOMAIN locals' : locals'[l] \in LocalSet
         /\ {l \in DOMAIN locals' : locals'[l].kind = "param"} = 0 .. Arity[running] - 1
    <3> DEFINE a == Arity[running]
               old == callee.locals
    <3>1. /\ \A l \in 0 .. k - 1 : locals[l] \in LocalSet
          /\ a \in Nat /\ {l \in 0 .. k - 1 : locals[l].kind = "param"} = 0 .. a - 1
          /\ DOMAIN locals = 0 .. k - 1
      BY <1>1, <2>3, LocalsAre
    <3>2. /\ k \in Nat /\ c \in Nat /\ DOMAIN old = 0 .. c - 1
          /\ \A l \in 0 .. c - 1 : old[l] \in LocalSet /\ moved[l] = InlinedLocal(old[l])
      BY <2>3, <2>5
    <3>3. locals' = AppendAfter(locals, k, moved, c)
      BY <2>1
    <3> HIDE DEF a, old, moved
    <3>4. /\ DOMAIN locals' = 0 .. k + c - 1
          /\ \A l \in DOMAIN locals' : locals'[l] \in LocalSet
          /\ {l \in DOMAIN locals' : locals'[l].kind = "param"} = 0 .. a - 1
      BY <3>1, <3>2, <3>3, SplicedLocals
    <3> QED BY <3>4 DEF a
  <2> QED
    <3>1. Numbered(blocks') /\ Numbered(locals')
      <4> DEFINE N == n + m + 1
                 K == k + c
      <4>1. N \in Nat /\ DOMAIN blocks' = 0 .. N - 1
        BY <2>3, <2>5, <2>20
      <4>2. K \in Nat /\ DOMAIN locals' = 0 .. K - 1
        BY <2>3, <2>5, <2>21
      <4> HIDE DEF N, K
      <4> QED BY <4>1, <4>2, NumberedUpTo
    <3>2. DOMAIN blocks' \ {ENTRY} = B /\ ENTRY \in DOMAIN blocks'
      BY <2>3, <2>5, <2>20 DEF ENTRY
    <3>3. Arity' = Arity /\ UNCHANGED running
      BY DEF Arity
    <3> HIDE DEF M, B
    <3> QED BY <1>1, <2>1, <2>20, <2>21, <3>1, <3>2, <3>3
            DEF BodyStaysNumbered, BodyOK, WorkedOn, ParamsOf, Arity
<1> QED BY <1>2, <1>3

LEMMA InlineKeeps ==
  ASSUME BodyInv, RunInline
  PROVE  BodyStaysNumbered' /\ pc' \in {"inlining", "panicked", "done"}
<1>1. UNCHANGED <<running, program>> /\ InlineStep
  BY DEF RunInline, managerVars
<1>2. CASE StartInline
  BY <1>1, <1>2, BodyKept DEF StartInline
<1>3. CASE InlineCall
  BY <1>1, <1>3, InlineCallKeeps
<1>4. CASE StopInlining
  BY <1>1, <1>4, BodyKept DEF StopInlining
<1> QED BY <1>1, <1>2, <1>3, <1>4 DEF InlineStep

-----------------------------------------------------------------------------
(* The pass manager.                                                       *)

(* Where no pass is on its way there is nothing but the body to speak of.  *)
OnItsWay == {"sweep", "walk", "number", "retain", "compact"}

LEMMA NothingOnItsWay ==
  ASSUME pc' \notin OnItsWay, BodiesInv', BodyStaysNumbered'
  PROVE  BodyInv'
BY DEF OnItsWay, BodyInv, SweepInv, WalkInv, NumberInv, RetainInv, CompactInv

LEMMA NextPassKeeps ==
  ASSUME BodyInv, NextPass
  PROVE  BodyInv'
<1>1. /\ pc = "done" /\ passIndex' = passIndex + 1 /\ passIndex + 1 \in 1 .. Len(PassList)
      /\ UNCHANGED <<blocks, locals, bodies, running, program, turn>>
      /\ pc' \in {PassList[passIndex + 1], "done"}
  BY DEF NextPass, BodyInv, BodiesInv, PassList
<1>2. PassList[passIndex + 1] \in
        {"zst", "simplify", "inline", "unreachable", "deadstore", "unused"}
  BY <1>1 DEF PassList
<1>3. pc' \notin OnItsWay
  BY <1>1, <1>2 DEF OnItsWay
<1>4. BodiesInv'
  <2>1. passIndex' \in Nat
    BY <1>1
  <2> QED BY <1>1, <2>1, BodiesKept DEF BodyInv
<1> QED BY <1>1, <1>3, <1>4, BodyKept, NothingOnItsWay

LEMMA NextBodyKeeps ==
  ASSUME BodyInv, NextBody
  PROVE  BodyInv'
<1>1. /\ pc = "done" /\ program' = program /\ bodies' = [bodies EXCEPT ![running] = WorkedOn]
      /\ BodiesInv
  BY DEF NextBody, BodyInv
<1>2. BodyOK(WorkedOn, running, Arity) /\ Arity' = Arity
  BY <1>1, BodyIs DEF Arity
<1>3. /\ DOMAIN bodies' = DOMAIN program.bodies
      /\ \A f \in DOMAIN bodies' : BodyOK(bodies'[f], f, Arity)
  BY <1>1, <1>2 DEF BodiesInv
<1>4. CASE turn < Len(program.sources)
  <2> DEFINE f == program.sources[turn + 1]
  <2>1. turn' = turn + 1 /\ passIndex' = 0 /\ pc' = "done" /\ Borrow(f, bodies)
    BY <1>4 DEF NextBody
  <2>2. f \in DOMAIN program.bodies
    <3>1. Len(program.sources) \in Nat
      BY <1>1, CompilationsAssumption DEF BodiesInv, Programs
    <3>2. turn + 1 \in 1 .. Len(program.sources)
      BY <1>1, <1>4, <3>1 DEF BodiesInv
    <3> QED BY <1>1, <3>2, SourcesInTable DEF BodiesInv
  <2>3. BodiesInv'
    BY <1>1, <1>2, <1>3, <2>1, <2>2 DEF BodiesInv, Borrow, Programs
  <2>4. BodyStaysNumbered'
    <3>1. BodyOK(bodies[f], f, Arity)
      BY <1>1, <2>2 DEF BodiesInv
    <3>2. running' = f /\ blocks' = bodies[f].blocks /\ locals' = bodies[f].locals
      BY <2>1 DEF Borrow
    <3> QED BY <1>2, <3>1, <3>2
            DEF BodyStaysNumbered, BodyOK, WorkedOn, ParamsOf, Numbered, Arity
  <2> QED BY <2>1, <2>3, <2>4, NothingOnItsWay DEF OnItsWay
<1>5. CASE ~(turn < Len(program.sources))
  <2>1. pc' = "finished" /\ UNCHANGED <<turn, passIndex, running, blocks, locals>>
    BY <1>5 DEF NextBody
  <2>2. BodiesInv'
    BY <1>1, <1>2, <1>3, <2>1 DEF BodiesInv, Programs
  <2> QED BY <1>1, <2>1, <2>2, BodyKept, NothingOnItsWay DEF OnItsWay
<1> QED BY <1>4, <1>5

-----------------------------------------------------------------------------

LEMMA BodiesStart == Init => BodyInv
<1> SUFFICES ASSUME Init
             PROVE  BodyInv
  OBVIOUS
<1>1. PICK c \in Compilations : program = c.program
  BY DEF Init
<1>2. /\ bodies = program.bodies /\ running = program.sources[1] /\ pc = "done"
      /\ turn = 1 /\ passIndex = 0
      /\ blocks = bodies[running].blocks /\ locals = bodies[running].locals
  BY DEF Init
<1>3. running \in DOMAIN bodies
  <2>1. program.sources \in Seq(DOMAIN program.bodies) /\ program.sources # <<>>
    BY <1>1, CompilationsAssumption
  <2>2. program.sources[1] \in DOMAIN program.bodies
    BY <2>1
  <2> QED BY <1>2, <2>2
<1>4. \A f \in DOMAIN bodies : BodyOK(bodies[f], f, Arity)
  BY <1>1, <1>2, CompilationsAssumption DEF Arity
<1>5. BodiesInv
  BY <1>1, <1>2, <1>3, <1>4 DEF BodiesInv, Programs
<1>6. BodyStaysNumbered
  BY <1>2, <1>3, <1>4 DEF BodyStaysNumbered, BodyOK, WorkedOn, ParamsOf, Numbered, Arity
<1> QED BY <1>2, <1>5, <1>6
        DEF BodyInv, SweepInv, WalkInv, NumberInv, RetainInv, CompactInv

LEMMA BodiesStep == BodyInv /\ [Next]_vars => BodyInv'
<1> SUFFICES ASSUME BodyInv, [Next]_vars
             PROVE  BodyInv'
  OBVIOUS
<1>1. ASSUME UNCHANGED <<bodies, running, managerVars>>
      PROVE  BodiesInv'
  BY <1>1, BodiesKept DEF BodyInv, BodiesInv, managerVars
<1>2. CASE NextPass
  BY <1>2, NextPassKeeps
<1>3. CASE NextBody
  BY <1>3, NextBodyKeeps
<1>4. CASE RunStmtPass
  <2>1. BodiesInv'
    BY <1>1, <1>4 DEF RunStmtPass
  <2>2. BodyStaysNumbered' /\ pc' = "done"
    BY <1>4, RemoveZstKeeps, DeadStoreElimKeeps DEF RunStmtPass, StmtStep, RemoveZst, DeadStoreElim
  <2> QED BY <2>1, <2>2, NothingOnItsWay DEF OnItsWay
<1>5. CASE RunSimplify
  <2>1. BodiesInv'
    BY <1>1, <1>5 DEF RunSimplify
  <2>2. BodyStaysNumbered' /\ SweepInv' /\ pc' \in {"sweep", "done"}
    BY <1>5, SimplifyKeeps
  <2> QED BY <2>1, <2>2 DEF BodyInv, WalkInv, NumberInv, RetainInv, CompactInv
<1>6. CASE RunInline
  <2>1. BodiesInv'
    BY <1>1, <1>6 DEF RunInline
  <2>2. BodyStaysNumbered' /\ pc' \in {"inlining", "panicked", "done"}
    BY <1>6, InlineKeeps
  <2> QED BY <2>1, <2>2, NothingOnItsWay DEF OnItsWay
<1>7. CASE RunUnreachable
  <2>1. BodiesInv'
    BY <1>1, <1>7 DEF RunUnreachable
  <2> QED BY <1>7, <2>1, UnreachableKeeps DEF BodyInv, SweepInv, CompactInv
<1>8. CASE RunUnused
  <2>1. BodiesInv'
    BY <1>1, <1>8 DEF RunUnused
  <2> QED BY <1>8, <2>1, UnusedKeeps DEF BodyInv, SweepInv, WalkInv, NumberInv, RetainInv
<1>9. CASE UNCHANGED vars
  <2>1. BodiesInv'
    BY <1>1, <1>9 DEF vars
  <2>2. BodyStaysNumbered'
    BY <1>9 DEF vars, managerVars, BodyInv, BodyStaysNumbered, BodyOK, WorkedOn, ParamsOf, Numbered
  <2>3. SweepInv' /\ WalkInv' /\ NumberInv' /\ RetainInv' /\ CompactInv'
    BY <1>9 DEF vars, passVars, managerVars, simplifyVars, unreachableVars, unusedVars,
       BodyInv, SweepInv, WalkInv, NumberInv, RetainInv, CompactInv, Waiting, Leads, BlockIds,
       Count, NewNumber, Numbered, ParamsOf, WorkedOn, Arity, Retained
  <2> QED BY <2>1, <2>2, <2>3 DEF BodyInv
<1> QED BY <1>2, <1>3, <1>4, <1>5, <1>6, <1>7, <1>8, <1>9 DEF Next, Step, Stopped

LEMMA BodiesHold == Spec => []BodyInv
BY BodiesStart, BodiesStep, PTL DEF Spec

(* No pass (src/mir/passes) leaves a body with an edge to a block it does  *)
(* not have or to the entry, a place made of a local it does not have, a   *)
(* gap in the numbers of either, a parameter lost, moved or added, or a    *)
(* call that gives a function of the program less or more than it takes:   *)
(* renumbering the blocks and the locals, splicing in a callee behind the  *)
(* caller's and stealing a block never tell an old number for a new one.   *)
THEOREM BodiesAreNumbered == Spec => []BodyStaysNumbered
<1>1. BodyInv => BodyStaysNumbered
  BY DEF BodyInv
<1> QED BY <1>1, BodiesHold, PTL

-----------------------------------------------------------------------------
ReachedFrom(f) == {g \in DOMAIN program.bodies : Reaches(f, g)}

CallInv ==
  /\ \A f \in DOMAIN bodies : CallsIn(bodies[f].blocks) \subseteq ReachedFrom(f)
  /\ CallsIn(blocks) \subseteq ReachedFrom(running)
  /\ pc \in {"inline", "inlining"} => ShouldRun("inline")
  /\ PanicsOnlyOnRecursion

(* What is called in a list of blocks, statement by statement.             *)
Calls(s, g) == IsSite(s) /\ s.rv.callee = g
CalledBy(b, g) == \E i \in DOMAIN b.stmts : Calls(b.stmts[i], g)

LEMMA CallsAre ==
  ASSUME NEW bs, NEW g
  PROVE  g \in CallsIn(bs) <=> \E b \in DOMAIN bs : CalledBy(bs[b], g)
BY DEF CallsIn, CalledBy, Calls

(* No call is invented if every block calls what some old block calls.     *)
LEMMA NoNewCalls ==
  ASSUME NEW bs, NEW cs,
         \A b \in DOMAIN cs : \A g : CalledBy(cs[b], g) => \E a \in DOMAIN bs : CalledBy(bs[a], g)
  PROVE  CallsIn(cs) \subseteq CallsIn(bs)
BY CallsAre

-----------------------------------------------------------------------------
(* Reaching is transitive, and stays in the program.                       *)
LEMMA CallsAreReached ==
  ASSUME program \in Programs, NEW f \in DOMAIN program.bodies
  PROVE  CallsOf(f) \subseteq ReachedFrom(f)
<1>1. ASSUME NEW g \in CallsOf(f)
      PROVE  g \in DOMAIN program.bodies
  <2>1. PICK b \in DOMAIN program.bodies[f].blocks : CalledBy(program.bodies[f].blocks[b], g)
    BY CallsAre DEF CallsOf
  <2> DEFINE L == DOMAIN program.bodies[f].locals
             B == DOMAIN program.bodies[f].blocks \ {ENTRY}
             stmts == program.bodies[f].blocks[b].stmts
  <2>2. program.bodies[f].blocks[b] \in BlockSet(L, B, Arity)
    BY CompilationsAssumption DEF Programs, BodyOK, Arity
  <2>3. stmts \in Seq(StmtSet(L, Arity))
    BY <2>2 DEF BlockSet
  <2>4. PICK i \in DOMAIN stmts : IsSite(stmts[i]) /\ stmts[i].rv.callee = g
    BY <2>1 DEF CalledBy, Calls
  <2>5. stmts[i] \in StmtSet(L, Arity)
    BY <2>3
  <2> HIDE DEF stmts, L
  <2>6. stmts[i].rv \in RvalueSet(L, Arity) /\ stmts[i].rv.kind = "call"
    BY <2>4, <2>5 DEF IsSite, StmtSet, Noop
  <2>7. g \in DOMAIN Arity
    BY <2>4, <2>6 DEF RvalueSet, CallKinds
  <2> QED BY <2>7 DEF Arity, Arities
<1>2. ASSUME NEW g \in CallsOf(f)
      PROVE  Reaches(f, g)
  BY DEF Reaches
<1> QED BY <1>1, <1>2 DEF ReachedFrom

LEMMA ReachedOnward ==
  ASSUME NEW f, NEW g \in ReachedFrom(f)
  PROVE  ReachedFrom(g) \subseteq ReachedFrom(f)
<1>1. ASSUME NEW h \in ReachedFrom(g), NEW S \in SUBSET DOMAIN program.bodies,
             CallsOf(f) \subseteq S, \A e \in S : CallsOf(e) \subseteq S
      PROVE  h \in S
  <2>1. g \in S
    BY <1>1 DEF ReachedFrom, Reaches
  <2>2. CallsOf(g) \subseteq S
    BY <1>1, <2>1
  <2> QED BY <1>1, <2>2 DEF ReachedFrom, Reaches
<1> QED BY <1>1 DEF ReachedFrom, Reaches

-----------------------------------------------------------------------------
(* The statement passes and simplify-cfg.                                  *)
LEMMA StmtPassCalls ==
  ASSUME BodyInv, RunStmtPass
  PROVE  CallsIn(blocks') \subseteq CallsIn(blocks)
<1> SUFFICES ASSUME NEW b \in DOMAIN blocks', NEW g, CalledBy(blocks'[b], g)
             PROVE  b \in DOMAIN blocks /\ CalledBy(blocks[b], g)
  BY NoNewCalls
<1>1. PICK i \in DOMAIN blocks'[b].stmts : Calls(blocks'[b].stmts[i], g)
  BY DEF CalledBy
<1>2. CASE RemoveZst
  <2>1. /\ b \in DOMAIN blocks /\ i \in DOMAIN blocks[b].stmts
        /\ blocks'[b].stmts[i] = ZstStmt(blocks[b].stmts[i]) /\ pc # "retain"
    BY <1>1, <1>2 DEF RemoveZst, BlocksMutDontDirty, BlockIds, Block
  <2> DEFINE s == blocks[b].stmts[i]
  <2>2. s \in StmtSet(DOMAIN locals, Arity)
    BY <2>1, BodyIs DEF BlockIds
  <2>3. Calls(ZstStmt(s), g)
    BY <1>1, <2>1
  <2> HIDE DEF s
  <2>4. Calls(s, g)
    <3>1. CASE s = Noop
      BY <2>3, <3>1 DEF Calls, IsSite, ZstStmt, Noop
    <3>2. CASE s.kind = "print"
      BY <2>2, <2>3, <3>2 DEF Calls, IsSite, ZstStmt, StmtSet, Noop
    <3>3. CASE s \in [kind : {"assign"}, place : PlaceSet(DOMAIN locals),
                      rv : RvalueSet(DOMAIN locals, Arity)]
      <4>1. s.rv \in RvalueSet(DOMAIN locals, Arity) /\ s.kind = "assign"
        BY <3>3
      <4>2. ZstStmt(s) # Noop
        BY <2>3 DEF Calls, IsSite, Noop
      <4>3. ZstStmt(s) = [s EXCEPT !.rv.args = [i_1 \in DOMAIN @ |-> ZstOperand(@[i_1])]]
        BY <4>1, <4>2 DEF ZstStmt
      <4>4. ZstStmt(s).rv.kind = s.rv.kind /\ ZstStmt(s).rv.callee = s.rv.callee
        BY <3>3, <4>1, <4>3 DEF RvalueSet
      <4> QED BY <2>3, <4>1, <4>4 DEF Calls, IsSite
    <3> QED BY <2>2, <3>1, <3>2, <3>3 DEF StmtSet
  <2> QED BY <2>1, <2>4 DEF CalledBy, s
<1>3. CASE DeadStoreElim
  <2>1. /\ b \in DOMAIN blocks /\ i \in DOMAIN blocks[b].stmts
        /\ blocks'[b].stmts[i] \in {Noop, blocks[b].stmts[i]}
    BY <1>1, <1>3 DEF DeadStoreElim, BlocksMut, BlockIds, Block
  <2> QED BY <1>1, <2>1 DEF CalledBy, Calls, IsSite, Noop
<1> QED BY <1>2, <1>3 DEF RunStmtPass, StmtStep

LEMMA RemovedNoopsCalls ==
  ASSUME NEW L, NEW B, NEW arity, NEW b \in BlockSet(L, B, arity), NEW g,
         CalledBy(RemoveNoops(b), g)
  PROVE  CalledBy(b, g)
<1> DEFINE S == {i \in DOMAIN b.stmts : ~IsNoop(b.stmts[i])}
           kept == InOrder(S)
<1>1. PICK k \in DOMAIN kept : Calls(b.stmts[kept[k]], g)
  <2>1. PICK j \in {i + 1 : i \in DOMAIN kept} : Calls(b.stmts[kept[j - 1]], g)
    BY DEF CalledBy, RemoveNoops, Block
  <2>2. PICK k \in DOMAIN kept : j = k + 1
    BY <2>1
  <2>3. DOMAIN kept \subseteq Int
    BY DEF InOrder
  <2>4. j - 1 = k
    BY <2>2, <2>3
  <2> QED BY <2>1, <2>4
<1>2. b.stmts \in Seq(StmtSet(L, arity))
  BY DEF BlockSet
<1>3. Len(b.stmts) + 1 \in Nat /\ S \subseteq 0 .. (Len(b.stmts) + 1) - 1
  BY <1>2
<1>4. S \subseteq DOMAIN b.stmts
  OBVIOUS
<1> HIDE DEF S
<1>5. kept[k] \in S
  BY <1>1, <1>3, InOrderLists
<1> QED BY <1>1, <1>4, <1>5 DEF CalledBy

(* What is called in two lists of statements put together.                 *)
LEMMA JoinedCalls ==
  ASSUME NEW S, NEW q \in Seq(S), NEW r \in Seq(S), NEW t, NEW g,
         CalledBy(Block(q \o r, t), g)
  PROVE  (\E i \in DOMAIN q : Calls(q[i], g)) \/ \E i \in DOMAIN r : Calls(r[i], g)
<1> DEFINE s == q \o r
<1>1. PICK i \in DOMAIN s : Calls(s[i], g)
  BY DEF CalledBy, Block
<1>2. /\ Len(s) = Len(q) + Len(r) /\ s \in Seq(S)
      /\ \A j \in 1 .. Len(q) + Len(r) : s[j] = IF j <= Len(q) THEN q[j] ELSE r[j - Len(q)]
  BY ConcatProperties
<1> HIDE DEF s
<1>3. i \in 1 .. Len(q) + Len(r) /\ Len(q) \in Nat /\ Len(r) \in Nat
  BY <1>1, <1>2
<1>4. CASE i <= Len(q)
  <2>1. i \in DOMAIN q /\ s[i] = q[i]
    BY <1>2, <1>3, <1>4
  <2> QED BY <1>1, <2>1
<1>5. CASE ~(i <= Len(q))
  <2>1. i - Len(q) \in DOMAIN r /\ s[i] = r[i - Len(q)]
    BY <1>2, <1>3, <1>5
  <2> QED BY <1>1, <2>1
<1> QED BY <1>4, <1>5

LEMMA StolenCalls ==
  ASSUME NEW S, NEW bs, NEW target \in DOMAIN bs, NEW block \in DOMAIN bs,
         bs[target].stmts \in Seq(S), bs[block].stmts \in Seq(S)
  PROVE  CallsIn(Steal(bs, target, block)) \subseteq CallsIn(bs)
<1> DEFINE cs == Steal(bs, target, block)
           old == IF target = block THEN <<>> ELSE bs[block].stmts
           stmts == old \o bs[target].stmts
<1>1. ASSUME NEW g, CalledBy(Block(stmts, bs[target].term), g)
      PROVE  CalledBy(bs[target], g) \/ CalledBy(bs[block], g)
  <2>1. old \in Seq(S) /\ bs[target].stmts \in Seq(S)
    OBVIOUS
  <2>2. \/ \E i \in DOMAIN old : Calls(old[i], g)
        \/ \E i \in DOMAIN bs[target].stmts : Calls(bs[target].stmts[i], g)
    <3> HIDE DEF old
    <3> QED BY <1>1, <2>1, JoinedCalls
  <2> QED BY <2>2 DEF CalledBy
<1> HIDE DEF stmts
<1>2. ASSUME NEW b \in DOMAIN cs, NEW g, CalledBy(cs[b], g)
      PROVE  \E a \in DOMAIN bs : CalledBy(bs[a], g)
  <2>1. /\ b \in DOMAIN bs
        /\ \/ cs[b] = bs[b] \/ cs[b] = Block(<<>>, Unreachable)
           \/ cs[b] = Block(stmts, bs[target].term)
    BY DEF Steal, stmts
  <2>2. ~CalledBy(Block(<<>>, Unreachable), g)
    BY DEF CalledBy, Block
  <2> QED BY <1>1, <1>2, <2>1, <2>2
<1> HIDE DEF cs
<1>3. CallsIn(cs) \subseteq CallsIn(bs)
  BY <1>2, NoNewCalls
<1> QED BY <1>3 DEF cs

LEMMA SimplifyCalls ==
  ASSUME BodyInv, RunSimplify
  PROVE  CallsIn(blocks') \subseteq CallsIn(blocks)
<1>1. CASE blocks' = [b \in BlockIds |-> RemoveNoops(blocks[b])] /\ pc # "retain"
  <2>1. ASSUME NEW b \in DOMAIN blocks', NEW g, CalledBy(blocks'[b], g)
        PROVE  b \in DOMAIN blocks /\ CalledBy(blocks[b], g)
    <3>1. b \in BlockIds /\ blocks'[b] = RemoveNoops(blocks[b])
      BY <1>1
    <3>2. blocks[b] \in BlockSet(DOMAIN locals, Edges, Arity)
      BY <1>1, <3>1, BodyIs
    <3>3. CalledBy(RemoveNoops(blocks[b]), g)
      BY <2>1, <3>1
    <3> QED BY <3>1, <3>2, <3>3, RemovedNoopsCalls DEF BlockIds
  <2> QED BY <2>1, NoNewCalls
<1>2. CASE \E target \in BlockIds :
             pc # "retain" /\ current \in BlockIds /\ blocks' = Steal(blocks, target, current)
  <2>1. PICK target \in BlockIds :
          pc # "retain" /\ current \in BlockIds /\ blocks' = Steal(blocks, target, current)
    BY <1>2
  <2>2. /\ blocks[target].stmts \in Seq(StmtSet(DOMAIN locals, Arity))
        /\ blocks[current].stmts \in Seq(StmtSet(DOMAIN locals, Arity))
    BY <2>1, BodyIs
  <2>3. CallsIn(Steal(blocks, target, current)) \subseteq CallsIn(blocks)
    BY <2>1, <2>2, StolenCalls DEF BlockIds
  <2> QED BY <2>1, <2>3
<1>3. CASE blocks' = blocks
  BY <1>3
<1>4. CASE /\ DOMAIN blocks' = DOMAIN blocks
           /\ \A b \in DOMAIN blocks : blocks'[b].stmts = blocks[b].stmts
  <2>1. \A b \in DOMAIN blocks' : \A g : CalledBy(blocks'[b], g) => CalledBy(blocks[b], g)
    BY <1>4 DEF CalledBy
  <2> QED BY <1>4, <2>1, NoNewCalls
<1>5. CASE RemoveNoopsFirst \/ RemoveNoopsLast
  BY <1>1, <1>5 DEF RemoveNoopsFirst, RemoveNoopsLast, BlocksMut, BlocksMutDontDirty
<1>6. CASE VisitGoto
  <2> DEFINE target == blocks[current].term.succs[1]
  <2>1. pc = "sweep" /\ current \in BlockIds /\ blocks[current].term.kind = "goto"
    BY <1>6 DEF VisitGoto, AtBlock
  <2>2. target \in BlockIds
    BY <2>1, BodyIs, SuccessorsAreThere DEF Edges
  <2>3. blocks' = Steal(blocks, target, current) \/ blocks' = blocks
    BY <1>6 DEF VisitGoto, StealFrom, BlocksMut
  <2> HIDE DEF target
  <2> QED BY <1>2, <1>3, <2>1, <2>2, <2>3
<1>7. CASE VisitSwitch
  <2>1. pc = "sweep" /\ current \in BlockIds /\ blocks[current].term.kind = "switch"
    BY <1>7 DEF VisitSwitch, AtBlock
  <2>2. TakenTarget \in BlockIds
    BY <2>1, BodyIs, BranchIsASuccessor DEF Edges, TakenTarget
  <2>3. CASE StealsTaken
    <3>1. blocks' = Steal(blocks, TakenTarget, current)
      BY <1>7, <2>3 DEF VisitSwitch, StealFrom, BlocksMut
    <3> QED BY <1>2, <2>1, <2>2, <3>1
  <2>4. CASE ~StealsTaken
    <3> DEFINE t == [blocks[current].term EXCEPT !.succs =
                       [i \in DOMAIN blocks[current].term.succs |->
                          SkipTarget(blocks[current].term.succs[i])]]
    <3>1. blocks' = [blocks EXCEPT ![current].term = t]
      BY <1>7, <2>4 DEF VisitSwitch, BlocksMut
    <3>2. blocks[current] \in BlockSet(DOMAIN locals, Edges, Arity)
      BY <2>1, BodyIs
    <3> HIDE DEF t
    <3>3. /\ DOMAIN blocks' = DOMAIN blocks
          /\ \A b \in DOMAIN blocks : blocks'[b].stmts = blocks[b].stmts
      BY <2>1, <3>1, <3>2 DEF BlockIds, BlockSet
    <3> QED BY <1>4, <3>3
  <2> QED BY <2>3, <2>4
<1>8. CASE VisitOther \/ SweepAgain
  BY <1>3, <1>8 DEF VisitOther, SweepAgain
<1> QED BY <1>5, <1>6, <1>7, <1>8 DEF RunSimplify, SimplifyStep

-----------------------------------------------------------------------------
(* remove-unreachable and remove-unused-locals.                            *)
LEMMA UnreachableCalls ==
  ASSUME BodyInv, RunUnreachable
  PROVE  CallsIn(blocks') \subseteq CallsIn(blocks)
<1>1. CASE blocks' = blocks
  BY <1>1
<1>2. CASE RewriteEdges
  <2>1. /\ pc = "number"
        /\ blocks' = [b \in BlockIds |->
                        [blocks[b] EXCEPT !.term = Retarget(@, [c \in BlockIds |-> Renumber(c)])]]
    BY <1>2 DEF RewriteEdges, BlocksMutDontDirty
  <2>2. ASSUME NEW b \in DOMAIN blocks', NEW g, CalledBy(blocks'[b], g)
        PROVE  b \in DOMAIN blocks /\ CalledBy(blocks[b], g)
    <3>1. b \in BlockIds /\ blocks[b] \in BlockSet(DOMAIN locals, Edges, Arity)
      BY <2>1, BodyIs
    <3> DEFINE t == Retarget(blocks[b].term, [c \in BlockIds |-> Renumber(c)])
    <3>2. blocks'[b] = [blocks[b] EXCEPT !.term = t]
      BY <2>1, <3>1
    <3> HIDE DEF t
    <3>3. blocks'[b].stmts = blocks[b].stmts
      BY <3>1, <3>2 DEF BlockSet
    <3> QED BY <2>2, <3>1, <3>3 DEF CalledBy, BlockIds
  <2> QED BY <2>2, NoNewCalls
<1>3. CASE Retain
  <2>1. /\ pc = "retain" /\ Retained = seen /\ seen \subseteq BlockIds
        /\ blocks' = [i \in DOMAIN InOrder(seen) |-> blocks[InOrder(seen)[i]]]
    BY <1>3 DEF Retain, BlocksMut, BodyInv, RetainInv
  <2>2. Count(blocks) \in Nat /\ seen \subseteq 0 .. Count(blocks) - 1
    <3>1. Numbered(blocks)
      BY <2>1 DEF BodyInv, RetainInv
    <3> QED BY <2>1, <3>1, NumberedCounts DEF Count, BlockIds
  <2>3. \A i \in DOMAIN InOrder(seen) : InOrder(seen)[i] \in BlockIds
    BY <2>1, <2>2, InOrderLists
  <2>4. \A b \in DOMAIN blocks' : InOrder(seen)[b] \in DOMAIN blocks /\ blocks'[b] = blocks[InOrder(seen)[b]]
    BY <2>1, <2>3 DEF BlockIds
  <2> QED BY <2>4, NoNewCalls
<1> QED BY <1>1, <1>2, <1>3
        DEF RunUnreachable, UnreachableStep, StartWalk, Walk, EndWalk, Number

(* A mutable visit of the places leaves the calls alone.                   *)
LEMMA MappedCalls ==
  ASSUME NEW L, NEW B, NEW arity, NEW b \in BlockSet(L, B, arity), NEW f, NEW g,
         CalledBy(MapPlaces(b, f), g)
  PROVE  CalledBy(b, g)
<1>1. PICK i \in DOMAIN b.stmts : Calls(MapStmt(b.stmts[i], f), g)
  BY DEF CalledBy, MapPlaces, Block
<1> DEFINE s == b.stmts[i]
<1>2. b.stmts \in Seq(StmtSet(L, arity))
  BY DEF BlockSet
<1>3. s \in StmtSet(L, arity) /\ Calls(MapStmt(s, f), g)
  BY <1>1, <1>2
<1> HIDE DEF s
<1>4. CASE s = Noop
  BY <1>3, <1>4 DEF MapStmt, Calls, IsSite, Noop
<1>5. CASE s \in [kind : {"print"}, op : OperandSet(L)]
  BY <1>3, <1>5 DEF MapStmt, Calls, IsSite, PrintStmt
<1>6. CASE s \in [kind : {"assign"}, place : PlaceSet(L), rv : RvalueSet(L, arity)]
  <2>1. Calls(s, g)
    BY <1>3, <1>6 DEF MapStmt, Calls, IsSite, Assign, Rvalue
  <2> QED BY <2>1 DEF CalledBy, s
<1> QED BY <1>3, <1>4, <1>5, <1>6 DEF StmtSet

LEMMA UnusedCalls ==
  ASSUME BodyInv, RunUnused
  PROVE  CallsIn(blocks') \subseteq CallsIn(blocks)
<1>1. CASE FindLocals \/ Compact
  BY <1>1 DEF FindLocals, Compact
<1>2. CASE Replace
  <2>1. pc = "compact" /\ pc' = "done"
    BY <1>2, ReplaceKeeps DEF Replace, RunUnused, managerVars
  <2>2. blocks' = [b \in BlockIds |-> RenameBlock(blocks[b], localMap)]
    BY <1>2, <2>1 DEF Replace, BlocksMut
  <2>3. ASSUME NEW b \in DOMAIN blocks', NEW g, CalledBy(blocks'[b], g)
        PROVE  b \in DOMAIN blocks /\ CalledBy(blocks[b], g)
    <3>1. b \in BlockIds /\ blocks[b] \in BlockSet(DOMAIN locals, Edges, Arity)
      BY <2>1, <2>2, BodyIs
    <3> DEFINE f == [p \in BlockPlaces(blocks[b]) |-> RenamePlace(p, localMap)]
    <3>2. CalledBy(MapPlaces(blocks[b], f), g)
      BY <2>2, <2>3, <3>1 DEF RenameBlock
    <3> HIDE DEF f
    <3> QED BY <3>1, <3>2, MappedCalls DEF BlockIds
  <2> QED BY <2>3, NoNewCalls
<1> QED BY <1>1, <1>2 DEF RunUnused, UnusedStep

-----------------------------------------------------------------------------
(* inline.                                                                 *)

(* What a part of a list of statements calls, the list calls.              *)
LEMMA PartCalls ==
  ASSUME NEW S, NEW s \in Seq(S), NEW m \in Int, NEW n \in Int, 1 <= m, n <= Len(s),
         NEW i \in DOMAIN SubSeq(s, m, n), NEW g, Calls(SubSeq(s, m, n)[i], g)
  PROVE  \E j \in DOMAIN s : Calls(s[j], g)
<1> DEFINE part == SubSeq(s, m, n)
<1>1. \A j \in m .. n : s[j] \in S
  OBVIOUS
<1>2. /\ part \in Seq(S) /\ Len(part) = IF m <= n THEN n - m + 1 ELSE 0
      /\ \A j \in 1 .. n - m + 1 : part[j] = s[m + j - 1]
  BY <1>1, SubSeqProperties
<1>3. i \in DOMAIN part /\ Calls(part[i], g)
  OBVIOUS
<1> HIDE DEF part
<1>4. i \in 1 .. n - m + 1
  BY <1>2, <1>3
<1>5. part[i] = s[m + i - 1] /\ m + i - 1 \in DOMAIN s
  BY <1>2, <1>4
<1> QED BY <1>3, <1>5

(* The two halves of the calling block.                                    *)
LEMMA BeforeCalls ==
  ASSUME NEW S, NEW s \in Seq(S), NEW k \in DOMAIN s, NEW args \in Seq(S), NEW t, NEW g,
         \A i \in DOMAIN args : ~IsSite(args[i]),
         CalledBy(Block(SubSeq(s, 1, k - 1) \o args, t), g)
  PROVE  \E j \in DOMAIN s : Calls(s[j], g)
<1>1. SubSeq(s, 1, k - 1) \in Seq(S)
  BY ListSplit
<1>2. PICK i \in DOMAIN SubSeq(s, 1, k - 1) : Calls(SubSeq(s, 1, k - 1)[i], g)
  <2> DEFINE q == SubSeq(s, 1, k - 1)
  <2>1. q \in Seq(S) /\ CalledBy(Block(q \o args, t), g)
    BY <1>1
  <2>2. \A i \in DOMAIN args : ~Calls(args[i], g)
    BY DEF Calls
  <2> HIDE DEF q
  <2>3. \E i \in DOMAIN q : Calls(q[i], g)
    BY <2>1, <2>2, JoinedCalls
  <2> QED BY <2>3 DEF q
<1>3. 1 \in Int /\ k - 1 \in Int /\ 1 <= 1 /\ k - 1 <= Len(s)
  OBVIOUS
<1> QED BY <1>2, <1>3, PartCalls

LEMMA AfterCalls ==
  ASSUME NEW S, NEW s \in Seq(S), NEW k \in DOMAIN s, Noop \in S, NEW t, NEW g,
         CalledBy(Block(<<Noop>> \o SubSeq(s, k + 1, Len(s)), t), g)
  PROVE  \E j \in DOMAIN s : Calls(s[j], g)
<1>1. SubSeq(s, k + 1, Len(s)) \in Seq(S) /\ <<Noop>> \in Seq(S)
  BY ListSplit
<1>2. \A i \in DOMAIN <<Noop>> : ~Calls(<<Noop>>[i], g)
  BY DEF Calls, IsSite, Noop
<1>3. PICK i \in DOMAIN SubSeq(s, k + 1, Len(s)) : Calls(SubSeq(s, k + 1, Len(s))[i], g)
  <2> DEFINE q == <<Noop>>
             r == SubSeq(s, k + 1, Len(s))
  <2>1. q \in Seq(S) /\ r \in Seq(S) /\ CalledBy(Block(q \o r, t), g)
    BY <1>1
  <2>2. \A i \in DOMAIN q : ~Calls(q[i], g)
    BY <1>2
  <2> HIDE DEF q
  <2> QED BY <2>1, <2>2, JoinedCalls
<1>4. k + 1 \in Int /\ Len(s) \in Int /\ 1 <= k + 1 /\ Len(s) <= Len(s)
  OBVIOUS
<1> QED BY <1>3, <1>4, PartCalls

(* A copy of a block calls what the block calls.                           *)
LEMMA InlinedBlockCalls ==
  ASSUME NEW L, NEW B, NEW arity, NEW b \in BlockSet(L, B, arity),
         NEW dest, NEW k, NEW n, NEW r, NEW g, CalledBy(InlinedBlock(b, dest, k, n, r), g)
  PROVE  CalledBy(b, g)
<1> DEFINE f == [p \in BlockPlaces(b) |-> PlaceInto(p, dest, k)]
           copy == MapPlaces(b, f)
           succs == [i \in DOMAIN copy.term.succs |-> copy.term.succs[i] + n]
<1>1. InlinedBlock(b, dest, k, n, r) =
        IF copy.term.kind = "return" THEN [copy EXCEPT !.term = Goto(r)]
        ELSE [copy EXCEPT !.term.succs = succs]
  BY DEF InlinedBlock
<1>2. copy = [stmts |-> copy.stmts, term |-> copy.term]
  BY DEF MapPlaces, Block
<1> HIDE DEF succs, copy
<1>3. InlinedBlock(b, dest, k, n, r).stmts = copy.stmts
  BY <1>1, <1>2
<1>4. CalledBy(copy, g)
  BY <1>3 DEF CalledBy
<1> HIDE DEF f
<1> QED BY <1>4, MappedCalls DEF copy

LEMMA SplicedCalls ==
  ASSUME NEW n \in Nat, NEW m \in Nat, NEW f, NEW g, NEW e, NEW S,
         \A b \in 0 .. n - 1 : \A h : CalledBy(f[b], h) => h \in S,
         \A d \in 0 .. m - 1 : \A h : CalledBy(g[d], h) => h \in S,
         \A h : CalledBy(e[0], h) => h \in S
  PROVE  LET new == AppendAfter(AppendAfter(f, n, g, m), n + m, e, 1)
         IN CallsIn(new) \subseteq S
<1> DEFINE new == AppendAfter(AppendAfter(f, n, g, m), n + m, e, 1)
           T == {f[b] : b \in 0 .. n - 1} \cup {g[d] : d \in 0 .. m - 1} \cup {e[0]}
<1>1. /\ \A b \in 0 .. n - 1 : f[b] \in T
      /\ \A d \in 0 .. m - 1 : g[d] \in T
      /\ e[0] \in T
  OBVIOUS
<1>2. \A b \in T : \A h : CalledBy(b, h) => h \in S
  OBVIOUS
<1> HIDE DEF T
<1>3. DOMAIN new = 0 .. n + m /\ \A b \in 0 .. n + m : new[b] \in T
  BY <1>1, SplicedBlocks
<1> HIDE DEF new
<1>4. ASSUME NEW h \in CallsIn(new)
      PROVE  h \in S
  <2>1. PICK b \in DOMAIN new : CalledBy(new[b], h)
    BY CallsAre
  <2> QED BY <1>2, <1>3, <2>1
<1> QED BY <1>4 DEF new

LEMMA InlineCallCalls ==
  ASSUME BodyInv, CallInv, InlineCall, UNCHANGED <<running, program>>
  PROVE  /\ CallsIn(blocks') \subseteq ReachedFrom(running)
         /\ pc' = "panicked" => Reaches(running, running)
<1> DEFINE site   == FirstSite
           caller == blocks[site[1]]
           call   == caller.stmts[site[2]]
           g      == call.rv.callee
           callee == bodies[g]
           n      == Cardinality(BlockIds)
           m      == Cardinality(DOMAIN callee.blocks)
           k      == Cardinality(DOMAIN locals)
           args   == [i \in DOMAIN call.rv.args |->
                        Assign(LocalPlace(k + i - 1), Use(call.rv.args[i]))]
           before == Block(SubSeq(caller.stmts, 1, site[2] - 1) \o args, Goto(n))
           after  == Block(<<Noop>> \o SubSeq(caller.stmts, site[2] + 1, Len(caller.stmts)),
                           caller.term)
           copies == [d \in DOMAIN callee.blocks |->
                        InlinedBlock(callee.blocks[d], call.place, k, n, n + m)]
           R == ReachedFrom(running)
<1>1. pc = "inlining" /\ Sites # {}
  BY DEF InlineCall
<1>2. /\ site[1] \in BlockIds /\ site[2] \in DOMAIN caller.stmts /\ IsSite(call)
  BY <1>1, FirstSiteIsASite
<1>3. CallsIn(blocks) \subseteq R
  BY DEF CallInv
<1>4. g \in R
  <2>1. CalledBy(caller, g)
    BY <1>2 DEF CalledBy, Calls
  <2>2. g \in CallsIn(blocks)
    <3> HIDE DEF g
    <3> QED BY <1>2, <2>1, CallsAre DEF BlockIds
  <2> QED BY <1>3, <2>2
<1>5. /\ g \in DOMAIN bodies /\ DOMAIN bodies = DOMAIN program.bodies
      /\ program \in Programs
  BY <1>4 DEF ReachedFrom, BodyInv, BodiesInv
<1>6. CASE ~CanBorrow(g)
  <2>1. pc' = "panicked" /\ blocks' = blocks
    BY <1>6 DEF InlineCall
  <2>2. g = running
    BY <1>5, <1>6 DEF CanBorrow
  <2> HIDE DEF g
  <2> QED BY <1>3, <1>4, <2>1, <2>2 DEF ReachedFrom
<1>7. CASE CanBorrow(g)
  <2> DEFINE f == [blocks EXCEPT ![site[1]] = before]
             e == [d \in {0} |-> after]
  <2>1. /\ blocks' = AppendAfter(AppendAfter(f, n, copies, m), n + m, e, 1)
        /\ pc' = pc
    BY <1>7 DEF InlineCall, BlocksMut
  <2>2. CallsIn(callee.blocks) \subseteq R
    <3>1. CallsIn(callee.blocks) \subseteq ReachedFrom(g)
      BY <1>5 DEF CallInv
    <3> HIDE DEF g
    <3>2. ReachedFrom(g) \subseteq R
      BY <1>4, ReachedOnward
    <3> QED BY <3>1, <3>2
  <2>3. BodyOK(callee, g, Arity)
    BY <1>5 DEF BodyInv, BodiesInv
  <2>4. n \in Nat /\ BlockIds = 0 .. n - 1
    BY <1>1, BodyIs, NumberedCounts DEF BlockIds
  <2>5. m \in Nat /\ DOMAIN callee.blocks = 0 .. m - 1
    BY <2>3, NumberedCounts DEF BodyOK
  <2>6. \A b \in BlockIds : \A h : CalledBy(blocks[b], h) => h \in R
    <3> HIDE DEF R
    <3> QED BY <1>3, CallsAre DEF BlockIds
  <2>7. ASSUME NEW d \in 0 .. m - 1, NEW h, CalledBy(copies[d], h)
        PROVE  h \in R
    <3> DEFINE cs == callee.blocks
    <3>1. d \in DOMAIN cs
      BY <2>5
    <3>2. PICK B : cs[d] \in BlockSet(DOMAIN callee.locals, B, Arity)
      BY <2>3, <3>1 DEF BodyOK
    <3>3. CalledBy(InlinedBlock(cs[d], call.place, k, n, n + m), h)
      BY <2>7, <3>1
    <3> HIDE DEF cs, m, n, k
    <3>4. CalledBy(cs[d], h)
      BY <3>2, <3>3, InlinedBlockCalls
    <3>5. h \in CallsIn(cs)
      BY <3>1, <3>4, CallsAre
    <3> QED BY <2>2, <3>5 DEF cs
  <2>8. caller.stmts \in Seq(StmtSet(DOMAIN locals, Arity)) /\ caller.term \in TermSet(DOMAIN locals, Edges)
    BY <1>1, <1>2, BodyIs
  <2>9. ASSUME NEW h, CalledBy(before, h) \/ CalledBy(after, h)
        PROVE  h \in R
    <3> DEFINE s == caller.stmts
               S == StmtSet(DOMAIN locals, Arity) \cup {args[i] : i \in DOMAIN args}
    <3>1. s \in Seq(S) /\ site[2] \in DOMAIN s /\ Noop \in S
      <4>1. s \in Seq(StmtSet(DOMAIN locals, Arity)) /\ Noop \in S
        BY <2>8 DEF StmtSet
      <4> HIDE DEF s, args
      <4>2. \A i \in DOMAIN s : s[i] \in S
        BY <4>1
      <4> HIDE DEF S
      <4> QED BY <1>2, <4>1, <4>2, ListOfMembers DEF s
    <3>2. args \in Seq(S)
      <4> DEFINE ops == call.rv.args
      <4>1. PICK L : ops \in Seq(OperandSet(L))
        BY <1>2, <2>8 DEF IsSite, StmtSet, RvalueSet, Noop
      <4>2. args = [i \in DOMAIN ops |-> args[i]] /\ \A i \in DOMAIN ops : args[i] \in S
        OBVIOUS
      <4> HIDE DEF args, ops, S
      <4> QED BY <4>1, <4>2, ListOver
    <3>3. \A i \in DOMAIN args : ~IsSite(args[i])
      BY DEF IsSite, Assign, Use, Rvalue
    <3> HIDE DEF args, s, S
    <3>4. \E j \in DOMAIN s : Calls(s[j], h)
      <4>1. CASE CalledBy(before, h)
        BY <3>1, <3>2, <3>3, <4>1, BeforeCalls DEF s
      <4>2. CASE CalledBy(after, h)
        BY <3>1, <4>2, AfterCalls DEF s
      <4> QED BY <2>9, <4>1, <4>2
    <3>5. CalledBy(caller, h)
      BY <3>4 DEF CalledBy, s
    <3> QED BY <1>2, <2>6, <3>5
  <2>10. \A b \in 0 .. n - 1 : \A h : CalledBy(f[b], h) => h \in R
    <3> HIDE DEF before, R
    <3> QED BY <2>4, <2>6, <2>9 DEF BlockIds
  <2>11. \A h : CalledBy(e[0], h) => h \in R
    BY <2>9
  <2> HIDE DEF f, e, copies, m, n, R
  <2> DEFINE new == AppendAfter(AppendAfter(f, n, copies, m), n + m, e, 1)
  <2>12. CallsIn(new) \subseteq R
    BY <2>4, <2>5, <2>7, <2>10, <2>11, SplicedCalls
  <2> HIDE DEF new
  <2> QED BY <1>1, <2>1, <2>12 DEF new, R
<1> QED BY <1>6, <1>7

LEMMA InlineCalls ==
  ASSUME BodyInv, CallInv, RunInline
  PROVE  /\ CallsIn(blocks') \subseteq ReachedFrom(running)
         /\ pc' \in {"inlining", "panicked", "done"}
         /\ pc' \in {"inlining", "panicked"} => ShouldRun("inline")
         /\ pc' = "panicked" => Reaches(running, running)
<1>1. UNCHANGED <<running, program>> /\ pc' \in {"inlining", "panicked", "done"}
  BY InlineKeeps DEF RunInline, managerVars
<1>2. pc \in {"inline", "inlining"} => ShouldRun("inline")
  BY DEF CallInv
<1>3. CASE StartInline \/ StopInlining
  <2>1. blocks' = blocks /\ pc \in {"inline", "inlining"} /\ pc' # "panicked"
    BY <1>3 DEF StartInline, StopInlining
  <2> QED BY <1>1, <1>2, <2>1 DEF CallInv
<1>4. CASE InlineCall
  <2>1. pc = "inlining"
    BY <1>4 DEF InlineCall
  <2> QED BY <1>1, <1>2, <1>4, <2>1, InlineCallCalls
<1> QED BY <1>3, <1>4 DEF RunInline, InlineStep

-----------------------------------------------------------------------------
(* The pass manager.                                                       *)

(* What the program says does not change while it is compiled.             *)
LEMMA ReachingStays ==
  ASSUME UNCHANGED <<program, config>>
  PROVE  /\ \A f, g : Reaches(f, g)' <=> Reaches(f, g)
         /\ \A f : ReachedFrom(f)' = ReachedFrom(f)
         /\ ShouldRun("inline")' <=> ShouldRun("inline")
BY DEF Reaches, CallsOf, CallsIn, ReachedFrom, ShouldRun, Enabled

(* What a step of a pass has to show.                                      *)
LEMMA PassCalls ==
  ASSUME CallInv, UNCHANGED <<program, config, running, bodies>>,
         CallsIn(blocks') \subseteq ReachedFrom(running),
         pc' \in {"inline", "inlining", "panicked"} => ShouldRun("inline"),
         pc' = "panicked" => Reaches(running, running)
  PROVE  CallInv'
<1>1. \A f \in DOMAIN bodies' : CallsIn(bodies[f].blocks)' \subseteq ReachedFrom(f)'
  BY ReachingStays DEF CallInv, CallsIn
<1>2. CallsIn(blocks)' \subseteq ReachedFrom(running)'
  <2>1. ReachedFrom(running)' = ReachedFrom(running)
    BY ReachingStays DEF ReachedFrom
  <2> QED BY <2>1 DEF CallsIn
<1>3. PanicsOnlyOnRecursion'
  <2>1. Reaches(running, running)' <=> Reaches(running, running)
    BY ReachingStays DEF Reaches
  <2> QED BY <2>1, ReachingStays DEF PanicsOnlyOnRecursion
<1> QED BY <1>1, <1>2, <1>3, ReachingStays DEF CallInv

LEMMA NextBodyCalls ==
  ASSUME BodyInv, BodyInv', CallInv, NextBody
  PROVE  CallInv'
<1>1. /\ UNCHANGED <<program, config>> /\ bodies' = [bodies EXCEPT ![running] = WorkedOn]
      /\ pc' \in {"done", "finished"}
  BY DEF NextBody
<1>2. ASSUME NEW f \in DOMAIN bodies'
      PROVE  CallsIn(bodies'[f].blocks) \subseteq ReachedFrom(f)
  <2>1. bodies'[f].blocks = IF f = running THEN blocks ELSE bodies[f].blocks
    BY <1>1, <1>2 DEF WorkedOn
  <2> QED BY <1>1, <1>2, <2>1 DEF CallInv
<1>3. CallsIn(blocks') \subseteq ReachedFrom(running')
  <2>1. CASE UNCHANGED <<blocks, running>>
    BY <2>1 DEF CallInv
  <2>2. CASE Borrow(program.sources[turn + 1], bodies)
    <3>1. running' \in DOMAIN bodies
      BY <1>1 DEF BodyInv, BodiesInv
    <3> QED BY <2>2, <3>1 DEF Borrow, CallInv
  <2> QED BY <2>1, <2>2 DEF NextBody
<1>4. \A f \in DOMAIN bodies' : CallsIn(bodies[f].blocks)' \subseteq ReachedFrom(f)'
  BY <1>1, <1>2, ReachingStays DEF CallsIn
<1>5. CallsIn(blocks)' \subseteq ReachedFrom(running)'
  <2>1. ReachedFrom(running)' = ReachedFrom(running')
    BY <1>1 DEF ReachedFrom, Reaches, CallsOf, CallsIn
  <2> QED BY <1>3, <2>1 DEF CallsIn
<1> QED BY <1>1, <1>4, <1>5 DEF CallInv, PanicsOnlyOnRecursion

LEMMA CallsStart == Init => CallInv
<1> SUFFICES ASSUME Init
             PROVE  CallInv
  OBVIOUS
<1>1. BodyInv
  BY BodiesStart
<1>2. /\ bodies = program.bodies /\ pc = "done" /\ blocks = bodies[running].blocks
      /\ program \in Programs /\ running \in DOMAIN bodies
  BY <1>1 DEF Init, BodyInv, BodiesInv
<1>3. \A f \in DOMAIN bodies : CallsIn(bodies[f].blocks) \subseteq ReachedFrom(f)
  BY <1>2, CallsAreReached DEF CallsOf
<1> QED BY <1>2, <1>3 DEF CallInv, PanicsOnlyOnRecursion

LEMMA CallsStep == BodyInv /\ BodyInv' /\ CallInv /\ [Next]_vars => CallInv'
<1> SUFFICES ASSUME BodyInv, BodyInv', CallInv, [Next]_vars
             PROVE  CallInv'
  OBVIOUS
<1> DEFINE Else == /\ UNCHANGED <<program, config, running, bodies>>
                   /\ CallsIn(blocks') \subseteq CallsIn(blocks)
                   /\ pc' \notin {"inline", "inlining", "panicked"}
<1>1. CallsIn(blocks) \subseteq ReachedFrom(running)
  BY DEF CallInv
<1>2. CASE Else
  BY <1>1, <1>2, PassCalls
<1>3. CASE NextPass
  <2>1. /\ UNCHANGED <<program, config, running, bodies, blocks>>
        /\ passIndex + 1 \in 1 .. Len(PassList)
        /\ pc' = IF ShouldRun(PassList[passIndex + 1]) THEN PassList[passIndex + 1] ELSE "done"
    BY <1>3 DEF NextPass, BodyInv, BodiesInv, PassList
  <2>2. PassList[passIndex + 1] \in
          {"zst", "simplify", "inline", "unreachable", "deadstore", "unused"}
    BY <2>1 DEF PassList
  <2> QED BY <1>1, <2>1, <2>2, PassCalls
<1>4. CASE NextBody
  BY <1>4, NextBodyCalls
<1>5. CASE RunStmtPass
  <2>1. pc' = "done"
    BY <1>5 DEF RunStmtPass, StmtStep, RemoveZst, DeadStoreElim
  <2> QED BY <1>2, <1>5, <2>1, StmtPassCalls DEF RunStmtPass, managerVars
<1>6. CASE RunSimplify
  <2>1. pc' \in {"sweep", "done"}
    BY <1>6, SimplifyKeeps
  <2> QED BY <1>2, <1>6, <2>1, SimplifyCalls DEF RunSimplify, managerVars
<1>7. CASE RunInline
  <2>1. UNCHANGED <<program, config, running, bodies>>
    BY <1>7 DEF RunInline, managerVars
  <2> QED BY <1>7, <2>1, InlineCalls, PassCalls
<1>8. CASE RunUnreachable
  <2>1. pc' \in {"walk", "number", "retain", "done"}
    BY <1>8, UnreachableKeeps
  <2> QED BY <1>2, <1>8, <2>1, UnreachableCalls DEF RunUnreachable, managerVars
<1>9. CASE RunUnused
  <2>1. pc' \in {"compact", "done"}
    BY <1>9, UnusedKeeps
  <2> QED BY <1>2, <1>9, <2>1, UnusedCalls DEF RunUnused, managerVars
<1>10. CASE UNCHANGED vars
  <2>1. UNCHANGED <<program, config, running, bodies, blocks, pc>>
    BY <1>10 DEF vars, managerVars
  <2> QED BY <1>1, <2>1, PassCalls DEF CallInv, PanicsOnlyOnRecursion
<1> QED BY <1>3, <1>4, <1>5, <1>6, <1>7, <1>8, <1>9, <1>10 DEF Next, Step, Stopped

(* The one panic the passes can end in is that of with_body                *)
(* (src/mir/mod.rs) on the body that is borrowed, when the inliner meets a *)
(* call of the function it works on; and it only does in a function that   *)
(* called itself as the program was written, directly or not, because no   *)
(* pass, not even the inliner, gives a body a call of a function that its  *)
(* own function did not reach.  No callee is ever without a body, and      *)
(* remove-unused-locals never meets a local without a new number.          *)
THEOREM InliningPanicsOnRecursion == Spec => []PanicsOnlyOnRecursion
<1>1. Init => CallInv
  BY CallsStart
<1>2. BodyInv /\ BodyInv' /\ CallInv /\ [Next]_vars => CallInv'
  BY CallsStep
<1>3. CallInv => PanicsOnlyOnRecursion
  BY DEF CallInv
<1> QED BY <1>1, <1>2, <1>3, BodiesHold, PTL DEF Spec
=============================================================================
