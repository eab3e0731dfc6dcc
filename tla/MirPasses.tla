------------------------------ MODULE MirPasses ------------------------------
(***************************************************************************)
(* The pass manager (src/main.rs, passes() in src/mir/passes/mod.rs): the  *)
(* bodies are taken one after the other, in the order they were added, and *)
(* every enabled pass runs over a body before the next body is taken.      *)
(* This module composes the passes, which share the body of MirBody.       *)
(***************************************************************************)
EXTENDS StmtPasses, SimplifyCfg, Inline, RemoveUnreachable, RemoveUnusedLocals, WellFormed,
        MirStep

CONSTANTS
  Compilations   \* what may be compiled and how: [program, config]

VARIABLES
  program,    \* the program being compiled: [bodies, sources]
  config,     \* the command line: [optimise, overrides]
  turn,       \* which body of program.sources is being worked on
  passIndex   \* how many entries of the pass list are behind it

managerVars == <<program, config, turn, passIndex>>
passVars == <<simplifyVars, inlineVars, unreachableVars, unusedVars>>
vars == <<blocks, cache, retType, locals, pc, bodies, running, passVars, managerVars>>

(* What is said of every body a pass is given: blocks and locals are       *)
(* numbered from zero without gaps, the parameters first; an edge leads to *)
(* a block and never to the entry, a place is made of locals the body has, *)
(* and a call gives a function that has a body as much as it takes.        *)
Numbered(f) == IsFiniteSet(DOMAIN f) /\ DOMAIN f = 0 .. Cardinality(DOMAIN f) - 1
LocalSet ==
  [kind : {"param", "var", "temp"}, ty : {"bool", "unit", "ptr", "array", "never"}]
Arities(table) == [f \in DOMAIN table |-> Cardinality(ParamsOf(table[f]))]
BodyOK(body, f, arity) ==
  /\ Numbered(body.blocks) /\ Numbered(body.locals)
  /\ \A l \in DOMAIN body.locals : body.locals[l] \in LocalSet
  /\ ParamsOf(body) = 0 .. arity[f] - 1
  /\ ENTRY \in DOMAIN body.blocks
  /\ \A b \in DOMAIN body.blocks :
       body.blocks[b] \in BlockSet(DOMAIN body.locals, DOMAIN body.blocks \ {ENTRY}, arity)
(* What the builder asserts of it; and the return place is assigned to, but *)
(* never indexed by a local, which the inliner would not renumber.         *)
BodyTyped(body, table) ==
  \A b \in DOMAIN body.blocks :
    /\ WellFormedBlock(body.blocks[b], body, table)
    /\ \A p \in BlockPlaces(body.blocks[b]) : p.base = ReturnPlace => p.proj # "index"

ASSUME CompilationsAssumption ==
  \A c \in Compilations :
    /\ c.program.sources \in Seq(DOMAIN c.program.bodies)
    /\ c.program.sources # <<>>
    /\ \A f \in DOMAIN c.program.bodies :
         /\ BodyOK(c.program.bodies[f], f, Arities(c.program.bodies))
         /\ BodyTyped(c.program.bodies[f], c.program.bodies)
         /\ c.program.bodies[f].cache = {}

(* passes(); dump-mir changes nothing and is left out.                     *)
PassList == <<"zst", "simplify", "simplify", "inline", "unreachable",
              "deadstore", "unused", "simplify", "unreachable">>

(* MirPass::enabled, and the --with-mir-pass override of it.               *)
Enabled(p) == p \in {"inline", "deadstore", "unused"} => config.optimise
ShouldRun(p) ==
  IF p \in DOMAIN config.overrides THEN config.overrides[p] ELSE Enabled(p)

(* for_each_body_mut borrows the next body for its passes.                 *)
Borrow(f, table) ==
  /\ running' = f
  /\ blocks' = table[f].blocks /\ cache' = table[f].cache
  /\ locals' = table[f].locals /\ retType' = table[f].ret

NextPass ==
  /\ pc = "done" /\ passIndex < Len(PassList)
  /\ passIndex' = passIndex + 1
  /\ pc' = IF ShouldRun(PassList[passIndex + 1]) THEN PassList[passIndex + 1] ELSE "done"
  /\ UNCHANGED <<blocks, cache, retType, locals, bodies, running, passVars,
                 program, config, turn>>

WorkedOn == [blocks |-> blocks, cache |-> cache, locals |-> locals, ret |-> retType]

NextBody ==
  /\ pc = "done" /\ passIndex = Len(PassList)
  /\ bodies' = [bodies EXCEPT ![running] = WorkedOn]
  /\ IF turn < Len(program.sources)
     THEN /\ turn' = turn + 1
          /\ passIndex' = 0
          /\ pc' = "done"
          /\ Borrow(program.sources[turn + 1], bodies)
     ELSE /\ pc' = "finished"
          /\ UNCHANGED <<turn, passIndex, running, blocks, cache, locals, retType>>
  /\ UNCHANGED <<passVars, program, config>>

RunStmtPass ==
  /\ StmtStep
  /\ UNCHANGED <<retType, locals, bodies, running, passVars, managerVars>>
RunSimplify ==
  /\ SimplifyStep
  /\ UNCHANGED <<retType, locals, bodies, running, managerVars,
                 inlineVars, unreachableVars, unusedVars>>
RunInline ==
  /\ InlineStep
  /\ UNCHANGED <<retType, bodies, running, managerVars,
                 simplifyVars, unreachableVars, unusedVars>>
RunUnreachable ==
  /\ UnreachableStep
  /\ UNCHANGED <<retType, locals, bodies, running, managerVars,
                 simplifyVars, inlineVars, unusedVars>>
RunUnused ==
  /\ UnusedStep
  /\ UNCHANGED <<retType, bodies, running, managerVars,
                 simplifyVars, inlineVars, unreachableVars>>

Init ==
  /\ \E c \in Compilations : program = c.program /\ config = c.config
  /\ bodies = program.bodies
  /\ turn = 1 /\ running = program.sources[1]
  /\ blocks = bodies[running].blocks /\ cache = bodies[running].cache
  /\ locals = bodies[running].locals /\ retType = bodies[running].ret
  /\ passIndex = 0 /\ pc = "done"
  /\ current = 0 /\ modified = FALSE
  /\ budget = 0
  /\ queue = <<>> /\ seen = {} /\ numbered = 0 /\ nextBlock = 0 /\ blockMap = <<>>
  /\ found = {} /\ compacted = 0 /\ nextLocal = 0 /\ localMap = <<>>

Step == \/ NextPass \/ NextBody
        \/ RunStmtPass \/ RunSimplify \/ RunInline \/ RunUnreachable \/ RunUnused
Stopped == pc \in {"finished", "panicked"} /\ UNCHANGED vars
Next == Step \/ Stopped
Spec == Init /\ [][Next]_vars /\ WF_vars(Step)

(***************************************************************************)
(* Properties.                                                             *)
(***************************************************************************)

(* Between the statements of the passes a body stays well numbered: edges  *)
(* lead to blocks and places to locals, also after blocks and locals have  *)
(* been renumbered, and nothing ever jumps to the entry, which is what     *)
(* lets simplify-cfg steal without looking whether it steals the entry.    *)
(* While remove-unreachable has rewritten the edges but not yet dropped    *)
(* the blocks, only the edges are in the new numbering.                    *)
BodyStaysNumbered == pc # "retain" => BodyOK(WorkedOn, running, Arities(program.bodies))

(* The cached predecessors are those of the blocks whenever a pass may ask *)
(* for them: only remove-unreachable, between rewriting the edges through  *)
(* blocks_mut_dont_dirty() and dropping the blocks through blocks_mut(),   *)
(* holds a cache that disagrees with its blocks.                           *)
CacheCoherent == pc # "retain" => cache \subseteq {Predecessors(blocks)}

(* What the builder asserts of a finished body (well_formed/mod.rs) stays  *)
(* true, although nothing asserts it again: a place is assigned a value of *)
(* its type, pointers are what is dereferenced, arrays are what is         *)
(* indexed, and conditions are booleans.  Swapping two locals, renumbering *)
(* a place or splicing in a callee wrongly breaks it.  While locals are    *)
(* being swapped the blocks are still about the old ones.                  *)
StaysWellFormed ==
  pc # "compact" => \A b \in BlockIds : WellFormedBlock(blocks[b], WorkedOn, bodies)

(* The functions called by blocks bs in a way that can be inlined, and the *)
(* functions f calls in the program as it was built, directly or not.      *)
CallsIn(bs) ==
  UNION {{bs[b].stmts[i].rv.callee : i \in {j \in DOMAIN bs[b].stmts : IsSite(bs[b].stmts[j])}} :
         b \in DOMAIN bs}
CallsOf(f) == CallsIn(program.bodies[f].blocks)
Reaches(f, g) ==
  \A S \in SUBSET DOMAIN program.bodies :
    (CallsOf(f) \subseteq S /\ \A h \in S : CallsOf(h) \subseteq S) => g \in S

(* Compilation only panics, on the second borrow of a body, when it is     *)
(* told to inline in a function that calls itself, directly or not; and    *)
(* never for a callee without a body or a local without a new number.      *)
PanicsOnlyOnRecursion ==
  pc = "panicked" => ShouldRun("inline") /\ Reaches(running, running)

(* The compilation of every body comes to an end: simplify-cfg sweeps, the *)
(* inliner and the walk of remove-unreachable all stop.                    *)
PassesTerminate == <>(pc \in {"finished", "panicked"})

(***************************************************************************)
(* What the passes do to the meaning of bodies: what the body under way    *)
(* means, half-way through a pass too, and what never changes it.          *)
(***************************************************************************)

(* Once the edges are in the new numbering, the body is the blocks that    *)
(* retain is about to leave.                                               *)
Remaining == [k \in DOMAIN InOrder(Retained) |-> blocks[InOrder(Retained)[k]]]
(* While locals are being swapped, the blocks are about the old ones.      *)
SwappedBack ==
  [l \in DOMAIN locals |->
     IF l \in found /\ l < compacted THEN locals[localMap[l]] ELSE locals[l]]

Meant ==
  [blocks |-> IF pc = "retain" THEN Remaining ELSE blocks,
   locals |-> IF pc = "compact" THEN SwappedBack ELSE locals,
   ret    |-> retType]

TakenBy(f) == Arities(program.bodies)[f]

(* dead-store-elim takes a local for dead although a statement writes      *)
(* through the pointer it holds, or takes the address of the array it      *)
(* holds, neither of which is a read to a visitor.  It keeps the meaning   *)
(* of a body in which every local that is used like that is read as well.  *)
PointerPlaces(s) ==
  {p \in StmtPlaces(s) : ~Whole(p)}
    \cup (IF s.kind = "assign" THEN {s.rv.places[i] : i \in DOMAIN s.rv.places} ELSE {})
PointersAreRead ==
  \A b \in BlockIds : \A i \in DOMAIN blocks[b].stmts :
    \A p \in PointerPlaces(blocks[b].stmts[i]) : IsLocal(p.base) => p.base \in ReadAnywhere

(* The steps the proofs cover: every one but the inlining of a call, which *)
(* is not answered by steps of the same body, and dead-store-elim where it *)
(* may take a pointer's last assignment.                                   *)
Covered == ~InlineCall /\ (DeadStoreElim => PointersAreRead)

(* While one body is under way, no step of a pass changes what it means.   *)
KeepsMeaning ==
  Covered /\ UNCHANGED turn => DoesTheSame(TakenBy(running), Meant, Meant')

(* Every body does what it did as it was built, the one under way too,     *)
(* wherever in a pass that is.                                             *)
SameMeaning ==
  /\ \A f \in DOMAIN program.bodies :
       DoesTheSame(TakenBy(f), Code(program.bodies[f]), Code(bodies[f]))
  /\ DoesTheSame(TakenBy(running), Code(program.bodies[running]), Meant)

(* A compilation with neither of the two passes leaves every body what it  *)
(* meant; one without optimisation runs neither.                           *)
PlainMeansTheSame ==
  ~ShouldRun("inline") /\ ~ShouldRun("deadstore") => SameMeaning

(* The program the code generator gets, and behaves as the one as it was   *)
(* built: it prints the same, in the same order, and ends the same.        *)
Codes(table) == [f \in DOMAIN program.bodies |-> Code(table[f])]
ProgramBehaves ==
  BehavesAs(Arities(program.bodies), Codes(program.bodies), Codes(bodies))
PlainBehaves ==
  ~ShouldRun("inline") /\ ~ShouldRun("deadstore") => ProgramBehaves
=============================================================================
