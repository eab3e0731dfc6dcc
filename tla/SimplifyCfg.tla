----------------------------- MODULE SimplifyCfg ----------------------------
(***************************************************************************)
(* The simplify-cfg pass (src/mir/passes/simplify_cfg.rs).  It sweeps over *)
(* the blocks until a sweep changes nothing.  At each block it may steal   *)
(* the contents of the one successor that nothing else enters, or point a  *)
(* switch past successors that only jump on.                               *)
(***************************************************************************)
EXTENDS MirBody

VARIABLES
  current,    \* the block the sweep is at
  modified    \* whether this sweep has changed a block

simplifyVars == <<current, modified>>

(* stmts.retain(..)                                                        *)
RemoveNoops(b) ==
  LET kept == InOrder({i \in DOMAIN b.stmts : ~IsNoop(b.stmts[i])})
  IN Block([k \in {i + 1 : i \in DOMAIN kept} |-> b.stmts[kept[k - 1]]], b.term)
AllNoops(b) == \A i \in DOMAIN b.stmts : IsNoop(b.stmts[i])

(* Mistake: what is stolen is put in front.                                *)
StealBefore(bs, target, block) ==
  [bs EXCEPT ![target] = Block(<<>>, Unreachable),
             ![block]  = Block(bs[target].stmts \o bs[block].stmts, bs[target].term)]

(* steal(): block takes over the statements and the terminator of target,  *)
(* which is left empty and unreachable.                                    *)
Steal(bs, target, block) ==
  [bs EXCEPT
     ![target] = Block(<<>>, Unreachable),
     ![block]  = Block((IF target = block THEN <<>> ELSE bs[block].stmts)
                          \o bs[target].stmts,
                       bs[target].term)]

(* The run starts by dropping the noops of every block, through            *)
(* blocks_mut().                                                           *)
RemoveNoopsFirst ==
  /\ pc = "simplify"
  /\ BlocksMut([b \in BlockIds |-> RemoveNoops(blocks[b])])
  /\ pc' = "sweep"
  /\ current' = 0
  /\ modified' = FALSE

StealFrom(target) ==
  /\ BlocksMut(Steal(blocks, target, current))
  /\ modified' = TRUE

AtBlock == pc = "sweep" /\ current \in BlockIds
NextBlock == current' = current + 1 /\ pc' = pc

VisitGoto ==
  /\ AtBlock
  /\ blocks[current].term.kind = "goto"
  /\ LET target == blocks[current].term.succs[1] IN
     IF SinglePredecessor(target)
     THEN StealFrom(target)
     ELSE FillCache /\ UNCHANGED <<blocks, modified>>
  /\ NextBlock

(* The successor a switch on a scalar constant always takes.               *)
TakenTarget == blocks[current].term.succs[
                 BranchForValue(blocks[current].term, blocks[current].term.on.value)]
StealsTaken == blocks[current].term.on.kind = "scalar" /\ SinglePredecessor(TakenTarget)

(* A successor that only this switch enters, does nothing and jumps on.    *)
CanSkip(succ) ==
  /\ SinglePredecessor(succ)
  /\ AllNoops(blocks[succ])
  /\ blocks[succ].term.kind = "goto"
SkipNothing(succ) == succ   \* mistake: the new target is not written
SkipTarget(succ) == IF CanSkip(succ) THEN blocks[succ].term.succs[1] ELSE succ

VisitSwitch ==
  /\ AtBlock
  /\ blocks[current].term.kind = "switch"
  /\ IF StealsTaken
     THEN StealFrom(TakenTarget)
     ELSE LET t == blocks[current].term IN
          /\ BlocksMut([blocks EXCEPT ![current].term =
               [t EXCEPT !.succs = [i \in DOMAIN t.succs |-> SkipTarget(t.succs[i])]]])
          /\ modified' = (modified \/ \E i \in DOMAIN t.succs : CanSkip(t.succs[i]))
  /\ NextBlock

VisitOther ==
  /\ AtBlock
  /\ blocks[current].term.kind \notin {"goto", "switch"}
  /\ UNCHANGED <<blocks, cache, modified>>
  /\ NextBlock

(* After a sweep that changed something there is another sweep; otherwise  *)
(* the noops are dropped once more, without touching the cache.            *)
SweepAgain ==
  /\ pc = "sweep" /\ current \notin BlockIds /\ modified
  /\ current' = 0
  /\ modified' = FALSE
  /\ UNCHANGED <<blocks, cache, pc>>

RemoveNoopsLast ==
  /\ pc = "sweep" /\ current \notin BlockIds /\ ~modified
  /\ BlocksMutDontDirty([b \in BlockIds |-> RemoveNoops(blocks[b])])
  /\ pc' = "done"
  /\ UNCHANGED simplifyVars

SimplifyStep ==
  RemoveNoopsFirst \/ VisitGoto \/ VisitSwitch \/ VisitOther \/ SweepAgain \/ RemoveNoopsLast
=============================================================================
