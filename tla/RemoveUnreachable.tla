-------------------------- MODULE RemoveUnreachable -------------------------
(***************************************************************************)
(* The remove-unreachable pass (src/mir/passes/remove_unreachable.rs): a   *)
(* breadth first walk from the entry finds the reachable blocks, they are  *)
(* numbered afresh in their old order, the edges are rewritten through     *)
(* blocks_mut_dont_dirty() and only then are the other blocks dropped.     *)
(***************************************************************************)
EXTENDS MirBody, FiniteSets

VARIABLES
  queue,      \* blocks the walk has still to look at, oldest first
  seen,       \* blocks the walk has visited
  numbered,   \* how many blocks have been given their place in blockMap
  nextBlock,  \* next_block_id
  blockMap    \* old identifier -> new identifier, or Dropped

unreachableVars == <<queue, seen, numbered, nextBlock, blockMap>>

Dropped == -1

StartWalk ==
  /\ pc = "unreachable"
  /\ queue' = <<ENTRY>> /\ seen' = {}
  /\ numbered' = 0 /\ nextBlock' = ENTRY /\ blockMap' = <<>>
  /\ pc' = "walk"
  /\ UNCHANGED <<blocks, cache>>

(* One turn of preorder's loop: a block met for the second time is passed  *)
(* over, another one is visited and its successors join the queue.         *)
Walk ==
  /\ pc = "walk" /\ queue # <<>>
  /\ LET block == Head(queue) IN
     IF block \in seen
     THEN queue' = Tail(queue) /\ seen' = seen
     ELSE /\ queue' = Tail(queue) \o blocks[block].term.succs
          /\ seen' = seen \cup {block}
  /\ UNCHANGED <<blocks, cache, pc, numbered, nextBlock, blockMap>>

EndWalk ==
  /\ pc = "walk" /\ queue = <<>>
  /\ blockMap' = [b \in BlockIds |-> Dropped]
  /\ pc' = "number"
  /\ UNCHANGED <<blocks, cache, queue, seen, numbered, nextBlock>>

(* One item of the map over blocks().indices().                            *)
Number ==
  /\ pc = "number" /\ numbered \in BlockIds
  /\ IF numbered \in seen
     THEN /\ blockMap' = [blockMap EXCEPT ![numbered] = nextBlock]
          /\ nextBlock' = nextBlock + 1
     ELSE UNCHANGED <<blockMap, nextBlock>>
  /\ numbered' = numbered + 1
  /\ UNCHANGED <<blocks, cache, pc, queue, seen>>

(* An edge to a block that is not kept is left as it is.                   *)
Renumber(b) == IF blockMap[b] = Dropped THEN b ELSE blockMap[b]

RewriteEdges ==
  /\ pc = "number" /\ numbered \notin BlockIds
  /\ BlocksMutDontDirty(
       [b \in BlockIds |->
          [blocks[b] EXCEPT !.term = Retarget(@, [c \in BlockIds |-> Renumber(c)])]])
  /\ pc' = "retain"
  /\ UNCHANGED unreachableVars

Retained == {b \in BlockIds : blockMap[b] # Dropped}

(* retain keeps the order.                                                 *)
Retain ==
  /\ pc = "retain"
  /\ LET kept == InOrder(Retained)
     IN BlocksMut([k \in DOMAIN kept |-> blocks[kept[k]]])
  /\ pc' = "done"
  /\ UNCHANGED unreachableVars

UnreachableStep ==
  StartWalk \/ Walk \/ EndWalk \/ Number \/ RewriteEdges \/ Retain
=============================================================================
