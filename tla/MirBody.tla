------------------------------- MODULE MirBody ------------------------------
(***************************************************************************)
(* The body a pass is running on: its locals, its blocks and the cache of  *)
(* facts derived from the blocks (src/mir/basic_blocks.rs).  blocks_mut()  *)
(* throws the cache away before it hands the blocks out;                   *)
(* blocks_mut_dont_dirty() does not, and leaves it to the caller that no   *)
(* edge changes.  Each pass is a module of its own over these variables.   *)
(***************************************************************************)
EXTENDS Mir

VARIABLES
  bodies,   \* Context.bodies: function -> [blocks, cache, locals, ret]
  blocks,   \* BlockId -> Block, the identifiers being 0 .. n-1
  cache,    \* the predecessors OnceLock: {} before it is filled, then {preds}
  retType,  \* the return type
  locals,   \* Local -> LocalInfo [kind, ty], the locals being 0 .. n-1
  pc        \* where the running pass stands, "done" when it has returned

blockVars == <<blocks, cache>>

BlockIds == DOMAIN blocks
Params == {l \in DOMAIN locals : locals[l].kind = "param"}

TypeOf(p) == TypeIn(p, locals, retType)

(* predecessors(): the cached lists, or the lists computed now.            *)
PredecessorsOf ==
  IF cache = {} THEN Predecessors(blocks) ELSE CHOOSE p \in cache : TRUE

(* A call of predecessors() that changes no block fills the cache.         *)
FillCache == cache' = {PredecessorsOf}

(* blocks_mut_dont_dirty(): the new blocks are bs, the cache is kept.      *)
BlocksMutDontDirty(bs) == blocks' = bs /\ cache' = cache

(* blocks_mut(): the new blocks are bs and the cache is empty again.       *)
BlocksMut(bs) == blocks' = bs /\ cache' = {}

SinglePredecessor(t) == \E e \in PredecessorsOf[t] : PredecessorsOf[t] = {e}
=============================================================================
