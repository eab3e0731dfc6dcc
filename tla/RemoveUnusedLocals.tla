------------------------- MODULE RemoveUnusedLocals -------------------------
(***************************************************************************)
(* The remove-unused-locals pass (src/mir/passes/remove_unused_locals.rs). *)
(* The kept locals are compacted to the front of the list by swaps made    *)
(* while the new numbers are being handed out, and only afterwards is      *)
(* every place of the body renumbered and the list cut.                    *)
(***************************************************************************)
EXTENDS MirBody

VARIABLES
  found,       \* the locals the finder has collected
  compacted,   \* how many locals the compaction has looked at
  nextLocal,   \* next_local
  localMap     \* old local -> new local, or Unmapped

unusedVars == <<found, compacted, nextLocal, localMap>>

Unmapped == -1

(* What the finder keeps: parameters and every local that is visited.      *)
LocalsRead ==   \* mistake: as dead-store-elim does, only what is read
  Params \cup UNION {BlockReads(blocks[b]) : b \in BlockIds}
UsedLocals == Params \cup UNION {BlockLocals(blocks[b]) : b \in BlockIds}
FindLocals ==
  /\ pc = "unused"
  /\ found' = UsedLocals
  /\ compacted' = 0 /\ nextLocal' = 0
  /\ localMap' = [l \in DOMAIN locals |-> Unmapped]
  /\ pc' = "compact"
  /\ UNCHANGED <<blocks, cache, locals>>

LeaveInPlace(f, i, j) == f   \* mistake: only the numbers change
Swap(f, i, j) == [f EXCEPT ![i] = f[j], ![j] = f[i]]

Compact ==
  /\ pc = "compact" /\ compacted \in DOMAIN locals
  /\ IF compacted \in found
     THEN /\ locals' = Swap(locals, compacted, nextLocal)
          /\ localMap' = [localMap EXCEPT ![compacted] = nextLocal]
          /\ nextLocal' = nextLocal + 1
     ELSE UNCHANGED <<locals, localMap, nextLocal>>
  /\ compacted' = compacted + 1
  /\ UNCHANGED <<blocks, cache, pc, found>>

(* LocalReplacer unwraps the new number of every local it visits.          *)
CanReplace ==
  \A b \in BlockIds : \A l \in BlockLocals(blocks[b]) : localMap[l] # Unmapped

(* truncate(next_local.next()): one local more than were kept, if there is *)
(* one.                                                                    *)
OneTooFew == nextLocal - 1   \* mistake: the last kept local is cut off
KeptCount == nextLocal + 1
Replace ==
  /\ pc = "compact" /\ compacted \notin DOMAIN locals
  /\ IF CanReplace
     THEN /\ BlocksMut([b \in BlockIds |-> RenameBlock(blocks[b], localMap)])
          /\ locals' = [l \in {k \in DOMAIN locals : k < KeptCount} |-> locals[l]]
          /\ pc' = "done"
     ELSE /\ pc' = "panicked"
          /\ UNCHANGED <<blocks, cache, locals>>
  /\ UNCHANGED unusedVars

UnusedStep == FindLocals \/ Compact \/ Replace
=============================================================================
