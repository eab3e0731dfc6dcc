------------------------------ MODULE StmtPasses -----------------------------
(***************************************************************************)
(* The passes that rewrite one statement at a time: remove-zst             *)
(* (src/mir/passes/remove_zst.rs), which gets rid of values that occupy no *)
(* bytes, and dead-store-elim (dead_store.rs).                             *)
(***************************************************************************)
EXTENDS MirBody

ZstOperand(op) ==
  IF op.kind = "load" /\ IsZst(TypeOf(op.place)) THEN ZeroSized ELSE op
ZstStmt(s) ==
  CASE s.kind = "assign" /\ CanRemoveIfUnused(s.rv) /\ IsZst(TypeOf(s.place)) -> Noop
    [] s.kind = "assign" /\ ~(CanRemoveIfUnused(s.rv) /\ IsZst(TypeOf(s.place))) ->
         [s EXCEPT !.rv.args = [i \in DOMAIN @ |-> ZstOperand(@[i])]]
    [] s.kind = "print" -> [s EXCEPT !.op = ZstOperand(@)]
    [] OTHER -> s

(* Only statements and operands change, so the cache is kept.              *)
RemoveZst ==
  /\ pc = "zst"
  /\ BlocksMutDontDirty([b \in BlockIds |->
       Block([i \in DOMAIN blocks[b].stmts |-> ZstStmt(blocks[b].stmts[i])],
             On(blocks[b].term, ZstOperand(blocks[b].term.on)))])
  /\ pc' = "done"

(* dead-store-elim: a removable assignment to a whole local that nothing   *)
(* reads becomes a noop.                                                   *)
IsDeadStore(s, read) ==
  /\ s.kind = "assign"
  /\ IsLocal(s.place.base) /\ s.place.proj = "none"
  /\ CanRemoveIfUnused(s.rv)
  /\ s.place.base \notin read
ReadAnywhere == Params \cup UNION {BlockReads(blocks[b]) : b \in BlockIds}
DeadStoreElim ==
  /\ pc = "deadstore"
  /\ BlocksMut([b \in BlockIds |->
       Block([i \in DOMAIN blocks[b].stmts |->
                IF IsDeadStore(blocks[b].stmts[i], ReadAnywhere)
                THEN Noop ELSE blocks[b].stmts[i]],
             blocks[b].term)])
  /\ pc' = "done"

StmtStep == RemoveZst \/ DeadStoreElim
==============================================================================
