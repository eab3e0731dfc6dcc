-------------------------------- MODULE Inline -------------------------------
(***************************************************************************)
(* The inline pass (src/mir/passes/inlining.rs) and the table of bodies it *)
(* looks callees up in (Context in src/mir/mod.rs).  The body a pass runs  *)
(* on is mutably borrowed for as long as its passes run, so looking it up  *)
(* again in the meantime panics.                                           *)
(***************************************************************************)
EXTENDS MirBody, FiniteSets

VARIABLES
  running,   \* the function whose body is borrowed for its passes
  budget     \* inline_budget

inlineVars == <<budget>>

InlineBudget == 10

(* Statements are numbered from one here, blocks from zero as in the code. *)
IsSite(s) == s.kind = "assign" /\ s.rv.kind = "call"
Sites == UNION {{<<b, i>> : i \in {j \in DOMAIN blocks[b].stmts : IsSite(blocks[b].stmts[j])}} :
                b \in BlockIds}

(* The visitor keeps the first site it meets (get_or_insert).              *)
FirstSite == CHOOSE s \in Sites :
               \A t \in Sites : s[1] < t[1] \/ (s[1] = t[1] /\ s[2] <= t[2])

(* with_body: there has to be a body, and it must not be the borrowed one. *)
CanBorrow(f) == f \in DOMAIN bodies /\ f # running

(* What the replacer makes of a callee place: its locals move behind the   *)
(* caller's, and the return place becomes the place the call is assigned   *)
(* to with the callee's projections, as they are, behind it.               *)
PlaceInto(p, dest, localCount) ==
  IF p.base # ReturnPlace
  THEN RenamePlace(p, [l \in PlaceLocals(p) |-> l + localCount])
  ELSE IF p.proj = "none" THEN dest ELSE [p EXCEPT !.base = dest.base]

(* The copy of a callee block: its targets move behind the caller's blocks *)
(* and a return becomes a jump to the rest of the calling block.           *)
InlinedBlock(b, dest, localCount, blockCount, returned) ==
  LET copy == MapPlaces(b, [p \in BlockPlaces(b) |-> PlaceInto(p, dest, localCount)])
  IN IF copy.term.kind = "return"
     THEN [copy EXCEPT !.term = Goto(returned)]
     ELSE [copy EXCEPT !.term.succs = [i \in DOMAIN @ |-> @[i] + blockCount]]

(* Params and vars of the callee are ordinary temporaries of the caller.   *)
InlinedLocal(info) ==
  [info EXCEPT !.kind = IF @ \in {"param", "var"} THEN "temp" ELSE @]

AppendAfter(f, n, g, m) == [k \in 0 .. n + m - 1 |-> IF k < n THEN f[k] ELSE g[k - n]]

StartInline ==
  /\ pc = "inline"
  /\ budget' = InlineBudget
  /\ pc' = "inlining"
  /\ UNCHANGED <<blocks, cache, locals>>

InlineCall ==
  /\ pc = "inlining" /\ budget > 0 /\ Sites # {}
  /\ budget' = budget - 1
  /\ LET site   == FirstSite
         caller == blocks[site[1]]
         call   == caller.stmts[site[2]]
         callee == bodies[call.rv.callee]
         n      == Cardinality(BlockIds)
         m      == Cardinality(DOMAIN callee.blocks)
         k      == Cardinality(DOMAIN locals)
         args   == [i \in DOMAIN call.rv.args |->
                      Assign(LocalPlace(k + i - 1), Use(call.rv.args[i]))]
         before == Block(SubSeq(caller.stmts, 1, site[2] - 1) \o args, Goto(n))
         after  == Block(<<Noop>> \o SubSeq(caller.stmts, site[2] + 1, Len(caller.stmts)),
                         caller.term)
         copies == [c \in DOMAIN callee.blocks |->
                      InlinedBlock(callee.blocks[c], call.place, k, n, n + m)]
     IN IF CanBorrow(call.rv.callee)
        THEN /\ BlocksMut(AppendAfter(AppendAfter([blocks EXCEPT ![site[1]] = before],
                                                  n, copies, m),
                                      n + m, [c \in {0} |-> after], 1))
             /\ locals' = AppendAfter(locals, k,
                            [l \in DOMAIN callee.locals |-> InlinedLocal(callee.locals[l])],
                            Cardinality(DOMAIN callee.locals))
             /\ pc' = pc
        ELSE pc' = "panicked" /\ UNCHANGED <<blocks, cache, locals>>

StopInlining ==
  /\ pc = "inlining" /\ (budget = 0 \/ Sites = {})
  /\ budget' = IF budget = 0 THEN 0 ELSE budget - 1
  /\ pc' = "done"
  /\ UNCHANGED <<blocks, cache, locals>>

InlineStep == StartInline \/ InlineCall \/ StopInlining
==============================================================================
