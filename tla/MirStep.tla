------------------------------- MODULE MirStep ------------------------------
(***************************************************************************)
(* What one activation of a body does, one statement at a time             *)
(* (src/codegen/mod.rs).  An activation is at a statement of a block and   *)
(* has a memory:                                                           *)
(*   env   what the locals and the return place hold                       *)
(*   heap  the allocated cells, which it shares with its callers           *)
(* Values are integers: booleans 0 and 1, a pointer to heap cell i         *)
(* HeapBase + i, and Uninit for what was never written.  A value of type   *)
(* unit occupies no bytes: storing it does nothing and loading it gives 0. *)
(* What others see of a step is its event.  A call is one, and the callee  *)
(* may answer with any value and leave any heap behind.  A program is a    *)
(* stack of activations.  Last comes when one body does the same as        *)
(* another, and one program behaves as another.                            *)
(***************************************************************************)
EXTENDS Mir

HeapBase == 100
Uninit == -99
CellsPerObject == 1
FreshCells == [i \in 1 .. CellsPerObject |-> Uninit]
NewPointer(heap) == HeapBase + Len(heap) + 1

(* The types of what may be the base of a place, in a body.                *)
Bases(body) == {ReturnPlace} \cup DOMAIN body.locals
Types(body) ==
  [l \in Bases(body) |-> IF IsLocal(l) THEN body.locals[l].ty ELSE body.ret]

Event(kind, what, vals, heap) == [kind |-> kind, what |-> what, vals |-> vals, heap |-> heap]
Silent == Event("silent", NoFunction, <<>>, <<>>)
Undefined == Event("undefined", NoFunction, <<>>, <<>>)
Printing(v) == Event("print", NoFunction, <<v>>, <<>>)
Calling(f, args, heap) == Event("call", f, args, heap)
Returning(v, heap) == Event("return", NoFunction, <<v>>, heap)
Ending(how) == Event(how, NoFunction, <<>>, <<>>)

-----------------------------------------------------------------------------
(* Places and operands.  What a place lies in through a pointer is a cell. *)

Whole(p) == p.proj = "none"
CellOf(m, p) ==
  m.env[p.base] + (IF p.proj = "index" THEN m.env[p.by] ELSE 0) - HeapBase
CanReach(m, p) == Whole(p) \/ CellOf(m, p) \in DOMAIN m.heap
Loaded(types, m, p) ==
  IF ~Whole(p) THEN m.heap[CellOf(m, p)]
  ELSE IF IsZst(types[p.base]) THEN 0 ELSE m.env[p.base]
Stored(types, m, p, v) ==
  IF ~Whole(p) THEN [m EXCEPT !.heap[CellOf(m, p)] = v]
  ELSE IF IsZst(types[p.base]) THEN m ELSE [m EXCEPT !.env[p.base] = v]

ValueOf(types, m, op) == IF op.kind = "load" THEN Loaded(types, m, op.place) ELSE op.value
CanEval(m, op) == op.kind = "load" => CanReach(m, op.place)

-----------------------------------------------------------------------------
(* Rvalues and statements: the event of a statement and the memory after.  *)

CanCompute(m, rv) ==
  /\ \A i \in DOMAIN rv.args : CanEval(m, rv.args[i])
  /\ \A i \in DOMAIN rv.places : CanReach(m, rv.places[i])
Computed(types, m, rv) ==
  LET arg(i) == ValueOf(types, m, rv.args[i])
  IN CASE rv.kind \in {"use", "aggregate"} -> arg(1)
       [] rv.kind = "alloc"    -> NewPointer(m.heap)
       [] rv.kind = "offset"   -> arg(1) + arg(2)
       [] rv.kind = "inbounds" -> IF arg(2) \in 0 .. CellsPerObject - 1 THEN 1 ELSE 0
       [] rv.kind = "arrayptr" -> Loaded(types, m, rv.places[1])
(* An allocation adds cells.                                               *)
AfterComputing(m, rv) == IF rv.kind = "alloc" THEN [m EXCEPT !.heap = @ \o FreshCells] ELSE m
IsCall(rv) == rv.kind \in CallKinds

Doing(event, m) == [event |-> event, mem |-> m]
Storing(types, m, p, v) ==
  IF CanReach(m, p) THEN Doing(Silent, Stored(types, m, p, v)) ELSE Doing(Undefined, m)

Assigning(types, m, p, rv) ==
  IF ~CanCompute(m, rv) THEN Doing(Undefined, m)
  ELSE IF IsCall(rv)
  THEN Doing(Calling(rv.callee, [i \in DOMAIN rv.args |-> ValueOf(types, m, rv.args[i])], m.heap), m)
  ELSE Storing(types, AfterComputing(m, rv), p, Computed(types, m, rv))
StmtDoes(types, m, s) ==
  CASE s.kind = "noop"   -> Doing(Silent, m)
    [] s.kind = "print"  -> IF CanEval(m, s.op) THEN Doing(Printing(ValueOf(types, m, s.op)), m)
                            ELSE Doing(Undefined, m)
    [] s.kind = "assign" -> Assigning(types, m, s.place, s.rv)

(* The callee of s has come back with v and has left the heap as it is.    *)
Returned(types, m, s, v, heap) == Storing(types, [m EXCEPT !.heap = heap], s.place, v)

(* Terminators: the event, and which successor to go on at, if any.        *)
Branching(event, exit) == [event |-> event, exit |-> exit]
NoExit == 0
TermDoes(types, m, t) ==
  LET on    == ValueOf(types, m, t.on)
      known == CanEval(m, t.on) /\ on # Uninit
  IN CASE t.kind = "goto"   -> Branching(Silent, 1)
       [] t.kind = "return" ->
            Branching(Returning(Loaded(types, m, LocalPlace(ReturnPlace)), m.heap), NoExit)
       [] t.kind = "switch" -> IF known THEN Branching(Silent, BranchForValue(t, on))
                               ELSE Branching(Undefined, NoExit)
       [] t.kind = "assert" -> IF ~known THEN Branching(Undefined, NoExit)
                               ELSE IF on = t.values[1] THEN Branching(Silent, 1)
                               ELSE Branching(Ending("panic"), NoExit)
       [] OTHER -> Branching(Ending(t.kind), NoExit)

-----------------------------------------------------------------------------
(* Activations.                                                            *)

At(b, i, m) == [block |-> b, next |-> i, mem |-> m]
Memory(env, heap) == [env |-> env, heap |-> heap]

(* Where a body starts: the parameters, the first locals, have values.     *)
Entered(body, args, heap) ==
  At(ENTRY, 1, Memory([l \in Bases(body) |-> IF l + 1 \in DOMAIN args THEN args[l + 1] ELSE Uninit],
                      heap))

BlockAt(body, s) == body.blocks[s.block]
AtStmt(body, s) == s.next \in DOMAIN BlockAt(body, s).stmts
StmtAt(body, s) == BlockAt(body, s).stmts[s.next]

Moving(event, s) == [event |-> event, to |-> s]
Does(body, s) ==
  IF AtStmt(body, s)
  THEN LET d == StmtDoes(Types(body), s.mem, StmtAt(body, s))
       IN Moving(d.event, At(s.block, s.next + 1, d.mem))
  ELSE LET t == BlockAt(body, s).term
           d == TermDoes(Types(body), s.mem, t)
       IN Moving(d.event, IF d.exit = NoExit THEN s ELSE At(t.succs[d.exit], 1, s.mem))
CameBack(body, s, v, heap) ==
  LET d == Returned(Types(body), s.mem, StmtAt(body, s), v, heap)
  IN Moving(d.event, At(s.block, s.next + 1, d.mem))

-----------------------------------------------------------------------------
(* A whole program at work: the activations of its bodies, each with the   *)
(* function it is of, and the one that is running on top.  The cells of    *)
(* the heap are in the running activation's memory.                        *)

Frame(f, s) == [of |-> f, at |-> s]
Top(stack) == stack[Len(stack)]
GoesOn(stack, s) ==
  [i \in DOMAIN stack |-> IF i = Len(stack) THEN Frame(stack[i].of, s) ELSE stack[i]]

(* What f is called with become its parameters.                            *)
Called(table, f, args, heap) == Frame(f, Entered(table[f], args, heap))
Pushed(table, stack, f, args, heap) ==
  [i \in 1 .. Len(stack) + 1 |->
     IF i \in DOMAIN stack THEN stack[i] ELSE Called(table, f, args, heap)]

(* The running activation returns, to the one that called it.              *)
Popped(stack) == [i \in 1 .. Len(stack) - 1 |-> stack[i]]
GivesBack(table, stack, v, heap) ==
  LET caller == Top(Popped(stack))
      back   == CameBack(table[caller.of], caller.at, v, heap)
  IN Moving(back.event, GoesOn(Popped(stack), back.to))

(* Of a step in a body a call and, but for the last one, a return are not  *)
(* to be seen.                                                             *)
Running(table, stack) ==
  LET o == Does(table[Top(stack).of], Top(stack).at)
  IN CASE o.event.kind \in {"silent", "print"} -> Moving(o.event, GoesOn(stack, o.to))
       [] o.event.kind = "call" ->
            Moving(Silent, Pushed(table, stack, o.event.what, o.event.vals, o.event.heap))
       [] o.event.kind = "return" /\ Len(stack) > 1 ->
            GivesBack(table, stack, o.event.vals[1], o.event.heap)
       [] OTHER -> Moving(o.event, stack)

-----------------------------------------------------------------------------
(* When one body does the same as another: whatever an activation of the   *)
(* old body lets others see, the same activation of the new body lets them *)
(* see, in the same order, and it ends when and as the old one ends.  What *)
(* the old body leaves undefined the new one may do as it likes.           *)

Values == Int
Heaps == Seq(Values)

(* Activation s of the old body and t of the new one are related by R,     *)
(* with n counting how often the old one may still go on unseen while the  *)
(* new one waits.  A call answered the same way leads to related           *)
(* activations again.                                                      *)
Follows(R, old, new, s, t, n) ==
  LET o == Does(old, s)
      d == Does(new, t)
  IN \/ o.event = Undefined
     \/ o.event = Silent /\ \E k \in 0 .. n - 1 : <<o.to, t, k>> \in R
     \/ /\ d.event = o.event
        /\ o.event.kind \in {"silent", "print"} => \E k : <<o.to, d.to, k>> \in R
        /\ o.event.kind = "call" =>
             \A v \in Values, heap \in Heaps :
               LET oldBack == CameBack(old, s, v, heap)
                   newBack == CameBack(new, t, v, heap)
               IN \/ oldBack.event = Undefined
                  \/ newBack.event = Silent /\ \E k : <<oldBack.to, newBack.to, k>> \in R

(* R relates the two bodies from where they are entered on, with the same  *)
(* arguments and heap; never more than K steps go unanswered.              *)
Simulation(R, K, arity, old, new) ==
  /\ \A args \in [1 .. arity -> Values], heap \in Heaps :
       \E n : <<Entered(old, args, heap), Entered(new, args, heap), n>> \in R
  /\ \A s, t, n : <<s, t, n>> \in R => n \in 0 .. K /\ Follows(R, old, new, s, t, n)

DoesTheSame(arity, old, new) ==
  \E K \in Nat : \E R : Simulation(R, K, arity, old, new)

(* What a body means does not depend on what is cached of it.              *)
Code(body) == [blocks |-> body.blocks, locals |-> body.locals, ret |-> body.ret]

(* A program behaves as another did if it prints the same and ends the     *)
(* same, and does not go on unseen for ever where the other one ends or    *)
(* prints; whatever of its functions it is started at.                     *)
Keeps(W, old, new, p, q, n) ==
  LET o == Running(old, p)
      d == Running(new, q)
  IN \/ o.event = Undefined
     \/ o.event = Silent /\ \E k \in 0 .. n - 1 : <<o.to, q, k>> \in W
     \/ /\ d.event = o.event
        /\ o.event.kind \in {"silent", "print"} => \E k : <<o.to, d.to, k>> \in W

BehavesAs(arity, old, new) ==
  \E W :
    /\ \A f \in DOMAIN arity : \A args \in [1 .. arity[f] -> Values], heap \in Heaps :
         \E n : <<<<Called(old, f, args, heap)>>, <<Called(new, f, args, heap)>>, n>> \in W
    /\ \A p, q, n : <<p, q, n>> \in W => n \in Nat /\ Keeps(W, old, new, p, q, n)
=============================================================================
