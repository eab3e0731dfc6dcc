----------------------------- MODULE Compilation -----------------------------
(***************************************************************************)
(* What turning bodies into an object file promises (src/main.rs, from the *)
(* collector to the object file), without a worklist, numbers or loops:    *)
(* what is needed grows from main by what needed instances use, code is    *)
(* made only once nothing more is needed, and the compiler stops half way  *)
(* only for want of a body.                                                *)
(***************************************************************************)
CONSTANTS
  Programs,
  Root,             \* main
  HasBody(_, _),    \* whether a program has a body for an instance
  Uses(_, _)        \* the instances the body of an instance names

VARIABLES source, needed, compiled, outcome

vars == <<source, needed, compiled, outcome>>

Init ==
  /\ source \in Programs
  /\ needed = {Root} /\ compiled = {} /\ outcome = "running"

Find ==
  /\ outcome = "running" /\ compiled = {}
  /\ \E i \in needed : HasBody(source, i) /\ needed' = needed \cup Uses(source, i)
  /\ UNCHANGED <<source, compiled, outcome>>

Closed == \A i \in needed : HasBody(source, i) /\ Uses(source, i) \subseteq needed

Compile ==
  /\ outcome = "running" /\ Closed
  /\ \E i \in needed \ compiled : compiled' = compiled \cup {i}
  /\ UNCHANGED <<source, needed, outcome>>

Finish ==
  /\ outcome = "running" /\ Closed /\ compiled = needed
  /\ outcome' = "finished"
  /\ UNCHANGED <<source, needed, compiled>>

GiveUp ==
  /\ outcome = "running" /\ \E i \in needed : ~HasBody(source, i)
  /\ outcome' = "panicked"
  /\ UNCHANGED <<source, needed, compiled>>

Next == Find \/ Compile \/ Finish \/ GiveUp
Spec == Init /\ [][Next]_vars
=============================================================================
