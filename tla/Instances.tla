------------------------------ MODULE Instances ------------------------------
(***************************************************************************)
(* From bodies to an object file: which functions are compiled for which   *)
(* generic arguments (InstanceCollector, src/monomorph/collect.rs), and    *)
(* how the code generator declares every instance before it defines any    *)
(* (codegen_functions, src/codegen/mod.rs).                                *)
(***************************************************************************)
EXTENDS Integers, Sequences

CONSTANTS
  Programs,   \* programs: function -> the constants naming functions in its body
  Bases,      \* names of base types
  MAIN        \* the function main_function() finds

(* A type is a base type or the n-th generic parameter, n > 0, under some  *)
(* number of applications of a generic type: List(List(T)).                *)
Type == [lists : Nat, base : Bases, param : Nat]
Base(b) == [lists |-> 0, base |-> b, param |-> 0]
Unknown == Base("unknown")

(* A named constant of a body: the function, its generic arguments in      *)
(* terms of the parameters of the function whose body it is, and whether   *)
(* its block can be reached.                                               *)
Mention == [function : STRING, args : Seq(Type), reachable : BOOLEAN]
Instance == [function : STRING, args : Seq(Type)]

ASSUME BasesAssumption == "unknown" \in Bases

(* validate_main: main is not generic, so it is named without arguments.   *)
ASSUME ProgramsAssumption ==
  \A p \in Programs :
    /\ MAIN \in DOMAIN p /\ DOMAIN p \subseteq STRING
    /\ \A f \in DOMAIN p :
         /\ p[f] \in Seq(Mention)
         /\ \A k \in DOMAIN p[f] : p[f][k].function = MAIN => p[f][k].args = <<>>

VARIABLES
  program,      \* the bodies of the program being compiled
  stage,        \* "collect", "declare", "define", "finished" or "panicked"
  unvisited,    \* instances the collector has still to look at
  seen,         \* seen_instances
  instances,    \* the instances in the order they were first seen
  functions,    \* the declared instances -> FuncId, FuncIds being 1, 2, ...
  entrypoint,   \* the FuncId `main` calls, or NoEntry
  defined,      \* the FuncIds that have been defined
  next          \* how far the loop over the instances has come

vars == <<program, stage, unvisited, seen, instances, functions, entrypoint, defined, next>>

Stages == {"collect", "declare", "define", "finished", "panicked"}
NoEntry == 0
Elements(s) == {s[i] : i \in DOMAIN s}

(* Scheme::bind: the arguments put in place of the parameters.             *)
Nested(t, n) == [lists |-> t.lists + n, base |-> t.base, param |-> t.param]
BindType(t, args) ==
  IF t.param = 0 THEN t
  ELSE IF t.param \in DOMAIN args THEN Nested(args[t.param], t.lists)
       ELSE Nested(Unknown, t.lists)
Bind(m, args) ==
  [function |-> m.function, args |-> [i \in DOMAIN m.args |-> BindType(m.args[i], args)]]

HasBody(i) == i.function \in DOMAIN program
Mentioned(i) ==
  [k \in DOMAIN program[i.function] |-> Bind(program[i.function][k], i.args)]

Main == [function |-> MAIN, args |-> <<>>]

Init ==
  /\ program \in Programs
  /\ stage = "collect"
  /\ unvisited = <<Main>> /\ seen = {} /\ instances = <<>>
  /\ functions = [i \in {} |-> 0] /\ entrypoint = NoEntry /\ defined = {}
  /\ next = 1

(* One turn of collect's loop takes the first instance off the worklist    *)
(* and, when it is new, puts what its body names behind the others.        *)
NotTakenOff == unvisited                        \* mistake: looked at, not taken
Rest == Tail(unvisited)
OnlyMentioned(i) == Mentioned(i)                \* mistake: the others are lost
WithUnbound(i) == Rest \o program[i.function]   \* mistake: i's arguments are ignored
Enqueued(i) == Rest \o Mentioned(i)
AlwaysNew(i) == TRUE                            \* mistake: seen is not looked at
IsNew(i) == i \notin seen

(* with_body panics for want of a body.                                    *)
Visit ==
  /\ stage = "collect" /\ unvisited # <<>>
  /\ LET instance == Head(unvisited) IN
     IF IsNew(instance)
     THEN /\ seen' = seen \cup {instance}
          /\ instances' = Append(instances, instance)
          /\ IF HasBody(instance)
             THEN unvisited' = Enqueued(instance) /\ stage' = stage
             ELSE unvisited' = Rest /\ stage' = "panicked"
     ELSE unvisited' = Rest /\ UNCHANGED <<seen, instances, stage>>
  /\ UNCHANGED <<program, functions, entrypoint, defined, next>>

EndCollect ==
  /\ stage = "collect" /\ unvisited = <<>>
  /\ stage' = "declare"
  /\ UNCHANGED <<program, unvisited, seen, instances, functions, entrypoint, defined, next>>

(* The two loops over the instances end behind the last one.               *)
AtTheLast == next >= Len(instances)   \* mistake: the last one is left out
LoopOver == next \notin DOMAIN instances
AnyInstance(i) == TRUE                \* mistake: the last one declared is main
IsMain(i) == i.function = MAIN

(* The next instance gets a FuncId of its own, by the number in its name,  *)
(* and the map from instances to FuncIds is told.                          *)
Declare ==
  /\ stage = "declare" /\ next \in DOMAIN instances
  /\ functions' = [i \in DOMAIN functions \cup {instances[next]} |->
                     IF i = instances[next] THEN next ELSE functions[i]]
  /\ entrypoint' = IF IsMain(instances[next]) THEN next ELSE entrypoint
  /\ next' = next + 1
  /\ UNCHANGED <<program, stage, unvisited, seen, instances, defined>>

(* `main` is made, which needs the entry point, before any definition.     *)
EndDeclare ==
  /\ stage = "declare" /\ LoopOver
  /\ stage' = IF entrypoint = NoEntry THEN "panicked" ELSE "define"
  /\ next' = 1
  /\ UNCHANGED <<program, unvisited, seen, instances, functions, entrypoint, defined>>

(* The constants of the reachable blocks are looked up among the declared  *)
(* instances, and a FuncId can be defined once: otherwise it panics.       *)
AllFound(i) ==
  \A k \in DOMAIN program[i.function] :
    program[i.function][k].reachable => Bind(program[i.function][k], i.args) \in DOMAIN functions
Define ==
  /\ stage = "define" /\ next \in DOMAIN instances
  /\ LET instance == instances[next] IN
     IF AllFound(instance) /\ functions[instance] \notin defined
     THEN defined' = defined \cup {functions[instance]} /\ stage' = stage
     ELSE stage' = "panicked" /\ defined' = defined
  /\ next' = next + 1
  /\ UNCHANGED <<program, unvisited, seen, instances, functions, entrypoint>>

EndDefine ==
  /\ stage = "define" /\ LoopOver
  /\ stage' = "finished"
  /\ UNCHANGED <<program, unvisited, seen, instances, functions, entrypoint, defined, next>>

Step == Visit \/ EndCollect \/ Declare \/ EndDeclare \/ Define \/ EndDefine
Stopped == stage \in {"finished", "panicked"} /\ UNCHANGED vars
Next == Step \/ Stopped
Spec == Init /\ [][Next]_vars /\ WF_vars(Step)

(***************************************************************************)
(* Properties.                                                             *)
(***************************************************************************)

(* Instances are concrete or left unknown, and the loops count from 1.     *)
TypeOK ==
  /\ program \in Programs
  /\ stage \in Stages
  /\ unvisited \in Seq(Instance)
  /\ seen \subseteq Instance
  /\ instances \in Seq(Instance)
  /\ next \in Nat \ {0}

(* The worklist loses nothing: what an instance that has been seen names,  *)
(* bound to its arguments, has been seen or waits to be visited.  The code *)
(* generator can only find every function because of this.                 *)
NothingLost ==
  stage # "panicked" =>
    \A i \in seen \cup {Main} :
      /\ i \in seen \cup Elements(unvisited)
      /\ i \in seen => Elements(Mentioned(i)) \subseteq seen \cup Elements(unvisited)

(* No instance is listed twice, so no two FuncIds stand for the same       *)
(* function at the same arguments and none is defined twice.               *)
OncePerInstance ==
  \A i, j \in DOMAIN instances : instances[i] = instances[j] => i = j

(* Only what can be reached from main is compiled: a set that has main and *)
(* with every visited member those it names, as far as they were collected *)
(* or wait, is all that was collected or waits.                            *)
Known == seen \cup Elements(unvisited)
OnlyWhatMainReaches ==
  \A S \in SUBSET Known :
    (Main \in S /\ \A i \in S \cap seen :
                     HasBody(i) => Elements(Mentioned(i)) \cap Known \subseteq S)
      => S = Known

(* The code generator finds every function it calls, has an entry point    *)
(* and defines every declared function exactly once.                       *)
EverythingDefined ==
  stage = "finished" =>
    /\ defined = DOMAIN instances
    /\ entrypoint \in defined /\ instances[entrypoint] = Main
CompilesWithoutPanic == stage # "panicked"

(* "Expected a body" (with_body, src/mir/mod.rs): whatever the collector   *)
(* is sent to is a function a body was built for.                          *)
ExpectedABody == \A i \in seen : HasBody(i)

(* The collector visits finitely many instances and the loops end.         *)
CompilationEnds == <>(stage = "finished")

(* All of it implements Compilation: worklist and seen set together are    *)
(* what is needed, in whatever order it is looked at, a function has code  *)
(* once its FuncId is defined, and neither a function that is not found    *)
(* nor a missing entry point ever stops the compiler, only a constant that *)
(* names what has no body.                                                 *)
BodyIn(p, i) == i.function \in DOMAIN p
UsesIn(p, i) == {Bind(p[i.function][k], i.args) : k \in DOMAIN p[i.function]}
Compiled == {instances[k] : k \in DOMAIN instances \cap defined}
Outcome == IF stage \in {"finished", "panicked"} THEN stage ELSE "running"
Promise == INSTANCE Compilation WITH
  Root <- Main, HasBody <- BodyIn, Uses <- UsesIn,
  source <- program, needed <- Known, compiled <- Compiled, outcome <- Outcome
MeetsThePromise == Promise!Spec
=============================================================================
