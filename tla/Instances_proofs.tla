--------------------------- MODULE Instances_proofs --------------------------
(***************************************************************************)
(* Proofs about Instances, for every program.                              *)
(***************************************************************************)
EXTENDS Instances, TLAPS

USE DEF Rest, Enqueued, IsNew, LoopOver, IsMain

-----------------------------------------------------------------------------
(* Sequences and the sets of their elements.                               *)

(* Appending to a list adds one element to the set of its elements.        *)
LEMMA ElementsAppend ==
  ASSUME NEW S, NEW s \in Seq(S), NEW e \in S
  PROVE  Elements(Append(s, e)) = Elements(s) \cup {e}
<1>1. /\ DOMAIN Append(s, e) = 1 .. Len(s) + 1
      /\ \A i \in 1 .. Len(s) : Append(s, e)[i] = s[i]
      /\ Append(s, e)[Len(s) + 1] = e
      /\ DOMAIN s = 1 .. Len(s) /\ Len(s) \in Nat
  OBVIOUS
<1> QED BY <1>1 DEF Elements

(* The elements of two lists put together are those of each.               *)
LEMMA ElementsConcat ==
  ASSUME NEW S, NEW s \in Seq(S), NEW t \in Seq(S)
  PROVE  Elements(s \o t) = Elements(s) \cup Elements(t)
<1>1. /\ DOMAIN (s \o t) = 1 .. Len(s) + Len(t)
      /\ \A i \in 1 .. Len(s) : (s \o t)[i] = s[i]
      /\ \A i \in 1 .. Len(t) : (s \o t)[Len(s) + i] = t[i]
      /\ DOMAIN s = 1 .. Len(s) /\ Len(s) \in Nat
      /\ DOMAIN t = 1 .. Len(t) /\ Len(t) \in Nat
  OBVIOUS
<1>2. ASSUME NEW i \in DOMAIN (s \o t)
      PROVE  (s \o t)[i] \in Elements(s) \cup Elements(t)
  <2>1. CASE i \in 1 .. Len(s)
    BY <1>1, <2>1 DEF Elements
  <2>2. CASE i \notin 1 .. Len(s)
    <3>1. i - Len(s) \in 1 .. Len(t) /\ Len(s) + (i - Len(s)) = i
      BY <1>1, <2>2
    <3> QED BY <1>1, <3>1 DEF Elements
  <2> QED BY <2>1, <2>2
<1>3. ASSUME NEW i \in DOMAIN s
      PROVE  s[i] \in Elements(s \o t)
  BY <1>1 DEF Elements
<1>4. ASSUME NEW i \in DOMAIN t
      PROVE  t[i] \in Elements(s \o t)
  <2>1. Len(s) + i \in DOMAIN (s \o t) /\ (s \o t)[Len(s) + i] = t[i]
    BY <1>1
  <2> QED BY <2>1 DEF Elements
<1> QED BY <1>2, <1>3, <1>4 DEF Elements

(* What pop_front takes off a list and what it leaves are its elements.    *)
LEMMA ElementsHeadTail ==
  ASSUME NEW S, NEW s \in Seq(S), s # <<>>
  PROVE  /\ Head(s) \in S /\ Tail(s) \in Seq(S)
         /\ Elements(s) = {Head(s)} \cup Elements(Tail(s))
<1>1. /\ Head(s) \in S /\ Tail(s) \in Seq(S)
      /\ Head(s) = s[1] /\ 1 \in DOMAIN s
      /\ DOMAIN s = 1 .. Len(s) /\ Len(s) \in Nat \ {0}
      /\ DOMAIN Tail(s) = 1 .. Len(s) - 1
      /\ \A i \in 1 .. Len(s) - 1 : Tail(s)[i] = s[i + 1]
  OBVIOUS
<1>2. ASSUME NEW i \in DOMAIN s
      PROVE  s[i] \in {Head(s)} \cup Elements(Tail(s))
  <2>1. CASE i = 1
    BY <1>1, <2>1
  <2>2. CASE i # 1
    <3>1. i - 1 \in 1 .. Len(s) - 1 /\ (i - 1) + 1 = i
      BY <1>1, <2>2
    <3> QED BY <1>1, <3>1 DEF Elements
  <2> QED BY <2>1, <2>2
<1>3. Elements(Tail(s)) \subseteq Elements(s)
  <2>1. \A i \in 1 .. Len(s) - 1 : i + 1 \in DOMAIN s
    BY <1>1
  <2> QED BY <1>1, <2>1 DEF Elements
<1>4. Head(s) \in Elements(s)
  BY <1>1 DEF Elements
<1>5. Elements(s) \subseteq {Head(s)} \cup Elements(Tail(s))
  BY <1>2 DEF Elements
<1> QED BY <1>1, <1>3, <1>4, <1>5

(* An empty worklist has no elements.                                      *)
LEMMA EmptyElements == Elements(<<>>) = {}
  BY DEF Elements

-----------------------------------------------------------------------------
(* The collector.                                                          *)

(* A type under more applications is a type.                               *)
LEMMA NestedType ==
  ASSUME NEW t \in Type, NEW n \in Nat
  PROVE  Nested(t, n) \in Type
BY DEF Nested, Type

(* Scheme::bind makes an instance of a constant and concrete arguments.    *)
LEMMA BindInstance ==
  ASSUME NEW m \in Mention, NEW i \in Instance
  PROVE  Bind(m, i.args) \in Instance
<1>1. ASSUME NEW k \in DOMAIN m.args
      PROVE  BindType(m.args[k], i.args) \in Type
  <2>1. m.args[k] \in Type /\ i.args \in Seq(Type)
    BY DEF Mention, Instance
  <2>2. \A j \in DOMAIN i.args : i.args[j] \in Type
    BY <2>1
  <2>3. m.args[k].lists \in Nat
    BY <2>1 DEF Type
  <2>4. Unknown \in Type
    BY BasesAssumption DEF Type, Unknown, Base
  <2> QED BY <2>1, <2>2, <2>3, <2>4, NestedType DEF BindType
<1>2. DOMAIN m.args = 1 .. Len(m.args) /\ Len(m.args) \in Nat
  BY DEF Mention
<1>3. [k \in DOMAIN m.args |-> BindType(m.args[k], i.args)] \in Seq(Type)
  BY <1>1, <1>2
<1>4. m.function \in STRING
  BY DEF Mention
<1> QED BY <1>3, <1>4 DEF Bind, Instance

(* What a body names, bound to arguments, is a list of instances.          *)
LEMMA MentionedInstances ==
  ASSUME TypeOK, NEW i \in Instance, HasBody(i)
  PROVE  Mentioned(i) \in Seq(Instance)
<1>1. program[i.function] \in Seq(Mention)
  BY ProgramsAssumption DEF TypeOK, HasBody
<1>2. /\ DOMAIN program[i.function] = 1 .. Len(program[i.function])
      /\ Len(program[i.function]) \in Nat
      /\ \A k \in DOMAIN program[i.function] : program[i.function][k] \in Mention
  BY <1>1
<1>3. \A k \in DOMAIN program[i.function] : Bind(program[i.function][k], i.args) \in Instance
  BY <1>2, BindInstance
<1> QED BY <1>2, <1>3 DEF Mentioned

(* main, without arguments, is an instance.                                *)
LEMMA MainInstance ==
  ASSUME program \in Programs
  PROVE  Main \in Instance
<1>1. MAIN \in STRING
  BY ProgramsAssumption
<1>2. <<>> \in Seq(Type)
  OBVIOUS
<1> QED BY <1>1, <1>2 DEF Main, Instance

(* Type correctness: the collector (InstanceCollector::collect) and the    *)
(* two loops of codegen_functions only ever handle instances.              *)
THEOREM TypeCorrect == Spec => []TypeOK
<1>1. Init => TypeOK
  BY MainInstance DEF Init, TypeOK, Stages
<1>2. TypeOK /\ [Next]_vars => TypeOK'
  <2> SUFFICES ASSUME TypeOK, [Next]_vars
               PROVE  TypeOK'
    OBVIOUS
  <2> USE DEF TypeOK, Stages
  <2>1. CASE Visit
    <3> DEFINE x == Head(unvisited)
    <3>1. x \in Instance /\ Tail(unvisited) \in Seq(Instance)
      BY <2>1, ElementsHeadTail DEF Visit
    <3>2. CASE x \in seen
      BY <2>1, <3>1, <3>2 DEF Visit
    <3>3. CASE x \notin seen /\ HasBody(x)
      <4>1. Mentioned(x) \in Seq(Instance)
        BY <3>1, <3>3, MentionedInstances
      <4>2. Tail(unvisited) \o Mentioned(x) \in Seq(Instance)
        BY <3>1, <4>1
      <4>3. Append(instances, x) \in Seq(Instance)
        BY <3>1
      <4> QED BY <2>1, <3>1, <3>3, <4>2, <4>3 DEF Visit
    <3>4. CASE x \notin seen /\ ~HasBody(x)
      <4>1. Append(instances, x) \in Seq(Instance)
        BY <3>1
      <4> QED BY <2>1, <3>1, <3>4, <4>1 DEF Visit
    <3> QED BY <3>2, <3>3, <3>4
  <2>2. CASE EndCollect
    BY <2>2 DEF EndCollect
  <2>3. CASE Declare
    BY <2>3 DEF Declare
  <2>4. CASE EndDeclare
    BY <2>4 DEF EndDeclare
  <2>5. CASE Define
    BY <2>5 DEF Define
  <2>6. CASE EndDefine
    BY <2>6 DEF EndDefine
  <2>7. CASE UNCHANGED vars
    BY <2>7 DEF vars
  <2> QED BY <2>1, <2>2, <2>3, <2>4, <2>5, <2>6, <2>7 DEF Next, Step, Stopped
<1> QED BY <1>1, <1>2, PTL DEF Spec

-----------------------------------------------------------------------------
(* The inductive invariant.  CollectInv is what the collector keeps while  *)
(* it works, DeclareInv what the two loops of the code generator add.      *)

Waiting == Elements(unvisited)

CollectInv ==
  /\ Elements(instances) = seen
  /\ NothingLost
  /\ OncePerInstance
  /\ OnlyWhatMainReaches
  /\ \A i \in seen \cup Waiting : i.function = MAIN => i = Main
  /\ stage \in {"declare", "define", "finished"} => unvisited = <<>>

IdsInOrder ==
  \A k \in DOMAIN instances :
    instances[k] \in DOMAIN functions => functions[instances[k]] = k
EntrypointIsMain ==
  entrypoint # NoEntry =>
    entrypoint \in DOMAIN instances /\ instances[entrypoint].function = MAIN

DeclareInv ==
  /\ IdsInOrder
  /\ EntrypointIsMain
  /\ stage = "collect" =>
       DOMAIN functions = {} /\ entrypoint = NoEntry /\ defined = {} /\ next = 1
  /\ stage = "declare" =>
       /\ next <= Len(instances) + 1
       /\ DOMAIN functions = {instances[k] : k \in 1 .. next - 1}
       /\ entrypoint = NoEntry => \A k \in 1 .. next - 1 : instances[k].function # MAIN
       /\ defined = {}
  /\ stage \in {"define", "finished"} =>
       DOMAIN functions = seen /\ entrypoint # NoEntry
  /\ stage = "define" => next <= Len(instances) + 1 /\ defined = 1 .. next - 1
  /\ stage = "finished" => defined = DOMAIN instances

(* A visit of an instance that is new.                                     *)
FirstVisit(x) ==
  /\ Visit /\ x = Head(unvisited) /\ x \notin seen

(* Taking an instance that has been seen off the worklist loses nothing,   *)
(* because it is among the seen ones (the `continue` of collect).          *)
LEMMA VisitAgain ==
  ASSUME TypeOK, Visit, Head(unvisited) \in seen
  PROVE  /\ UNCHANGED <<program, stage, seen, instances, functions, entrypoint, defined, next>>
         /\ unvisited' = Tail(unvisited)
         /\ seen \cup Elements(unvisited') = seen \cup Elements(unvisited)
<1>1. Elements(unvisited) = {Head(unvisited)} \cup Elements(Tail(unvisited))
  BY ElementsHeadTail DEF TypeOK, Visit
<1> QED BY <1>1 DEF Visit

(* A first visit moves one instance from the worklist to the seen ones     *)
(* and adds what its body names to the worklist.                           *)
LEMMA VisitNew ==
  ASSUME TypeOK, NEW x, FirstVisit(x)
  PROVE  /\ x \in Instance /\ x \in Elements(unvisited)
         /\ program' = program
         /\ seen' = seen \cup {x} /\ instances' = Append(instances, x)
         /\ Elements(instances') = Elements(instances) \cup {x}
         /\ HasBody(x) =>
              /\ stage' = stage
              /\ Elements(unvisited') = Elements(Tail(unvisited)) \cup Elements(Mentioned(x))
              /\ seen' \cup Elements(unvisited') =
                   seen \cup Elements(unvisited) \cup Elements(Mentioned(x))
         /\ ~HasBody(x) =>
              /\ stage' = "panicked"
              /\ seen' \cup Elements(unvisited') = seen \cup Elements(unvisited)
<1> USE DEF FirstVisit
<1>1. /\ x \in Instance /\ Tail(unvisited) \in Seq(Instance)
      /\ Elements(unvisited) = {x} \cup Elements(Tail(unvisited))
  BY ElementsHeadTail DEF TypeOK, Visit
<1>2. Elements(instances') = Elements(instances) \cup {x}
  <2>1. instances' = Append(instances, x) /\ instances \in Seq(Instance)
    BY DEF TypeOK, Visit
  <2>2. Elements(Append(instances, x)) = Elements(instances) \cup {x}
    BY <1>1, <2>1, ElementsAppend
  <2> QED BY <2>1, <2>2
<1>3. ASSUME HasBody(x)
      PROVE  Elements(unvisited') = Elements(Tail(unvisited)) \cup Elements(Mentioned(x))
  <2>1. Mentioned(x) \in Seq(Instance)
    BY <1>1, <1>3, MentionedInstances
  <2>2. \A s, t \in Seq(Instance) : Elements(s \o t) = Elements(s) \cup Elements(t)
    BY ElementsConcat
  <2>3. Elements(Tail(unvisited) \o Mentioned(x)) =
          Elements(Tail(unvisited)) \cup Elements(Mentioned(x))
    BY <1>1, <2>1, <2>2, Zenon
  <2> QED BY <1>3, <2>3 DEF Visit
<1> QED BY <1>1, <1>2, <1>3 DEF Visit

(* A turn of collect's loop keeps NothingLost.                             *)
LEMMA NothingLostStep ==
  ASSUME TypeOK, NothingLost, Visit
  PROVE  NothingLost'
<1> DEFINE x == Head(unvisited)
<1>1. /\ stage # "panicked" /\ program' = program
  BY DEF Visit
<1>2. CASE x \in seen
  <2>1. /\ program' = program /\ seen' = seen /\ stage' = stage
        /\ seen \cup Elements(unvisited') = seen \cup Elements(unvisited)
    BY <1>2, VisitAgain
  <2> QED BY <1>1, <2>1 DEF NothingLost, Mentioned, Main
<1>3. CASE x \notin seen /\ HasBody(x)
  <2>1. FirstVisit(x)
    BY <1>3 DEF FirstVisit
  <2> HIDE DEF x
  <2>2. /\ seen' = seen \cup {x} /\ x \in Elements(unvisited)
        /\ seen' \cup Elements(unvisited') =
             seen \cup Elements(unvisited) \cup Elements(Mentioned(x))
    BY <1>3, <2>1, VisitNew
  <2>3. ASSUME NEW i \in seen' \cup {Main}
        PROVE  /\ i \in seen' \cup Elements(unvisited')
               /\ i \in seen' => Elements(Mentioned(i)) \subseteq seen' \cup Elements(unvisited')
    <3>1. CASE i = x
      BY <2>2, <3>1
    <3>2. CASE i # x
      <4>1. i \in seen \cup {Main}
        BY <2>2, <3>2
      <4> QED BY <1>1, <2>2, <3>2, <4>1 DEF NothingLost
    <3> QED BY <3>1, <3>2
  <2>4. \A i : Mentioned(i)' = Mentioned(i)
    BY <1>1 DEF Mentioned
  <2> QED BY <2>3, <2>4 DEF NothingLost, Main
<1>4. CASE x \notin seen /\ ~HasBody(x)
  <2>1. stage' = "panicked"
    BY <1>4 DEF Visit
  <2> QED BY <2>1 DEF NothingLost
<1> QED BY <1>2, <1>3, <1>4

(* A turn of collect's loop keeps OnlyWhatMainReaches: a closed set after  *)
(* the visit is closed before it, up to what the visit added.              *)
LEMMA OnlyWhatMainReachesStep ==
  ASSUME TypeOK, NothingLost, OnlyWhatMainReaches, Visit
  PROVE  OnlyWhatMainReaches'
<1> DEFINE x == Head(unvisited)
           U == Known
<1>1. stage # "panicked" /\ program' = program
  BY DEF Visit
<1>2. CASE x \in seen
  <2>1. program' = program /\ seen' = seen /\ Known' = U
    BY <1>2, VisitAgain DEF Known
  <2> QED BY <2>1 DEF OnlyWhatMainReaches, Mentioned, HasBody, Main
<1>3. CASE x \notin seen
  <2>1. FirstVisit(x)
    BY <1>3 DEF FirstVisit
  <2> HIDE DEF x
  <2>2. /\ seen' = seen \cup {x} /\ x \in Elements(unvisited)
        /\ HasBody(x) => Known' = U \cup Elements(Mentioned(x))
        /\ ~HasBody(x) => Known' = U
    BY <2>1, VisitNew DEF Known
  <2>3. ASSUME NEW S \in SUBSET Known', Main \in S,
               \A i \in S \cap seen' :
                 HasBody(i) => Elements(Mentioned(i)) \cap Known' \subseteq S
        PROVE  S = Known'
    <3>1. Main \in U /\ U \subseteq Known'
      BY <1>1, <2>2 DEF NothingLost, Known
    <3>2. S \cap U \in SUBSET U /\ Main \in S \cap U
      BY <2>3, <3>1
    <3>3. \A i \in (S \cap U) \cap seen :
            HasBody(i) => Elements(Mentioned(i)) \cap U \subseteq S \cap U
      BY <2>2, <2>3, <3>1
    <3>4. S \cap U = U
      BY <3>2, <3>3 DEF OnlyWhatMainReaches
    <3>5. x \in S \cap seen'
      BY <2>2, <3>4 DEF Known
    <3>6. HasBody(x) => Elements(Mentioned(x)) \subseteq S
      BY <2>2, <2>3, <3>5
    <3> QED BY <2>2, <2>3, <3>4, <3>6
  <2>4. \A i : Mentioned(i)' = Mentioned(i) /\ HasBody(i)' = HasBody(i)
    BY <1>1 DEF Mentioned, HasBody
  <2> QED BY <2>3, <2>4 DEF OnlyWhatMainReaches, Main
<1> QED BY <1>2, <1>3

(* Only main itself, without arguments, is an instance of main's function  *)
(* (validate_main lets main have no generic parameters).                   *)
LEMMA MentionedMain ==
  ASSUME TypeOK, NEW i \in Instance, HasBody(i),
         NEW j \in Elements(Mentioned(i)), j.function = MAIN
  PROVE  j = Main
<1> DEFINE ms == program[i.function]
<1>1. ms \in Seq(Mention) /\ \A k \in DOMAIN ms : ms[k].function = MAIN => ms[k].args = <<>>
  BY ProgramsAssumption DEF TypeOK, HasBody
<1>2. PICK k \in DOMAIN ms : j = Bind(ms[k], i.args)
  BY DEF Elements, Mentioned
<1>3. ms[k].function = MAIN
  BY <1>2 DEF Bind
<1>4. ms[k].args = <<>>
  BY <1>1, <1>3
<1>5. [n \in DOMAIN ms[k].args |-> BindType(ms[k].args[n], i.args)] = <<>>
  BY <1>4
<1> QED BY <1>2, <1>3, <1>5 DEF Bind, Main

(* The inductive invariant of the collector (InstanceCollector::collect).  *)
THEOREM CollectCorrect == Spec => []CollectInv
<1>1. Init => CollectInv
  <2> SUFFICES ASSUME Init
               PROVE  CollectInv
    OBVIOUS
  <2> USE DEF Init
  <2>1. Elements(unvisited) = {Main} /\ Elements(instances) = {} /\ DOMAIN instances = {}
    BY DEF Elements
  <2>2. NothingLost
    BY <2>1 DEF NothingLost
  <2>3. OncePerInstance
    BY <2>1 DEF OncePerInstance
  <2>4. OnlyWhatMainReaches
    BY <2>1 DEF OnlyWhatMainReaches, Known
  <2> QED BY <2>1, <2>2, <2>3, <2>4 DEF CollectInv, Waiting
<1>2. TypeOK /\ CollectInv /\ [Next]_vars => CollectInv'
  <2> SUFFICES ASSUME TypeOK, CollectInv, [Next]_vars
               PROVE  CollectInv'
    OBVIOUS
  <2>1. CASE Visit
    <3> DEFINE x == Head(unvisited)
    <3>1. NothingLost' /\ OnlyWhatMainReaches'
      BY <2>1, NothingLostStep, OnlyWhatMainReachesStep DEF CollectInv
    <3>2. CASE x \in seen
      <4>1. UNCHANGED <<stage, seen, instances>>
            /\ (seen \cup Waiting)' = seen \cup Waiting
        BY <2>1, <3>2, VisitAgain DEF Waiting
      <4>2. (stage \in {"declare", "define", "finished"})' = FALSE
        BY <2>1, <4>1 DEF Visit
      <4> QED BY <3>1, <4>1, <4>2 DEF CollectInv, OncePerInstance, Main
    <3>3. CASE x \notin seen
      <4>1. FirstVisit(x)
        BY <2>1, <3>3 DEF FirstVisit
      <4> HIDE DEF x
      <4>2. /\ x \in Instance /\ x \in Waiting
            /\ seen' = seen \cup {x} /\ Elements(instances') = seen'
            /\ HasBody(x) => (seen \cup Waiting)' = seen \cup Waiting \cup Elements(Mentioned(x))
            /\ ~HasBody(x) => (seen \cup Waiting)' = seen \cup Waiting
        BY <4>1, VisitNew DEF CollectInv, Waiting
      <4>3. OncePerInstance'
        <5>1. instances' = Append(instances, x) /\ instances \in Seq(Instance)
          BY <4>1, VisitNew DEF TypeOK
        <5>2. \A k \in DOMAIN instances : instances[k] # x
          BY <3>3, <4>1 DEF CollectInv, Elements, FirstVisit
        <5> QED BY <4>2, <5>1, <5>2 DEF CollectInv, OncePerInstance
      <4>4. \A i \in (seen \cup Waiting)' : i.function = MAIN => i = Main
        BY <4>2, MentionedMain DEF CollectInv
      <4>5. (stage \in {"declare", "define", "finished"})' = FALSE
        BY <4>1, VisitNew DEF FirstVisit, Visit
      <4> QED BY <3>1, <4>2, <4>3, <4>4, <4>5 DEF CollectInv, Main
    <3> QED BY <3>2, <3>3
  <2>2. ASSUME UNCHANGED <<program, unvisited, seen, instances>>,
               stage' # "panicked" => stage # "panicked",
               (stage \in {"declare", "define", "finished"})' => unvisited = <<>>
        PROVE  CollectInv'
    <3>1. Known' = Known /\ Waiting' = Waiting
      BY <2>2 DEF Known, Waiting
    <3>2. \A i : Mentioned(i)' = Mentioned(i) /\ HasBody(i)' = HasBody(i)
      BY <2>2 DEF Mentioned, HasBody
    <3>3. OnlyWhatMainReaches'
      BY <2>2, <3>1, <3>2 DEF CollectInv, OnlyWhatMainReaches, Main
    <3> QED
      BY <2>2, <3>3 DEF CollectInv, NothingLost, OncePerInstance, Waiting, Mentioned, Main
  <2>3. CASE EndCollect
    BY <2>2, <2>3 DEF EndCollect
  <2>4. CASE Declare
    BY <2>2, <2>4 DEF Declare, CollectInv
  <2>5. CASE EndDeclare
    BY <2>2, <2>5 DEF EndDeclare, CollectInv
  <2>6. CASE Define
    BY <2>2, <2>6 DEF Define, CollectInv
  <2>7. CASE EndDefine
    BY <2>2, <2>7 DEF EndDefine, CollectInv
  <2>8. CASE UNCHANGED vars
    BY <2>2, <2>8 DEF vars, CollectInv
  <2> QED BY <2>1, <2>3, <2>4, <2>5, <2>6, <2>7, <2>8 DEF Next, Step, Stopped
<1> QED BY <1>1, <1>2, TypeCorrect, PTL DEF Spec

(* The worklist loses nothing, no instance is listed twice, and nothing is *)
(* collected that main does not reach (InstanceCollector::collect).        *)
THEOREM CollectorLosesNothing == Spec => []NothingLost
<1>1. CollectInv => NothingLost
  BY DEF CollectInv
<1> QED BY <1>1, CollectCorrect, PTL

(* Two FuncIds never stand for the same function at the same arguments.    *)
THEOREM InstancesAreDistinct == Spec => []OncePerInstance
<1>1. CollectInv => OncePerInstance
  BY DEF CollectInv
<1> QED BY <1>1, CollectCorrect, PTL

(* Only instances that main reaches are collected or wait to be.           *)
THEOREM CollectorTakesNothingElse == Spec => []OnlyWhatMainReaches
<1>1. CollectInv => OnlyWhatMainReaches
  BY DEF CollectInv
<1> QED BY <1>1, CollectCorrect, PTL

-----------------------------------------------------------------------------
(* The two loops of the code generator.                                    *)

(* Declaring the next instance keeps FuncIds in the order of the list and  *)
(* the entry point at main (the first loop of codegen_functions).          *)
LEMMA DeclareStep ==
  ASSUME TypeOK, CollectInv, DeclareInv, Declare
  PROVE  DeclareInv'
<1> DEFINE i == instances[next]
<1> USE DEF TypeOK
<1>1. /\ stage = "declare" /\ stage' = "declare" /\ next \in DOMAIN instances
      /\ instances' = instances /\ next' = next + 1 /\ defined' = {} /\ next <= Len(instances)
      /\ DOMAIN functions = {instances[k] : k \in 1 .. next - 1}
  BY DEF Declare, DeclareInv
<1>2. functions' = [j \in DOMAIN functions \cup {i} |-> IF j = i THEN next ELSE functions[j]]
  BY DEF Declare
<1>3. IdsInOrder'
  BY <1>1, <1>2 DEF DeclareInv, IdsInOrder, CollectInv, OncePerInstance
<1>4. EntrypointIsMain'
  BY <1>1 DEF Declare, DeclareInv, EntrypointIsMain, NoEntry
<1>5. 1 .. next' - 1 = (1 .. next - 1) \cup {next}
  BY <1>1
<1>6. DOMAIN functions' = {instances[k] : k \in 1 .. next' - 1}
  BY <1>1, <1>2, <1>5
<1>7. entrypoint' = NoEntry => \A k \in 1 .. next' - 1 : instances[k].function # MAIN
  BY <1>1, <1>5 DEF Declare, DeclareInv, NoEntry
<1> QED BY <1>1, <1>3, <1>4, <1>6, <1>7 DEF DeclareInv

(* When every instance is declared there is an entry point, since main     *)
(* was the first to be seen.                                               *)
LEMMA EndDeclareStep ==
  ASSUME TypeOK, CollectInv, DeclareInv, EndDeclare
  PROVE  DeclareInv'
<1>1. /\ stage = "declare" /\ next \notin DOMAIN instances /\ next <= Len(instances) + 1
      /\ DOMAIN functions = {instances[k] : k \in 1 .. next - 1} /\ defined = {}
      /\ UNCHANGED <<seen, instances, functions, entrypoint, defined>> /\ next' = 1
      /\ stage' = IF entrypoint = NoEntry THEN "panicked" ELSE "define"
  BY DEF EndDeclare, DeclareInv
<1>2. /\ next = Len(instances) + 1 /\ DOMAIN instances = 1 .. Len(instances)
      /\ Len(instances) \in Nat
  BY <1>1 DEF TypeOK
<1>3. DOMAIN functions = seen
  BY <1>1, <1>2 DEF CollectInv, Elements
<1>4. 1 .. next' - 1 = {}
  BY <1>1
<1> QED BY <1>1, <1>2, <1>3, <1>4 DEF DeclareInv, IdsInOrder, EntrypointIsMain

(* Defining the next instance finds every function it names declared and   *)
(* its own FuncId undefined (the last loop of codegen_functions).          *)
LEMMA DefineStep ==
  ASSUME TypeOK, CollectInv, DeclareInv, Define
  PROVE  DeclareInv'
<1>1. /\ stage = "define" /\ next \in DOMAIN instances
      /\ DOMAIN functions = seen /\ entrypoint # NoEntry
      /\ UNCHANGED <<seen, instances, functions, entrypoint>> /\ next' = next + 1
      /\ defined = 1 .. next - 1
  BY DEF Define, DeclareInv
<1>2. next <= Len(instances) /\ next \in Nat \ {0} /\ Len(instances) \in Nat
  BY <1>1 DEF TypeOK
<1>3. functions[instances[next]] = next
  BY <1>1 DEF CollectInv, Elements, DeclareInv, IdsInOrder
<1>4. stage' \in {"define", "panicked"} /\ (stage' = "define" => defined' = defined \cup {next})
  BY <1>3 DEF Define
<1>5. 1 .. next' - 1 = (1 .. next - 1) \cup {next}
  BY <1>1, <1>2
<1>6. IdsInOrder' /\ EntrypointIsMain'
  BY <1>1 DEF DeclareInv, IdsInOrder, EntrypointIsMain
<1>7. next' <= Len(instances) + 1
  BY <1>1, <1>2
<1>8. stage' = "define" => defined' = 1 .. next' - 1
  BY <1>1, <1>4, <1>5
<1> QED BY <1>1, <1>4, <1>6, <1>7, <1>8 DEF DeclareInv

(* The inductive invariant of codegen_functions.                           *)
THEOREM DeclareCorrect == Spec => []DeclareInv
<1>1. Init => DeclareInv
  BY DEF Init, DeclareInv, IdsInOrder, EntrypointIsMain
<1>2. TypeOK /\ CollectInv /\ DeclareInv /\ [Next]_vars => DeclareInv'
  <2> SUFFICES ASSUME TypeOK, CollectInv, DeclareInv, [Next]_vars
               PROVE  DeclareInv'
    OBVIOUS
  <2>1. CASE Visit
    <3>1. /\ DOMAIN functions = {} /\ entrypoint = NoEntry /\ defined = {} /\ next = 1
          /\ UNCHANGED <<functions, entrypoint, defined, next>>
          /\ stage' \in {"collect", "panicked"}
      BY <2>1 DEF Visit, DeclareInv
    <3> QED BY <3>1 DEF DeclareInv, IdsInOrder, EntrypointIsMain
  <2>2. CASE EndCollect
    <3>1. /\ stage = "collect" /\ stage' = "declare"
          /\ UNCHANGED <<seen, instances, functions, entrypoint, defined, next>>
      BY <2>2 DEF EndCollect
    <3>2. /\ DOMAIN functions = {} /\ entrypoint = NoEntry /\ defined = {}
          /\ 1 .. next - 1 = {} /\ next <= Len(instances) + 1
      BY <3>1 DEF DeclareInv, TypeOK
    <3>3. {instances[k] : k \in 1 .. next - 1} = {}
      BY <3>2
    <3> QED BY <3>1, <3>2, <3>3 DEF DeclareInv, IdsInOrder, EntrypointIsMain
  <2>3. CASE Declare
    BY <2>3, DeclareStep
  <2>4. CASE EndDeclare
    BY <2>4, EndDeclareStep
  <2>5. CASE Define
    BY <2>5, DefineStep
  <2>6. CASE EndDefine
    <3>1. next = Len(instances) + 1 /\ DOMAIN instances = 1 .. Len(instances)
          /\ Len(instances) \in Nat
      BY <2>6 DEF EndDefine, DeclareInv, TypeOK
    <3> QED BY <2>6, <3>1 DEF EndDefine, DeclareInv, IdsInOrder, EntrypointIsMain
  <2>7. CASE UNCHANGED vars
    BY <2>7 DEF vars, DeclareInv, IdsInOrder, EntrypointIsMain
  <2> QED BY <2>1, <2>2, <2>3, <2>4, <2>5, <2>6, <2>7 DEF Next, Step, Stopped
<1> QED BY <1>1, <1>2, TypeCorrect, CollectCorrect, PTL DEF Spec

(* When the compilation finishes, the entry point is main and each declared*)
(* function has been defined (codegen_functions).                          *)
THEOREM AllDefined == Spec => []EverythingDefined
<1>1. CollectInv /\ DeclareInv => EverythingDefined
  <2> SUFFICES ASSUME CollectInv, DeclareInv, stage = "finished"
               PROVE  /\ defined = DOMAIN instances
                      /\ entrypoint \in defined /\ instances[entrypoint] = Main
    BY DEF EverythingDefined
  <2>1. /\ defined = DOMAIN instances /\ entrypoint \in DOMAIN instances
        /\ instances[entrypoint].function = MAIN
    BY DEF DeclareInv, EntrypointIsMain
  <2>2. instances[entrypoint] \in seen
    BY <2>1 DEF CollectInv, Elements
  <2> QED BY <2>1, <2>2 DEF CollectInv
<1> QED BY <1>1, CollectCorrect, DeclareCorrect, PTL

-----------------------------------------------------------------------------
(* No panic, if the constants of every body name functions with a body.    *)

AllHaveBodies ==
  \A p \in Programs : \A f \in DOMAIN p : \A k \in DOMAIN p[f] : p[f][k].function \in DOMAIN p

NoPanicInv ==
  /\ stage # "panicked"
  /\ \A i \in seen \cup Waiting : HasBody(i)

(* Every function is found and none is defined twice, so the compiler does *)
(* not panic (with_body, and the unwraps and define_function of codegen).  *)
THEOREM NoPanic == AllHaveBodies /\ Spec => []CompilesWithoutPanic
<1> SUFFICES ASSUME AllHaveBodies
             PROVE  Spec => []CompilesWithoutPanic
  OBVIOUS
<1>1. Init => NoPanicInv
  BY ProgramsAssumption DEF Init, NoPanicInv, Waiting, Elements, HasBody, Main
<1>2. TypeOK /\ CollectInv /\ DeclareInv /\ NoPanicInv /\ [Next]_vars => NoPanicInv'
  <2> SUFFICES ASSUME TypeOK, CollectInv, DeclareInv, NoPanicInv, [Next]_vars
               PROVE  NoPanicInv'
    OBVIOUS
  <2>1. CASE Visit
    <3> DEFINE x == Head(unvisited)
    <3>1. program' = program /\ stage # "panicked"
      BY <2>1 DEF Visit
    <3>2. CASE x \in seen
      <4>1. stage' = stage /\ (seen \cup Waiting)' = seen \cup Waiting
        BY <2>1, <3>2, VisitAgain DEF Waiting
      <4> QED BY <3>1, <4>1 DEF NoPanicInv, HasBody
    <3>3. CASE x \notin seen
      <4>1. FirstVisit(x)
        BY <2>1, <3>3 DEF FirstVisit
      <4> HIDE DEF x
      <4>2. x \in Waiting /\ HasBody(x)
        BY <4>1, VisitNew DEF NoPanicInv, Waiting
      <4>3. stage' = stage /\ (seen \cup Waiting)' = seen \cup Waiting \cup Elements(Mentioned(x))
        BY <4>1, <4>2, VisitNew DEF Waiting
      <4>4. ASSUME NEW i \in Elements(Mentioned(x))
            PROVE  HasBody(i)
        <5>1. PICK k \in DOMAIN program[x.function] : i = Bind(program[x.function][k], x.args)
          BY DEF Elements, Mentioned
        <5>2. i.function = program[x.function][k].function
          BY <5>1 DEF Bind
        <5> QED BY <4>2, <5>1, <5>2 DEF AllHaveBodies, HasBody, TypeOK
      <4> QED BY <3>1, <4>3, <4>4 DEF NoPanicInv, HasBody
    <3> QED BY <3>2, <3>3
  <2>2. ASSUME UNCHANGED <<program, unvisited, seen>>, stage' # "panicked"
        PROVE  NoPanicInv'
    BY <2>2 DEF NoPanicInv, Waiting, HasBody
  <2>3. CASE EndCollect
    BY <2>2, <2>3 DEF EndCollect
  <2>4. CASE Declare
    BY <2>2, <2>4 DEF Declare, NoPanicInv
  <2>5. CASE EndDeclare
    <3>1. unvisited = <<>> /\ Main \in seen
      BY <2>5, EmptyElements DEF EndDeclare, CollectInv, NothingLost
    <3>2. PICK k \in DOMAIN instances : instances[k] = Main
      BY <3>1 DEF CollectInv, Elements
    <3>3. k \in 1 .. next - 1
      BY <2>5 DEF EndDeclare, DeclareInv, TypeOK
    <3>4. entrypoint # NoEntry
      BY <2>5, <3>2, <3>3 DEF EndDeclare, DeclareInv, Main
    <3>5. stage' # "panicked" /\ UNCHANGED <<program, unvisited, seen>>
      BY <2>5, <3>4 DEF EndDeclare
    <3> QED BY <2>2, <3>5
  <2>6. CASE Define
    <3> DEFINE i == instances[next]
    <3>1. /\ i \in seen /\ unvisited = <<>> /\ DOMAIN functions = seen
          /\ functions[i] = next /\ defined = 1 .. next - 1 /\ next \in Nat
      BY <2>6 DEF Define, DeclareInv, IdsInOrder, CollectInv, Elements, TypeOK
    <3>2. Elements(Mentioned(i)) \subseteq seen
      BY <2>6, <3>1, EmptyElements DEF Define, CollectInv, NothingLost
    <3>3. AllFound(i)
      BY <3>1, <3>2 DEF AllFound, Elements, Mentioned
    <3>4. functions[i] \notin defined
      BY <3>1
    <3>5. stage' # "panicked" /\ UNCHANGED <<program, unvisited, seen>>
      BY <2>6, <3>3, <3>4 DEF Define
    <3> QED BY <2>2, <3>5
  <2>7. CASE EndDefine
    BY <2>2, <2>7 DEF EndDefine
  <2>8. CASE UNCHANGED vars
    BY <2>2, <2>8 DEF vars, NoPanicInv
  <2> QED BY <2>1, <2>3, <2>4, <2>5, <2>6, <2>7, <2>8 DEF Next, Step, Stopped
<1>3. NoPanicInv => CompilesWithoutPanic
  BY DEF NoPanicInv, CompilesWithoutPanic
<1> QED BY <1>1, <1>2, <1>3, TypeCorrect, CollectCorrect, DeclareCorrect, PTL DEF Spec

-----------------------------------------------------------------------------
(* The collector and the two loops implement Compilation.                  *)

(* As long as nothing has panicked, what has been seen has a body.         *)
BodiesInv == stage # "panicked" => \A i \in seen : HasBody(i)

(* with_body has found a body for every visited instance.                  *)
LEMMA SeenHasBody == Spec => []BodiesInv
<1>1. Init => BodiesInv
  BY DEF Init, BodiesInv
<1>2. BodiesInv /\ [Next]_vars => BodiesInv'
  <2> SUFFICES ASSUME BodiesInv, [Next]_vars
               PROVE  BodiesInv'
    OBVIOUS
  <2> USE DEF BodiesInv, HasBody
  <2>1. CASE Visit
    <3>1. CASE Head(unvisited) \in seen
      BY <2>1, <3>1 DEF Visit
    <3>2. CASE Head(unvisited) \notin seen
      BY <2>1, <3>2 DEF Visit
    <3> QED BY <3>1, <3>2
  <2>2. CASE EndCollect \/ Declare \/ EndDeclare \/ Define \/ EndDefine
    BY <2>2 DEF EndCollect, Declare, EndDeclare, Define, EndDefine
  <2>3. CASE UNCHANGED vars
    BY <2>3 DEF vars
  <2> QED BY <2>1, <2>2, <2>3 DEF Next, Step, Stopped
<1> QED BY <1>1, <1>2, PTL DEF Spec

(* The instances a body uses are those the collector puts on its worklist. *)
LEMMA UsesAreMentioned ==
  ASSUME NEW i
  PROVE  UsesIn(program, i) = Elements(Mentioned(i)) /\ (BodyIn(program, i) <=> HasBody(i))
BY DEF UsesIn, Elements, Mentioned, BodyIn, HasBody

(* A turn of the collector's loop finds something needed, stutters or      *)
(* gives up for want of a body.                                            *)
LEMMA VisitImplements ==
  ASSUME TypeOK, CollectInv, DeclareInv, Visit
  PROVE  Promise!Find \/ Promise!GiveUp \/ UNCHANGED Promise!vars
<1> DEFINE x == Head(unvisited)
<1>1. /\ stage = "collect" /\ program' = program /\ defined' = defined /\ defined = {}
      /\ Outcome = "running" /\ Compiled = {} /\ Compiled' = {}
  BY DEF Visit, DeclareInv, Outcome, Compiled
<1>2. CASE x \in seen
  <2>1. Known' = Known /\ stage' = stage
    BY <1>2, VisitAgain DEF Known
  <2> QED BY <1>1, <2>1 DEF Promise!vars, Outcome
<1>3. CASE x \notin seen
  <2>1. FirstVisit(x)
    BY <1>3 DEF FirstVisit
  <2> HIDE DEF x
  <2>2. x \in Known
    BY <2>1, VisitNew DEF Known
  <2>3. CASE HasBody(x)
    <3>1. stage' = stage /\ Known' = Known \cup UsesIn(program, x) /\ BodyIn(program, x)
      BY <2>1, <2>3, VisitNew, UsesAreMentioned DEF Known
    <3>2. Promise!Find
      BY <1>1, <2>2, <3>1 DEF Promise!Find, Outcome
    <3> QED BY <3>2
  <2>4. CASE ~HasBody(x)
    <3>1. stage' = "panicked" /\ Known' = Known /\ ~BodyIn(program, x)
      BY <2>1, <2>4, VisitNew, UsesAreMentioned DEF Known
    <3>2. Promise!GiveUp
      BY <1>1, <2>2, <3>1 DEF Promise!GiveUp, Outcome
    <3> QED BY <3>2
  <2> QED BY <2>3, <2>4
<1> QED BY <1>2, <1>3

(* When the worklist is empty nothing more is needed.                      *)
LEMMA NothingMoreIsNeeded ==
  ASSUME CollectInv, BodiesInv, stage \in {"declare", "define"}
  PROVE  Promise!Closed /\ Known = seen
<1>1. Known = seen /\ stage # "panicked"
  BY EmptyElements DEF CollectInv, Known
<1>2. ASSUME NEW i \in seen
      PROVE  BodyIn(program, i) /\ UsesIn(program, i) \subseteq seen
  BY <1>1, <1>2, UsesAreMentioned DEF BodiesInv, CollectInv, NothingLost, Known
<1> QED BY <1>1, <1>2 DEF Promise!Closed

(* Making `main` never panics, since main is among the declared functions; *)
(* defining a function makes code for it and never panics.                 *)
LEMMA GeneratorImplements ==
  ASSUME TypeOK, CollectInv, DeclareInv, BodiesInv,
         EndDeclare \/ Define \/ EndDefine
  PROVE  Promise!Compile \/ Promise!Finish \/ UNCHANGED Promise!vars
<1>1. stage \in {"declare", "define"} /\ UNCHANGED <<program, unvisited, seen, instances>>
  BY DEF EndDeclare, Define, EndDefine
<1>2. Promise!Closed /\ Known = seen /\ Known' = Known /\ Outcome = "running"
  BY <1>1, NothingMoreIsNeeded DEF Outcome, Known
<1>3. CASE EndDeclare
  <2>1. Main \in seen
    BY <1>1, <1>2 DEF CollectInv, NothingLost, Known
  <2>2. PICK k \in DOMAIN instances : instances[k] = Main
    BY <2>1 DEF CollectInv, Elements
  <2>3. k \in 1 .. next - 1
    BY <1>3, <2>2 DEF EndDeclare, DeclareInv, TypeOK
  <2>4. entrypoint # NoEntry
    BY <1>3, <2>2, <2>3 DEF EndDeclare, DeclareInv, Main
  <2>5. stage' = "define" /\ defined' = defined
    BY <1>3, <2>4 DEF EndDeclare
  <2> QED BY <1>1, <1>2, <2>5 DEF Promise!vars, Outcome, Compiled
<1>4. CASE Define
  <2> DEFINE i == instances[next]
  <2>1. /\ i \in seen /\ DOMAIN functions = seen /\ functions[i] = next
        /\ defined = 1 .. next - 1 /\ next \in Nat /\ next \in DOMAIN instances
    BY <1>4 DEF Define, DeclareInv, IdsInOrder, CollectInv, Elements, TypeOK
  <2>2. AllFound(i)
    <3>1. UsesIn(program, i) \subseteq seen
      BY <1>2, <2>1 DEF Promise!Closed
    <3> QED BY <2>1, <3>1 DEF AllFound, UsesIn
  <2>3. defined' = defined \cup {next} /\ stage' = stage
    BY <1>4, <2>1, <2>2 DEF Define
  <2>4. Compiled' = Compiled \cup {i}
    BY <1>1, <2>1, <2>3 DEF Compiled
  <2>5. i \notin Compiled
    BY <2>1 DEF Compiled, CollectInv, OncePerInstance
  <2> QED BY <1>1, <1>2, <2>1, <2>3, <2>4, <2>5 DEF Promise!Compile, Outcome
<1>5. CASE EndDefine
  <2>1. /\ stage' = "finished" /\ defined' = defined
        /\ defined = 1 .. next - 1 /\ next = Len(instances) + 1
        /\ DOMAIN instances = 1 .. Len(instances) /\ Len(instances) \in Nat
    BY <1>5 DEF EndDefine, DeclareInv, TypeOK
  <2>2. defined = DOMAIN instances
    BY <2>1
  <2>3. Compiled = seen /\ Compiled' = Compiled
    BY <1>1, <2>1, <2>2 DEF Compiled, CollectInv, Elements
  <2> QED BY <1>1, <1>2, <2>1, <2>3 DEF Promise!Finish, Outcome
<1> QED BY <1>3, <1>4, <1>5

(* For every program: what the collector and the code generator do, step   *)
(* by step, is what Compilation allows (src/main.rs, from collect to       *)
(* codegen), so nothing but a missing body stops them half way.            *)
THEOREM ImplementsThePromise == Spec => MeetsThePromise
<1>1. Init => Promise!Init
  <2> SUFFICES ASSUME Init
               PROVE  Promise!Init
    OBVIOUS
  <2>1. Elements(<<Main>>) = {Main}
    BY DEF Elements
  <2> QED BY <2>1 DEF Init, Promise!Init, Known, Compiled, Outcome
<1>2. TypeOK /\ CollectInv /\ DeclareInv /\ BodiesInv /\ [Next]_vars
        => [Promise!Next]_(Promise!vars)
  <2> SUFFICES ASSUME TypeOK, CollectInv, DeclareInv, BodiesInv, [Next]_vars
               PROVE  Promise!Next \/ UNCHANGED Promise!vars
    OBVIOUS
  <2>1. CASE Visit
    BY <2>1, VisitImplements DEF Promise!Next
  <2>2. CASE EndCollect \/ Declare
    <3>1. /\ UNCHANGED <<program, unvisited, seen, instances, defined>>
          /\ stage \in {"collect", "declare"} /\ stage' = "declare"
      BY <2>2 DEF EndCollect, Declare
    <3> QED BY <3>1 DEF Promise!vars, Known, Compiled, Outcome
  <2>3. CASE EndDeclare \/ Define \/ EndDefine
    BY <2>3, GeneratorImplements DEF Promise!Next
  <2>4. CASE UNCHANGED vars
    BY <2>4 DEF vars, Promise!vars, Known, Compiled, Outcome
  <2> QED BY <2>1, <2>2, <2>3, <2>4 DEF Next, Step, Stopped
<1> QED
  BY <1>1, <1>2, TypeCorrect, CollectCorrect, DeclareCorrect, SeenHasBody, PTL
  DEF Spec, MeetsThePromise, Promise!Spec
=============================================================================
