# A verification development for the kli compiler

kli is a small functional language; `src/` is its compiler, in Rust, which
makes an object file with Cranelift and links it with gcc. The compiler is a
sequential program. What makes it hard is not threads but long sequences of
rewrites over shared, mutable structures: passes that each rely on what the
others left, caches that must be thrown away in time, indices that are handed
out while the things they stand for are still being moved, work lists, mutable
type variables and arithmetic at the edge of a width. A mistake in one of these
shows as a wrong program much later, which is why it is hard to test for.

## 1. Inventory

The pipeline of `src/src/main.rs`: files are read and parsed, names are
resolved, functions are type checked, four walks look for further errors, every
function that is not a builtin is built into a body of basic blocks, passes run
over the bodies, the instances main reaches are collected and compiled.

| component | state | operations | hard behaviour | what makes it correct |
|---|---|---|---|---|
| parser (`parsing/`) | tokens, messages, whether it is recovering | one function per construct | recovery after an error; precedence | a mistake spoils no other item; an expression groups by the strength of its operators |
| resolver (`resolve/`, `collect/`) | ids, parents, scopes, variable and generic counters, results per node | declare everything, then open, bind, look up, close | two passes over one tree, shadowing, imports, numbers handed out on the way | a name means the innermost definition; every mistake is told; the tables agree with each other |
| type checker (`typecheck/`) | type variables, messages | unify, simplify, coerce, check | bindings overwritten on a failed unification | what is inferred satisfies every equation accepted |
| pattern check (`patterns/`) | matrix of patterns | specialise, split | constructors no arm names, nested cases, types without values | exhaustive exactly when no value is missed |
| captures (`captures.rs`) | variables seen and used | a walk over a lambda | numbers that are not apart | it captures what it uses from outside |
| other checks (`unsafety.rs`, `literal_check.rs`, `builtin_check.rs`) | messages left for others to tell | a walk | early returns past a report | every refusal is told |
| questions about types (`is_type_recursive`, `is_uninhabited`) | types seen | a walk over definitions | types that contain themselves | the walks end, and answer truly |
| bodies (`mir/mod.rs`, `mir/basic_blocks.rs`) | blocks, locals, predecessor cache | `blocks_mut`, `blocks_mut_dont_dirty`, `predecessors` | a cache that is stale when asked | the cache agrees with the blocks |
| builder (`mir/build/`) | the body so far, the current block | one function per way to build an expression | blocks filled out of order, code after a jump | the body does what the expression says |
| passes (`mir/passes/`) | the body, and what each collects of it | remove-zst, simplify-cfg, inline, remove-unreachable, dead-store-elim, remove-unused-locals | renumbering while moving; running over what another pass left | the meaning of the body is kept |
| collector (`monomorph/collect.rs`) | work list, seen set, list | visit an instance | callees lost; infinitely many instances | exactly what main reaches, once |
| code generator (`codegen/`) | declared and defined functions, one Cranelift function | declare all, make main, define all; one function per statement | use before declaration, checks around instructions | every use is found; no undefined instruction result |
| layout (`layout/`) | none | `calculate_layout` | niches, tags, values kept as scalars | what is put in a part is read from it |
| diagnostics (`diagnostics/`) | messages | add, report | a message after the gate | a reported error stops the compilation |
| runtime (`rt/`), library (`std/`) | C code; kli programs | | | |

Components meet in calls and in shared structures: a pass is handed the body
and the table of all bodies (the inliner reads it, `RefCell` keeps the borrowed
one apart), the collector and the code generator read the table after the
passes, and the code generator looks instances up in the collector's list.

`PROJECT.json` lists, under `hazards`, what is hard to test, at its line.

## 2. Plan

1. *(done)* `Mir`, `MirBody`, one module per pass, `MirPasses`: the heart of the
   compiler is the sequence of rewrites.
2. *(done)* `MirBuild`, `MirStep`, `MirRun`: the programs the passes start from,
   and what they mean, so that "the meaning is kept" can be checked.
3. *(done)* `Instances`, with its proofs; `Arithmetic`.
4. *(done)* `TypeInfer`: unification and coercion, against sets of equations.
5. *(done)* `Layout`, `Places`: a value that is put in a place is read back,
   however it is kept, copied and passed.
6. *(done)* `Patterns`, `MatchTree`: the pattern check against the set of
   values, and the tree that is built once it has passed.
7. *(done)* `Syntax`, `Declare`, `Resolve`, against `Scopes`, and what later
   phases read of it, `AfterResolve`.
8. *(done)* `TypeShape`, `Driver`: types without an end, and the driver as a gate.
9. *(done)* `Grammar`, `Parser`: recovery and precedence; `FrontEnd` composes them with
   the driver.
10. *(done)* `Compilation`, the abstract specification that `Instances` implements,
   and the proof of it.
11. When operands are read: a place that is loaded after the operands to its right
   have been evaluated (`mir/build/expr.rs:71`).
12. Integer conversions and shifts (`builtin_call`, `codegen_binary_op`).
13. *(done)* `DoesTheSame` and `BehavesAs` of `MirStep`: passes replace a body by one with the same
   meaning; proved but for inlining.
14. *(done)* Proofs about the passes, for every body: numbering, calls, types and
   meaning; about arithmetic of every width; about the driver.
15. Proofs: what single operators of the recursive modules promise, once their
   recursion is a parameter as it is in `Driver`.

## 3. Modules

### Text to items

`Grammar` is `parsing/parse.rs`. Nearly every parsing function is a list of steps in
the words of the parser's helpers (`Expect`, `Report` for `let _ = expect(..)`, `List`
for `delimited_coma_sep`, ...); what does not fit is an operator (`Paren`, `NamedExpr`,
`PowerTail`, `BlockBody`, ...), and `Do` is the recursion. Of a token its kind is kept.
`Parser` is `parse_module`: `Item`, `Skip` (recovery), `EndOfFile`; `FrontEnd` runs it
over the files of a program, one after another.

### Names

`Syntax` is the tree as far as names go. `Declare` is the first pass: ids, parents
and items per module. `Resolve` is the second; what its recursion has still to do is
a list of tasks, so that opening a scope (`EnterScope`), binding (`DeclareVar`),
looking up (`ResolveValue`, `ResolveType`), closing, leaving a module and adding a
node are actions of their own, each over the same fields the code has: `env` and
`prevEnvs`, the counters of variables and generics, the current module. `Scopes`
says what every name means with no walk, no stack and no numbers, from where things
stand in the text; it was written from the scoping the code intends and not from
its order. `AfterResolve` has what the later phases work out from the results
(`generics`, `captures`) and the properties.

### The driver, and questions about types

`Driver` is `main` as a gate: parsing, both passes of resolution, the type check,
the four checks of each function in the order of their ids, and what is made after
them; a program is given by what each check would find. A check tells at once
(`told`) or leaves its messages in the context (`diag`), and the driver only ors
flags. Both are sets: in what order messages are printed is left out. What the walks
over type definitions answer is a parameter (`ContainsItself`, `CasesEnd`,
`LayoutEnd`), so that the gate can be reasoned about whatever they answer.
`TypeShape` holds these walks: `IsTypeRecursive`, `IsUninhabited`, `LayoutOf`. A walk
that goes deeper than any finite one of the instance is without an end, and takes
the compiler with it (`outcome` becomes `endless`).

`FrontEnd` composes the driver, the parser and the walks. While the driver is at
parsing, the steps are those of the parser (`ReadFile`), and a file is refused when the
parser has refused it (`EndFile`). What a program says of its files (`broken`) is then
only what the properties compare with: `EveryMistakeIsTold` says that the driver stops
at exactly those, and `QuestionsEnd` and `AnswersAreTrue` that the walks end and answer
truly. In `Driver` itself, which is proved about, the parser's verdict is a fact of
the program (`ParseModule`).

### Bodies and passes

`Mir` is `mir/mod.rs` as data: places, operands, rvalues, statements,
terminators, and what the visitors see of each. Statements keep which locals
they read and write, through what kind of place, and whom they call. Fields
and cases of a place are not told apart: a place is a base taken as it is,
through a pointer, at a constant index or at a computed one. Scalars are
booleans, so that a loop or a branch can go both ways. `PlaceSet`, `OperandSet`,
`RvalueSet`, `StmtSet`, `TermSet` and `BlockSet` are what each is made of, over given
locals, blocks and functions.

`MirBody` is the body a pass runs on. `BlocksMut` and `BlocksMutDontDirty` are
the two ways the code hands out blocks; they differ in whether the cache
survives. `PredecessorsOf` is what `predecessors()` answers.

The passes are modules over these variables, one action per mutation:

- `SimplifyCfg`: `RemoveNoopsFirst`, `VisitGoto`, `VisitSwitch`, `VisitOther`
  for one block of a sweep, `SweepAgain`, `RemoveNoopsLast`.
- `RemoveUnreachable`: `StartWalk`, `Walk`, `EndWalk` (the `preorder` walk),
  `Number`, `RewriteEdges`, `Retain`. Numbering and blocks disagree between the
  last two.
- `RemoveUnusedLocals`: `FindLocals`, `Compact` (one local), `Replace`.
- `StmtPasses`: `RemoveZst`, `DeadStoreElim`, in one step each since a pass over
  statements cannot be seen half way by anyone.
- `Inline`: `StartInline`, `InlineCall` (one call), `StopInlining`; looking up
  the body that is borrowed panics.

`MirPasses` composes them in the order of `passes()`, body after body, with the
overrides of `--with-mir-pass`. It starts from a table of built bodies, of which
`CompilationsAssumption` says three things. They are numbered (`BodyOK`: locals are
0, 1, .. with the parameters first, blocks 0, 1, .., places name locals, edges lead to
blocks and never to the entry, since the builder jumps only to blocks of `new_block`,
and a call has as many arguments as its function has parameters). They are typed
(`BodyTyped`): `Builder::add_finished_body` runs `well_formed` over a body before it
joins the table. And the return place is not indexed by a local, since the builder
only assigns it and reads it whole; the inliner renumbers no projection of it
(`mir/passes/inlining.rs:195`). `WellFormed` says what the builder asserts of a
finished body, so that it can be asked again after every pass. `MirBuild`
lowers typed expressions to bodies as the builder does, block by block.
What bodies mean is said in two modules, as the code generator translates them.
`MirStep` is one activation of a body, one statement or terminator at a time: `Does`
gives the event others see of the step (nothing, a print, a call, a return, an end) and
where it leads, with which memory; `CameBack` goes on after a call. Values are integers
without bounds, memory is the environment of the activation and the cells of the heap,
and what the compiled program may do as it likes (a load through what is no pointer,
a branch on what was never written) is the event `Undefined`. A program puts
activations on a stack, so that a call is answered by the callee. `MirRun` runs that
machine (`RunBody`), and gives `Eval` of the typed functions, written from the language
and not from the builder. Both carry fuel, since programs may loop.

`DoesTheSame` says when a body does the same as another, by a simulation: an activation of
the new one answers each step of the old one with the same event, or waits, but never
for ever; a call may be answered with any value and any heap, the same for both; and
what the old body leaves undefined is free. `BehavesAs` says it of whole
programs. The end of `MirPasses` states it of the passes, half-way through them too.

### Instances

`Instances` is `InstanceCollector::collect` followed by the loops of
`codegen_functions`: `Visit`, `EndCollect`, `Declare`, `EndDeclare`, `Define`,
`EndDefine`. A type is a base or a generic parameter under a number of
applications of a generic type, which is enough for a function to be reached at
several types. A constant in an unreachable block is collected (the collector
visits every block) and not compiled.

`Compilation` is what the two promise together, without a work list, numbers or
loops: what is needed grows from main by what needed instances use, something is
compiled only once nothing more is needed, and the compiler gives up only for want
of a body. `MeetsThePromise` is `Compilation`'s specification with `needed` mapped to
what is listed or waits, `compiled` to the instances that are defined. Declaring is
a stutter, and so is a visit of an instance that has been seen.

### Arithmetic

`Arithmetic` is one binary operation at run time: the assertions the builder
places around it and the instruction of the code generator, for integers of any
width. A kind is its sign and half the number of its values, which is all the code
uses of a width.

### Type inference

`TypeInfer` is `typecheck/infer.rs`: what each variable is bound to
(`type_vars`), and `UnifyTy`, `UnifyVarTy`, `UnifyArgs`, `Occurs`, `Simplify`,
which follow the functions case by case, including what a unification that
fails leaves behind. A type is a constructor applied to types; pointers,
boxes, functions and named types unify as tuples and arrays do. The actions are
the checker's requests: `Expect` (`unify`), `Operands` (`check_binary_op`),
`CoerceTo` (`check_expr_coerces_to`), `Merge` (the arms of a case, the elements
of an array: `merge_ty`, then `Coercion::finish`), `EndFunction`. Any two types
may meet in any order, since which ones do is up to the program; the checker
goes on after a message, and so does the model.

### Layouts and places

`Layout` is `layout/mod.rs` and `codegen/backend_repr.rs`: of a type, its size
and alignment, where its parts lie, how its cases are told apart (`VariantLayout`:
a niche, or a tag), and whether a value is kept as one scalar (`BackendRepr`).
Scalars stand for the types that are laid out alike: `int8` for the small
integers, `int64` for the wide ones and for raw pointers, `box` for pointers that
are never null. Slices, strings, boxes that are looked into and `uninit` are left
out.

`Places` is one function of the code generator while its code runs. A local is a
variable, stack memory or nothing (`LocalKind`, from `PlaceInfo` and the analysis
of locals that are assigned once); `contents` is what is in it and `meaning` the
value the program put there, which no code can see. Memory is the scalars that
were stored and not overwritten: loading at another offset or of another width
gives `Junk`, so that a part that is looked for at the wrong place is noticed
without modelling bytes. `EvalPlace`, `StoreValue`, `StoreTag`, `Discriminant` and
`PassTo` are the functions of the code generator of these names or, for the last,
`explode_args` and `store_params`. The actions are statements: `AssignConstant`,
`AssignRecord`, `AssignCase`, `AssignUse`, `AssignPart` (what a match has found),
`AssignField`, and `AssignCall`, of a function that returns its parameter, with
either kind of local for the parameter and the result. The operands of an aggregate
and of `AssignField` are locals or fields of them, those of the assigned local
included, and each is read when its turn comes (`StoreParts`). Statements come in any
order; locals of one type are assigned more than once only if they are not
variables. A write behind the end of a slot goes on, as it would when run; a
failed `unwrap` or `expect` stops the compiler.

### Patterns

`Patterns` is the check of `patterns/`: `PatternToPat`, `Specialize`, `Seen` and
the rest of `split_constructors`, `MissingRows` (`missing_patterns_inner`). Matrices
are sets of rows, since the order only decides the order of messages. `int` stands
for every type whose values are not listed: integers, characters, strings, pointers.

`MatchTree` follows one case expression: arms are written (`AddArm`), checked
(`CheckPatterns`), built into blocks (`BuildMatch`: `MatchTests`, `BuildTree` and
the loop of `build_match`), and then a value arrives and goes through the blocks
(`Arrive`, `FollowSwitch`, `FollowGoto`, `TakeArm`). Looking into a payload of a
case the value is not gives `Junk`. The check and the tree are made by code that
knows nothing of each other: one works on columns of constructors, the other on
lists of tests, and the tree ends in `unreachable` because of the check.

## 4. Runs

| run | asks | expected |
|---|---|---|
| `front_end` | is every mistake told and does it stop the compilation; do questions about types end, and truly; is a good item found whatever stands before it; does an expression group by strength | pass |
| `grouping` | do the subtractions of `std.arrays.reverse` give an index of its array | violated |
| `resolve` | does a name mean what the text says; is every mistake told; are variables and generics numbered apart; do the two passes agree | pass |
| `mir_passes` | are bodies numbered, caches coherent, types and meaning kept after each pass; does it end; who panics | pass |
| `instances` | does the collector find everything, once, and nothing else; does the code generator find what it looks up; do both implement `Compilation` | pass |
| `constructors` | is there a body for whatever is collected | violated |
| `type_infer` | do accepted equations hold, does unification end, does it forget or refuse anything wrongly | pass |
| `infer_forgets` | does what has been inferred stay unless a message is given | violated |
| `arithmetic` | is the result exact, and a panic only where there is none | pass |
| `division` | is every failing division caught | violated |
| `places` | is what is put in a place read from it, inside its slot, without a panic | pass |
| `match_tree` | does the pattern check name exactly the gaps; does every value then come to an arm that matches | pass |

**Bounds.** *Parser:* seven good items that between them use every production, ten
that are wrong in the middle or only complained about and six that stop too early;
every two after one another, every two wrong ones with a good one behind, so that
recovery is entered from every kind of mistake and left at every kind of token; chains
of up to three operators of nine kinds, and of operands that hold operators. Each is
a file in front of one that can be parsed. *Names:*
two scopes of every kind inside one another and next to each other, with two names
bound and used in them, so that every shadowing of two happens; ten imports, in every
pair, of a module with a module inside that has items of the same names; loops in
functions with and without an `iter` of their own. *Driver:*
two types whose fields are of ten kinds, each other and themselves in a box, tuple,
array or pointer included; generic ones, of which one names itself at a larger type;
three functions with up to two mistakes of any check. From a `DEPTH` of 6 on, up to
the 11 that were tried, the states are the same; the run takes 8. *Bodies:* `MCMirPasses` builds every function of a family: conditions
that are constants, variables, `and` and `or`; bodies that print, assign, return
or panic early; loops in branches and branches in loops; one to three functions
that call each other, in both orders, with inlining of loops and of early
returns; recursion; arrays and pointers. Each is compiled with and without
`--optimise`, and some with single passes switched off, since what a pass does
to bodies another pass would have cleaned up is where passes go wrong. Sources
run for at most 8 turns (`SourceFuel`) and bodies for 50 blocks (`BodyFuel`): a
source turn takes at most a few blocks, and when both run out only the common
part of the output is compared. An array has one element, so that a boolean is
either in bounds or not. *Instances:* four functions, up to two parameters, up
to two mentions each, with self calls and swapped parameters; no polymorphic
recursion, for which neither the code nor the model ends. *Inference:* two type
variables and one of a literal, which is what aliases, cycles and a literal
behind a variable need; twelve types, of which pairs can fail at the second
component after the first has bound. Whether a pair of types has a common
solution is decided by trying ground types of the same depth. *Arithmetic:* kinds
of 8 and of 16 values, signed and unsigned, every pair of operands: the code treats no width
specially. *Places:* twenty-one types, each with padding, a niche, a tag or an empty
part in another position or inside another; two locals of the type and one for
each part of it, assigned once or more often, so that every way to copy between
memory and variables is taken. A tag has one byte up to `ByteCases` cases, which
is 2 in the run instead of 255, for types of three cases to have a wide one. Two
sorts of types are left out, for which the properties do not hold (section 5). *Patterns:* fourteen types with every pattern
over them, nested up to three deep, and up to `MaxArms` = 3 arms: a gap left by an
arm and closed by two others, and a row that is in a branch and out of it. An
integer has the values 0 and 1, which patterns name, and 2 for all others.

**Fairness.** `WF_vars(Step)` in `MirPasses` and `Instances`, whose termination is
checked: the compiler is one thread and goes on whenever it can. `Stopped` is the
end of the process. Nothing else is assumed. The other modules have no liveness
property and state no fairness; that unification and parsing end shows in TLC being
able to evaluate them, and would otherwise be an error of the run.

## 5. Where the code departs from what it says

Four runs end in a violation of something the repository states:

1. *constructors as values* (`monomorph/collect.rs:78`, run `constructors`). A
   constructor with a payload used as a value is a named constant, for which there is
   no body: `with_body` panics with "Expected a body". The theorem `NoPanic` has the
   assumption that is missing.
2. *division* (`mir/build/expr.rs:584`, run `division`). `is_right_neg_1` compares the
   left operand, so the least value divided by -1 is not caught.
3. *what was inferred is taken back* (`typecheck/infer.rs:99`, run `infer_forgets`).
   When the type a variable is bound to does not unify with another, the variable is
   left without a binding. `merge_ty` ignores the failure, and the coercion that
   follows unifies with the free variable and succeeds: the arms `id(true)` and `1` of
   a case pass, with `id` at the type of `1`.
4. *operators of one strength group to the right* (`parsing/parse.rs:730`, run
   `grouping`). The right operand takes operators that are as strong as the one before
   it, so `len - i - 1` is `len - (i - 1)`. `std/arrays.kli:96` reverses an array with it:
   for `i = 0` it underflows, and for `i = 1` it is `len`, which is outside the array.
   `BindsByStrength` takes no side: it says that no operator is under one that is
   stronger, and leaves open how those of one strength are put together.

The instances of the passing runs go around the following, each of which makes a
property fail when it is let in:

5. *dead-store-elim and pointers* (`mir/passes/dead_store.rs:42`). The base of a place
   that is written is visited as written even if it is written *through*: after
   `p = offset(..)`, the statement `*p = v` does not keep `p`, whose assignment is
   removed under `--optimise`. The same happens to an array that is only written to
   by index. In `mir_passes` the programs with arrays run without dead-store-elim;
   with it, `MeaningPreserved` is violated.
6. *types with a single case* (`codegen/backend_repr.rs:46`). A value of such a type is
   kept as its payload alone if that is a scalar, but its layout has a tag in front
   that is stored and read like any other: over the payload, or, if the widths
   differ, in a variable of the wrong type. `places` has no such types; with
   them, `ReadsBack` is violated.
7. *payloads that are more aligned than the biggest* (`layout/mod.rs:387`). Size and
   alignment of a variant are those of its biggest case. In
   `| A({int32, int32}) | B(int64)` that is 12 bytes, and the payload of `B` is stored
   at 8..16. `places` has no such types; with them, `WithinTheSlot` is violated.

And these are written into the properties, as the only cases in which they do not
hold, since nothing in the repository says otherwise:

8. *arms have no scope* (`resolve/mod.rs:707`). A name bound in an arm is still in scope
   in the arms after it and behind the case (`Escaped`). A use of it there is
   accepted and means a variable that was never assigned.
9. *a program's own `builtins`* (`resolve/mod.rs:846`). The call a loop adds is looked up
   where the loop stands, so a variable or module of that name takes it
   (`StepTaken`).
10. *the variable of a loop* (`resolve/mod.rs:766`). It is bound under the name `iter`
   (`Symbol::ITER`), which is no keyword: in the body of a `for` an `iter` of the program
   means the loop's own variable, and one that nothing declares is accepted without a
   word (`LoopVarTaken`).
11. *a failed import under another name* is told once, and the name is then silently
   nothing (`resolve/mod.rs:1223`; `MistakesAreToldExactly`).
12. *types in boxes* (`types/mod.rs:547`). `is_uninhabited` looks into a box and
   `is_type_recursive` does not, so matching on a type that contains itself in a box
   goes on until the stack is used up, unless an earlier part settles the answer
   (`QuestionsEnd`).
13. *types named twice* (`collect/mod.rs:318`). `is_type_recursive` does not forget the
   types it has left, so a record with two fields of one named type is refused as
   recursive; and it takes a raw pointer for the thing itself (`AnswersAreTrue`, which
   says of the other types that the answer is right).
14. *silent refusals* (`main.rs:55`). The builtin and literal checks collect their
   messages and never report; `SafetyCheck` of a later function does, unless it is
   unsafe. If no other function follows, the compiler stops without a word (`Silent`
   in `EveryMistakeIsTold`). The same holds of a transmute in an unsafe function.
15. *the item behind one that stops too early* (`parsing/parse.rs:1067`). Recovery skips
   the token in the way without a look, and if it began an item that one is not
   found (`open` items in `MistakesStayLocal`).
16. *an aggregate of what it overwrites* (`codegen/mod.rs:1783`). The parts are stored one
   by one, so `p := (p.1, p.0)` reads `p.0` when it has been overwritten. The value
   of such an aggregate is left undefined (`ReadTooLate` in `AssignRecord`), and
   `ReadsBack` says that every other one is what was put together.

In the same way: after `b := a` the occurs check finds `a` in `b` and refuses the two,
although they are the same (`typecheck/infer.rs:201`); an array of two values
whose types are not known yet meets this, since `merge_ty` unifies them in one
order and `finish` in the other. `RefusesOnlyContradictions` leaves this case out.
Arms that begin with a test are tried before those that do not
(`mir/build/matches.rs:63`): of `true -> a | _ -> b | false -> c` the value false takes
`c`. `InOrderUnlessSkipped` says what is left of the order. And a tuple with a part
of type never has no values, but the check asks for them (`patterns/ctors.rs:46`
looks at named types only); `OnlyGapsAreTold` leaves such messages out.

## 6. Proofs

`Instances_proofs` holds for every program over any base types:

- `TypeCorrect`. The assumptions are those of `Instances`: programs map names to
  lists of mentions, contain main, and main is mentioned without arguments
  (`validate_main`).
- `CollectCorrect` proves the inductive invariant `CollectInv`: `NothingLost` and
  `OnlyWhatMainReaches` need that the list and the seen set have the same
  elements and that main is first; the interesting step is `VisitNew`, where one
  instance moves from the work list to the seen set while what it mentions
  joins the work list. `CollectorLosesNothing`, `InstancesAreDistinct` and
  `CollectorTakesNothingElse` are its consequences.
- `DeclareCorrect` proves `DeclareInv` for the two loops: FuncIds follow the list,
  what is declared is what the loop has passed, the entry point is main once
  main has been passed. `AllDefined` follows.
- `ImplementsThePromise`: the whole module implements `Compilation`. A visit maps to
  `Find`, a definition to `Compile`, the last step to `Finish` or `GiveUp`, everything
  else to a stutter. The argument needs both inductive invariants: that `Closed`
  holds when the collector is done is `NothingLost` with an empty work list, and that
  a look-up fails only for want of a body needs that all listed instances have been
  declared in order.
- `NoPanic`: if every named function has a body, nothing panics: the look-ups in
  the define loop succeed because the work list lost nothing.

The passes have three modules, over one set of lemmas (`Mir_proofs`) about what the
visitors and the constructors of `Mir` preserve. The only assumption is
`CompilationsAssumption`; any number of functions, blocks, locals and statements is
meant, and any choice of passes.

- `MirBodies_proofs`, `CacheIsCoherent`. `CacheInv` adds that the bodies in the table
  are coherent too, for a body comes out of the table with the cache it was put back
  with. Each pass has a lemma; the two that use `blocks_mut_dont_dirty` need an
  argument, that no edge has changed (`SameEdges`), or that the blocks are dropped
  through `blocks_mut()` before anyone asks.
- `MirBodies_proofs`, `BodiesAreNumbered`, too. `BodyStaysNumbered` speaks of the body in
  work; `BodyInv` adds what the passes know half way. `BodiesInv`: every body in the
  table is numbered, for the inliner splices them in. `WalkInv`: what a visited block
  leads to has been visited or waits, so that at the end of the walk the visited
  blocks are closed under edges. `NumberInv`: a visited block has as its number how
  many visited blocks are before it, which is one to one. `RetainInv`: of the blocks
  whose edges have been rewritten, those that are kept have edges in the new
  numbering, and there are as many as there are numbers. `CompactInv`: numbers of
  locals are given out in order, so that parameters keep theirs, and each local in
  use gets one below the count that is kept. Inlining needs that the blocks and locals
  that are added lie behind those that are there, and that the call that is taken out
  is a statement of the block that is split.
- `MirBodies_proofs`, `InliningPanicsOnRecursion`. `CallInv`: whatever pass has run, what
  a body calls is reached from it in the program as it was built. No pass makes calls;
  inlining brings those of the callee, which are reached through it. So the body the
  inliner cannot borrow is its own only if the function reaches itself.
- `MirTypes_proofs`, `TypesAreKept`. `TypesInv`: every body in the table is typed against
  the table, and the one in work has the signature it has in the table, so that calls
  of it from elsewhere stay right while it changes. While locals are being swapped,
  blocks speak of the old locals and the table of locals is between two orders;
  `Unswapped` is the body as its blocks still see it. In the inliner, a place of the
  callee stands for the place `PlaceInto` makes of it, at the same type: the return
  place becomes the place the call assigned, with its projections behind.
- `MirMeaning_proofs`, `MeaningIsKept`: no step of a pass changes what the body it works
  on does, with `Meant` for the body half-way through a renumbering: between
  `RewriteEdges` and `Retain` the blocks that will be kept, and during `Compact` the
  locals as the blocks still name them. `CompilingKeepsMeaning`: neither do all steps
  together, over all passes and bodies. `PlainCompilingKeepsMeaning` and
  `PlainCompiledProgramsBehave` say that, for every body and for the program the code
  generator gets, of every compilation that runs neither inline nor dead-store-elim,
  as none does that is not asked to optimise or asked for them by name.

  The argument. A relation between places in the two bodies (`Moves`) and one between
  memories make a simulation (`SameByPlaces`): the memories agree on the locals the
  rest of the body may read, at the names they have in the new one (`Agreeing`), and on
  the heap. Renumbered blocks, and blocks that are the same, are the case of one place
  for each (`SameByBlocks`); an old body that is at a statement that has been dropped
  or in a goto that has been skipped moves alone, and the count of `Follows` goes down.
  Dead stores make memories that disagree on what no one reads; zero sized places are
  not stored to and load as 0. The proof rests on the other invariants: that places and
  edges are there (`BodyInv`), that a block which is stolen is entered from nowhere else,
  which simplify-cfg reads from the cache (`CacheCoherent`), and that the new number of a
  local is how many are kept before it (`NumbersInv`). That single steps add up is
  `Transitive`: two counts in one.

  From bodies to programs is `ProgramBehavesAs` in `Mir_proofs`: two stacks are related
  if what runs is, and each caller is again whatever it is answered. It needs that
  activations stay of their types (`StaysIn`), for a caller is ready for values and
  heaps only. `MeaningTells` and `BehaviourTells` say that neither notion holds of
  everything: what begins by printing another number is told apart.

  What `CompilingKeepsMeaning` leaves out is in `Covered`:
  *inlining*, since it answers a call by steps of the same body, which `DoesTheSame`
  does not relate; it is checked in `MeaningPreserved` on the instances of `mir_passes`.
  And *dead-store-elim* in bodies with a local that holds a pointer or an array and is
  written through but not read (`PointersAreRead`), for there it changes the meaning (5.
  above); everywhere else `CompilingKeepsMeaning` covers it.

`Arithmetic_proofs`: `ArithmeticIsExact`, for integers of every width above one bit. The
arithmetic is that of wrapping (`WrappingKeepsValues`) and that a signed quotient
leaves the range only where the least value is divided by -1, which the check that
reads the wrong operand does not see; that case traps, and `ExactOrPanics` says
nothing of it (`division` does).

`Driver_proofs`: `MistakesAreTold`, for every program and whatever the walks over types
answer. The invariant says exactly what has been printed and what waits while the
functions are checked: what each check that has run tells (`Tells`), and what builtin
and literal checks have left (`Leaves`), which is printed by the safety check of a later
function unless that one is unsafe (`Reported`).

The prover does no induction over data, and its library states it with operator
parameters. `LeastNumber` in `Mir_proofs`, that a set of naturals that is not empty
has a least one, follows from `<` being well founded and serves for what is counted: the
`Below...` lemmas say how many members of a set lie below a number, and `InOrderLists`
what the members in order are. The strengthened invariants were checked by TLC on
the instances of the runs before they were proved.

Only model-checked: that the passes end (`PassesTerminate`), since liveness is not in
the prover's reach; `MeaningPreserved`, which compares runs with those of a recursive
evaluator and so says of the builder and of inlining what the theorems on meaning do
not; and the modules on type inference, layouts, patterns and trees, name
resolution, parsing and the walks over types (`FrontEnd`), whose definitions are
recursive operators throughout, as the functions they model are.

## 7. Not modelled

The lexer, the wording and the places of messages, the dump of bodies, Cranelift
itself, the linker, the C runtime and the library written in the language, and for
now what the plan lists as still to come. Which type each kind of expression has
(`typecheck/expr.rs`) is one function per construct over the unification that is
modelled. What the checks of `builtin_check.rs`, `literal_check.rs` and `unsafety.rs`
look for is a fact of the program in `Driver`, not computed. The order in which
an operand that is a place is loaded relative to assignments inside the operands
to its right (`mir/build/expr.rs:71`) is the code's, but no source of the runs
depends on it, because the language does not say what it means.
