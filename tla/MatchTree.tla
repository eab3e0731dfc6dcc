----------------------------- MODULE MatchTree -----------------------------
(***************************************************************************)
(* A case expression from its arms to the one that is taken: the arms are  *)
(* written, the pattern check looks at them, the builder makes a tree of   *)
(* blocks of them (src/mir/build/matches.rs), and a value goes through it. *)
(***************************************************************************)
EXTENDS Patterns

CONSTANTS
  Types,              \* what is matched
  PatternsOf(_),      \* the patterns of a type
  ValuesOf(_),        \* the values of a type: [n, parts], n a case or a scalar
  MaxArms

VARIABLES
  ty,        \* the type of the matched expression
  arms,      \* the patterns, in the order of the arms
  stage,     \* "written", "refused", "checked", "built", "running", "taken"
  missing,   \* the messages of the pattern check
  blocks,    \* the blocks of the tree
  value,     \* the value that is matched
  at         \* the block it has got to

vars == <<ty, arms, stage, missing, blocks, value, at>>

(* match_tests: what has to hold for a pattern to match, in the order it   *)
(* is tested.  A place is the path to it: of fields, and of payloads.      *)
Test(place, case) == [place |-> place, case |-> case]
InField(i) == <<"field", i>>
InCase(c) == <<"case", c>>
AfterPayload(test, payload) == Append(payload, test)   \* mistake: the payload is tested first
BeforePayload(test, payload) == <<test>> \o payload
RECURSIVE MatchTests(_, _)
MatchTests(place, p) ==
  CASE p.kind \in {"bool", "int"} -> <<Test(place, p.n)>>
    [] p.kind = "case" ->
         BeforePayload(Test(place, p.n), FlattenSeq([f \in DOMAIN p.fields |->
           MatchTests(Append(place, InCase(p.n)), p.fields[f].pattern)]))
    [] p.kind = "record" ->
         FlattenSeq([f \in DOMAIN p.fields |->
           MatchTests(Append(place, InField(p.fields[f].index)), p.fields[f].pattern)])
    [] p.kind = "binding" -> <<>>

(* The builder: the blocks so far, the current one, and where arms end.    *)
Open == [kind |-> "open"]
Unreachable == [kind |-> "unreachable"]
Goto(b) == [kind |-> "goto", to |-> b]
Switch(place, targets, otherwise) ==
  [kind |-> "switch", place |-> place, targets |-> targets, otherwise |-> otherwise]
ArmBody(i) == [kind |-> "arm", arm |-> i]

NewBuilder == [blocks |-> <<Open>>, current |-> 1, ends |-> <<>>]
SwitchToNewBlock(b) ==
  [b EXCEPT !.blocks = Append(@, Open), !.current = Len(b.blocks) + 1]
SwitchToBlock(b, block) == [b EXCEPT !.current = block]
FinishBlock(b, terminator) == [b EXCEPT !.blocks[b.current] = terminator]
EndHere(b, arm) == [b EXCEPT !.ends = Append(@, [arm |-> arm, block |-> b.current])]

(* group_tests: the rows that test a place first, without that test, and   *)
(* the others.                                                             *)
Row(arm, tests) == [arm |-> arm, tests |-> tests]
TestsFirst(row, place) == row.tests # <<>> /\ row.tests[1].place = place
OthersWithTests(rows, place) ==   \* mistake: rows that are left without tests are lost
  SelectSeq(rows, LAMBDA row : row.tests # <<>> /\ ~TestsFirst(row, place))
Others(rows, place) == SelectSeq(rows, LAMBDA row : ~TestsFirst(row, place))
LastFirst(rows, place, case) ==   \* mistake: the order of the arms is lost
  LET same == SelectSeq(Reverse(rows), LAMBDA row : TestsFirst(row, place) /\ row.tests[1].case = case)
  IN [r \in DOMAIN same |-> Row(same[r].arm, Tail(same[r].tests))]
BranchRows(rows, place, case) ==
  LET same == SelectSeq(rows, LAMBDA row : TestsFirst(row, place) /\ row.tests[1].case = case)
  IN [r \in DOMAIN same |-> Row(same[r].arm, Tail(same[r].tests))]
CasesOf(rows, place) == {rows[r].tests[1].case : r \in {r \in DOMAIN rows : TestsFirst(rows[r], place)}}

(* build_tree: the branches one after the other, each going on to the rest *)
(* of the rows when none of its own matches.                               *)
RECURSIVE BuildTree(_, _)
BuildTree(b, rows) ==
  IF rows = <<>> THEN b
  ELSE IF rows[1].tests = <<>> THEN EndHere(b, rows[1].arm)
  ELSE
    LET place == rows[1].tests[1].place
        cases == SetToSeq(CasesOf(rows, place))
        started == SwitchToNewBlock(b)
        otherwise == started.current
        branch(s, case) ==
          LET entered == SwitchToNewBlock(s.b)
              built == BuildTree(entered, BranchRows(rows, place, case))
          IN [b |-> FinishBlock(built, Goto(otherwise)),
              starts |-> Append(s.starts, entered.current)]
        branches == FoldLeft(branch, [b |-> started, starts |-> <<>>], cases)
        target(case) == branches.starts[CHOOSE i \in DOMAIN cases : cases[i] = case]
        switched == FinishBlock(SwitchToBlock(branches.b, b.current),
                      Switch(place, [case \in Range(cases) |-> target(case)], otherwise))
    IN BuildTree(SwitchToBlock(switched, otherwise), Others(rows, place))

(* build_match: what the tree ends in cannot be reached; then the bodies   *)
(* of the arms are built into the blocks that were left for them.          *)
BuildMatchTree(patterns) ==
  LET rows == [i \in DOMAIN patterns |-> Row(i, MatchTests(<<>>, patterns[i]))]
      tree == BuildTree(NewBuilder, rows)
      finished == FinishBlock(tree, Unreachable)
      body(b, end) == FinishBlock(SwitchToBlock(b, end.block), ArmBody(end.arm))
  IN FoldLeft(body, finished, finished.ends).blocks

(***************************************************************************)
(* The steps.                                                              *)
(***************************************************************************)
NoValue == [n |-> -1, parts |-> <<>>]
Init ==
  /\ ty \in Types
  /\ arms = <<>> /\ stage = "written"
  /\ missing = {} /\ blocks = <<>> /\ value = NoValue /\ at = 0

AddArm ==
  /\ stage = "written" /\ Len(arms) < MaxArms
  /\ \E p \in PatternsOf(ty) : arms' = Append(arms, p)
  /\ UNCHANGED <<ty, stage, missing, blocks, value, at>>
CheckPatterns ==
  /\ stage = "written"
  /\ missing' = MissingPatterns(ty, arms)
  /\ stage' = IF missing' = {} THEN "checked" ELSE "refused"
  /\ UNCHANGED <<ty, arms, blocks, value, at>>
BuildMatch ==
  /\ stage = "checked"
  /\ blocks' = BuildMatchTree(arms)
  /\ stage' = "built"
  /\ UNCHANGED <<ty, arms, missing, value, at>>

Arrive ==
  /\ stage = "built"
  /\ \E v \in ValuesOf(ty) : value' = v
  /\ at' = 1 /\ stage' = "running"
  /\ UNCHANGED <<ty, arms, missing, blocks>>
(* What is at a place, or Junk in the payload of a case the value is not.  *)
Junk == [n |-> -2, parts |-> <<>>]
Inside(v, step) ==
  IF v = Junk \/ (step[1] = "case" /\ v.n # step[2]) THEN Junk
  ELSE v.parts[IF step[1] = "field" THEN step[2] ELSE 1]
At(v, place) == FoldLeft(Inside, v, place)
FollowGoto ==
  /\ stage = "running" /\ blocks[at].kind = "goto"
  /\ at' = blocks[at].to
  /\ UNCHANGED <<ty, arms, stage, missing, blocks, value>>
FollowSwitch ==
  /\ stage = "running" /\ blocks[at].kind = "switch"
  /\ LET n == At(value, blocks[at].place).n
     IN at' = IF n \in DOMAIN blocks[at].targets THEN blocks[at].targets[n] ELSE blocks[at].otherwise
  /\ UNCHANGED <<ty, arms, stage, missing, blocks, value>>
TakeArm ==
  /\ stage = "running" /\ blocks[at].kind = "arm"
  /\ stage' = "taken"
  /\ UNCHANGED <<ty, arms, missing, blocks, value, at>>

Done ==
  /\ \/ stage \in {"refused", "taken"}
     \/ stage = "built" /\ ValuesOf(ty) = {}
  /\ UNCHANGED vars
Step == AddArm \/ CheckPatterns \/ BuildMatch \/ Arrive \/ FollowGoto \/ FollowSwitch \/ TakeArm
Next == Step \/ Done
Spec == Init /\ [][Next]_vars

(***************************************************************************)
(* Properties.                                                             *)
(***************************************************************************)
(* What a pattern matches, as the language means it.                       *)
RECURSIVE Matches(_, _)
Matches(p, v) ==
  CASE p.kind = "binding" -> TRUE
    [] p.kind \in {"bool", "int"} -> v.n = p.n
    [] p.kind = "case" -> v.n = p.n /\ \A f \in DOMAIN p.fields : Matches(p.fields[f].pattern, v.parts[1])
    [] p.kind = "record" -> \A f \in DOMAIN p.fields :
                              Matches(p.fields[f].pattern, v.parts[p.fields[f].index])
(* And what a message says: _ stands for values beyond those listed.       *)
RECURSIVE IsTold(_, _)
IsTold(pat, v) ==
  CASE pat.ctor \in {Wildcard, NonExhaustive} -> TRUE
    [] pat.ctor.k = "bool" -> v.n = pat.ctor.n
    [] pat.ctor.k = "case" -> v.n = pat.ctor.n /\ \A f \in DOMAIN pat.fields : IsTold(pat.fields[f].pattern, v.parts[1])
    [] pat.ctor = RecordCtor -> \A f \in DOMAIN pat.fields :
                                  IsTold(pat.fields[f].pattern, v.parts[pat.fields[f].index])
Unmatched == {v \in ValuesOf(ty) : \A i \in DOMAIN arms : ~Matches(arms[i], v)}
Checked == stage # "written"

(* The pattern check misses no value: if one is matched by no arm, a       *)
(* message names it.                                                       *)
EveryGapIsTold == Checked => \A v \in Unmatched : \E p \in missing : IsTold(p, v)
(* And it refuses nothing that is complete: each message names a value     *)
(* that no arm matches, unless it names no value at all, which only a      *)
(* tuple with a part of type never has.                                    *)
OnlyGapsAreTold ==
  Checked => \A p \in missing :
    LET told == {v \in ValuesOf(ty) : IsTold(p, v)}
    IN told # {} => told \cap Unmatched # {}

(* After the check has passed, every value comes to an arm that matches    *)
(* it: never to the unreachable end of the tree or to an unfilled block.   *)
AlwaysAnArm ==
  /\ stage = "running" => blocks[at].kind \notin {"unreachable", "open"}
  /\ stage = "taken" => Matches(arms[blocks[at].arm], value)

(* A payload is only looked at after the case has been tested, also when a *)
(* branch is left again and other rows are tried.                          *)
NoJunkIsTested ==
  stage = "running" /\ blocks[at].kind = "switch" => At(value, blocks[at].place) # Junk

(* Of two arms that match, the later one is only taken if it tests         *)
(* something where the earlier does not: arms that test the same places in *)
(* the same order are tried as they are written.                           *)
Tested(i) == LET tests == MatchTests(<<>>, arms[i]) IN [t \in DOMAIN tests |-> tests[t].place]
InOrderUnlessSkipped ==
  stage = "taken" =>
    \A j \in 1..blocks[at].arm - 1 :
      Matches(arms[j], value) => ~IsPrefix(Tested(blocks[at].arm), Tested(j))

=============================================================================
