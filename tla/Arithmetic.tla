------------------------------ MODULE Arithmetic -----------------------------
(***************************************************************************)
(* An arithmetic expression at run time: the checks the builder puts       *)
(* around it (ExprKind::Binary in build_rvalue, src/mir/build/expr.rs) and *)
(* the instructions the code generator gives each of them                  *)
(* (codegen_binary_op, src/codegen/mod.rs).  An integer kind is signed or  *)
(* not and has 2^width values; what matters is half of that number.        *)
(***************************************************************************)
EXTENDS Integers

CONSTANT Kinds   \* integer kinds: [signed, half], half being 2^(width - 1)

ASSUME KindsAssumption == Kinds \subseteq [signed : BOOLEAN, half : Nat \ {0, 1}]

VARIABLES
  op,       \* "add", "subtract", "multiply" or "divide"
  kind,     \* the kind of both operands
  left, right,
  pc,       \* "start", then the check that comes next; how it ended
  checked,  \* what the overflow operation returned: [value, overflow]
  result

vars == <<op, kind, left, right, pc, checked, result>>

(* min_value_scalar and max_value_scalar.                                  *)
MinValue(k) == IF k.signed THEN -k.half ELSE 0
MaxValue(k) == IF k.signed THEN k.half - 1 ELSE 2 * k.half - 1
Values(k) == MinValue(k) .. MaxValue(k)

(* The value of kind k with the low bits of n.                             *)
Wrapped(k, n) ==
  LET low == n % (2 * k.half) IN IF low > MaxValue(k) THEN low - 2 * k.half ELSE low

(* Mistake: the carry test of unsigned addition for every operation.       *)
OverflowIfSmaller(k, o, l, r) ==
  LET exact == CASE o = "add" -> l + r [] o = "subtract" -> l - r [] o = "multiply" -> l * r
  IN [value |-> Wrapped(k, exact), overflow |-> Wrapped(k, exact) < l]

(* sadd_overflow and its like: the wrapped result and whether it is not    *)
(* the exact one.                                                          *)
OverflowOp(k, o, l, r) ==
  LET exact == CASE o = "add" -> l + r [] o = "subtract" -> l - r [] o = "multiply" -> l * r
  IN [value |-> Wrapped(k, exact), overflow |-> exact \notin Values(k)]

(* sdiv and udiv: towards zero; a zero divisor and a quotient the kind     *)
(* cannot hold are traps.                                                  *)
Magnitude(n) == IF n < 0 THEN -n ELSE n
Quotient(l, r) ==
  LET q == Magnitude(l) \div Magnitude(r) IN IF (l < 0) # (r < 0) THEN -q ELSE q
Traps(k, l, r) == r = 0 \/ Quotient(l, r) \notin Values(k)

Init ==
  /\ op \in {"add", "subtract", "multiply", "divide"}
  /\ kind \in Kinds
  /\ left \in Values(kind) /\ right \in Values(kind)
  /\ pc = "start"
  /\ checked = [value |-> 0, overflow |-> FALSE]
  /\ result = 0

Operands == <<op, kind, left, right>>

Compute ==
  /\ pc = "start" /\ op # "divide"
  /\ checked' = OverflowOp(kind, op, left, right)
  /\ pc' = "overflow"
  /\ UNCHANGED <<Operands, result>>

AssertNoOverflow ==
  /\ pc = "overflow"
  /\ IF checked.overflow
     THEN pc' = "panicked" /\ result' = result
     ELSE pc' = "done" /\ result' = checked.value
  /\ UNCHANGED <<Operands, checked>>

AssertNotZero ==
  /\ pc = "start" /\ op = "divide"
  /\ pc' = IF right = 0 THEN "panicked" ELSE IF kind.signed THEN "quotient" ELSE "divide"
  /\ UNCHANGED <<Operands, checked, result>>

(* is_right_neg_1 is computed from the left operand.                       *)
DivideOverflows ==
  LET isLeftMin == left = MinValue(kind)
      isRightNeg1 == left = -1
  IN isLeftMin /\ isRightNeg1
AssertQuotientFits ==
  /\ pc = "quotient"
  /\ pc' = IF DivideOverflows THEN "panicked" ELSE "divide"
  /\ UNCHANGED <<Operands, checked, result>>

Divide ==
  /\ pc = "divide"
  /\ IF Traps(kind, left, right)
     THEN pc' = "trapped" /\ result' = result
     ELSE pc' = "done" /\ result' = Quotient(left, right)
  /\ UNCHANGED <<Operands, checked>>

Stopped == pc \in {"done", "panicked", "trapped"} /\ UNCHANGED vars
Next ==
  Compute \/ AssertNoOverflow \/ AssertNotZero \/ AssertQuotientFits \/ Divide \/ Stopped
Spec == Init /\ [][Next]_vars

(***************************************************************************)
(* Properties.                                                             *)
(***************************************************************************)

(* What an operation yields is the exact result of the operation; it only  *)
(* panics when there is none, or none the kind can hold.                   *)
Exact ==
  CASE op = "add"      -> left + right
    [] op = "subtract" -> left - right
    [] op = "multiply" -> left * right
    [] op = "divide"   -> Quotient(left, right)
HasNoResult == (op = "divide" /\ right = 0) \/ Exact \notin Values(kind)
ExactOrPanics ==
  /\ pc = "done" => ~HasNoResult /\ result = Exact
  /\ pc = "panicked" => HasNoResult

(* "Division can fail in 2 ways": both are caught before the division.     *)
DivisionNeverTraps == pc # "trapped"
==============================================================================
