--------------------------- MODULE Arithmetic_proofs ---------------------------
(***************************************************************************)
(* Proofs about Arithmetic, for integers of every width above one bit.     *)
(***************************************************************************)
EXTENDS Arithmetic, TLAPS

TypeOK ==
  /\ op \in {"add", "subtract", "multiply", "divide"}
  /\ kind \in Kinds /\ left \in Values(kind) /\ right \in Values(kind)

(* Where an operation stands tells what has been found out.                *)
FoundOut ==
  /\ pc \in {"start", "overflow", "quotient", "divide", "done", "panicked", "trapped"}
  /\ pc = "overflow" => op # "divide" /\ checked = OverflowOp(kind, op, left, right)
  /\ pc \in {"quotient", "divide"} => op = "divide" /\ right # 0
  /\ pc = "quotient" => kind.signed

ArithmeticInv == TypeOK /\ FoundOut /\ ExactOrPanics

-----------------------------------------------------------------------------
(* What the low bits are of a number that is not negative, or is.          *)
LEMMA LowBits ==
  ASSUME NEW m \in Nat \ {0}, NEW n \in Int
  PROVE  /\ 0 <= n /\ n < m => n % m = n
         /\ -m <= n /\ n < 0 => n % m = n + m
OBVIOUS

(* A value of a kind is what wrapping makes of it.                         *)
LEMMA WrappingKeepsValues ==
  ASSUME NEW k \in Kinds, NEW n \in Values(k)
  PROVE  Wrapped(k, n) = n
<1> DEFINE m == 2 * k.half
<1>1. k.half \in Nat \ {0, 1} /\ k.signed \in BOOLEAN
  BY KindsAssumption
<1>2. m \in Nat \ {0} /\ n \in Int /\ MinValue(k) <= n /\ n <= MaxValue(k)
  BY <1>1 DEF Values, MinValue, MaxValue
<1>3. CASE 0 <= n
  <2>1. n < m
    BY <1>1, <1>2, <1>3 DEF MaxValue
  <2>2. n % m = n
    BY <1>2, <1>3, <2>1, LowBits
  <2>3. ~(n > MaxValue(k))
    BY <1>1, <1>2 DEF MaxValue
  <2> HIDE DEF m
  <2> QED BY <2>2, <2>3 DEF Wrapped, m
<1>4. CASE n < 0
  <2>1. k.signed /\ -k.half <= n /\ MaxValue(k) = k.half - 1
    BY <1>1, <1>2, <1>4 DEF MinValue, MaxValue
  <2>2. -m <= n /\ n + m > MaxValue(k) /\ (n + m) - m = n
    BY <1>1, <1>2, <1>4, <2>1
  <2>3. n % m = n + m
    BY <1>2, <1>4, <2>2, LowBits
  <2> QED BY <2>2, <2>3 DEF Wrapped
<1> QED BY <1>2, <1>3, <1>4

(* The operation with an overflow says whether it holds the exact result.  *)
LEMMA OverflowIsExact ==
  ASSUME TypeOK, op # "divide"
  PROVE  LET r == OverflowOp(kind, op, left, right)
         IN IF r.overflow THEN Exact \notin Values(kind)
            ELSE Exact \in Values(kind) /\ r.value = Exact
<1>1. OverflowOp(kind, op, left, right) =
        [value |-> Wrapped(kind, Exact), overflow |-> Exact \notin Values(kind)]
  BY DEF OverflowOp, Exact, TypeOK
<1>2. Exact \in Values(kind) => Wrapped(kind, Exact) = Exact
  BY WrappingKeepsValues DEF TypeOK
<1> DEFINE r == OverflowOp(kind, op, left, right)
<1>3. r.overflow = (Exact \notin Values(kind)) /\ r.value = Wrapped(kind, Exact)
  BY <1>1
<1> HIDE DEF r
<1>4. IF r.overflow THEN Exact \notin Values(kind) ELSE Exact \in Values(kind) /\ r.value = Exact
  BY <1>2, <1>3
<1> QED BY <1>4 DEF r

(* The least value is never -1, so that the second check finds nothing.    *)
LEMMA QuotientCheckFindsNothing ==
  ASSUME TypeOK
  PROVE  ~DivideOverflows
<1>1. kind.half \in Nat \ {0, 1} /\ kind.signed \in BOOLEAN
  BY KindsAssumption DEF TypeOK
<1>2. MinValue(kind) # -1
  BY <1>1 DEF MinValue
<1> QED BY <1>2 DEF DivideOverflows

LEMMA ArithmeticStep == ArithmeticInv /\ [Next]_vars => ArithmeticInv'
<1> SUFFICES ASSUME ArithmeticInv, [Next]_vars
             PROVE  ArithmeticInv'
  OBVIOUS
<1> USE DEF ArithmeticInv
<1>1. UNCHANGED Operands /\ TypeOK'
  BY DEF Next, Compute, AssertNoOverflow, AssertNotZero, AssertQuotientFits, Divide, Stopped,
         vars, Operands, TypeOK
<1>2. Exact' = Exact /\ (HasNoResult' <=> HasNoResult)
  BY <1>1 DEF Operands, Exact, HasNoResult
<1>3. CASE Compute
  BY <1>1, <1>3 DEF Compute, Operands, FoundOut, ExactOrPanics
<1>4. CASE AssertNoOverflow
  <2>1. pc = "overflow" /\ op # "divide" /\ checked = OverflowOp(kind, op, left, right)
    BY <1>4 DEF AssertNoOverflow, FoundOut
  <2>2. IF checked.overflow THEN HasNoResult ELSE ~HasNoResult /\ checked.value = Exact
    BY <2>1, OverflowIsExact DEF HasNoResult
  <2> QED BY <1>1, <1>2, <1>4, <2>2 DEF AssertNoOverflow, FoundOut, ExactOrPanics
<1>5. CASE AssertNotZero
  <2>1. right = 0 => HasNoResult
    BY <1>5 DEF AssertNotZero, HasNoResult
  <2> QED BY <1>1, <1>2, <1>5, <2>1 DEF AssertNotZero, Operands, FoundOut, ExactOrPanics
<1>6. CASE AssertQuotientFits
  <2>1. pc' = "divide"
    BY <1>6, QuotientCheckFindsNothing DEF AssertQuotientFits
  <2> QED BY <1>1, <1>6, <2>1 DEF AssertQuotientFits, Operands, FoundOut, ExactOrPanics
<1>7. CASE Divide
  <2>1. pc = "divide" /\ op = "divide" /\ right # 0
    BY <1>7 DEF Divide, FoundOut
  <2>2. ~Traps(kind, left, right) => ~HasNoResult /\ Quotient(left, right) = Exact
    BY <2>1 DEF Traps, HasNoResult, Exact
  <2> QED BY <1>1, <1>2, <1>7, <2>2 DEF Divide, FoundOut, ExactOrPanics
<1>8. CASE UNCHANGED vars
  BY <1>1, <1>2, <1>8 DEF vars, FoundOut, ExactOrPanics
<1> QED BY <1>3, <1>4, <1>5, <1>6, <1>7, <1>8 DEF Next, Stopped

(* What the generated code makes of an addition, a subtraction, a          *)
(* multiplication or a division (build_rvalue in src/mir/build/expr.rs,    *)
(* codegen_binary_op in src/codegen/mod.rs), for every width above one bit *)
(* and all operands: the exact result if it ends, and a panic only if      *)
(* there is none that the kind can hold.  What is left is the trap of a    *)
(* division, which the second check does not prevent.                      *)
THEOREM ArithmeticIsExact == Spec => []ExactOrPanics
<1>1. Init => ArithmeticInv
  BY DEF Init, ArithmeticInv, TypeOK, FoundOut, ExactOrPanics
<1>2. ArithmeticInv => ExactOrPanics
  BY DEF ArithmeticInv
<1> QED BY <1>1, <1>2, ArithmeticStep, PTL DEF Spec
=============================================================================
