------------------------------ MODULE Mir_proofs ------------------------------
(***************************************************************************)
(* Lemmas about the operators of Mir, for every body: what a list keeps    *)
(* its order by, and what bodies are made of when their places have been   *)
(* replaced or their statements dropped; when two bodies do the same, and  *)
(* what that says of programs made of them.                                *)
(***************************************************************************)
EXTENDS MirStep, FiniteSetTheorems, SequenceTheorems, WellFoundedInduction, TLAPS

(* Numbers.  A set of them has a least one, which stands in for induction. *)
LEMMA LeastNumber ==
  ASSUME NEW T, T \subseteq Nat, T # {}
  PROVE  \E n \in T : \A m \in T : n <= m
<1> DEFINE R == OpToRel(<, Nat)
<1>1. \A x, y \in Nat : <<y, x>> \in R <=> y < x
  BY DEF OpToRel
<1>2. IsWellFoundedOn(R, Nat)
  BY NatLessThanWellFounded
<1> HIDE DEF R
<1>3. \E x \in T : \A y \in T : ~ (<<y, x>> \in R)
  BY <1>2, WFMin
<1>4. PICK x \in T : \A y \in T : ~ (<<y, x>> \in R)
  BY <1>3
<1>5. x \in Nat /\ \A y \in T : y \in Nat /\ ~(y < x)
  BY <1>1, <1>4
<1> QED BY <1>5

(* The members of a finite set of numbers that are below one of them.      *)
Below(S, e) == {d \in S : d < e}

LEMMA BelowIsFinite ==
  ASSUME NEW S, IsFiniteSet(S), NEW e
  PROVE  /\ IsFiniteSet(Below(S, e)) /\ Cardinality(Below(S, e)) \in Nat
         /\ Cardinality(Below(S, e)) <= Cardinality(S)
<1>1. Below(S, e) \in SUBSET S
  BY DEF Below
<1> QED BY <1>1, FS_Subset, FS_CardinalityType

(* One number further, one member more is below, if it is one.             *)
LEMMA BelowNext ==
  ASSUME NEW S, S \subseteq Int, IsFiniteSet(S), NEW e \in Int
  PROVE  Cardinality(Below(S, e + 1)) =
           IF e \in S THEN Cardinality(Below(S, e)) + 1 ELSE Cardinality(Below(S, e))
<1>1. IsFiniteSet(Below(S, e))
  BY BelowIsFinite
<1>2. \A d \in S : d < e + 1 <=> d < e \/ d = e
  OBVIOUS
<1>3. CASE e \in S
  <2>1. Below(S, e + 1) = Below(S, e) \cup {e}
    BY <1>2, <1>3 DEF Below
  <2>2. e \notin Below(S, e)
    BY DEF Below
  <2> QED BY <1>1, <1>3, <2>1, <2>2, FS_AddElement
<1>4. CASE e \notin S
  <2>1. Below(S, e + 1) = Below(S, e)
    BY <1>2, <1>4 DEF Below
  <2> QED BY <1>4, <2>1
<1> QED BY <1>3, <1>4

LEMMA BelowEnds ==
  ASSUME NEW n \in Nat, NEW S, S \subseteq 0 .. n - 1
  PROVE  /\ IsFiniteSet(S) /\ S \subseteq Int /\ Cardinality(S) \in Nat
         /\ Cardinality(Below(S, 0)) = 0
         /\ Cardinality(Below(S, n)) = Cardinality(S)
<1>1. IsFiniteSet(0 .. n - 1)
  BY FS_Interval
<1>2. IsFiniteSet(S)
  BY <1>1, FS_Subset
<1>3. \A d \in S : d \in Int /\ ~(d < 0) /\ d < n
  OBVIOUS
<1>4. Below(S, 0) = {} /\ Below(S, n) = S
  BY <1>3 DEF Below
<1> QED BY <1>2, <1>3, <1>4, FS_EmptySet, FS_CardinalityType

(* Members are told apart by how many are below them.                      *)
LEMMA BelowIncreases ==
  ASSUME NEW S, S \subseteq Int, IsFiniteSet(S), NEW d \in S, NEW e \in Int, d < e
  PROVE  Cardinality(Below(S, d)) < Cardinality(Below(S, e))
<1>1. d \in Int /\ \A c \in S : c < d + 1 => c < e
  OBVIOUS
<1>2. Below(S, d + 1) \subseteq Below(S, e)
  BY <1>1 DEF Below
<1>3. Cardinality(Below(S, d + 1)) <= Cardinality(Below(S, e))
  BY <1>2, BelowIsFinite, FS_Subset
<1>4. Cardinality(Below(S, d + 1)) = Cardinality(Below(S, d)) + 1
  BY <1>1, BelowNext
<1>5. Cardinality(Below(S, d)) \in Nat /\ Cardinality(Below(S, e)) \in Nat
  BY BelowIsFinite
<1> QED BY <1>3, <1>4, <1>5

(* There is a member with any smaller number of members below it.          *)
LEMMA BelowReaches ==
  ASSUME NEW n \in Nat, NEW S, S \subseteq 0 .. n - 1, NEW k \in Nat, k < Cardinality(S)
  PROVE  \E e \in S : Cardinality(Below(S, e)) = k
<1> DEFINE T == {m \in Nat : Cardinality(Below(S, m)) > k}
<1>1. /\ IsFiniteSet(S) /\ S \subseteq Int /\ Cardinality(S) \in Nat
      /\ Cardinality(Below(S, 0)) = 0 /\ Cardinality(Below(S, n)) = Cardinality(S)
  BY BelowEnds
<1>2. n \in T
  BY <1>1
<1>3. PICK t \in T : \A m \in T : t <= m
  BY <1>2, LeastNumber
<1>4. t \in Nat /\ t # 0 /\ Cardinality(Below(S, t)) > k
  BY <1>1, <1>3
<1> DEFINE e == t - 1
<1>5. e \in Nat /\ e \in Int /\ e + 1 = t /\ ~(Cardinality(Below(S, e)) > k)
  BY <1>3, <1>4
<1> HIDE DEF e
<1>6. Cardinality(Below(S, e)) \in Nat
  BY <1>1, BelowIsFinite
<1>7. Cardinality(Below(S, e + 1)) =
        IF e \in S THEN Cardinality(Below(S, e)) + 1 ELSE Cardinality(Below(S, e))
  BY <1>1, <1>5, BelowNext
<1>8. e \in S /\ Cardinality(Below(S, e)) = k
  BY <1>4, <1>5, <1>6, <1>7
<1> QED BY <1>8

(* InOrder lists the members, each at the place given by those below it.   *)
LEMMA InOrderLists ==
  ASSUME NEW n \in Nat, NEW S, S \subseteq 0 .. n - 1
  PROVE  /\ Cardinality(S) \in Nat
         /\ DOMAIN InOrder(S) = 0 .. Cardinality(S) - 1
         /\ \A k \in DOMAIN InOrder(S) :
              InOrder(S)[k] \in S /\ Cardinality(Below(S, InOrder(S)[k])) = k
<1>1. Cardinality(S) \in Nat
  BY BelowEnds
<1>2. ASSUME NEW k \in 0 .. Cardinality(S) - 1
      PROVE  InOrder(S)[k] \in S /\ Cardinality(Below(S, InOrder(S)[k])) = k
  <2>1. k \in Nat /\ k < Cardinality(S)
    BY <1>1
  <2>2. \E e \in S : Cardinality(Below(S, e)) = k
    BY <2>1, BelowReaches
  <2>3. InOrder(S)[k] = CHOOSE e \in S : Cardinality(Below(S, e)) = k
    BY DEF InOrder, Below
  <2> QED BY <2>2, <2>3
<1> QED BY <1>1, <1>2 DEF InOrder

-----------------------------------------------------------------------------
(* Lists: a function over the indices of a list, or over the numbers up to *)
(* n, is a list of what its values are.                                    *)
LEMMA ListOver ==
  ASSUME NEW S, NEW T, NEW s \in Seq(S), NEW t,
         t = [i \in DOMAIN s |-> t[i]], \A i \in DOMAIN s : t[i] \in T
  PROVE  t \in Seq(T) /\ Len(t) = Len(s) /\ DOMAIN t = DOMAIN s
OBVIOUS

LEMMA ListUpTo ==
  ASSUME NEW n \in Nat, NEW T, NEW t,
         t = [i \in 1 .. n |-> t[i]], \A i \in 1 .. n : t[i] \in T
  PROVE  t \in Seq(T) /\ Len(t) = n
OBVIOUS

LEMMA SameIndices ==
  ASSUME NEW S, NEW T, NEW s \in Seq(S), NEW t \in Seq(T), DOMAIN t = DOMAIN s
  PROVE  Len(t) = Len(s)
OBVIOUS

LEMMA ListOfMembers ==
  ASSUME NEW S, NEW T, NEW s \in Seq(S), \A i \in DOMAIN s : s[i] \in T
  PROVE  s \in Seq(T)
OBVIOUS

(* A queue: what waits in it, whatever its head and its tail are.          *)
LEMMA HeadAndTail ==
  ASSUME NEW S, NEW q \in Seq(S), q # <<>>
  PROVE  /\ Head(q) \in S /\ Tail(q) \in Seq(S)
         /\ \A i \in DOMAIN q : q[i] = Head(q) \/ \E j \in DOMAIN Tail(q) : q[i] = Tail(q)[j]
<1>1. /\ Head(q) \in S /\ Tail(q) \in Seq(S) /\ Len(Tail(q)) = Len(q) - 1
      /\ \A j \in 1 .. Len(Tail(q)) : Tail(q)[j] = q[j + 1]
  BY HeadTailProperties
<1>2. ASSUME NEW i \in DOMAIN q, i # 1
      PROVE  \E j \in DOMAIN Tail(q) : q[i] = Tail(q)[j]
  <2>1. i - 1 \in 1 .. Len(Tail(q)) /\ (i - 1) + 1 = i
    BY <1>1, <1>2
  <2>2. q[i] = Tail(q)[i - 1] /\ i - 1 \in DOMAIN Tail(q)
    BY <1>1, <2>1
  <2> QED BY <2>2
<1> QED BY <1>1, <1>2

LEMMA JoinedMembers ==
  ASSUME NEW S, NEW q \in Seq(S), NEW r \in Seq(S)
  PROVE  /\ q \o r \in Seq(S)
         /\ \A i \in DOMAIN q : \E j \in DOMAIN (q \o r) : q[i] = (q \o r)[j]
         /\ \A i \in DOMAIN r : \E j \in DOMAIN (q \o r) : r[i] = (q \o r)[j]
<1>1. /\ q \o r \in Seq(S) /\ Len(q \o r) = Len(q) + Len(r)
      /\ \A i \in 1 .. Len(q) + Len(r) :
           (q \o r)[i] = IF i <= Len(q) THEN q[i] ELSE r[i - Len(q)]
  BY ConcatProperties
<1>2. Len(q) \in Nat /\ Len(r) \in Nat /\ DOMAIN (q \o r) = 1 .. Len(q) + Len(r)
  BY <1>1
<1>3. ASSUME NEW i \in DOMAIN q
      PROVE  i \in DOMAIN (q \o r) /\ q[i] = (q \o r)[i]
  BY <1>1, <1>2
<1>4. ASSUME NEW i \in DOMAIN r
      PROVE  Len(q) + i \in DOMAIN (q \o r) /\ r[i] = (q \o r)[Len(q) + i]
  <2>1. i \in 1 .. Len(r)
    OBVIOUS
  <2>2. /\ Len(q) + i \in 1 .. Len(q) + Len(r) /\ ~(Len(q) + i <= Len(q))
        /\ (Len(q) + i) - Len(q) = i
    BY <1>2, <2>1
  <2> QED BY <1>1, <1>2, <2>2
<1> QED BY <1>1, <1>3, <1>4

(* A joined list is made of the members of both.                           *)
LEMMA JoinedFrom ==
  ASSUME NEW S, NEW q \in Seq(S), NEW r \in Seq(S)
  PROVE  \A i \in DOMAIN (q \o r) :
           \/ \E j \in DOMAIN q : (q \o r)[i] = q[j]
           \/ \E j \in DOMAIN r : (q \o r)[i] = r[j]
<1> SUFFICES ASSUME NEW i \in DOMAIN (q \o r)
             PROVE  \/ \E j \in DOMAIN q : (q \o r)[i] = q[j]
                    \/ \E j \in DOMAIN r : (q \o r)[i] = r[j]
  OBVIOUS
<1>1. /\ Len(q \o r) = Len(q) + Len(r) /\ q \o r \in Seq(S)
      /\ \A k \in 1 .. Len(q) + Len(r) :
           (q \o r)[k] = IF k <= Len(q) THEN q[k] ELSE r[k - Len(q)]
  BY ConcatProperties
<1>2. Len(q) \in Nat /\ Len(r) \in Nat /\ i \in 1 .. Len(q) + Len(r)
  BY <1>1
<1>3. CASE i <= Len(q)
  <2>1. i \in DOMAIN q /\ (q \o r)[i] = q[i]
    BY <1>1, <1>2, <1>3
  <2> QED BY <2>1
<1>4. CASE ~(i <= Len(q))
  <2>1. i - Len(q) \in 1 .. Len(r) /\ (q \o r)[i] = r[i - Len(q)]
    BY <1>1, <1>2, <1>4
  <2>2. 1 .. Len(r) = DOMAIN r
    OBVIOUS
  <2> QED BY <2>1, <2>2
<1> QED BY <1>3, <1>4

(* What is before and after a member of a list.                            *)
LEMMA ListSplit ==
  ASSUME NEW S, NEW s \in Seq(S), NEW i \in DOMAIN s
  PROVE  SubSeq(s, 1, i - 1) \in Seq(S) /\ SubSeq(s, i + 1, Len(s)) \in Seq(S)
<1>1. \A j \in 1 .. i - 1 : s[j] \in S
  OBVIOUS
<1>2. \A j \in i + 1 .. Len(s) : s[j] \in S
  OBVIOUS
<1>3. i \in Int /\ Len(s) \in Int /\ i - 1 \in Int /\ i + 1 \in Int
  OBVIOUS
<1> QED BY <1>1, <1>2, <1>3, SubSeqProperties

(* Bodies, part by part: what each is made of over other locals, if its    *)
(* places are places over those.                                           *)
LEMMA ConstantsHaveNoPlace ==
  ASSUME NEW L
  PROVE  LocalPlace(ReturnPlace) \in PlaceSet(L)
BY DEF PlaceSet, LocalPlace, Place, ReturnPlace

LEMMA PlaceOver ==
  ASSUME NEW L, NEW M, NEW p \in PlaceSet(L), PlaceLocals(p) \subseteq M
  PROVE  p \in PlaceSet(M)
<1>1. p.base = ReturnPlace \/ p.base \in M
  BY DEF PlaceSet, PlaceLocals, IsLocal
<1>2. p.proj = "index" => p.by \in M
  BY DEF PlaceLocals
<1> QED BY <1>1, <1>2 DEF PlaceSet

LEMMA OperandOver ==
  ASSUME NEW L, NEW M, NEW op \in OperandSet(L), OperandPlaces(op) \subseteq PlaceSet(M)
  PROVE  op \in OperandSet(M)
BY ConstantsHaveNoPlace DEF OperandSet, OperandPlaces

LEMMA StmtOver ==
  ASSUME NEW L, NEW M, NEW arity, NEW s \in StmtSet(L, arity), StmtPlaces(s) \subseteq PlaceSet(M)
  PROVE  s \in StmtSet(M, arity)
<1>1. CASE s = Noop
  BY <1>1 DEF StmtSet
<1>2. CASE s \in [kind : {"print"}, op : OperandSet(L)]
  <2>1. OperandPlaces(s.op) \subseteq PlaceSet(M)
    BY <1>2 DEF StmtPlaces
  <2> QED BY <1>2, <2>1, OperandOver DEF StmtSet
<1>3. CASE s \in [kind : {"assign"}, place : PlaceSet(L), rv : RvalueSet(L, arity)]
  <2>1. /\ s.place \in PlaceSet(M)
        /\ \A i \in DOMAIN s.rv.places : s.rv.places[i] \in PlaceSet(M)
        /\ \A i \in DOMAIN s.rv.args : OperandPlaces(s.rv.args[i]) \subseteq PlaceSet(M)
    BY <1>3 DEF StmtPlaces
  <2>2. s.rv \in RvalueSet(L, arity)
    BY <1>3
  <2>3. s.rv.args \in Seq(OperandSet(L)) /\ s.rv.places \in Seq(PlaceSet(L))
    BY <2>2 DEF RvalueSet
  <2>4. \A i \in DOMAIN s.rv.args : s.rv.args[i] \in OperandSet(M)
    BY <2>1, <2>3, OperandOver
  <2>5. s.rv.args \in Seq(OperandSet(M)) /\ s.rv.places \in Seq(PlaceSet(M))
    BY <2>1, <2>3, <2>4, ListOfMembers
  <2>6. s.rv \in RvalueSet(M, arity)
    BY <2>2, <2>5 DEF RvalueSet
  <2> QED BY <1>3, <2>1, <2>6 DEF StmtSet
<1> QED BY <1>1, <1>2, <1>3 DEF StmtSet

LEMMA TermOver ==
  ASSUME NEW L, NEW M, NEW B, NEW C, NEW t \in TermSet(L, B),
         OperandPlaces(t.on) \subseteq PlaceSet(M), \A i \in DOMAIN t.succs : t.succs[i] \in C
  PROVE  t \in TermSet(M, C)
<1>1. t.on \in OperandSet(M)
  BY OperandOver DEF TermSet
<1>2. t.succs \in Seq(C)
  BY ListOfMembers DEF TermSet
<1> QED BY <1>1, <1>2 DEF TermSet

LEMMA PlacesOfStmt ==
  ASSUME NEW L, NEW arity, NEW s \in StmtSet(L, arity)
  PROVE  StmtPlaces(s) \subseteq PlaceSet(L)
<1>1. \A op \in OperandSet(L) : OperandPlaces(op) \subseteq PlaceSet(L)
  BY DEF OperandSet, OperandPlaces
<1>2. CASE s = Noop
  BY <1>2 DEF StmtPlaces, Noop
<1>3. CASE s \in [kind : {"print"}, op : OperandSet(L)]
  BY <1>1, <1>3 DEF StmtPlaces
<1>4. CASE s \in [kind : {"assign"}, place : PlaceSet(L), rv : RvalueSet(L, arity)]
  <2>1. s.rv.args \in Seq(OperandSet(L)) /\ s.rv.places \in Seq(PlaceSet(L))
    BY <1>4 DEF RvalueSet
  <2>2. \A i \in DOMAIN s.rv.args : OperandPlaces(s.rv.args[i]) \subseteq PlaceSet(L)
    BY <1>1, <2>1
  <2> QED BY <1>4, <2>1, <2>2 DEF StmtPlaces
<1> QED BY <1>2, <1>3, <1>4 DEF StmtSet

LEMMA PlacesOfBlock ==
  ASSUME NEW L, NEW B, NEW arity, NEW b \in BlockSet(L, B, arity)
  PROVE  /\ BlockPlaces(b) \subseteq PlaceSet(L)
         /\ BlockLocals(b) \subseteq L
<1>1. \A i \in DOMAIN b.stmts : StmtPlaces(b.stmts[i]) \subseteq PlaceSet(L)
  BY PlacesOfStmt DEF BlockSet
<1>2. OperandPlaces(b.term.on) \subseteq PlaceSet(L)
  BY DEF BlockSet, TermSet, OperandSet, OperandPlaces
<1>3. BlockPlaces(b) \subseteq PlaceSet(L)
  BY <1>1, <1>2 DEF BlockPlaces
<1>4. \A p \in PlaceSet(L) : PlaceLocals(p) \subseteq L
  BY DEF PlaceSet, PlaceLocals, IsLocal
<1> QED BY <1>3, <1>4 DEF BlockLocals

(* A body is made of the locals that any of its places mentions.           *)
LEMMA BlockOver ==
  ASSUME NEW L, NEW M, NEW B, NEW arity, NEW b \in BlockSet(L, B, arity),
         BlockLocals(b) \subseteq M
  PROVE  b \in BlockSet(M, B, arity)
<1>1. b.stmts \in Seq(StmtSet(L, arity)) /\ b.term \in TermSet(L, B)
  BY DEF BlockSet
<1>2. BlockPlaces(b) \subseteq PlaceSet(M)
  <2>1. \A p \in BlockPlaces(b) : p \in PlaceSet(L) /\ PlaceLocals(p) \subseteq M
    BY PlacesOfBlock DEF BlockLocals
  <2> QED BY <2>1, PlaceOver
<1>3. ASSUME NEW i \in DOMAIN b.stmts
      PROVE  b.stmts[i] \in StmtSet(M, arity)
  <2>1. b.stmts[i] \in StmtSet(L, arity)
    BY <1>1
  <2>2. StmtPlaces(b.stmts[i]) \subseteq BlockPlaces(b)
    BY DEF BlockPlaces
  <2> QED BY <1>2, <2>1, <2>2, StmtOver
<1>4. b.stmts \in Seq(StmtSet(M, arity))
  BY <1>1, <1>3, ListOfMembers
<1>5. b.term \in TermSet(M, B)
  <2>1. OperandPlaces(b.term.on) \subseteq PlaceSet(M)
    BY <1>2 DEF BlockPlaces
  <2>2. \A i \in DOMAIN b.term.succs : b.term.succs[i] \in B
    BY <1>1 DEF TermSet
  <2> QED BY <1>1, <2>1, <2>2, TermOver
<1> QED BY <1>4, <1>5 DEF BlockSet

(* More locals and more blocks do no harm.                                 *)
LEMMA BlockWidened ==
  ASSUME NEW L, NEW M, NEW B, NEW C, NEW arity, NEW b \in BlockSet(L, B, arity),
         L \subseteq M, B \subseteq C
  PROVE  b \in BlockSet(M, C, arity)
<1>1. b \in BlockSet(M, B, arity)
  BY PlacesOfBlock, BlockOver
<1>2. b.term \in TermSet(M, B)
  BY <1>1 DEF BlockSet
<1>3. b.term \in TermSet(M, C)
  <2>1. b.term.on \in OperandSet(M) /\ b.term.succs \in Seq(B)
    BY <1>2 DEF TermSet
  <2>2. OperandPlaces(b.term.on) \subseteq PlaceSet(M)
    BY <2>1 DEF OperandSet, OperandPlaces
  <2>3. \A i \in DOMAIN b.term.succs : b.term.succs[i] \in C
    BY <2>1
  <2> QED BY <1>2, <2>2, <2>3, TermOver
<1> QED BY <1>1, <1>3 DEF BlockSet

(* A mutable visit: with the places replaced by places over other locals.  *)
LEMMA MapOperandOver ==
  ASSUME NEW L, NEW M, NEW op \in OperandSet(L), NEW g,
         \A p \in OperandPlaces(op) : g[p] \in PlaceSet(M)
  PROVE  MapOperand(op, g) \in OperandSet(M)
<1>1. CASE op.kind = "load"
  <2>1. g[op.place] \in PlaceSet(M)
    BY <1>1 DEF OperandPlaces
  <2> QED BY <1>1, <2>1 DEF MapOperand, OperandSet
<1>2. CASE op.kind # "load"
  BY <1>2, ConstantsHaveNoPlace DEF MapOperand, OperandSet
<1> QED BY <1>1, <1>2

LEMMA MapOperandsOver ==
  ASSUME NEW L, NEW M, NEW ops \in Seq(OperandSet(L)), NEW g,
         \A i \in DOMAIN ops : \A p \in OperandPlaces(ops[i]) : g[p] \in PlaceSet(M)
  PROVE  [i \in DOMAIN ops |-> MapOperand(ops[i], g)] \in Seq(OperandSet(M))
<1> DEFINE new == [i \in DOMAIN ops |-> MapOperand(ops[i], g)]
<1>1. \A i \in DOMAIN ops : new[i] \in OperandSet(M)
  BY MapOperandOver
<1>2. new = [i \in DOMAIN ops |-> new[i]]
  OBVIOUS
<1> HIDE DEF new
<1>3. new \in Seq(OperandSet(M))
  BY <1>1, <1>2, ListOver
<1> QED BY <1>3 DEF new

LEMMA MapStmtOver ==
  ASSUME NEW L, NEW M, NEW arity, NEW s \in StmtSet(L, arity), NEW g,
         \A p \in StmtPlaces(s) : g[p] \in PlaceSet(M)
  PROVE  MapStmt(s, g) \in StmtSet(M, arity)
<1>1. CASE s = Noop
  BY <1>1 DEF StmtSet, MapStmt, Noop
<1>2. CASE s \in [kind : {"print"}, op : OperandSet(L)]
  <2>1. MapOperand(s.op, g) \in OperandSet(M)
    BY <1>2, MapOperandOver DEF StmtPlaces
  <2> QED BY <1>2, <2>1 DEF MapStmt, PrintStmt, StmtSet
<1>3. CASE s \in [kind : {"assign"}, place : PlaceSet(L), rv : RvalueSet(L, arity)]
  <2> DEFINE args == [i \in DOMAIN s.rv.args |-> MapOperand(s.rv.args[i], g)]
             places == [i \in DOMAIN s.rv.places |-> g[s.rv.places[i]]]
  <2>1. /\ g[s.place] \in PlaceSet(M)
        /\ \A i \in DOMAIN s.rv.places : g[s.rv.places[i]] \in PlaceSet(M)
        /\ \A i \in DOMAIN s.rv.args : \A p \in OperandPlaces(s.rv.args[i]) : g[p] \in PlaceSet(M)
    BY <1>3 DEF StmtPlaces
  <2>2. s.rv \in RvalueSet(L, arity)
    BY <1>3
  <2>3. s.rv.args \in Seq(OperandSet(L)) /\ s.rv.places \in Seq(PlaceSet(L))
    BY <2>2 DEF RvalueSet
  <2>4. args \in Seq(OperandSet(M)) /\ Len(args) = Len(s.rv.args)
    <3>1. s.rv.args \in Seq(OperandSet(L))
      BY <2>3
    <3>2. \A i \in DOMAIN s.rv.args : \A p \in OperandPlaces(s.rv.args[i]) : g[p] \in PlaceSet(M)
      BY <2>1
    <3>3. args \in Seq(OperandSet(M)) /\ DOMAIN args = DOMAIN s.rv.args
      BY <3>1, <3>2, MapOperandsOver
    <3> HIDE DEF args
    <3> QED BY <3>1, <3>3, SameIndices
  <2>5. places \in Seq(PlaceSet(M)) /\ Len(places) = Len(s.rv.places)
    <3>1. places \in Seq(PlaceSet(M)) /\ DOMAIN places = DOMAIN s.rv.places
      BY <2>1, <2>3, ListOver
    <3> HIDE DEF places
    <3> QED BY <2>3, <3>1, SameIndices
  <2> HIDE DEF args, places
  <2>6. Rvalue(s.rv.kind, args, places, s.rv.callee) \in RvalueSet(M, arity)
    BY <2>2, <2>4, <2>5 DEF Rvalue, RvalueSet
  <2>7. MapStmt(s, g) = Assign(g[s.place], Rvalue(s.rv.kind, args, places, s.rv.callee))
    BY <1>3 DEF MapStmt, args, places
  <2> QED BY <2>1, <2>6, <2>7 DEF Assign, StmtSet
<1> QED BY <1>1, <1>2, <1>3 DEF StmtSet

LEMMA MapPlacesOver ==
  ASSUME NEW L, NEW M, NEW B, NEW arity, NEW b \in BlockSet(L, B, arity), NEW g,
         \A p \in BlockPlaces(b) : g[p] \in PlaceSet(M)
  PROVE  MapPlaces(b, g) \in BlockSet(M, B, arity)
<1>1. b.stmts \in Seq(StmtSet(L, arity)) /\ b.term \in TermSet(L, B)
  BY DEF BlockSet
<1> DEFINE stmts == [i \in DOMAIN b.stmts |-> MapStmt(b.stmts[i], g)]
<1>2. stmts \in Seq(StmtSet(M, arity))
  <2>1. ASSUME NEW i \in DOMAIN b.stmts
        PROVE  stmts[i] \in StmtSet(M, arity)
    <3>1. b.stmts[i] \in StmtSet(L, arity)
      BY <1>1
    <3>2. \A p \in StmtPlaces(b.stmts[i]) : g[p] \in PlaceSet(M)
      BY DEF BlockPlaces
    <3> QED BY <3>1, <3>2, MapStmtOver
  <2>2. stmts = [i \in DOMAIN b.stmts |-> stmts[i]]
    OBVIOUS
  <2> HIDE DEF stmts
  <2> QED BY <1>1, <2>1, <2>2, ListOver
<1>3. On(b.term, MapOperand(b.term.on, g)) \in TermSet(M, B)
  <2>1. MapOperand(b.term.on, g) \in OperandSet(M)
    <3>1. b.term.on \in OperandSet(L)
      BY <1>1 DEF TermSet
    <3>2. \A p \in OperandPlaces(b.term.on) : g[p] \in PlaceSet(M)
      BY DEF BlockPlaces
    <3> QED BY <3>1, <3>2, MapOperandOver
  <2> QED BY <1>1, <2>1 DEF On, Terminator, TermSet
<1> QED BY <1>2, <1>3 DEF MapPlaces, Block, BlockSet

(* Replacing each local l by f[l] makes places over the new numbers.       *)
LEMMA RenamePlaceOver ==
  ASSUME NEW L, NEW M, NEW p \in PlaceSet(L), NEW f, M \subseteq Nat,
         \A l \in PlaceLocals(p) : f[l] \in M
  PROVE  RenamePlace(p, f) \in PlaceSet(M)
BY DEF RenamePlace, PlaceSet, PlaceLocals, IsLocal, Place

LEMMA RenameBlockOver ==
  ASSUME NEW L, NEW M, NEW B, NEW arity, NEW b \in BlockSet(L, B, arity), NEW f,
         M \subseteq Nat, \A l \in BlockLocals(b) : f[l] \in M
  PROVE  RenameBlock(b, f) \in BlockSet(M, B, arity)
<1> DEFINE g == [p \in BlockPlaces(b) |-> RenamePlace(p, f)]
<1>1. ASSUME NEW p \in BlockPlaces(b)
      PROVE  g[p] \in PlaceSet(M)
  <2>1. p \in PlaceSet(L) /\ \A l \in PlaceLocals(p) : f[l] \in M
    BY PlacesOfBlock DEF BlockLocals
  <2> QED BY <2>1, RenamePlaceOver
<1> HIDE DEF g
<1>2. MapPlaces(b, g) \in BlockSet(M, B, arity)
  BY <1>1, MapPlacesOver
<1> QED BY <1>2 DEF RenameBlock, g

LEMMA UseOver ==
  ASSUME NEW M, NEW arity, NEW op \in OperandSet(M)
  PROVE  Use(op) \in RvalueSet(M, arity)
<1> DEFINE args == <<op>>
           places == <<>>
           rv == [kind |-> "use", args |-> args, places |-> places, callee |-> NoFunction]
<1>1. args \in Seq(OperandSet(M)) /\ Len(args) = 1
  OBVIOUS
<1>2. places \in Seq(PlaceSet(M)) /\ Len(places) = 0
  OBVIOUS
<1>3. ArgCount("use", NoFunction, arity) = 1
  BY DEF ArgCount, CallKinds
<1> HIDE DEF args, places
<1>4. rv \in [kind : RvalueKinds, args : Seq(OperandSet(M)), places : Seq(PlaceSet(M)),
              callee : DOMAIN arity \cup {NoFunction}]
  BY <1>1, <1>2 DEF RvalueKinds
<1>5. rv.kind = "use" /\ rv.args = args /\ rv.places = places /\ rv.callee = NoFunction
  OBVIOUS
<1> HIDE DEF rv
<1>6. rv \in RvalueSet(M, arity)
  BY <1>1, <1>2, <1>3, <1>4, <1>5 DEF RvalueSet, CallKinds
<1> QED BY <1>6 DEF Use, Rvalue, rv, args, places

(* The edges of a terminator lead to blocks.                               *)
LEMMA SuccessorsAreThere ==
  ASSUME NEW L, NEW B, NEW t \in TermSet(L, B)
  PROVE  /\ t.kind = "goto" => t.succs[1] \in B
         /\ \A i \in DOMAIN t.succs : t.succs[i] \in B
BY DEF TermSet

-----------------------------------------------------------------------------
(* Doing the same is transitive.                                           *)

(* Two counts in one: the second goes down, or it stays and the first does.*)
LEMMA CountsJoined ==
  ASSUME NEW K \in Nat, NEW C \in Nat, NEW k \in 0 .. K, NEW c \in 0 .. C
  PROVE  /\ c * (K + 1) + k \in 0 .. (C + 1) * (K + 1)
         /\ \A j \in 0 .. k - 1 : c * (K + 1) + j \in 0 .. c * (K + 1) + k - 1
         /\ \A d \in 0 .. c - 1, j \in 0 .. K : d * (K + 1) + j \in 0 .. c * (K + 1) + k - 1
<1> DEFINE w == K + 1
<1>1. w \in Nat /\ k < w
  OBVIOUS
<1>2. \A d \in Nat : d * w \in Nat /\ (d + 1) * w = d * w + w
  BY <1>1
<1>3. \A d, e \in Nat : d <= e => d * w <= e * w
  <2> SUFFICES ASSUME NEW d \in Nat, NEW e \in Nat, d <= e
               PROVE  d * w <= e * w
    OBVIOUS
  <2>1. PICK g \in Nat : e = d + g
    <3>1. e - d \in Nat /\ e = d + (e - d)
      OBVIOUS
    <3> QED BY <3>1
  <2>2. e * w = d * w + g * w
    BY <1>1, <2>1
  <2>3. g * w \in Nat /\ d * w \in Nat
    BY <1>2
  <2> QED BY <2>2, <2>3
<1>4. c * w <= C * w /\ (C + 1) * w = C * w + w /\ c * w \in Nat /\ C * w \in Nat
  BY <1>2, <1>3
<1>5. c * w + k \in 0 .. (C + 1) * w
  <2> HIDE DEF w
  <2> QED BY <1>1, <1>4
<1>6. ASSUME NEW d \in 0 .. c - 1, NEW j \in 0 .. K
      PROVE  d * w + j \in 0 .. c * w + k - 1
  <2>1. d \in Nat /\ d + 1 \in Nat /\ d + 1 <= c /\ j < w
    OBVIOUS
  <2>2. d * w + w <= c * w /\ d * w \in Nat /\ c * w \in Nat
    BY <1>2, <1>3, <2>1
  <2> HIDE DEF w
  <2> QED BY <1>1, <2>1, <2>2
<1>7. \A j \in 0 .. k - 1 : c * w + j \in 0 .. c * w + k - 1
  <2> HIDE DEF w
  <2> QED BY <1>4
<1> QED BY <1>5, <1>6, <1>7

(* Related by way of an activation of a body in between.                   *)
Linked(R, S, K, s, u, n) ==
  \E t, k, l : <<s, t, k>> \in R /\ <<t, u, l>> \in S /\ n = l * (K + 1) + k
Through(R, S, K, L) ==
  {w \in {r[1] : r \in R} \X {r[2] : r \in S} \X (0 .. (L + 1) * (K + 1)) :
     Linked(R, S, K, w[1], w[2], w[3])}

LEMMA ThroughHas ==
  ASSUME NEW K \in Nat, NEW L \in Nat, NEW R, NEW S,
         NEW s, NEW t, NEW u, NEW k \in 0 .. K, NEW l \in 0 .. L, <<s, t, k>> \in R, <<t, u, l>> \in S
  PROVE  <<s, u, l * (K + 1) + k>> \in Through(R, S, K, L)
<1>1. l * (K + 1) + k \in 0 .. (L + 1) * (K + 1)
  BY CountsJoined
<1>2. s \in {r[1] : r \in R} /\ u \in {r[2] : r \in S}
  OBVIOUS
<1>3. Linked(R, S, K, s, u, l * (K + 1) + k)
  BY DEF Linked
<1> QED BY <1>1, <1>2, <1>3 DEF Through

LEMMA ThroughOnly ==
  ASSUME NEW K \in Nat, NEW L \in Nat, NEW R, NEW S, NEW s, NEW u, NEW n, <<s, u, n>> \in Through(R, S, K, L)
  PROVE  /\ n \in 0 .. (L + 1) * (K + 1)
         /\ Linked(R, S, K, s, u, n)
BY DEF Through

LEMMA Transitive ==
  ASSUME NEW arity, NEW A, NEW B, NEW C, DoesTheSame(arity, A, B), DoesTheSame(arity, B, C)
  PROVE  DoesTheSame(arity, A, C)
<1>1. PICK K \in Nat : \E R : Simulation(R, K, arity, A, B)
  BY DEF DoesTheSame
<1>2. PICK R : Simulation(R, K, arity, A, B)
  BY <1>1
<1>3. PICK L \in Nat : \E S : Simulation(S, L, arity, B, C)
  BY DEF DoesTheSame
<1>4. PICK S : Simulation(S, L, arity, B, C)
  BY <1>3
<1> DEFINE T == Through(R, S, K, L)
           N == (L + 1) * (K + 1)
<1>6. /\ \A s, t, k : <<s, t, k>> \in R => k \in 0 .. K /\ Follows(R, A, B, s, t, k)
      /\ \A s, t, k : <<s, t, k>> \in S => k \in 0 .. L /\ Follows(S, B, C, s, t, k)
  BY <1>2, <1>4 DEF Simulation
<1>7. ASSUME NEW s, NEW t, NEW u, NEW k, NEW l, <<s, t, k>> \in R, <<t, u, l>> \in S
      PROVE  <<s, u, l * (K + 1) + k>> \in T
  BY <1>6, <1>7, ThroughHas
<1> HIDE DEF T
<1>8. \A s, t, u, k, l : <<s, t, k>> \in R /\ <<t, u, l>> \in S => \E n : <<s, u, n>> \in T
  BY <1>7
<1>9. ASSUME NEW args \in [1 .. arity -> Values], NEW heap \in Heaps
      PROVE  \E n : <<Entered(A, args, heap), Entered(C, args, heap), n>> \in T
  <2>1. /\ \E k : <<Entered(A, args, heap), Entered(B, args, heap), k>> \in R
        /\ \E l : <<Entered(B, args, heap), Entered(C, args, heap), l>> \in S
    BY <1>2, <1>4 DEF Simulation
  <2> QED BY <1>8, <2>1
<1>10. ASSUME NEW s, NEW t, NEW u, NEW k, NEW l, <<s, t, k>> \in R, <<t, u, l>> \in S
       PROVE  Follows(T, A, C, s, u, l * (K + 1) + k)
  <2> DEFINE n == l * (K + 1) + k
             o == Does(A, s)
             b == Does(B, t)
             d == Does(C, u)
  <2>1. k \in 0 .. K /\ l \in 0 .. L /\ Follows(R, A, B, s, t, k) /\ Follows(S, B, C, t, u, l)
    BY <1>6, <1>10
  <2>2. /\ \A j \in 0 .. k - 1 : l * (K + 1) + j \in 0 .. n - 1
        /\ \A i \in 0 .. l - 1, j \in 0 .. K : i * (K + 1) + j \in 0 .. n - 1
    BY <2>1, CountsJoined
  <2> HIDE DEF n, o, b, d
  <2>3. CASE o.event = Undefined
    BY <2>3 DEF Follows, o
  <2>4. CASE o.event = Silent /\ \E j \in 0 .. k - 1 : <<o.to, t, j>> \in R
    <3>1. PICK j \in 0 .. k - 1 : <<o.to, t, j>> \in R
      BY <2>4
    <3>2. <<o.to, u, l * (K + 1) + j>> \in T /\ l * (K + 1) + j \in 0 .. n - 1
      BY <1>7, <1>10, <2>2, <3>1
    <3> QED BY <2>4, <3>2 DEF Follows, o, n
  <2>5. CASE /\ o.event # Undefined
             /\ b.event = o.event
             /\ o.event.kind \in {"silent", "print"} => \E j : <<o.to, b.to, j>> \in R
             /\ o.event.kind = "call" =>
                  \A v \in Values, heap \in Heaps :
                    \/ CameBack(A, s, v, heap).event = Undefined
                    \/ /\ CameBack(B, t, v, heap).event = Silent
                       /\ \E j : <<CameBack(A, s, v, heap).to, CameBack(B, t, v, heap).to, j>> \in R
    <3>1. CASE b.event = Silent /\ \E i \in 0 .. l - 1 : <<b.to, u, i>> \in S
      <4>1. PICK i \in 0 .. l - 1 : <<b.to, u, i>> \in S
        BY <3>1
      <4>2. o.event = Silent /\ o.event.kind = "silent"
        BY <2>5, <3>1 DEF Silent, Event
      <4>3. PICK j : <<o.to, b.to, j>> \in R
        BY <2>5, <4>2
      <4>4. j \in 0 .. K
        BY <1>6, <4>3
      <4>5. <<o.to, u, i * (K + 1) + j>> \in T /\ i * (K + 1) + j \in 0 .. n - 1
        BY <1>7, <2>2, <4>1, <4>3, <4>4
      <4> QED BY <4>2, <4>5 DEF Follows, o, n
    <3>2. CASE /\ d.event = b.event
               /\ b.event.kind \in {"silent", "print"} => \E i : <<b.to, d.to, i>> \in S
               /\ b.event.kind = "call" =>
                    \A v \in Values, heap \in Heaps :
                      \/ CameBack(B, t, v, heap).event = Undefined
                      \/ /\ CameBack(C, u, v, heap).event = Silent
                         /\ \E i : <<CameBack(B, t, v, heap).to, CameBack(C, u, v, heap).to, i>> \in S
      <4>1. d.event = o.event
        BY <2>5, <3>2
      <4>2. o.event.kind \in {"silent", "print"} => \E i : <<o.to, d.to, i>> \in T
        BY <1>8, <2>5, <3>2
      <4>3. ASSUME o.event.kind = "call", NEW v \in Values, NEW heap \in Heaps
            PROVE  \/ CameBack(A, s, v, heap).event = Undefined
                   \/ /\ CameBack(C, u, v, heap).event = Silent
                      /\ \E i : <<CameBack(A, s, v, heap).to, CameBack(C, u, v, heap).to, i>> \in T
        <5>1. Silent # Undefined
          BY DEF Silent, Undefined, Event
        <5>2. \/ CameBack(A, s, v, heap).event = Undefined
              \/ /\ CameBack(B, t, v, heap).event = Silent
                 /\ \E j : <<CameBack(A, s, v, heap).to, CameBack(B, t, v, heap).to, j>> \in R
          BY <2>5, <4>3
        <5>3. \/ CameBack(B, t, v, heap).event = Undefined
              \/ /\ CameBack(C, u, v, heap).event = Silent
                 /\ \E i : <<CameBack(B, t, v, heap).to, CameBack(C, u, v, heap).to, i>> \in S
          BY <2>5, <3>2, <4>3
        <5> QED BY <1>8, <5>1, <5>2, <5>3
      <4> QED BY <4>1, <4>2, <4>3 DEF Follows, o, d
    <3> QED BY <2>1, <2>5, <3>1, <3>2 DEF Follows, b, d
  <2> QED BY <2>1, <2>3, <2>4, <2>5 DEF Follows, o, b, n
<1>11. ASSUME NEW s, NEW u, NEW n, <<s, u, n>> \in T
       PROVE  n \in 0 .. N /\ Follows(T, A, C, s, u, n)
  <2>1. <<s, u, n>> \in Through(R, S, K, L)
    BY <1>11 DEF T
  <2>2. n \in 0 .. N /\ Linked(R, S, K, s, u, n)
    BY <2>1, ThroughOnly
  <2>3. PICK t, k, l : <<s, t, k>> \in R /\ <<t, u, l>> \in S /\ n = l * (K + 1) + k
    BY <2>2 DEF Linked
  <2> QED BY <1>10, <2>2, <2>3
<1>12. Simulation(T, N, arity, A, C)
  BY <1>9, <1>11 DEF Simulation
<1>13. N \in Nat
  OBVIOUS
<1> QED BY <1>12, <1>13 DEF DoesTheSame

-----------------------------------------------------------------------------
(* Bodies that do the same, by where they are and what they hold: P says   *)
(* which place <<block, statement>> of the new body goes with which of the *)
(* old one, and for how many steps it waits there, and M which memories go *)
(* together.                                                               *)

Memories(types) == [env : [DOMAIN types -> Values], heap : Heaps]
Positions == Nat \X Nat \X Nat \X Nat \X Nat

StmtsAlike(M, old, new, x, y, m, w) ==
  LET o == StmtDoes(Types(old), m, x)
      d == StmtDoes(Types(new), w, y)
  IN \/ o.event = Undefined
     \/ /\ d.event = o.event
        /\ o.event.kind # "call" => <<o.mem, d.mem>> \in M
        /\ o.event.kind = "call" =>
             \A v \in Values, heap \in Heaps :
               \/ Returned(Types(old), m, x, v, heap).event = Undefined
               \/ /\ Returned(Types(new), w, y, v, heap).event = Silent
                  /\ <<Returned(Types(old), m, x, v, heap).mem,
                       Returned(Types(new), w, y, v, heap).mem>> \in M
TermsAlike(old, new, x, y, m, w) ==
  LET o == TermDoes(Types(old), m, x)
      d == TermDoes(Types(new), w, y)
  IN o.event = Undefined \/ (d.event = o.event /\ d.exit = o.exit)

(* A terminator that leaves by one successor, whatever is in memory.       *)
AlwaysExits(t, e) ==
  \/ t.kind = "goto" /\ e = 1
  \/ t.kind = "switch" /\ t.on.kind # "load" /\ e = BranchForValue(t, t.on.value)

Moves(P, M, old, new, b, i, c, j, n) ==
  LET x == old.blocks[b]
      y == new.blocks[c]
  IN \/ /\ i \in DOMAIN x.stmts /\ IsNoop(x.stmts[i])
        /\ \E k \in 0 .. n - 1 : <<b, i + 1, c, j, k>> \in P
     \/ /\ i \in DOMAIN x.stmts /\ j \in DOMAIN y.stmts
        /\ \A m, w : <<m, w>> \in M => StmtsAlike(M, old, new, x.stmts[i], y.stmts[j], m, w)
        /\ \E k : <<b, i + 1, c, j + 1, k>> \in P
     \/ /\ i \notin DOMAIN x.stmts /\ j \notin DOMAIN y.stmts
        /\ \A m, w : <<m, w>> \in M => TermsAlike(old, new, x.term, y.term, m, w)
        /\ \A e \in DOMAIN x.term.succs :
             \E k : <<x.term.succs[e], 1, y.term.succs[e], 1, k>> \in P
     \/ /\ i \notin DOMAIN x.stmts
        /\ \E e : /\ AlwaysExits(x.term, e) /\ e \in DOMAIN x.term.succs
                  /\ \E k \in 0 .. n - 1 : <<x.term.succs[e], 1, c, j, k>> \in P

Placed(P, M) ==
  {<<At(p[1], p[2], z[1]), At(p[3], p[4], z[2]), p[5]>> : p \in P, z \in M}

LEMMA PlacedHas ==
  ASSUME NEW P, NEW M, NEW b, NEW i, NEW c, NEW j, NEW n, NEW m, NEW w,
         <<b, i, c, j, n>> \in P, <<m, w>> \in M
  PROVE  <<At(b, i, m), At(c, j, w), n>> \in Placed(P, M)
BY DEF Placed

PlacedAt(P, M, s, t, n) ==
  \E b, i, c, j, m, w : /\ <<b, i, c, j, n>> \in P /\ <<m, w>> \in M
                        /\ s = At(b, i, m) /\ t = At(c, j, w)

LEMMA PlacedOnly ==
  ASSUME NEW A, NEW B, NEW P \in SUBSET Positions, NEW M \in SUBSET (A \X B), NEW s, NEW t, NEW n,
         <<s, t, n>> \in Placed(P, M)
  PROVE  PlacedAt(P, M, s, t, n)
<1>1. PICK p \in P, z \in M :
        <<s, t, n>> = <<At(p[1], p[2], z[1]), At(p[3], p[4], z[2]), p[5]>>
  BY DEF Placed
<1>2. p = <<p[1], p[2], p[3], p[4], p[5]>>
  BY DEF Positions
<1>3. z = <<z[1], z[2]>>
  OBVIOUS
<1>4. s = At(p[1], p[2], z[1]) /\ t = At(p[3], p[4], z[2]) /\ n = p[5]
  BY <1>1
<1>5. <<p[1], p[2], p[3], p[4], n>> \in P /\ <<z[1], z[2]>> \in M
  BY <1>2, <1>3, <1>4
<1> QED BY <1>4, <1>5 DEF PlacedAt

LEMMA BranchIsThere ==
  ASSUME NEW t, NEW v, NEW B, t.succs \in Seq(B), t.values \in Seq(Int),
         Len(t.succs) = Len(t.values) + 1
  PROVE  BranchForValue(t, v) \in DOMAIN t.succs
<1> DEFINE hits == {i \in DOMAIN t.values : t.values[i] = v}
<1>1. hits \subseteq Nat /\ \A i \in hits : i \in 1 .. Len(t.values)
  OBVIOUS
<1>2. BranchForValue(t, v) = IF hits = {} THEN Len(t.succs)
                             ELSE CHOOSE i \in hits : \A j \in hits : i <= j
  BY DEF BranchForValue
<1>3. Len(t.succs) \in DOMAIN t.succs /\ \A i \in 1 .. Len(t.values) : i \in DOMAIN t.succs
  OBVIOUS
<1> HIDE DEF hits
<1>4. CASE hits # {}
  <2>1. \E i \in hits : \A j \in hits : i <= j
    BY <1>1, <1>4, LeastNumber
  <2> QED BY <1>1, <1>2, <1>3, <1>4, <2>1
<1> QED BY <1>2, <1>3, <1>4

(* A terminator goes on at one of its successors, or makes an end.         *)
LEMMA ExitsAreThere ==
  ASSUME NEW L, NEW B, NEW t \in TermSet(L, B), NEW types, NEW m
  PROVE  LET d == TermDoes(types, m, t)
         IN \/ d.exit \in DOMAIN t.succs /\ d.event = Silent /\ d.exit # NoExit
            \/ d.exit = NoExit /\ d.event.kind \notin {"silent", "print", "call"}
<1> DEFINE d == TermDoes(types, m, t)
           on == ValueOf(types, m, t.on)
<1>1. /\ t.kind \in TermKinds /\ t.succs \in Seq(B) /\ t.values \in Seq(Int)
      /\ t.kind \in {"goto", "assert"} => Len(t.succs) = 1
      /\ t.kind = "switch" => Len(t.succs) = Len(t.values) + 1
  BY DEF TermSet
<1>2. \A k \in DOMAIN t.succs : k # NoExit
  BY <1>1 DEF NoExit
<1>3. CASE t.kind = "goto"
  BY <1>1, <1>2, <1>3 DEF TermDoes, Branching
<1>4. CASE t.kind = "switch"
  <2>1. BranchForValue(t, on) \in DOMAIN t.succs
    BY <1>1, <1>4, BranchIsThere
  <2>2. d \in {Branching(Silent, BranchForValue(t, on)), Branching(Undefined, NoExit)}
    BY <1>4 DEF TermDoes
  <2> QED BY <1>2, <2>1, <2>2 DEF Branching, Undefined, Event
<1>5. CASE t.kind = "assert"
  <2>1. d \in {Branching(Silent, 1), Branching(Undefined, NoExit), Branching(Ending("panic"), NoExit)}
    BY <1>5 DEF TermDoes
  <2>2. 1 \in DOMAIN t.succs
    BY <1>1, <1>5
  <2> QED BY <1>2, <2>1, <2>2 DEF Branching, Undefined, Ending, Event
<1>6. CASE t.kind = "return"
  BY <1>6 DEF TermDoes, Branching, Returning, Event
<1>7. CASE t.kind \in {"panic", "unreachable"}
  BY <1>7 DEF TermDoes, Branching, Ending, Event
<1> QED BY <1>1, <1>3, <1>4, <1>5, <1>6, <1>7 DEF TermKinds

LEMMA AlwaysExitsThere ==
  ASSUME NEW t, NEW e, NEW types, NEW m, AlwaysExits(t, e)
  PROVE  \/ TermDoes(types, m, t) = Branching(Silent, e)
         \/ TermDoes(types, m, t).event = Undefined
BY DEF AlwaysExits, TermDoes, ValueOf, CanEval, Branching

(* What a body does at a statement, and at the end of a block.             *)
LEMMA StandsAt ==
  ASSUME NEW body, NEW b, NEW i, NEW m
  PROVE  /\ At(b, i, m).block = b /\ At(b, i, m).next = i /\ At(b, i, m).mem = m
         /\ BlockAt(body, At(b, i, m)) = body.blocks[b]
         /\ AtStmt(body, At(b, i, m)) <=> i \in DOMAIN body.blocks[b].stmts
         /\ StmtAt(body, At(b, i, m)) = body.blocks[b].stmts[i]
<1>1. At(b, i, m).block = b /\ At(b, i, m).next = i /\ At(b, i, m).mem = m
  BY DEF At
<1> QED BY <1>1 DEF BlockAt, AtStmt, StmtAt

LEMMA DoesAtStmt ==
  ASSUME NEW body, NEW b, NEW i, NEW m, i \in DOMAIN body.blocks[b].stmts
  PROVE  LET d == StmtDoes(Types(body), m, body.blocks[b].stmts[i])
         IN Does(body, At(b, i, m)) = [event |-> d.event, to |-> At(b, i + 1, d.mem)]
BY StandsAt DEF Does, Moving

LEMMA ComesBackAt ==
  ASSUME NEW body, NEW b, NEW i, NEW m, NEW v, NEW heap
  PROVE  LET d == Returned(Types(body), m, body.blocks[b].stmts[i], v, heap)
         IN CameBack(body, At(b, i, m), v, heap) = [event |-> d.event, to |-> At(b, i + 1, d.mem)]
BY StandsAt DEF CameBack, Moving

LEMMA DoesAtEnd ==
  ASSUME NEW body, NEW b, NEW i, NEW m, i \notin DOMAIN body.blocks[b].stmts
  PROVE  LET t == body.blocks[b].term
             d == TermDoes(Types(body), m, t)
         IN /\ Does(body, At(b, i, m)).event = d.event
            /\ d.exit # NoExit => Does(body, At(b, i, m)).to = At(t.succs[d.exit], 1, m)
BY StandsAt DEF Does, Moving

LEMMA PlacedFollows ==
  ASSUME NEW P, NEW M, NEW old, NEW new, NEW L, NEW B,
         NEW b, NEW i, NEW c, NEW j, NEW n, NEW m, NEW w,
         <<b, i, c, j, n>> \in P, <<m, w>> \in M,
         Moves(P, M, old, new, b, i, c, j, n), old.blocks[b].term \in TermSet(L, B)
  PROVE  Follows(Placed(P, M), old, new, At(b, i, m), At(c, j, w), n)
<1> DEFINE x == old.blocks[b]
           y == new.blocks[c]
           s == At(b, i, m)
           t == At(c, j, w)
           R == Placed(P, M)
           o == Does(old, s)
           d == Does(new, t)
<1>1. \A a, k, e, l, q, u, v : <<a, k, e, l, q>> \in P /\ <<u, v>> \in M => <<At(a, k, u), At(e, l, v), q>> \in R
  BY PlacedHas
<1> HIDE DEF R
<1>2. CASE /\ i \in DOMAIN x.stmts /\ IsNoop(x.stmts[i])
           /\ \E k \in 0 .. n - 1 : <<b, i + 1, c, j, k>> \in P
  <2>1. StmtDoes(Types(old), m, x.stmts[i]) = [event |-> Silent, mem |-> m]
    BY <1>2 DEF StmtDoes, Doing, IsNoop
  <2>2. o = [event |-> Silent, to |-> At(b, i + 1, m)]
    BY <1>2, <2>1, DoesAtStmt
  <2>3. \E k \in 0 .. n - 1 : <<o.to, t, k>> \in R
    BY <1>1, <1>2, <2>2
  <2> QED BY <2>2, <2>3 DEF Follows, R
<1>3. CASE /\ i \in DOMAIN x.stmts /\ j \in DOMAIN y.stmts
           /\ \A u, v : <<u, v>> \in M => StmtsAlike(M, old, new, x.stmts[i], y.stmts[j], u, v)
           /\ \E k : <<b, i + 1, c, j + 1, k>> \in P
  <2> DEFINE f == StmtDoes(Types(old), m, x.stmts[i])
             g == StmtDoes(Types(new), w, y.stmts[j])
  <2>1. /\ o = [event |-> f.event, to |-> At(b, i + 1, f.mem)]
        /\ d = [event |-> g.event, to |-> At(c, j + 1, g.mem)]
    BY <1>3, DoesAtStmt
  <2>2. StmtsAlike(M, old, new, x.stmts[i], y.stmts[j], m, w)
    BY <1>3
  <2>3. PICK k : <<b, i + 1, c, j + 1, k>> \in P
    BY <1>3
  <2>4. CASE f.event = Undefined
    BY <2>1, <2>4 DEF Follows
  <2>5. CASE f.event # Undefined
    <3>1. /\ g.event = f.event
          /\ f.event.kind # "call" => <<f.mem, g.mem>> \in M
      BY <2>2, <2>5 DEF StmtsAlike
    <3>2. d.event = o.event /\ o.event.kind = f.event.kind
      BY <2>1, <3>1
    <3>3. o.event.kind \in {"silent", "print"} => <<o.to, d.to, k>> \in R
      BY <1>1, <2>1, <2>3, <3>1
    <3>4. ASSUME o.event.kind = "call", NEW v \in Values, NEW heap \in Heaps
          PROVE  \/ CameBack(old, s, v, heap).event = Undefined
                 \/ /\ CameBack(new, t, v, heap).event = Silent
                    /\ <<CameBack(old, s, v, heap).to, CameBack(new, t, v, heap).to, k>> \in R
      <4> DEFINE p == Returned(Types(old), m, x.stmts[i], v, heap)
                 q == Returned(Types(new), w, y.stmts[j], v, heap)
      <4>1. /\ CameBack(old, s, v, heap) = [event |-> p.event, to |-> At(b, i + 1, p.mem)]
            /\ CameBack(new, t, v, heap) = [event |-> q.event, to |-> At(c, j + 1, q.mem)]
        BY ComesBackAt
      <4>2. p.event = Undefined \/ (q.event = Silent /\ <<p.mem, q.mem>> \in M)
        BY <2>2, <2>5, <3>2, <3>4 DEF StmtsAlike
      <4> QED BY <1>1, <2>3, <4>1, <4>2
    <3> HIDE DEF o, d, s, t, f, g
    <3> QED BY <3>2, <3>3, <3>4 DEF Follows, o, d, s, t, R
  <2> QED BY <2>4, <2>5
<1>4. CASE /\ i \notin DOMAIN x.stmts /\ j \notin DOMAIN y.stmts
           /\ \A u, v : <<u, v>> \in M => TermsAlike(old, new, x.term, y.term, u, v)
           /\ \A e \in DOMAIN x.term.succs :
                \E k : <<x.term.succs[e], 1, y.term.succs[e], 1, k>> \in P
  <2> DEFINE f == TermDoes(Types(old), m, x.term)
             g == TermDoes(Types(new), w, y.term)
  <2>1. o.event = f.event /\ d.event = g.event
    BY <1>4, DoesAtEnd
  <2>2. CASE f.event = Undefined
    BY <2>1, <2>2 DEF Follows
  <2>3. CASE f.event # Undefined
    <3>1. g.event = f.event /\ g.exit = f.exit
      BY <1>4, <2>3 DEF TermsAlike
    <3>2. \/ f.exit \in DOMAIN x.term.succs /\ f.event = Silent /\ f.exit # NoExit
          \/ f.exit = NoExit /\ f.event.kind \notin {"silent", "print", "call"}
      BY ExitsAreThere
    <3>3. CASE f.exit \in DOMAIN x.term.succs /\ f.event = Silent /\ f.exit # NoExit
      <4>1. o.to = At(x.term.succs[f.exit], 1, m) /\ d.to = At(y.term.succs[f.exit], 1, w)
        BY <1>4, <3>1, <3>3, DoesAtEnd
      <4>2. PICK k : <<x.term.succs[f.exit], 1, y.term.succs[f.exit], 1, k>> \in P
        BY <1>4, <3>3
      <4>4. <<o.to, d.to, k>> \in R
        <5>1. <<At(x.term.succs[f.exit], 1, m), At(y.term.succs[f.exit], 1, w), k>> \in R
          BY <1>1, <4>2
        <5> QED BY <4>1, <5>1
      <4>3. o.event = Silent /\ d.event = Silent /\ Silent.kind = "silent"
        BY <2>1, <3>1, <3>3 DEF Silent, Event
      <4> HIDE DEF o, d, s, t, f, g
      <4> QED BY <4>3, <4>4 DEF Follows, o, d, s, t, R
    <3>4. CASE f.exit = NoExit /\ f.event.kind \notin {"silent", "print", "call"}
      <4>1. d.event = o.event /\ o.event.kind \notin {"silent", "print", "call"}
        BY <2>1, <3>1, <3>4
      <4> HIDE DEF o, d, s, t, f, g
      <4> QED BY <4>1 DEF Follows, o, d, s, t, R
    <3> QED BY <3>2, <3>3, <3>4
  <2> QED BY <2>2, <2>3
<1>5. CASE /\ i \notin DOMAIN x.stmts
           /\ \E e : /\ AlwaysExits(x.term, e) /\ e \in DOMAIN x.term.succs
                     /\ \E k \in 0 .. n - 1 : <<x.term.succs[e], 1, c, j, k>> \in P
  <2>1. PICK e : /\ AlwaysExits(x.term, e) /\ e \in DOMAIN x.term.succs
                 /\ \E k \in 0 .. n - 1 : <<x.term.succs[e], 1, c, j, k>> \in P
    BY <1>5
  <2> DEFINE f == TermDoes(Types(old), m, x.term)
  <2>2. o.event = f.event
    BY <1>5, DoesAtEnd
  <2>3. CASE f.event = Undefined
    BY <2>2, <2>3 DEF Follows
  <2>4. CASE f = Branching(Silent, e) /\ f.event # Undefined
    <3>1. f.exit = e /\ f.event = Silent
      BY <2>4 DEF Branching
    <3>2. f.exit # NoExit
      BY <3>1, ExitsAreThere DEF Silent, Event
    <3>3. o.to = At(x.term.succs[e], 1, m)
      BY <1>5, <3>1, <3>2, DoesAtEnd
    <3>4. \E k \in 0 .. n - 1 : <<o.to, t, k>> \in R
      BY <1>1, <2>1, <3>3
    <3> HIDE DEF o, d, s, t, f
    <3> QED BY <2>2, <3>1, <3>4 DEF Follows, o, d, s, t, R
  <2> QED BY <2>1, <2>3, <2>4, AlwaysExitsThere
<1> QED BY <1>2, <1>3, <1>4, <1>5 DEF Moves

(* Two bodies do the same if every place the old one may be at goes with a *)
(* place of the new one where it moves alike.                              *)
LEMMA SameByPlaces ==
  ASSUME NEW arity, NEW old, NEW new, NEW L, NEW B, NEW K \in Nat,
         NEW P \in SUBSET Positions, NEW X, NEW Y, NEW M \in SUBSET (X \X Y),
         \A b, i, c, j, n : <<b, i, c, j, n>> \in P =>
           /\ n \in 0 .. K /\ old.blocks[b].term \in TermSet(L, B)
           /\ Moves(P, M, old, new, b, i, c, j, n),
         \E n : <<ENTRY, 1, ENTRY, 1, n>> \in P,
         \A args \in [1 .. arity -> Values], heap \in Heaps :
           <<Entered(old, args, heap).mem, Entered(new, args, heap).mem>> \in M
  PROVE  DoesTheSame(arity, old, new)
<1> DEFINE R == Placed(P, M)
<1>1. ASSUME NEW args \in [1 .. arity -> Values], NEW heap \in Heaps
      PROVE  \E n : <<Entered(old, args, heap), Entered(new, args, heap), n>> \in R
  <2>1. PICK n : <<ENTRY, 1, ENTRY, 1, n>> \in P
    OBVIOUS
  <2>2. /\ Entered(old, args, heap) = At(ENTRY, 1, Entered(old, args, heap).mem)
        /\ Entered(new, args, heap) = At(ENTRY, 1, Entered(new, args, heap).mem)
    BY DEF Entered, At
  <2>3. <<Entered(old, args, heap).mem, Entered(new, args, heap).mem>> \in M
    OBVIOUS
  <2> QED BY <2>1, <2>2, <2>3, PlacedHas
<1>2. ASSUME NEW s, NEW t, NEW n, <<s, t, n>> \in R
      PROVE  n \in 0 .. K /\ Follows(R, old, new, s, t, n)
  <2>1. PICK b, i, c, j, m, w : /\ <<b, i, c, j, n>> \in P /\ <<m, w>> \in M
                                /\ s = At(b, i, m) /\ t = At(c, j, w)
    <3>1. PlacedAt(P, M, s, t, n)
      BY <1>2, PlacedOnly
    <3> QED BY <3>1 DEF PlacedAt
  <2>2. /\ n \in 0 .. K /\ old.blocks[b].term \in TermSet(L, B)
        /\ Moves(P, M, old, new, b, i, c, j, n)
    BY <2>1
  <2>3. Follows(R, old, new, s, t, n)
    BY <2>1, <2>2, PlacedFollows
  <2> QED BY <2>2, <2>3
<1>3. Simulation(R, K, arity, old, new)
  BY <1>1, <1>2 DEF Simulation
<1> QED BY <1>3 DEF DoesTheSame

-----------------------------------------------------------------------------
(* Statements that do the same, whatever bodies they are in: their places  *)
(* and operands hold the same and what they store ends up in related       *)
(* memories.                                                               *)

PlacesAlike(M, old, new, p, q) ==
  \A m, w : <<m, w>> \in M /\ CanReach(m, p) =>
    /\ CanReach(w, q)
    /\ Loaded(Types(new), w, q) = Loaded(Types(old), m, p)
    /\ Loaded(Types(old), m, p) \in Values
OperandsAlike(M, old, new, op, o) ==
  \A m, w : <<m, w>> \in M /\ CanEval(m, op) =>
    /\ CanEval(w, o)
    /\ ValueOf(Types(new), w, o) = ValueOf(Types(old), m, op)
    /\ ValueOf(Types(old), m, op) \in Values
StoresAlike(M, old, new, p, q) ==
  \A m, w, v : <<m, w>> \in M /\ v \in Values /\ CanReach(m, p) =>
    /\ CanReach(w, q)
    /\ <<Stored(Types(old), m, p, v), Stored(Types(new), w, q, v)>> \in M

(* Related memories share a heap, and stay related if it changes.          *)
SharesHeap(M) ==
  \A m, w : <<m, w>> \in M =>
    /\ m.heap \in Heaps /\ w.heap = m.heap
    /\ \A heap \in Heaps : <<[m EXCEPT !.heap = heap], [w EXCEPT !.heap = heap]>> \in M

LEMMA FreshCellsAre ==
  ASSUME NEW heap \in Heaps
  PROVE  heap \o FreshCells \in Heaps /\ NewPointer(heap) \in Values
<1>1. FreshCells \in Seq(Values)
  BY DEF FreshCells, CellsPerObject, Uninit, Values
<1>2. heap \o FreshCells \in Seq(Values)
  BY <1>1 DEF Heaps
<1> QED BY <1>2 DEF Heaps, NewPointer, Values, HeapBase

LEMMA ComputesAlike ==
  ASSUME NEW L, NEW arity, NEW x \in RvalueSet(L, arity), NEW y, NEW M, NEW old, NEW new,
         y.kind = x.kind, DOMAIN y.args = DOMAIN x.args, DOMAIN y.places = DOMAIN x.places,
         \A i \in DOMAIN x.args : OperandsAlike(M, old, new, x.args[i], y.args[i]),
         \A i \in DOMAIN x.places : PlacesAlike(M, old, new, x.places[i], y.places[i]),
         SharesHeap(M), NEW m, NEW w, <<m, w>> \in M, CanCompute(m, x)
  PROVE  /\ CanCompute(w, y)
         /\ \A i \in DOMAIN x.args :
              ValueOf(Types(new), w, y.args[i]) = ValueOf(Types(old), m, x.args[i])
         /\ ~IsCall(x) => /\ Computed(Types(new), w, y) = Computed(Types(old), m, x)
                          /\ Computed(Types(old), m, x) \in Values
                          /\ <<AfterComputing(m, x), AfterComputing(w, y)>> \in M
<1> DEFINE arg(i) == ValueOf(Types(old), m, x.args[i])
<1>1. \A i \in DOMAIN x.args : /\ CanEval(w, y.args[i])
                               /\ ValueOf(Types(new), w, y.args[i]) = arg(i)
                               /\ arg(i) \in Values
  BY DEF CanCompute, OperandsAlike
<1>2. \A i \in DOMAIN x.places : /\ CanReach(w, y.places[i])
                                 /\ Loaded(Types(new), w, y.places[i]) = Loaded(Types(old), m, x.places[i])
                                 /\ Loaded(Types(old), m, x.places[i]) \in Values
  BY DEF CanCompute, PlacesAlike
<1>3. m.heap \in Heaps /\ w.heap = m.heap
  BY DEF SharesHeap
<1>4. CanCompute(w, y)
  BY <1>1, <1>2 DEF CanCompute
<1>5. ASSUME ~IsCall(x)
      PROVE  /\ Computed(Types(new), w, y) = Computed(Types(old), m, x)
             /\ Computed(Types(old), m, x) \in Values
  <2>1. x.kind \in {"use", "aggregate", "alloc", "offset", "inbounds", "arrayptr"}
    BY <1>5 DEF RvalueSet, RvalueKinds, IsCall, CallKinds
  <2>2. /\ x.kind \in {"use", "aggregate", "offset", "inbounds"} => 1 \in DOMAIN x.args
        /\ x.kind \in {"offset", "inbounds"} => 2 \in DOMAIN x.args
        /\ x.kind = "arrayptr" => 1 \in DOMAIN x.places
    BY DEF RvalueSet, ArgCount, CallKinds
  <2> HIDE DEF arg
  <2>3. CASE x.kind \in {"use", "aggregate"}
    <3>1. Computed(Types(old), m, x) = arg(1) /\ Computed(Types(new), w, y) = ValueOf(Types(new), w, y.args[1])
      BY <2>3 DEF Computed, arg
    <3> QED BY <1>1, <2>2, <2>3, <3>1
  <2>4. CASE x.kind = "offset"
    <3>1. /\ Computed(Types(old), m, x) = arg(1) + arg(2)
          /\ Computed(Types(new), w, y) =
               ValueOf(Types(new), w, y.args[1]) + ValueOf(Types(new), w, y.args[2])
      BY <2>4 DEF Computed, arg
    <3> QED BY <1>1, <2>2, <2>4, <3>1 DEF Values
  <2>5. CASE x.kind = "inbounds"
    <3>1. /\ Computed(Types(old), m, x) = IF arg(2) \in 0 .. CellsPerObject - 1 THEN 1 ELSE 0
          /\ Computed(Types(new), w, y) =
               IF ValueOf(Types(new), w, y.args[2]) \in 0 .. CellsPerObject - 1 THEN 1 ELSE 0
      BY <2>5 DEF Computed, arg
    <3> QED BY <1>1, <2>2, <2>5, <3>1 DEF Values
  <2>6. CASE x.kind = "alloc"
    <3>1. Computed(Types(old), m, x) = NewPointer(m.heap) /\ Computed(Types(new), w, y) = NewPointer(w.heap)
      BY <2>6 DEF Computed
    <3> QED BY <1>3, <3>1, FreshCellsAre
  <2>7. CASE x.kind = "arrayptr"
    <3>1. /\ Computed(Types(old), m, x) = Loaded(Types(old), m, x.places[1])
          /\ Computed(Types(new), w, y) = Loaded(Types(new), w, y.places[1])
      BY <2>7 DEF Computed
    <3> QED BY <1>2, <2>2, <2>7, <3>1
  <2> QED BY <2>1, <2>3, <2>4, <2>5, <2>6, <2>7
<1>6. <<AfterComputing(m, x), AfterComputing(w, y)>> \in M
  <2>1. <<[m EXCEPT !.heap = m.heap \o FreshCells], [w EXCEPT !.heap = w.heap \o FreshCells]>> \in M
    BY <1>3, FreshCellsAre DEF SharesHeap
  <2> QED BY <2>1 DEF AfterComputing
<1> QED BY <1>1, <1>4, <1>5, <1>6

LEMMA AssignsAlike ==
  ASSUME NEW L, NEW arity, NEW x \in StmtSet(L, arity), NEW y, NEW M, NEW old, NEW new,
         x.kind = "assign", y.kind = "assign", y.rv.kind = x.rv.kind, y.rv.callee = x.rv.callee,
         DOMAIN y.rv.args = DOMAIN x.rv.args, DOMAIN y.rv.places = DOMAIN x.rv.places,
         \A i \in DOMAIN x.rv.args : OperandsAlike(M, old, new, x.rv.args[i], y.rv.args[i]),
         \A i \in DOMAIN x.rv.places : PlacesAlike(M, old, new, x.rv.places[i], y.rv.places[i]),
         StoresAlike(M, old, new, x.place, y.place), SharesHeap(M),
         NEW m, NEW w, <<m, w>> \in M
  PROVE  StmtsAlike(M, old, new, x, y, m, w)
<1> DEFINE o == StmtDoes(Types(old), m, x)
           d == StmtDoes(Types(new), w, y)
<1>1. x.rv \in RvalueSet(L, arity)
  BY DEF StmtSet, Noop
<1>2. o = Assigning(Types(old), m, x.place, x.rv) /\ d = Assigning(Types(new), w, y.place, y.rv)
  BY DEF StmtDoes
<1>3. CASE ~CanCompute(m, x.rv)
  BY <1>2, <1>3 DEF StmtsAlike, Assigning, Doing
<1>6. ASSUME CanCompute(m, x.rv)
      PROVE  /\ CanCompute(w, y.rv)
             /\ \A i \in DOMAIN x.rv.args :
                  ValueOf(Types(new), w, y.rv.args[i]) = ValueOf(Types(old), m, x.rv.args[i])
             /\ ~IsCall(x.rv) => /\ Computed(Types(new), w, y.rv) = Computed(Types(old), m, x.rv)
                                 /\ Computed(Types(old), m, x.rv) \in Values
                                 /\ <<AfterComputing(m, x.rv), AfterComputing(w, y.rv)>> \in M
  <2> DEFINE a == x.rv
             b == y.rv
  <2>1. /\ a \in RvalueSet(L, arity) /\ b.kind = a.kind
        /\ DOMAIN b.args = DOMAIN a.args /\ DOMAIN b.places = DOMAIN a.places
        /\ \A i \in DOMAIN a.args : OperandsAlike(M, old, new, a.args[i], b.args[i])
        /\ \A i \in DOMAIN a.places : PlacesAlike(M, old, new, a.places[i], b.places[i])
        /\ CanCompute(m, a)
    BY <1>1, <1>6
  <2> HIDE DEF a, b
  <2>2. /\ CanCompute(w, b)
        /\ \A i \in DOMAIN a.args : ValueOf(Types(new), w, b.args[i]) = ValueOf(Types(old), m, a.args[i])
        /\ ~IsCall(a) => /\ Computed(Types(new), w, b) = Computed(Types(old), m, a)
                         /\ Computed(Types(old), m, a) \in Values
                         /\ <<AfterComputing(m, a), AfterComputing(w, b)>> \in M
    BY <2>1, ComputesAlike
  <2> QED BY <2>2 DEF a, b
<1>4. CASE CanCompute(m, x.rv) /\ IsCall(x.rv)
  <2>1. /\ CanCompute(w, y.rv) /\ IsCall(y.rv)
        /\ \A i \in DOMAIN x.rv.args :
             ValueOf(Types(new), w, y.rv.args[i]) = ValueOf(Types(old), m, x.rv.args[i])
    BY <1>4, <1>6 DEF IsCall
  <2>2. m.heap = w.heap
    BY DEF SharesHeap
  <2>3. o.event = d.event /\ o.event.kind = "call"
    BY <1>2, <1>4, <2>1, <2>2 DEF Assigning, Doing, Calling, Event
  <2>4. ASSUME NEW v \in Values, NEW heap \in Heaps
        PROVE  \/ Returned(Types(old), m, x, v, heap).event = Undefined
               \/ /\ Returned(Types(new), w, y, v, heap).event = Silent
                  /\ <<Returned(Types(old), m, x, v, heap).mem,
                       Returned(Types(new), w, y, v, heap).mem>> \in M
    <3> DEFINE n == [m EXCEPT !.heap = heap]
               u == [w EXCEPT !.heap = heap]
    <3>1. <<n, u>> \in M
      BY DEF SharesHeap
    <3> HIDE DEF n, u
    <3>2. CanReach(n, x.place) =>
            /\ CanReach(u, y.place)
            /\ <<Stored(Types(old), n, x.place, v), Stored(Types(new), u, y.place, v)>> \in M
      BY <3>1 DEF StoresAlike
    <3>3. /\ Returned(Types(old), m, x, v, heap) = Storing(Types(old), n, x.place, v)
          /\ Returned(Types(new), w, y, v, heap) = Storing(Types(new), u, y.place, v)
      BY DEF Returned, n, u
    <3> QED BY <3>2, <3>3 DEF Storing, Doing
  <2> HIDE DEF o, d
  <2> QED BY <2>3, <2>4 DEF StmtsAlike, o, d
<1>5. CASE CanCompute(m, x.rv) /\ ~IsCall(x.rv)
  <2> DEFINE n == AfterComputing(m, x.rv)
             u == AfterComputing(w, y.rv)
             v == Computed(Types(old), m, x.rv)
  <2>1. CanCompute(w, y.rv) /\ ~IsCall(y.rv) /\ Computed(Types(new), w, y.rv) = v /\ v \in Values
    BY <1>5, <1>6 DEF IsCall
  <2>2. <<n, u>> \in M
    BY <1>5, <1>6
  <2>3. o = Storing(Types(old), n, x.place, v) /\ d = Storing(Types(new), u, y.place, v)
    BY <1>2, <1>5, <2>1 DEF Assigning
  <2> HIDE DEF n, u, v
  <2>4. CanReach(n, x.place) =>
          /\ CanReach(u, y.place)
          /\ <<Stored(Types(old), n, x.place, v), Stored(Types(new), u, y.place, v)>> \in M
    BY <2>1, <2>2 DEF StoresAlike
  <2>5. Silent.kind # "call"
    BY DEF Silent, Event
  <2> QED BY <2>3, <2>4, <2>5 DEF StmtsAlike, Storing, Doing
<1> QED BY <1>3, <1>4, <1>5

LEMMA PrintsAlike ==
  ASSUME NEW x, NEW y, NEW M, NEW old, NEW new, x.kind = "print", y.kind = "print",
         OperandsAlike(M, old, new, x.op, y.op), NEW m, NEW w, <<m, w>> \in M
  PROVE  StmtsAlike(M, old, new, x, y, m, w)
<1>1. CanEval(m, x.op) =>
        CanEval(w, y.op) /\ ValueOf(Types(new), w, y.op) = ValueOf(Types(old), m, x.op)
  BY DEF OperandsAlike
<1>2. Printing(ValueOf(Types(old), m, x.op)).kind # "call"
  BY DEF Printing, Event
<1> QED BY <1>1, <1>2 DEF StmtsAlike, StmtDoes, Doing

LEMMA NoopsAlike ==
  ASSUME NEW M, NEW old, NEW new, NEW m, NEW w, <<m, w>> \in M
  PROVE  StmtsAlike(M, old, new, Noop, Noop, m, w)
BY DEF StmtsAlike, StmtDoes, Doing, Noop, Silent, Event

LEMMA EndsAlike ==
  ASSUME NEW L, NEW B, NEW x \in TermSet(L, B), NEW y, NEW M, NEW old, NEW new,
         y.kind = x.kind, y.values = x.values, Len(y.succs) = Len(x.succs),
         OperandsAlike(M, old, new, x.on, y.on),
         PlacesAlike(M, old, new, LocalPlace(ReturnPlace), LocalPlace(ReturnPlace)), SharesHeap(M),
         NEW m, NEW w, <<m, w>> \in M
  PROVE  TermsAlike(old, new, x, y, m, w)
<1> DEFINE o == TermDoes(Types(old), m, x)
           d == TermDoes(Types(new), w, y)
<1>1. CanEval(m, x.on) =>
        CanEval(w, y.on) /\ ValueOf(Types(new), w, y.on) = ValueOf(Types(old), m, x.on)
  BY DEF OperandsAlike
<1>2. x.kind \in TermKinds
  BY DEF TermSet
<1>3. CASE x.kind = "switch"
  <2>1. \A v : BranchForValue(y, v) = BranchForValue(x, v)
    BY DEF BranchForValue
  <2> QED BY <1>1, <1>3, <2>1 DEF TermsAlike, TermDoes, Branching
<1>4. CASE x.kind = "assert"
  BY <1>1, <1>4 DEF TermsAlike, TermDoes, Branching
<1>5. CASE x.kind = "return"
  <2>1. CanReach(m, LocalPlace(ReturnPlace))
    BY DEF CanReach, Whole, LocalPlace, Place
  <2>2. Loaded(Types(new), w, LocalPlace(ReturnPlace)) = Loaded(Types(old), m, LocalPlace(ReturnPlace))
    BY <2>1 DEF PlacesAlike
  <2>3. w.heap = m.heap
    BY DEF SharesHeap
  <2> QED BY <1>5, <2>2, <2>3 DEF TermsAlike, TermDoes, Branching
<1>6. CASE x.kind \in {"goto", "panic", "unreachable"}
  BY <1>6 DEF TermsAlike, TermDoes, Branching
<1> QED BY <1>2, <1>3, <1>4, <1>5, <1>6 DEF TermKinds

-----------------------------------------------------------------------------
(* Memories that agree about the locals D, each local l of which is f[l]   *)
(* in the new body.                                                        *)

As(f, l) == IF IsLocal(l) THEN f[l] ELSE l
Agreeing(old, new, D, f) ==
  {z \in Memories(Types(old)) \X Memories(Types(new)) :
     z[1].heap = z[2].heap /\ \A l \in D : z[2].env[As(f, l)] = z[1].env[l]}

(* f takes the locals of U, and no two of them to one, to locals of the    *)
(* new body that are of the same types.                                    *)
Renames(old, new, U, f) ==
  /\ U \subseteq Bases(old)
  /\ \A l \in U : As(f, l) \in Bases(new) /\ Types(new)[As(f, l)] = Types(old)[l]
  /\ \A l, k \in U : As(f, l) = As(f, k) => l = k

(* A place that is written lies in U, and is found by what D holds.        *)
WrittenIn(p, D, U) ==
  /\ p.base \in U
  /\ p.proj # "none" => p.base \in D
  /\ p.proj = "index" => p.by \in D /\ IsLocal(p.by)

LEMMA InAgreement ==
  ASSUME NEW old, NEW new, NEW D, NEW f, NEW m, NEW w
  PROVE  <<m, w>> \in Agreeing(old, new, D, f) <=>
           /\ m \in Memories(Types(old)) /\ w \in Memories(Types(new))
           /\ w.heap = m.heap /\ \A l \in D : w.env[As(f, l)] = m.env[l]
BY DEF Agreeing

LEMMA MemoryHas ==
  ASSUME NEW types, NEW m \in Memories(types)
  PROVE  /\ m.heap \in Heaps /\ DOMAIN m.env = DOMAIN types
         /\ \A l \in DOMAIN types : m.env[l] \in Values
         /\ \A c \in DOMAIN m.heap : m.heap[c] \in Values
BY DEF Memories, Heaps

LEMMA MemoryWritten ==
  ASSUME NEW types, NEW m \in Memories(types)
  PROVE  /\ \A heap \in Heaps : /\ [m EXCEPT !.heap = heap] \in Memories(types)
                                /\ [m EXCEPT !.heap = heap].env = m.env
                                /\ [m EXCEPT !.heap = heap].heap = heap
         /\ \A l \in DOMAIN types, v \in Values :
              /\ [m EXCEPT !.env[l] = v] \in Memories(types)
              /\ [m EXCEPT !.env[l] = v].env = [m.env EXCEPT ![l] = v]
              /\ [m EXCEPT !.env[l] = v].heap = m.heap
         /\ \A c \in DOMAIN m.heap, v \in Values :
              /\ [m EXCEPT !.heap[c] = v] \in Memories(types)
              /\ [m EXCEPT !.heap[c] = v].env = m.env
              /\ [m EXCEPT !.heap[c] = v].heap = [m.heap EXCEPT ![c] = v]
<1>1. ASSUME NEW c \in DOMAIN m.heap, NEW v \in Values
      PROVE  [m.heap EXCEPT ![c] = v] \in Heaps
  <2>1. m.heap \in Seq(Values)
    BY DEF Memories, Heaps
  <2> QED BY <2>1 DEF Heaps
<1> QED BY <1>1 DEF Memories

LEMMA AgreeingSharesHeap ==
  ASSUME NEW old, NEW new, NEW D, NEW f
  PROVE  SharesHeap(Agreeing(old, new, D, f))
<1> SUFFICES ASSUME NEW m, NEW w, <<m, w>> \in Agreeing(old, new, D, f)
             PROVE  /\ m.heap \in Heaps /\ w.heap = m.heap
                    /\ \A heap \in Heaps :
                         <<[m EXCEPT !.heap = heap], [w EXCEPT !.heap = heap]>> \in Agreeing(old, new, D, f)
  BY DEF SharesHeap
<1>1. /\ m \in Memories(Types(old)) /\ w \in Memories(Types(new))
      /\ w.heap = m.heap /\ \A l \in D : w.env[As(f, l)] = m.env[l]
  BY InAgreement
<1>2. ASSUME NEW heap \in Heaps
      PROVE  <<[m EXCEPT !.heap = heap], [w EXCEPT !.heap = heap]>> \in Agreeing(old, new, D, f)
  <2> DEFINE n == [m EXCEPT !.heap = heap]
             u == [w EXCEPT !.heap = heap]
  <2>1. /\ n \in Memories(Types(old)) /\ n.env = m.env /\ n.heap = heap
        /\ u \in Memories(Types(new)) /\ u.env = w.env /\ u.heap = heap
    BY <1>1, MemoryWritten
  <2> HIDE DEF n, u
  <2>2. <<n, u>> \in Agreeing(old, new, D, f)
    BY <1>1, <2>1, InAgreement
  <2> QED BY <2>2 DEF n, u
<1> QED BY <1>1, <1>2, MemoryHas

LEMMA CellsAgree ==
  ASSUME NEW old, NEW new, NEW D, NEW f, NEW m, NEW w, <<m, w>> \in Agreeing(old, new, D, f),
         NEW p, p.base \in D, p.proj = "index" => p.by \in D /\ IsLocal(p.by)
  PROVE  /\ w.env[RenamePlace(p, f).base] = m.env[p.base]
         /\ CellOf(w, RenamePlace(p, f)) = CellOf(m, p)
         /\ RenamePlace(p, f).proj = p.proj
<1>1. \A l \in D : w.env[As(f, l)] = m.env[l]
  BY InAgreement
<1>2. /\ RenamePlace(p, f).base = As(f, p.base) /\ RenamePlace(p, f).proj = p.proj
      /\ p.proj = "index" => RenamePlace(p, f).by = As(f, p.by)
  BY DEF RenamePlace, As, Place
<1>3. w.env[RenamePlace(p, f).base] = m.env[p.base]
  BY <1>1, <1>2
<1>4. p.proj = "index" => w.env[RenamePlace(p, f).by] = m.env[p.by]
  BY <1>1, <1>2
<1> QED BY <1>2, <1>3, <1>4 DEF CellOf

LEMMA LoadsAgree ==
  ASSUME NEW old, NEW new, NEW U, NEW D, D \subseteq U, NEW f, Renames(old, new, U, f),
         NEW p, p.base \in D, p.proj = "index" => p.by \in D /\ IsLocal(p.by)
  PROVE  PlacesAlike(Agreeing(old, new, D, f), old, new, p, RenamePlace(p, f))
<1> SUFFICES ASSUME NEW m, NEW w, <<m, w>> \in Agreeing(old, new, D, f), CanReach(m, p)
             PROVE  /\ CanReach(w, RenamePlace(p, f))
                    /\ Loaded(Types(new), w, RenamePlace(p, f)) = Loaded(Types(old), m, p)
                    /\ Loaded(Types(old), m, p) \in Values
  BY DEF PlacesAlike
<1> DEFINE q == RenamePlace(p, f)
<1>1. m \in Memories(Types(old)) /\ w \in Memories(Types(new)) /\ w.heap = m.heap
  BY InAgreement
<1>2. w.env[q.base] = m.env[p.base] /\ CellOf(w, q) = CellOf(m, p) /\ q.proj = p.proj
  BY CellsAgree
<1>3. Types(new)[q.base] = Types(old)[p.base] /\ p.base \in DOMAIN Types(old)
  <2>1. q.base = As(f, p.base)
    BY DEF RenamePlace, As, Place
  <2>2. DOMAIN Types(old) = Bases(old)
    BY DEF Types
  <2> QED BY <2>1, <2>2 DEF Renames
<1> HIDE DEF q
<1>4. CanReach(w, q)
  BY <1>1, <1>2 DEF CanReach, Whole
<1>5. Loaded(Types(new), w, q) = Loaded(Types(old), m, p)
  BY <1>1, <1>2, <1>3 DEF Loaded, Whole
<1>6. Loaded(Types(old), m, p) \in Values
  <2>1. 0 \in Values
    BY DEF Values
  <2> QED BY <1>1, <1>3, <2>1, MemoryHas DEF Loaded, CanReach
<1> QED BY <1>4, <1>5, <1>6 DEF q

LEMMA StoresAgree ==
  ASSUME NEW old, NEW new, NEW U, NEW D, D \subseteq U, NEW f, Renames(old, new, U, f),
         NEW p, WrittenIn(p, D, U)
  PROVE  StoresAlike(Agreeing(old, new, D, f), old, new, p, RenamePlace(p, f))
<1> SUFFICES ASSUME NEW m, NEW w, NEW v \in Values, <<m, w>> \in Agreeing(old, new, D, f), CanReach(m, p)
             PROVE  /\ CanReach(w, RenamePlace(p, f))
                    /\ <<Stored(Types(old), m, p, v), Stored(Types(new), w, RenamePlace(p, f), v)>>
                         \in Agreeing(old, new, D, f)
  BY DEF StoresAlike
<1> DEFINE q == RenamePlace(p, f)
<1>1. /\ m \in Memories(Types(old)) /\ w \in Memories(Types(new)) /\ w.heap = m.heap
      /\ \A l \in D : w.env[As(f, l)] = m.env[l]
  BY InAgreement
<1>2. /\ q.base = As(f, p.base) /\ q.proj = p.proj
      /\ q.base \in DOMAIN Types(new) /\ p.base \in DOMAIN Types(old)
      /\ Types(new)[q.base] = Types(old)[p.base]
  <2>1. q.base = As(f, p.base) /\ q.proj = p.proj
    BY DEF RenamePlace, As, Place
  <2>2. DOMAIN Types(old) = Bases(old) /\ DOMAIN Types(new) = Bases(new)
    BY DEF Types
  <2> QED BY <2>1, <2>2 DEF Renames, WrittenIn
<1>3. CASE ~Whole(p)
  <2>1. p.base \in D
    BY <1>3 DEF Whole, WrittenIn
  <2>2. CellOf(w, q) = CellOf(m, p)
    BY <2>1, CellsAgree DEF WrittenIn
  <2> HIDE DEF q
  <2>3. ~Whole(q) /\ CellOf(m, p) \in DOMAIN m.heap
    BY <1>2, <1>3 DEF Whole, CanReach
  <2> DEFINE c == CellOf(m, p)
             n == [m EXCEPT !.heap[c] = v]
             u == [w EXCEPT !.heap[c] = v]
  <2>4. Stored(Types(old), m, p, v) = n /\ Stored(Types(new), w, q, v) = u
    BY <1>3, <2>2, <2>3 DEF Stored
  <2>5. /\ n \in Memories(Types(old)) /\ u \in Memories(Types(new))
        /\ n.env = m.env /\ u.env = w.env /\ u.heap = n.heap
    BY <1>1, <2>3, MemoryWritten
  <2> HIDE DEF c, n, u
  <2>6. <<n, u>> \in Agreeing(old, new, D, f)
    BY <1>1, <2>5, InAgreement
  <2> QED BY <1>1, <2>2, <2>3, <2>4, <2>6 DEF CanReach, c, q
<1>4. CASE Whole(p) /\ IsZst(Types(old)[p.base])
  <2> HIDE DEF q
  <2> QED BY <1>2, <1>4 DEF Stored, CanReach, Whole, q
<1>5. CASE Whole(p) /\ ~IsZst(Types(old)[p.base])
  <2> DEFINE n == [m EXCEPT !.env[p.base] = v]
             u == [w EXCEPT !.env[q.base] = v]
  <2>1. Stored(Types(old), m, p, v) = n /\ Stored(Types(new), w, q, v) = u /\ Whole(q)
    BY <1>2, <1>5 DEF Stored, Whole
  <2>2. /\ n \in Memories(Types(old)) /\ n.env = [m.env EXCEPT ![p.base] = v] /\ n.heap = m.heap
        /\ u \in Memories(Types(new)) /\ u.env = [w.env EXCEPT ![q.base] = v] /\ u.heap = w.heap
    BY <1>1, <1>2, MemoryWritten
  <2>3. \A l \in D : l \in DOMAIN m.env /\ As(f, l) \in DOMAIN w.env /\ (As(f, l) = q.base <=> l = p.base)
    <3>1. DOMAIN m.env = Bases(old) /\ DOMAIN w.env = Bases(new)
      BY <1>1, MemoryHas DEF Types
    <3>2. p.base \in U
      BY DEF WrittenIn
    <3> HIDE DEF q
    <3> QED BY <1>2, <3>1, <3>2 DEF Renames
  <2> HIDE DEF n, u, q
  <2>4. \A l \in D : u.env[As(f, l)] = n.env[l]
    BY <1>1, <2>2, <2>3
  <2>5. <<n, u>> \in Agreeing(old, new, D, f)
    BY <1>1, <2>2, <2>4, InAgreement
  <2> QED BY <2>1, <2>5 DEF CanReach, q
<1> QED BY <1>3, <1>4, <1>5

-----------------------------------------------------------------------------
(* A statement or a terminator over other locals.                          *)

ReadIn(p, D) == p.base \in D /\ (p.proj = "index" => p.by \in D /\ IsLocal(p.by))
OperandIn(op, D) == op.kind = "load" => ReadIn(op.place, D)
StmtIn(s, D, U) ==
  /\ s.kind = "print" => OperandIn(s.op, D)
  /\ s.kind = "assign" => /\ WrittenIn(s.place, D, U)
                          /\ \A i \in DOMAIN s.rv.args : OperandIn(s.rv.args[i], D)
                          /\ \A i \in DOMAIN s.rv.places : ReadIn(s.rv.places[i], D)

OperandRenamed(op, o, f) ==
  /\ o.kind = op.kind /\ o.value = op.value
  /\ op.kind = "load" => o.place = RenamePlace(op.place, f)
StmtRenamed(x, y, f) ==
  /\ y.kind = x.kind
  /\ x.kind = "print" => OperandRenamed(x.op, y.op, f)
  /\ x.kind = "assign" =>
       /\ y.place = RenamePlace(x.place, f)
       /\ y.rv.kind = x.rv.kind /\ y.rv.callee = x.rv.callee
       /\ DOMAIN y.rv.args = DOMAIN x.rv.args /\ DOMAIN y.rv.places = DOMAIN x.rv.places
       /\ \A i \in DOMAIN x.rv.args : OperandRenamed(x.rv.args[i], y.rv.args[i], f)
       /\ \A i \in DOMAIN x.rv.places : y.rv.places[i] = RenamePlace(x.rv.places[i], f)
TermRenamed(x, y, f) ==
  /\ y.kind = x.kind /\ y.values = x.values /\ DOMAIN y.succs = DOMAIN x.succs
  /\ OperandRenamed(x.on, y.on, f)

LEMMA OperandsAgree ==
  ASSUME NEW old, NEW new, NEW U, NEW D, D \subseteq U, NEW f, Renames(old, new, U, f),
         NEW L, NEW op \in OperandSet(L), NEW o, OperandIn(op, D), OperandRenamed(op, o, f)
  PROVE  OperandsAlike(Agreeing(old, new, D, f), old, new, op, o)
<1>1. CASE op.kind = "load"
  <2>1. PlacesAlike(Agreeing(old, new, D, f), old, new, op.place, o.place)
    BY <1>1, LoadsAgree DEF OperandIn, OperandRenamed, ReadIn
  <2> QED BY <1>1, <2>1 DEF OperandsAlike, PlacesAlike, OperandRenamed, CanEval, ValueOf
<1>2. CASE op.kind # "load"
  <2>1. op.value \in Values
    BY DEF OperandSet, Values
  <2> QED BY <1>2, <2>1 DEF OperandsAlike, OperandRenamed, CanEval, ValueOf
<1> QED BY <1>1, <1>2

LEMMA RenamedAlike ==
  ASSUME NEW old, NEW new, NEW U, NEW D, D \subseteq U, NEW f, Renames(old, new, U, f),
         NEW L, NEW arity, NEW x \in StmtSet(L, arity), NEW y, StmtIn(x, D, U), StmtRenamed(x, y, f),
         NEW m, NEW w, <<m, w>> \in Agreeing(old, new, D, f)
  PROVE  StmtsAlike(Agreeing(old, new, D, f), old, new, x, y, m, w)
<1> DEFINE M == Agreeing(old, new, D, f)
<1>1. CASE x = Noop
  <2>1. y.kind = "noop" /\ x.kind = "noop"
    BY <1>1 DEF StmtRenamed, Noop
  <2> QED BY <2>1 DEF StmtsAlike, StmtDoes, Doing, Silent, Event
<1>2. CASE x \in [kind : {"print"}, op : OperandSet(L)]
  <2>1. OperandsAlike(M, old, new, x.op, y.op)
    BY <1>2, OperandsAgree DEF StmtIn, StmtRenamed
  <2> HIDE DEF M
  <2> QED BY <1>2, <2>1, PrintsAlike DEF StmtRenamed, M
<1>3. CASE x \in [kind : {"assign"}, place : PlaceSet(L), rv : RvalueSet(L, arity)]
  <2>1. x.rv.args \in Seq(OperandSet(L))
    BY <1>3 DEF RvalueSet
  <2>2. \A i \in DOMAIN x.rv.args : x.rv.args[i] \in OperandSet(L)
    BY <2>1
  <2>3. \A i \in DOMAIN x.rv.args : OperandsAlike(M, old, new, x.rv.args[i], y.rv.args[i])
    BY <1>3, <2>2, OperandsAgree DEF StmtIn, StmtRenamed
  <2>4. \A i \in DOMAIN x.rv.places : PlacesAlike(M, old, new, x.rv.places[i], y.rv.places[i])
    BY <1>3, LoadsAgree DEF StmtIn, StmtRenamed, ReadIn
  <2>5. StoresAlike(M, old, new, x.place, y.place)
    BY <1>3, StoresAgree DEF StmtIn, StmtRenamed
  <2>6. SharesHeap(M)
    BY AgreeingSharesHeap
  <2> HIDE DEF M
  <2>7. /\ x.kind = "assign" /\ y.kind = "assign" /\ y.rv.kind = x.rv.kind /\ y.rv.callee = x.rv.callee
        /\ DOMAIN y.rv.args = DOMAIN x.rv.args /\ DOMAIN y.rv.places = DOMAIN x.rv.places
    BY <1>3 DEF StmtRenamed
  <2>8. <<m, w>> \in M
    BY DEF M
  <2>9. StmtsAlike(M, old, new, x, y, m, w)
    BY <2>3, <2>4, <2>5, <2>6, <2>7, <2>8, AssignsAlike
  <2> QED BY <2>9 DEF M
<1> QED BY <1>1, <1>2, <1>3 DEF StmtSet

LEMMA RenamedEnds ==
  ASSUME NEW old, NEW new, NEW U, NEW D, D \subseteq U, NEW f, Renames(old, new, U, f),
         NEW L, NEW B, NEW x \in TermSet(L, B), NEW y, NEW C, y.succs \in Seq(C),
         OperandIn(x.on, D), TermRenamed(x, y, f), ReturnPlace \in D,
         NEW m, NEW w, <<m, w>> \in Agreeing(old, new, D, f)
  PROVE  TermsAlike(old, new, x, y, m, w)
<1> DEFINE M == Agreeing(old, new, D, f)
           r == LocalPlace(ReturnPlace)
<1>1. OperandsAlike(M, old, new, x.on, y.on)
  BY OperandsAgree DEF TermSet, TermRenamed
<1>2. PlacesAlike(M, old, new, r, r)
  <2>1. RenamePlace(r, f) = r /\ r.base = ReturnPlace /\ r.proj # "index"
    BY DEF RenamePlace, LocalPlace, Place, IsLocal
  <2> HIDE DEF r
  <2>2. PlacesAlike(M, old, new, r, RenamePlace(r, f))
    BY <2>1, LoadsAgree
  <2> QED BY <2>1, <2>2
<1>3. Len(y.succs) = Len(x.succs)
  BY SameIndices DEF TermSet, TermRenamed
<1>4. SharesHeap(M)
  BY AgreeingSharesHeap
<1> HIDE DEF M
<1> QED BY <1>1, <1>2, <1>3, <1>4, EndsAlike DEF TermRenamed, M, r

-----------------------------------------------------------------------------
(* Bodies that do the same block by block: the block b of the old body is  *)
(* the block g[b] of the new one.                                          *)

BlocksAlike(M, old, new, x, y, L, B, g) ==
  /\ x.term \in TermSet(L, B) /\ DOMAIN y.stmts = DOMAIN x.stmts
  /\ \A i \in DOMAIN x.stmts : \A m, w : <<m, w>> \in M =>
       StmtsAlike(M, old, new, x.stmts[i], y.stmts[i], m, w)
  /\ \A m, w : <<m, w>> \in M => TermsAlike(old, new, x.term, y.term, m, w)
  /\ \A e \in DOMAIN x.term.succs : y.term.succs[e] = g[x.term.succs[e]]

(* Each statement is at the place it had, in the block that is now g[b].   *)
SamePlaces(S, g) == {<<b, i, g[b], i, 0>> : b \in S, i \in Nat \ {0}}

LEMMA SamePlacesAre ==
  ASSUME NEW S, S \subseteq Nat, NEW g, \A b \in S : g[b] \in Nat
  PROVE  SamePlaces(S, g) \in SUBSET Positions
<1> SUFFICES ASSUME NEW p \in SamePlaces(S, g)
             PROVE  p \in Positions
  OBVIOUS
<1>1. PICK b \in S, i \in Nat \ {0} : p = <<b, i, g[b], i, 0>>
  BY DEF SamePlaces
<1>2. b \in Nat /\ i \in Nat /\ g[b] \in Nat /\ 0 \in Nat
  BY <1>1
<1> QED BY <1>1, <1>2 DEF Positions

LEMMA SameByBlocks ==
  ASSUME NEW arity, NEW old, NEW new, NEW L, NEW S, S \subseteq Nat, NEW B \in SUBSET S, NEW g,
         \A b \in S : g[b] \in Nat, ENTRY \in S, g[ENTRY] = ENTRY,
         NEW X, NEW Y, NEW M \in SUBSET (X \X Y),
         \A b \in S : BlocksAlike(M, old, new, old.blocks[b], new.blocks[g[b]], L, B, g),
         \A args \in [1 .. arity -> Values], heap \in Heaps :
           <<Entered(old, args, heap).mem, Entered(new, args, heap).mem>> \in M
  PROVE  DoesTheSame(arity, old, new)
<1> DEFINE P == SamePlaces(S, g)
<1>1. P \in SUBSET Positions
  BY SamePlacesAre
<1>2. \A b \in S, i \in Nat \ {0} : <<b, i, g[b], i, 0>> \in P
  BY DEF SamePlaces
<1>3. <<ENTRY, 1, ENTRY, 1, 0>> \in P
  BY <1>2
<1>4. ASSUME NEW b, NEW i, NEW c, NEW j, NEW n, <<b, i, c, j, n>> \in P
      PROVE  /\ n \in 0 .. 0 /\ old.blocks[b].term \in TermSet(L, B)
             /\ Moves(P, M, old, new, b, i, c, j, n)
  <2> DEFINE x == old.blocks[b]
             y == new.blocks[c]
  <2>1. b \in S /\ c = g[b] /\ i \in Nat \ {0} /\ j = i /\ n = 0
    BY <1>4 DEF SamePlaces
  <2>2. BlocksAlike(M, old, new, x, y, L, B, g)
    BY <2>1
  <2> HIDE DEF P, x, y
  <2>3. /\ x.term \in TermSet(L, B) /\ DOMAIN y.stmts = DOMAIN x.stmts
        /\ \A k \in DOMAIN x.stmts : \A m, w : <<m, w>> \in M =>
             StmtsAlike(M, old, new, x.stmts[k], y.stmts[k], m, w)
        /\ \A m, w : <<m, w>> \in M => TermsAlike(old, new, x.term, y.term, m, w)
        /\ \A e \in DOMAIN x.term.succs : y.term.succs[e] = g[x.term.succs[e]]
    BY <2>2 DEF BlocksAlike
  <2>4. CASE i \in DOMAIN x.stmts
    <3>1. <<b, i + 1, c, j + 1, 0>> \in P
      BY <1>2, <2>1
    <3>2. /\ j \in DOMAIN y.stmts
          /\ \A m, w : <<m, w>> \in M => StmtsAlike(M, old, new, x.stmts[i], y.stmts[j], m, w)
      BY <2>1, <2>3, <2>4
    <3>3. Moves(P, M, old, new, b, i, c, j, n)
      BY <2>4, <3>1, <3>2 DEF Moves, x, y
    <3> QED BY <2>1, <2>3, <3>3 DEF x
  <2>5. CASE i \notin DOMAIN x.stmts
    <3>1. /\ j \notin DOMAIN y.stmts
          /\ \A m, w : <<m, w>> \in M => TermsAlike(old, new, x.term, y.term, m, w)
      BY <2>1, <2>3, <2>5
    <3>2. ASSUME NEW e \in DOMAIN x.term.succs
          PROVE  \E k : <<x.term.succs[e], 1, y.term.succs[e], 1, k>> \in P
      <4> DEFINE u == x.term.succs[e]
      <4>1. u \in S
        <5>1. u \in B
          BY <2>3, <3>2, SuccessorsAreThere
        <5> QED BY <5>1
      <4>2. y.term.succs[e] = g[u]
        BY <2>3, <3>2
      <4> HIDE DEF u
      <4>3. <<u, 1, g[u], 1, 0>> \in P
        BY <1>2, <4>1
      <4> QED BY <4>2, <4>3 DEF u
    <3>3. Moves(P, M, old, new, b, i, c, j, n)
      BY <2>5, <3>1, <3>2 DEF Moves, x, y
    <3> QED BY <2>1, <2>3, <3>3 DEF x
  <2> QED BY <2>3, <2>4, <2>5
<1> HIDE DEF P
<1>5. \A b, i, c, j, n : <<b, i, c, j, n>> \in P =>
        /\ n \in 0 .. 0 /\ old.blocks[b].term \in TermSet(L, B)
        /\ Moves(P, M, old, new, b, i, c, j, n)
  BY <1>4
<1>6. 0 \in Nat
  OBVIOUS
<1> QED BY <1>1, <1>3, <1>5, <1>6, SameByPlaces

-----------------------------------------------------------------------------
(* Bodies over the same locals.                                            *)

(* What every body under way is made of, from its arity number of          *)
(* parameters on.                                                          *)
Shaped(body, table) ==
  /\ DOMAIN body.blocks \subseteq Nat /\ DOMAIN body.locals \subseteq Nat /\ ENTRY \in DOMAIN body.blocks
  /\ \A b \in DOMAIN body.blocks :
       body.blocks[b] \in BlockSet(DOMAIN body.locals, DOMAIN body.blocks \ {ENTRY}, table)

(* The memories of two bodies whose locals are of the same types.          *)
Stay(body) == [l \in DOMAIN body.locals |-> l]
Equal(old, new) == Agreeing(old, new, Bases(old), Stay(old))

LEMMA StayRenames ==
  ASSUME NEW old, NEW new, Types(new) = Types(old)
  PROVE  Renames(old, new, Bases(old), Stay(old)) /\ \A l \in Bases(old) : As(Stay(old), l) = l
<1>1. \A l \in Bases(old) : As(Stay(old), l) = l
  BY DEF As, Stay, Bases, IsLocal
<1>2. Bases(new) = Bases(old)
  <2>1. DOMAIN Types(old) = Bases(old) /\ DOMAIN Types(new) = Bases(new)
    BY DEF Types
  <2> QED BY <2>1
<1> QED BY <1>1, <1>2 DEF Renames

HeldFirst(arity, args, l) == IF l + 1 \in 1 .. arity THEN args[l + 1] ELSE Uninit

HoldsFirst(arity, body, args, heap) ==
  LET m == Entered(body, args, heap).mem
  IN /\ m \in Memories(Types(body)) /\ m.heap = heap
     /\ \A l \in Bases(body) : m.env[l] = HeldFirst(arity, args, l)

LEMMA EnteredIn ==
  ASSUME NEW arity, NEW body, NEW args \in [1 .. arity -> Values], NEW heap \in Heaps
  PROVE  HoldsFirst(arity, body, args, heap)
<1>1. DOMAIN Types(body) = Bases(body) /\ Uninit \in Values
  BY DEF Types, Uninit, Values
<1> QED BY <1>1 DEF HoldsFirst, Entered, At, Memory, Memories, HeldFirst

(* The arguments of a call are to be found where they were.                *)
KeepsParams(arity, D, f) ==
  \A l \in D : /\ l + 1 \in 1 .. arity <=> As(f, l) + 1 \in 1 .. arity
               /\ l + 1 \in 1 .. arity => As(f, l) = l

LEMMA EnteredAgreeing ==
  ASSUME NEW arity, NEW old, NEW new, NEW U, NEW D, D \subseteq U, NEW f, Renames(old, new, U, f),
         KeepsParams(arity, D, f), NEW args \in [1 .. arity -> Values], NEW heap \in Heaps
  PROVE  <<Entered(old, args, heap).mem, Entered(new, args, heap).mem>> \in Agreeing(old, new, D, f)
<1> DEFINE m == Entered(old, args, heap).mem
           w == Entered(new, args, heap).mem
<1>1. HoldsFirst(arity, old, args, heap) /\ HoldsFirst(arity, new, args, heap)
  BY EnteredIn
<1>2. m \in Memories(Types(old)) /\ w \in Memories(Types(new)) /\ w.heap = m.heap
  BY <1>1 DEF HoldsFirst
<1>3. ASSUME NEW l \in D
      PROVE  w.env[As(f, l)] = m.env[l]
  <2>1. l \in Bases(old) /\ As(f, l) \in Bases(new)
    BY DEF Renames
  <2>2. m.env[l] = HeldFirst(arity, args, l) /\ w.env[As(f, l)] = HeldFirst(arity, args, As(f, l))
    <3>1. \A k \in Bases(old) : m.env[k] = HeldFirst(arity, args, k)
      BY <1>1 DEF HoldsFirst
    <3>2. \A k \in Bases(new) : w.env[k] = HeldFirst(arity, args, k)
      BY <1>1 DEF HoldsFirst
    <3> HIDE DEF m, w
    <3> QED BY <2>1, <3>1, <3>2
  <2>3. l + 1 \in 1 .. arity <=> As(f, l) + 1 \in 1 .. arity
    BY DEF KeepsParams
  <2>4. l + 1 \in 1 .. arity => As(f, l) = l
    BY DEF KeepsParams
  <2> HIDE DEF m, w
  <2> QED BY <2>2, <2>3, <2>4 DEF HeldFirst
<1> HIDE DEF m, w
<1>4. <<m, w>> \in Agreeing(old, new, D, f)
  BY <1>2, <1>3, InAgreement
<1> QED BY <1>4 DEF m, w

LEMMA StaysWhatItIs ==
  ASSUME NEW body, NEW L, L \subseteq DOMAIN body.locals, L \subseteq Nat, NEW p \in PlaceSet(L)
  PROVE  RenamePlace(p, Stay(body)) = p /\ ReadIn(p, Bases(body)) /\ WrittenIn(p, Bases(body), Bases(body))
<1>1. /\ p \in [base : L \cup {ReturnPlace}, proj : {"none", "deref", "first", "index"}, by : Nat]
      /\ p.proj = "index" => p.by \in L
  BY DEF PlaceSet
<1>2. IsLocal(p.base) => Stay(body)[p.base] = p.base
  BY <1>1 DEF IsLocal, Stay
<1>3. p.proj = "index" => Stay(body)[p.by] = p.by /\ IsLocal(p.by) /\ p.by \in Bases(body)
  BY <1>1 DEF IsLocal, Stay, Bases, ReturnPlace
<1>4. p.base \in Bases(body)
  BY <1>1 DEF Bases
<1> QED BY <1>1, <1>2, <1>3, <1>4 DEF RenamePlace, Place, ReadIn, WrittenIn

LEMMA OperandStaysRenamed ==
  ASSUME NEW body, NEW L, L \subseteq DOMAIN body.locals, L \subseteq Nat, NEW op \in OperandSet(L)
  PROVE  OperandRenamed(op, op, Stay(body)) /\ OperandIn(op, Bases(body))
<1>1. op.place \in PlaceSet(L)
  BY DEF OperandSet
<1> QED BY <1>1, StaysWhatItIs DEF OperandRenamed, OperandIn

LEMMA StmtStaysRenamed ==
  ASSUME NEW body, NEW L, L \subseteq DOMAIN body.locals, L \subseteq Nat,
         NEW arity, NEW s \in StmtSet(L, arity)
  PROVE  StmtRenamed(s, s, Stay(body)) /\ StmtIn(s, Bases(body), Bases(body))
<1>1. CASE s = Noop
  BY <1>1 DEF StmtRenamed, StmtIn, Noop
<1>2. CASE s \in [kind : {"print"}, op : OperandSet(L)]
  BY <1>2, OperandStaysRenamed DEF StmtRenamed, StmtIn
<1>3. CASE s \in [kind : {"assign"}, place : PlaceSet(L), rv : RvalueSet(L, arity)]
  <2>1. /\ \A i \in DOMAIN s.rv.args : s.rv.args[i] \in OperandSet(L)
        /\ \A i \in DOMAIN s.rv.places : s.rv.places[i] \in PlaceSet(L)
        /\ s.kind = "assign" /\ s.place \in PlaceSet(L)
    BY <1>3 DEF RvalueSet
  <2> QED BY <2>1, OperandStaysRenamed, StaysWhatItIs DEF StmtRenamed, StmtIn
<1> QED BY <1>1, <1>2, <1>3 DEF StmtSet

(* A statement and a terminator do the same in two such bodies.            *)
LEMMA StaysAlike ==
  ASSUME NEW old, NEW new, Types(new) = Types(old), NEW L, L \subseteq DOMAIN old.locals, L \subseteq Nat,
         NEW m, NEW w, <<m, w>> \in Equal(old, new)
  PROVE  /\ \A arity : \A s \in StmtSet(L, arity) : StmtsAlike(Equal(old, new), old, new, s, s, m, w)
         /\ \A B, C : \A x \in TermSet(L, B), y \in TermSet(L, C) :
              y.kind = x.kind /\ y.on = x.on /\ y.values = x.values => TermsAlike(old, new, x, y, m, w)
<1>1. Renames(old, new, Bases(old), Stay(old)) /\ ReturnPlace \in Bases(old)
  BY StayRenames DEF Bases
<1>2. ASSUME NEW arity, NEW s \in StmtSet(L, arity)
      PROVE  StmtsAlike(Equal(old, new), old, new, s, s, m, w)
  BY <1>1, StmtStaysRenamed, RenamedAlike DEF Equal
<1>3. ASSUME NEW B, NEW C, NEW x \in TermSet(L, B), NEW y \in TermSet(L, C),
             y.kind = x.kind, y.on = x.on, y.values = x.values
      PROVE  TermsAlike(old, new, x, y, m, w)
  <2>1. OperandRenamed(x.on, y.on, Stay(old)) /\ OperandIn(x.on, Bases(old))
    BY <1>3, OperandStaysRenamed DEF TermSet
  <2>2. DOMAIN y.succs = DOMAIN x.succs /\ y.succs \in Seq(C)
    BY <1>3 DEF TermSet
  <2>3. TermRenamed(x, y, Stay(old))
    BY <1>3, <2>1, <2>2 DEF TermRenamed
  <2> QED BY <1>1, <2>1, <2>2, <2>3, RenamedEnds DEF Equal
<1> QED BY <1>2, <1>3

LEMMA EntersEqual ==
  ASSUME NEW arity, NEW old, NEW new, Types(new) = Types(old),
         NEW args \in [1 .. arity -> Values], NEW heap \in Heaps
  PROVE  <<Entered(old, args, heap).mem, Entered(new, args, heap).mem>> \in Equal(old, new)
<1>1. Renames(old, new, Bases(old), Stay(old)) /\ \A l \in Bases(old) : As(Stay(old), l) = l
  BY StayRenames
<1>2. KeepsParams(arity, Bases(old), Stay(old))
  BY <1>1 DEF KeepsParams
<1> QED BY <1>1, <1>2, EnteredAgreeing DEF Equal

LEMMA EqualIsARelation ==
  ASSUME NEW old, NEW new, NEW D, NEW f
  PROVE  /\ Agreeing(old, new, D, f) \in SUBSET (Memories(Types(old)) \X Memories(Types(new)))
         /\ Equal(old, new) \in SUBSET (Memories(Types(old)) \X Memories(Types(new)))
BY DEF Agreeing, Equal

(* The same block in two bodies whose locals are of the same types.        *)
LEMMA BlockStaysAlike ==
  ASSUME NEW old, NEW new, Types(new) = Types(old), NEW L, L \subseteq DOMAIN old.locals, L \subseteq Nat,
         NEW B, NEW arity, NEW x \in BlockSet(L, B, arity), NEW C, NEW y \in BlockSet(L, C, arity),
         y.stmts = x.stmts,
         y.term.kind = x.term.kind, y.term.on = x.term.on, y.term.values = x.term.values,
         NEW g, \A e \in DOMAIN x.term.succs : y.term.succs[e] = g[x.term.succs[e]]
  PROVE  BlocksAlike(Equal(old, new), old, new, x, y, L, B, g)
<1>1. /\ x.stmts \in Seq(StmtSet(L, arity)) /\ x.term \in TermSet(L, B) /\ y.term \in TermSet(L, C)
  BY DEF BlockSet
<1>2. \A i \in DOMAIN x.stmts : x.stmts[i] \in StmtSet(L, arity)
  BY <1>1
<1>3. ASSUME NEW m, NEW w, <<m, w>> \in Equal(old, new)
      PROVE  /\ \A i \in DOMAIN x.stmts :
                  StmtsAlike(Equal(old, new), old, new, x.stmts[i], y.stmts[i], m, w)
             /\ TermsAlike(old, new, x.term, y.term, m, w)
  <2>1. \A s \in StmtSet(L, arity) : StmtsAlike(Equal(old, new), old, new, s, s, m, w)
    BY <1>3, StaysAlike
  <2>2. TermsAlike(old, new, x.term, y.term, m, w)
    BY <1>1, <1>3, StaysAlike
  <2> QED BY <1>2, <2>1, <2>2
<1> QED BY <1>1, <1>3 DEF BlocksAlike

LEMMA Reflexive ==
  ASSUME NEW table, NEW body, Shaped(body, table), NEW arity
  PROVE  DoesTheSame(arity, body, body)
<1> DEFINE S == DOMAIN body.blocks
           B == S \ {ENTRY}
           L == DOMAIN body.locals
           M == Equal(body, body)
           g == [b \in S |-> b]
<1>1. /\ S \subseteq Nat /\ L \subseteq Nat /\ ENTRY \in S /\ B \in SUBSET S
      /\ \A b \in S : body.blocks[b] \in BlockSet(L, B, table)
  BY DEF Shaped
<1>2. M \in SUBSET (Memories(Types(body)) \X Memories(Types(body)))
  BY EqualIsARelation
<1>3. \A args \in [1 .. arity -> Values], heap \in Heaps :
        <<Entered(body, args, heap).mem, Entered(body, args, heap).mem>> \in M
  BY EntersEqual
<1>4. ASSUME NEW b \in S
      PROVE  BlocksAlike(M, body, body, body.blocks[b], body.blocks[g[b]], L, B, g)
  <2> DEFINE x == body.blocks[b]
  <2>1. x \in BlockSet(L, B, table) /\ g[b] = b
    BY <1>1
  <2>2. \A e \in DOMAIN x.term.succs : x.term.succs[e] = g[x.term.succs[e]]
    <3>1. x.term \in TermSet(L, B)
      BY <2>1 DEF BlockSet
    <3>2. \A e \in DOMAIN x.term.succs : x.term.succs[e] \in S
      BY <3>1, SuccessorsAreThere
    <3> QED BY <3>2
  <2> HIDE DEF x, g, S, B
  <2>3. BlocksAlike(M, body, body, x, x, L, B, g)
    BY <1>1, <2>1, <2>2, BlockStaysAlike
  <2> QED BY <2>1, <2>3 DEF x
<1>5. \A b \in S : g[b] \in Nat /\ g[ENTRY] = ENTRY
  BY <1>1
<1> HIDE DEF S, B, L, M, g
<1> QED BY <1>1, <1>2, <1>3, <1>4, <1>5, SameByBlocks

(* Doing the same is not something every body does: two that begin by      *)
(* printing different numbers do not.                                      *)
LEMMA MeaningTells ==
  ASSUME NEW arity, NEW old, NEW new, NEW v, NEW w, v # w,
         1 \in DOMAIN old.blocks[ENTRY].stmts, old.blocks[ENTRY].stmts[1] = PrintStmt(Scalar(v)),
         1 \in DOMAIN new.blocks[ENTRY].stmts, new.blocks[ENTRY].stmts[1] = PrintStmt(Scalar(w))
  PROVE  ~DoesTheSame(arity, old, new)
<1> SUFFICES ASSUME NEW K, NEW R, Simulation(R, K, arity, old, new)
             PROVE  FALSE
  BY DEF DoesTheSame
<1> DEFINE args == [i \in 1 .. arity |-> 0]
           s == Entered(old, args, <<>>)
           t == Entered(new, args, <<>>)
<1>1. args \in [1 .. arity -> Values] /\ <<>> \in Heaps
  BY DEF Values, Heaps
<1>2. PICK n : <<s, t, n>> \in R
  BY <1>1 DEF Simulation
<1>3. Follows(R, old, new, s, t, n)
  BY <1>2 DEF Simulation
<1>4. ASSUME NEW body, NEW z, 1 \in DOMAIN body.blocks[ENTRY].stmts,
             body.blocks[ENTRY].stmts[1] = PrintStmt(Scalar(z))
      PROVE  Does(body, Entered(body, args, <<>>)).event = Printing(z)
  <2> DEFINE a == Entered(body, args, <<>>)
  <2>1. a.block = ENTRY /\ a.next = 1
    BY DEF Entered, At
  <2>2. AtStmt(body, a) /\ StmtAt(body, a) = PrintStmt(Scalar(z))
    BY <1>4, <2>1 DEF AtStmt, StmtAt, BlockAt
  <2>3. StmtDoes(Types(body), a.mem, PrintStmt(Scalar(z))).event = Printing(z)
    BY DEF StmtDoes, PrintStmt, Scalar, CanEval, ValueOf, Doing
  <2> HIDE DEF a
  <2>4. Does(body, a).event = Printing(z)
    BY <2>2, <2>3 DEF Does, Moving
  <2> QED BY <2>4 DEF a
<1>5. Does(old, s).event = Printing(v) /\ Does(new, t).event = Printing(w)
  BY <1>4
<1> HIDE DEF s, t
<1>6. Printing(v) # Printing(w) /\ Printing(v) # Undefined /\ Printing(v) # Silent
  BY DEF Printing, Undefined, Silent, Event
<1> QED BY <1>3, <1>5, <1>6 DEF Follows
-----------------------------------------------------------------------------
(* An activation stays one: it is in a block, and its memory is of the     *)
(* types of the body's locals.                                             *)
InBody(body, s) ==
  \E b \in DOMAIN body.blocks, i \in Nat, m \in Memories(Types(body)) : s = At(b, i, m)

LEMMA EntersIn ==
  ASSUME NEW arity, NEW body, ENTRY \in DOMAIN body.blocks,
         NEW args \in [1 .. arity -> Values], NEW heap \in Heaps
  PROVE  InBody(body, Entered(body, args, heap))
<1> DEFINE m == Entered(body, args, heap).mem
<1>1. m \in Memories(Types(body))
  BY EnteredIn DEF HoldsFirst
<1>2. Entered(body, args, heap) = At(ENTRY, 1, m)
  BY DEF Entered, At
<1> HIDE DEF m
<1> QED BY <1>1, <1>2 DEF InBody

LEMMA OneMemory ==
  ASSUME NEW body
  PROVE  /\ \A m \in Memories(Types(body)) : <<m, m>> \in Equal(body, body)
         /\ \A m, w : <<m, w>> \in Equal(body, body) => m \in Memories(Types(body))
<1>1. \A l \in Bases(body) : As(Stay(body), l) = l
  BY StayRenames
<1> QED BY <1>1, InAgreement DEF Equal

(* What a call hands over and a return gives back.                         *)
CallIsFit(table, event) ==
  /\ event.what \in DOMAIN table /\ event.heap \in Heaps
  /\ event.vals \in [1 .. table[event.what] -> Values]
ReturnIsFit(event) == event.vals[1] \in Values /\ event.heap \in Heaps

LEMMA CallsAreFit ==
  ASSUME NEW table, NEW body, NEW L, L \subseteq DOMAIN body.locals, L \subseteq Nat,
         NEW s \in StmtSet(L, table), NEW m \in Memories(Types(body)),
         StmtDoes(Types(body), m, s).event.kind = "call"
  PROVE  CallIsFit(table, StmtDoes(Types(body), m, s).event)
<1> DEFINE e == StmtDoes(Types(body), m, s).event
           vals == [i \in DOMAIN s.rv.args |-> ValueOf(Types(body), m, s.rv.args[i])]
<1>1. CASE s = Noop
  BY <1>1 DEF StmtDoes, Noop, Doing, Silent, Event
<1>2. CASE s \in [kind : {"print"}, op : OperandSet(L)]
  BY <1>2 DEF StmtDoes, Doing, Printing, Undefined, Event
<1>3. CASE s \in [kind : {"assign"}, place : PlaceSet(L), rv : RvalueSet(L, table)]
  <2>1. s.kind = "assign" /\ s.rv \in RvalueSet(L, table)
    BY <1>3
  <2>2. StmtDoes(Types(body), m, s) = Assigning(Types(body), m, s.place, s.rv)
    BY <2>1 DEF StmtDoes
  <2>3. CanCompute(m, s.rv) /\ IsCall(s.rv)
    BY <2>2 DEF Assigning, Storing, Doing, Undefined, Silent, Event
  <2>4. e = Calling(s.rv.callee, vals, m.heap)
    BY <2>2, <2>3 DEF Assigning, Doing
  <2>5. /\ s.rv.callee \in DOMAIN table /\ s.rv.args \in Seq(OperandSet(L))
        /\ Len(s.rv.args) = table[s.rv.callee]
    BY <2>1, <2>3 DEF RvalueSet, IsCall, ArgCount, CallKinds
  <2>6. DOMAIN s.rv.args = 1 .. table[s.rv.callee]
    BY <2>5
  <2>7. ASSUME NEW i \in DOMAIN s.rv.args
        PROVE  ValueOf(Types(body), m, s.rv.args[i]) \in Values
    <3>1. s.rv.args[i] \in OperandSet(L) /\ CanEval(m, s.rv.args[i])
      BY <2>3, <2>5 DEF CanCompute
    <3>2. OperandsAlike(Equal(body, body), body, body, s.rv.args[i], s.rv.args[i])
      BY <3>1, StayRenames, OperandStaysRenamed, OperandsAgree DEF Equal
    <3> QED BY <3>1, <3>2, OneMemory DEF OperandsAlike
  <2>8. vals \in [1 .. table[s.rv.callee] -> Values]
    BY <2>6, <2>7
  <2>9. m.heap \in Heaps
    BY MemoryHas
  <2> HIDE DEF vals
  <2> QED BY <2>4, <2>5, <2>8, <2>9 DEF CallIsFit, Calling, Event
<1> QED BY <1>1, <1>2, <1>3 DEF StmtSet

LEMMA ReturnsAreFit ==
  ASSUME NEW body, NEW t, NEW m \in Memories(Types(body)),
         TermDoes(Types(body), m, t).event.kind = "return"
  PROVE  ReturnIsFit(TermDoes(Types(body), m, t).event)
<1> DEFINE p == LocalPlace(ReturnPlace)
<1>1. t.kind = "return" \/ t.kind \notin {"goto", "switch", "assert", "return"}
  BY DEF TermDoes, Branching, Silent, Undefined, Ending, Event
<1>2. TermDoes(Types(body), m, t).event = Returning(Loaded(Types(body), m, p), m.heap)
  <2>1. CASE t.kind = "return"
    BY <2>1 DEF TermDoes, Branching
  <2>2. CASE t.kind \notin {"goto", "switch", "assert", "return"}
    BY <2>2 DEF TermDoes, Branching, Ending, Event
  <2> QED BY <1>1, <2>1, <2>2
<1>3. Loaded(Types(body), m, p) \in Values
  <2>1. Whole(p) /\ p.base \in DOMAIN Types(body) /\ 0 \in Values
    BY DEF Whole, LocalPlace, Place, Types, Bases, Values
  <2> QED BY <2>1, MemoryHas DEF Loaded
<1>4. m.heap \in Heaps
  BY MemoryHas
<1> HIDE DEF p
<1> QED BY <1>2, <1>3, <1>4 DEF ReturnIsFit, Returning, Event

LEMMA StmtsDoNotReturn ==
  ASSUME NEW table, NEW L, NEW s \in StmtSet(L, table), NEW types, NEW m
  PROVE  StmtDoes(types, m, s).event.kind # "return"
<1>1. CASE s = Noop
  BY <1>1 DEF StmtDoes, Noop, Doing, Silent, Event
<1>2. CASE s \in [kind : {"print"}, op : OperandSet(L)]
  BY <1>2 DEF StmtDoes, Doing, Printing, Undefined, Event
<1>3. CASE s \in [kind : {"assign"}, place : PlaceSet(L), rv : RvalueSet(L, table)]
  <2>1. StmtDoes(types, m, s) = Assigning(types, m, s.place, s.rv)
    BY <1>3 DEF StmtDoes
  <2> QED BY <2>1 DEF Assigning, Storing, Calling, Doing, Undefined, Silent, Event
<1> QED BY <1>1, <1>2, <1>3 DEF StmtSet

(* What follows for a step of an activation and for coming back to it.     *)
StaysFit(table, body, s) ==
  LET o == Does(body, s)
  IN \/ o.event = Undefined
     \/ /\ o.event.kind \in {"silent", "print"} => InBody(body, o.to)
        /\ o.event.kind = "call" => CallIsFit(table, o.event)
        /\ o.event.kind = "return" => ReturnIsFit(o.event)
ComesIn(body, s) ==
  \A v \in Values, heap \in Heaps :
    LET back == CameBack(body, s, v, heap)
    IN back.event = Undefined \/ InBody(body, back.to)

LEMMA StaysIn ==
  ASSUME NEW table, NEW body, Shaped(body, table), NEW s, InBody(body, s)
  PROVE  /\ StaysFit(table, body, s)
         /\ Does(body, s).event.kind = "call" => ComesIn(body, s)
<1> DEFINE S == DOMAIN body.blocks
           L == DOMAIN body.locals
<1>1. PICK b \in S, i \in Nat, m \in Memories(Types(body)) : s = At(b, i, m)
  BY DEF InBody
<1>2. /\ L \subseteq Nat /\ L \subseteq DOMAIN body.locals
      /\ body.blocks[b].stmts \in Seq(StmtSet(L, table))
      /\ body.blocks[b].term \in TermSet(L, S \ {ENTRY})
  BY DEF Shaped, BlockSet
<1>3. <<m, m>> \in Equal(body, body)
  BY OneMemory
<1> HIDE DEF L
<1>4. CASE i \in DOMAIN body.blocks[b].stmts
  <2> DEFINE x == body.blocks[b].stmts[i]
             d == StmtDoes(Types(body), m, x)
             back(v, heap) == Returned(Types(body), m, x, v, heap)
  <2>1. x \in StmtSet(L, table)
    BY <1>2, <1>4
  <2>2. StmtsAlike(Equal(body, body), body, body, x, x, m, m)
    BY <1>2, <1>3, <2>1, StaysAlike
  <2>3. Does(body, s) = [event |-> d.event, to |-> At(b, i + 1, d.mem)]
    BY <1>1, <1>4, DoesAtStmt
  <2>4. \A v \in Values, heap \in Heaps :
          CameBack(body, s, v, heap) =
            [event |-> back(v, heap).event, to |-> At(b, i + 1, back(v, heap).mem)]
    BY <1>1, ComesBackAt
  <2>5. d.event = Undefined \/ d.event.kind = "call" \/ d.mem \in Memories(Types(body))
    BY <2>2, OneMemory DEF StmtsAlike
  <2>6. d.event.kind = "call" =>
          \A v \in Values, heap \in Heaps :
            back(v, heap).event = Undefined \/ back(v, heap).mem \in Memories(Types(body))
    <3>1. Undefined.kind # "call"
      BY DEF Undefined, Event
    <3> QED BY <2>2, <3>1, OneMemory DEF StmtsAlike
  <2>7. d.event.kind = "call" => CallIsFit(table, d.event)
    BY <1>2, <2>1, CallsAreFit
  <2>8. d.event.kind # "return"
    BY <2>1, StmtsDoNotReturn
  <2> HIDE DEF x, d, back
  <2>9. \A w \in Memories(Types(body)) : InBody(body, At(b, i + 1, w))
    BY DEF InBody
  <2>10. StaysFit(table, body, s)
    <3>1. {"silent", "print"} \cap {"call", "return"} = {}
      OBVIOUS
    <3> QED BY <2>3, <2>5, <2>7, <2>8, <2>9, <3>1 DEF StaysFit
  <2>11. Does(body, s).event.kind = "call" => ComesIn(body, s)
    BY <2>3, <2>4, <2>6, <2>9 DEF ComesIn
  <2> QED BY <2>10, <2>11
<1>5. CASE i \notin DOMAIN body.blocks[b].stmts
  <2> DEFINE t == body.blocks[b].term
             d == TermDoes(Types(body), m, t)
  <2>1. /\ Does(body, s).event = d.event
        /\ d.exit # NoExit => Does(body, s).to = At(t.succs[d.exit], 1, m)
    BY <1>1, <1>5, DoesAtEnd
  <2>2. \/ d.exit \in DOMAIN t.succs /\ d.event = Silent /\ d.exit # NoExit
        \/ d.exit = NoExit /\ d.event.kind \notin {"silent", "print", "call"}
    BY <1>2, ExitsAreThere
  <2>3. \A e \in DOMAIN t.succs : t.succs[e] \in S
    BY <1>2, SuccessorsAreThere
  <2>4. d.event.kind = "return" => ReturnIsFit(d.event)
    BY ReturnsAreFit
  <2>5. Silent.kind = "silent"
    BY DEF Silent, Event
  <2> HIDE DEF t, d
  <2>6. \A c \in S : InBody(body, At(c, 1, m))
    BY DEF InBody
  <2>7. CASE d.exit \in DOMAIN t.succs /\ d.event = Silent /\ d.exit # NoExit
    <3>1. InBody(body, Does(body, s).to)
      BY <2>1, <2>3, <2>6, <2>7
    <3> QED BY <2>1, <2>5, <2>7, <3>1 DEF StaysFit
  <2>8. CASE d.exit = NoExit /\ d.event.kind \notin {"silent", "print", "call"}
    BY <2>1, <2>4, <2>8 DEF StaysFit
  <2> QED BY <2>2, <2>7, <2>8
<1> QED BY <1>4, <1>5

-----------------------------------------------------------------------------
(* Stacks of activations.                                                  *)

LEMMA UpToLast ==
  ASSUME NEW F, NEW p \in Seq(F), Len(p) > 0
  PROVE  /\ Len(p) \in 1 .. Len(p)
         /\ \A i \in 1 .. Len(p) - 1 : i \in 1 .. Len(p) /\ i # Len(p)
         /\ \A i \in 1 .. Len(p) : i = Len(p) \/ i \in 1 .. Len(p) - 1
<1> DEFINE n == Len(p)
<1>1. n \in Nat /\ n > 0
  OBVIOUS
<1> HIDE DEF n
<1>2. n \in 1 .. n
  BY <1>1
<1>3. \A i \in 1 .. n - 1 : i \in 1 .. n /\ i # n
  BY <1>1
<1>4. \A i \in 1 .. n : i = n \/ i \in 1 .. n - 1
  BY <1>1
<1> QED BY <1>2, <1>3, <1>4 DEF n

LEMMA TopReplaced ==
  ASSUME NEW F, NEW p \in Seq(F), Len(p) > 0, NEW s, Frame(Top(p).of, s) \in F
  PROVE  /\ GoesOn(p, s) \in Seq(F) /\ Len(GoesOn(p, s)) = Len(p)
         /\ Top(GoesOn(p, s)) = Frame(Top(p).of, s)
         /\ \A i \in 1 .. Len(p) - 1 : GoesOn(p, s)[i] = p[i]
<1> DEFINE q == GoesOn(p, s)
<1>1. DOMAIN p = 1 .. Len(p) /\ Len(p) \in Nat /\ \A i \in DOMAIN p : p[i] \in F
  OBVIOUS
<1>2. /\ q = [i \in 1 .. Len(p) |-> q[i]]
      /\ q[Len(p)] = Frame(Top(p).of, s)
      /\ \A i \in 1 .. Len(p) - 1 : q[i] = p[i]
  <2>1. q = [i \in 1 .. Len(p) |-> IF i = Len(p) THEN Frame(p[i].of, s) ELSE p[i]]
    BY <1>1 DEF GoesOn
  <2>2. Len(p) \in 1 .. Len(p) /\ \A i \in 1 .. Len(p) - 1 : i \in 1 .. Len(p) /\ i # Len(p)
    BY UpToLast
  <2> HIDE DEF q
  <2> QED BY <2>1, <2>2 DEF Top
<1> HIDE DEF q
<1>3. ASSUME NEW i \in 1 .. Len(p)
      PROVE  q[i] \in F
  <2>1. i = Len(p) \/ i \in 1 .. Len(p) - 1
    BY UpToLast
  <2>2. i \in DOMAIN p
    BY <1>1
  <2> QED BY <1>1, <1>2, <2>1, <2>2
<1>4. q \in Seq(F) /\ Len(q) = Len(p)
  BY <1>1, <1>2, <1>3, ListUpTo
<1> QED BY <1>2, <1>4 DEF q, Top

LEMMA TopPushed ==
  ASSUME NEW F, NEW p \in Seq(F), NEW table, NEW f, NEW args, NEW heap, Called(table, f, args, heap) \in F
  PROVE  LET q == Pushed(table, p, f, args, heap)
         IN /\ q \in Seq(F) /\ Len(q) = Len(p) + 1
            /\ Top(q) = Called(table, f, args, heap)
            /\ \A i \in 1 .. Len(p) : q[i] = p[i]
<1> DEFINE q == Pushed(table, p, f, args, heap)
           n == Len(p) + 1
<1>1. DOMAIN p = 1 .. Len(p) /\ Len(p) \in Nat /\ n \in Nat /\ \A i \in DOMAIN p : p[i] \in F
  OBVIOUS
<1>2. /\ q = [i \in 1 .. n |-> q[i]]
      /\ q[n] = Called(table, f, args, heap)
      /\ \A i \in 1 .. Len(p) : q[i] = p[i]
  BY <1>1 DEF Pushed
<1> HIDE DEF q
<1>3. ASSUME NEW i \in 1 .. n
      PROVE  q[i] \in F
  <2>1. i = n \/ i \in 1 .. Len(p)
    BY <1>1
  <2> QED BY <1>1, <1>2, <2>1
<1>4. q \in Seq(F) /\ Len(q) = n
  BY <1>1, <1>2, <1>3, ListUpTo
<1> QED BY <1>2, <1>4 DEF q, Top

LEMMA TopPopped ==
  ASSUME NEW F, NEW p \in Seq(F), Len(p) > 1
  PROVE  /\ Popped(p) \in Seq(F) /\ Len(Popped(p)) = Len(p) - 1
         /\ Top(Popped(p)) = p[Len(p) - 1]
         /\ \A i \in 1 .. Len(p) - 1 : Popped(p)[i] = p[i]
<1> DEFINE q == Popped(p)
           n == Len(p) - 1
<1>1. DOMAIN p = 1 .. Len(p) /\ Len(p) \in Nat /\ n \in Nat /\ n >= 1 /\ \A i \in DOMAIN p : p[i] \in F
  OBVIOUS
<1>2. q = [i \in 1 .. n |-> q[i]] /\ \A i \in 1 .. n : q[i] = p[i]
  BY DEF Popped
<1> HIDE DEF q
<1>3. \A i \in 1 .. n : q[i] \in F
  BY <1>1, <1>2
<1>4. q \in Seq(F) /\ Len(q) = n
  BY <1>1, <1>2, <1>3, ListUpTo
<1> QED BY <1>1, <1>2, <1>4 DEF q, Top

-----------------------------------------------------------------------------
(* Programs of bodies that do the same.  Rel[f] relates the activations of *)
(* f; two stacks are related if what runs is and if the callers, whatever  *)
(* they are answered, are again.                                           *)

Related(Rel, old, a, c, n) ==
  c.of = a.of /\ <<a.at, c.at, n>> \in Rel[a.of] /\ InBody(old[a.of], a.at)
Await(Rel, old, new, a, c) ==
  /\ c.of = a.of
  /\ \A v \in Values, heap \in Heaps :
       LET oldBack == CameBack(old[a.of], a.at, v, heap)
           newBack == CameBack(new[a.of], c.at, v, heap)
       IN \/ oldBack.event = Undefined
          \/ /\ oldBack.event = Silent /\ newBack.event = Silent
             /\ \E k : Related(Rel, old, Frame(a.of, oldBack.to), Frame(a.of, newBack.to), k)
Stacked(Rel, old, new, p, q, n) ==
  /\ Len(p) > 0 /\ Len(q) = Len(p) /\ Related(Rel, old, Top(p), Top(q), n)
  /\ \A i \in 1 .. Len(p) - 1 : Await(Rel, old, new, p[i], q[i])

FramesOf(D, Rel, j) == [of : D, at : UNION {{r[j] : r \in Rel[f]} : f \in D}]
Stacks(D, Rel, old, new) ==
  {w \in Seq(FramesOf(D, Rel, 1)) \X Seq(FramesOf(D, Rel, 2)) \X Nat :
     Stacked(Rel, old, new, w[1], w[2], w[3])}

LEMMA StacksAre ==
  ASSUME NEW D, NEW Rel, NEW old, NEW new, NEW p, NEW q, NEW n
  PROVE  <<p, q, n>> \in Stacks(D, Rel, old, new) <=>
           /\ p \in Seq(FramesOf(D, Rel, 1)) /\ q \in Seq(FramesOf(D, Rel, 2)) /\ n \in Nat
           /\ Stacked(Rel, old, new, p, q, n)
BY DEF Stacks

LEMMA FramesAre ==
  ASSUME NEW D, NEW Rel, NEW f \in D, NEW s, NEW t, NEW n, <<s, t, n>> \in Rel[f]
  PROVE  /\ Frame(f, s) \in FramesOf(D, Rel, 1) /\ Frame(f, t) \in FramesOf(D, Rel, 2)
         /\ Frame(f, s).of = f /\ Frame(f, s).at = s /\ Frame(f, t).of = f /\ Frame(f, t).at = t
<1>1. s \in {r[1] : r \in Rel[f]} /\ t \in {r[2] : r \in Rel[f]}
  <2>1. PICK r \in Rel[f] : r = <<s, t, n>>
    OBVIOUS
  <2>2. r[1] = s /\ r[2] = t
    BY <2>1
  <2> QED BY <2>2
<1>2. /\ s \in UNION {{r[1] : r \in Rel[g]} : g \in D}
      /\ t \in UNION {{r[2] : r \in Rel[g]} : g \in D}
  BY <1>1
<1> QED BY <1>2 DEF Frame, FramesOf

LEMMA EventsOfComingBack ==
  ASSUME NEW body, NEW s, NEW v, NEW heap
  PROVE  CameBack(body, s, v, heap).event \in {Silent, Undefined}
BY DEF CameBack, Returned, Storing, Doing, Moving

(* What relates the activations of each function.                          *)
Simulates(D, arity, old, new, Rel) ==
  \A f \in D : \E K \in Nat : Simulation(Rel[f], K, arity[f], old[f], new[f])

LEMMA RelatedStep ==
  ASSUME NEW D, NEW arity, NEW old, NEW new, NEW Rel, Simulates(D, arity, old, new, Rel),
         NEW f \in D
  PROVE  /\ \A s, t, n : <<s, t, n>> \in Rel[f] => n \in Nat /\ Follows(Rel[f], old[f], new[f], s, t, n)
         /\ \A args \in [1 .. arity[f] -> Values], heap \in Heaps :
              \E n : <<Entered(old[f], args, heap), Entered(new[f], args, heap), n>> \in Rel[f]
<1>1. PICK K \in Nat : Simulation(Rel[f], K, arity[f], old[f], new[f])
  BY DEF Simulates
<1>2. \A n \in 0 .. K : n \in Nat
  OBVIOUS
<1> QED BY <1>1, <1>2 DEF Simulation

LEMMA KeepsTogether ==
  ASSUME NEW W, NEW old, NEW new, NEW p, NEW q, NEW n, NEW event, NEW x, NEW y,
         Running(old, p) = Moving(event, x), Running(new, q) = Moving(event, y),
         event.kind \in {"silent", "print"} => \E k : <<x, y, k>> \in W
  PROVE  Keeps(W, old, new, p, q, n)
<1>1. /\ Running(old, p).event = event /\ Running(old, p).to = x
      /\ Running(new, q).event = event /\ Running(new, q).to = y
  BY DEF Moving
<1> QED BY <1>1 DEF Keeps

LEMMA StacksStep ==
  ASSUME NEW D, NEW arity, NEW old, NEW new, NEW Rel, Simulates(D, arity, old, new, Rel),
         D = DOMAIN arity, \A f \in D : Shaped(old[f], arity),
         NEW p, NEW q, NEW n, <<p, q, n>> \in Stacks(D, Rel, old, new)
  PROVE  Keeps(Stacks(D, Rel, old, new), old, new, p, q, n)
<1> DEFINE A == FramesOf(D, Rel, 1)
           B == FramesOf(D, Rel, 2)
           W == Stacks(D, Rel, old, new)
           f == Top(p).of
           s == Top(p).at
           t == Top(q).at
           o == Does(old[f], s)
           d == Does(new[f], t)
<1>1. /\ p \in Seq(A) /\ q \in Seq(B) /\ n \in Nat /\ Len(p) > 0 /\ Len(q) = Len(p)
      /\ Related(Rel, old, Top(p), Top(q), n)
      /\ \A i \in 1 .. Len(p) - 1 : Await(Rel, old, new, p[i], q[i])
  BY StacksAre DEF Stacked
<1>2. Len(p) \in DOMAIN p /\ Len(p) \in Nat
  BY <1>1
<1>3. f \in D /\ Top(q).of = f /\ <<s, t, n>> \in Rel[f] /\ InBody(old[f], s)
  <2>1. Top(p) \in A
    BY <1>1, <1>2 DEF Top
  <2>2. f \in D
    BY <2>1 DEF FramesOf
  <2> QED BY <1>1, <2>2 DEF Related
<1>4. /\ Follows(Rel[f], old[f], new[f], s, t, n)
      /\ \A u, w, k : <<u, w, k>> \in Rel[f] => k \in Nat
  BY <1>3, RelatedStep
<1>5. StaysFit(arity, old[f], s) /\ (o.event.kind = "call" => ComesIn(old[f], s))
  BY <1>3, StaysIn
<1> HIDE DEF A, B, W, f, s, t, o, d
<1>6. ASSUME NEW u, NEW w, NEW k, <<u, w, k>> \in Rel[f], InBody(old[f], u)
      PROVE  /\ <<GoesOn(p, u), GoesOn(q, w), k>> \in W
             /\ w = t => <<GoesOn(p, u), q, k>> \in W
  <2>1. /\ Frame(f, u) \in A /\ Frame(f, w) \in B
        /\ Frame(f, u).of = f /\ Frame(f, u).at = u /\ Frame(f, w).of = f /\ Frame(f, w).at = w
    BY <1>3, <1>6, FramesAre DEF A, B
  <2>2. /\ GoesOn(p, u) \in Seq(A) /\ Len(GoesOn(p, u)) = Len(p) /\ Top(GoesOn(p, u)) = Frame(f, u)
        /\ \A i \in 1 .. Len(p) - 1 : GoesOn(p, u)[i] = p[i]
    BY <1>1, <2>1, TopReplaced DEF f
  <2>3. /\ GoesOn(q, w) \in Seq(B) /\ Len(GoesOn(q, w)) = Len(p) /\ Top(GoesOn(q, w)) = Frame(f, w)
        /\ \A i \in 1 .. Len(p) - 1 : GoesOn(q, w)[i] = q[i]
    <3>1. Frame(Top(q).of, w) \in B
      BY <1>3, <2>1
    <3>2. /\ GoesOn(q, w) \in Seq(B) /\ Len(GoesOn(q, w)) = Len(q)
          /\ Top(GoesOn(q, w)) = Frame(Top(q).of, w)
          /\ \A i \in 1 .. Len(q) - 1 : GoesOn(q, w)[i] = q[i]
      BY <1>1, <3>1, TopReplaced
    <3> QED BY <1>1, <1>3, <3>2
  <2>4. Related(Rel, old, Frame(f, u), Frame(f, w), k) /\ k \in Nat
    BY <1>4, <1>6, <2>1 DEF Related
  <2>5. Stacked(Rel, old, new, GoesOn(p, u), GoesOn(q, w), k)
    BY <1>1, <2>2, <2>3, <2>4 DEF Stacked
  <2>6. <<GoesOn(p, u), GoesOn(q, w), k>> \in W
    BY <2>2, <2>3, <2>4, <2>5, StacksAre DEF W, A, B
  <2>7. ASSUME w = t
        PROVE  <<GoesOn(p, u), q, k>> \in W
    <3>1. Related(Rel, old, Frame(f, u), Top(q), k)
      BY <1>3, <1>6, <2>1, <2>7 DEF Related, t
    <3>2. Stacked(Rel, old, new, GoesOn(p, u), q, k)
      BY <1>1, <2>2, <3>1 DEF Stacked
    <3> QED BY <1>1, <2>2, <2>4, <3>2, StacksAre DEF W, A, B
  <2> QED BY <2>6, <2>7
<1>7. /\ o.event.kind \in {"silent", "print"} =>
           Running(old, p) = Moving(o.event, GoesOn(p, o.to))
      /\ o.event.kind = "call" =>
           Running(old, p) =
             Moving(Silent, Pushed(old, p, o.event.what, o.event.vals, o.event.heap))
      /\ o.event.kind = "return" /\ Len(p) > 1 =>
           Running(old, p) = GivesBack(old, p, o.event.vals[1], o.event.heap)
      /\ o.event.kind \notin {"silent", "print", "call"} /\ ~(o.event.kind = "return" /\ Len(p) > 1) =>
           Running(old, p) = Moving(o.event, p)
  BY DEF Running, o, f, s
<1>8. /\ d.event.kind \in {"silent", "print"} =>
           Running(new, q) = Moving(d.event, GoesOn(q, d.to))
      /\ d.event.kind = "call" =>
           Running(new, q) =
             Moving(Silent, Pushed(new, q, d.event.what, d.event.vals, d.event.heap))
      /\ d.event.kind = "return" /\ Len(q) > 1 =>
           Running(new, q) = GivesBack(new, q, d.event.vals[1], d.event.heap)
      /\ d.event.kind \notin {"silent", "print", "call"} /\ ~(d.event.kind = "return" /\ Len(q) > 1) =>
           Running(new, q) = Moving(d.event, q)
  <2>1. d = Does(new[Top(q).of], Top(q).at)
    BY <1>3 DEF d, t
  <2> QED BY <2>1 DEF Running
<1>9. Silent.kind = "silent" /\ Undefined.kind = "undefined" /\ Silent # Undefined
  BY DEF Silent, Undefined, Event
<1>10. CASE o.event = Undefined
  BY <1>7, <1>9, <1>10 DEF Keeps, Moving
<1>11. CASE o.event = Silent /\ \E k \in 0 .. n - 1 : <<o.to, t, k>> \in Rel[f]
  <2>1. PICK k \in 0 .. n - 1 : <<o.to, t, k>> \in Rel[f]
    BY <1>11
  <2>2. InBody(old[f], o.to)
    BY <1>5, <1>9, <1>11 DEF StaysFit, o
  <2>3. <<GoesOn(p, o.to), q, k>> \in W
    BY <1>6, <2>1, <2>2
  <2> QED BY <1>7, <1>9, <1>11, <2>1, <2>3 DEF Keeps, Moving, W
<1>12. CASE /\ o.event # Undefined
            /\ d.event = o.event
            /\ o.event.kind \in {"silent", "print"} => \E k : <<o.to, d.to, k>> \in Rel[f]
            /\ o.event.kind = "call" =>
                 \A v \in Values, heap \in Heaps :
                   \/ CameBack(old[f], s, v, heap).event = Undefined
                   \/ /\ CameBack(new[f], t, v, heap).event = Silent
                      /\ \E k : <<CameBack(old[f], s, v, heap).to, CameBack(new[f], t, v, heap).to, k>> \in Rel[f]
  <2>1. CASE o.event.kind \in {"silent", "print"}
    <3>1. PICK k : <<o.to, d.to, k>> \in Rel[f]
      BY <1>12, <2>1
    <3>2. InBody(old[f], o.to)
      BY <1>5, <1>12, <2>1 DEF StaysFit, o
    <3>3. <<GoesOn(p, o.to), GoesOn(q, d.to), k>> \in W
      BY <1>6, <3>1, <3>2
    <3> QED BY <1>7, <1>8, <1>12, <2>1, <3>3, KeepsTogether DEF W
  <2>2. CASE o.event.kind = "call"
    <3> DEFINE g == o.event.what
               args == o.event.vals
               heap == o.event.heap
    <3>1. g \in D /\ args \in [1 .. arity[g] -> Values] /\ heap \in Heaps
      BY <1>5, <1>12, <2>2 DEF StaysFit, CallIsFit, o
    <3> HIDE DEF g, args, heap
    <3>2. PICK k : <<Entered(old[g], args, heap), Entered(new[g], args, heap), k>> \in Rel[g]
      BY <3>1, RelatedStep
    <3> DEFINE a == Called(old, g, args, heap)
               c == Called(new, g, args, heap)
               x == Pushed(old, p, g, args, heap)
               y == Pushed(new, q, g, args, heap)
    <3>3. a \in A /\ c \in B /\ Related(Rel, old, a, c, k) /\ k \in Nat
      <4>1. k \in Nat
        BY <3>1, <3>2, RelatedStep
      <4>2. InBody(old[g], Entered(old[g], args, heap))
        BY <3>1, EntersIn DEF Shaped
      <4>3. /\ a.of = g /\ c.of = g
            /\ a.at = Entered(old[g], args, heap) /\ c.at = Entered(new[g], args, heap)
            /\ a \in A /\ c \in B
        BY <3>1, <3>2, FramesAre DEF Called, A, B
      <4> HIDE DEF a, c
      <4> QED BY <3>2, <4>1, <4>2, <4>3 DEF Related
    <3>4. /\ x \in Seq(A) /\ Len(x) = Len(p) + 1 /\ Top(x) = a /\ \A i \in 1 .. Len(p) : x[i] = p[i]
          /\ y \in Seq(B) /\ Len(y) = Len(q) + 1 /\ Top(y) = c /\ \A i \in 1 .. Len(q) : y[i] = q[i]
      BY <1>1, <3>3, TopPushed
    <3>5. Await(Rel, old, new, Top(p), Top(q))
      <4> SUFFICES ASSUME NEW v \in Values, NEW h \in Heaps,
                          CameBack(old[f], s, v, h).event # Undefined
                   PROVE  /\ CameBack(old[f], s, v, h).event = Silent
                          /\ CameBack(new[f], t, v, h).event = Silent
                          /\ \E j : Related(Rel, old, Frame(f, CameBack(old[f], s, v, h).to),
                                            Frame(f, CameBack(new[f], t, v, h).to), j)
        BY <1>3 DEF Await, f, s, t
      <4>1. CameBack(old[f], s, v, h).event = Silent
        BY EventsOfComingBack
      <4>2. PICK j : /\ CameBack(new[f], t, v, h).event = Silent
                     /\ <<CameBack(old[f], s, v, h).to, CameBack(new[f], t, v, h).to, j>> \in Rel[f]
        BY <1>12, <2>2
      <4>3. InBody(old[f], CameBack(old[f], s, v, h).to)
        BY <1>5, <2>2 DEF ComesIn
      <4> QED BY <4>1, <4>2, <4>3 DEF Related, Frame
    <3> HIDE DEF a, c, x, y
    <3>6. Stacked(Rel, old, new, x, y, k)
      <4>1. Len(x) > 0 /\ Len(y) = Len(x) /\ Len(x) - 1 = Len(p)
        BY <1>1, <1>2, <3>4
      <4>2. ASSUME NEW i \in 1 .. Len(p)
            PROVE  Await(Rel, old, new, x[i], y[i])
        <5>1. x[i] = p[i] /\ y[i] = q[i]
          BY <1>1, <3>4
        <5>2. i = Len(p) \/ i \in 1 .. Len(p) - 1
          BY <1>1, UpToLast
        <5> QED BY <1>1, <3>5, <5>1, <5>2 DEF Top
      <4> QED BY <3>3, <3>4, <4>1, <4>2 DEF Stacked
    <3>7. <<x, y, k>> \in W
      BY <3>3, <3>4, <3>6, StacksAre DEF W, A, B
    <3>8. Running(old, p) = Moving(Silent, x) /\ Running(new, q) = Moving(Silent, y)
      BY <1>7, <1>8, <1>12, <2>2 DEF g, args, heap, x, y
    <3> QED BY <3>7, <3>8, KeepsTogether DEF W
  <2>3. CASE o.event.kind = "return" /\ Len(p) > 1
    <3> DEFINE v == o.event.vals[1]
               heap == o.event.heap
               z == Len(p) - 1
               a == p[z]
               c == q[z]
               x == Popped(p)
               y == Popped(q)
               oldBack == CameBack(old[a.of], a.at, v, heap)
               newBack == CameBack(new[a.of], c.at, v, heap)
    <3>1. v \in Values /\ heap \in Heaps
      BY <1>5, <1>12, <2>3 DEF StaysFit, ReturnIsFit, o
    <3>2. /\ x \in Seq(A) /\ Len(x) = z /\ Top(x) = a /\ \A i \in 1 .. z : x[i] = p[i]
          /\ y \in Seq(B) /\ Len(y) = z /\ Top(y) = c /\ \A i \in 1 .. z : y[i] = q[i]
      BY <1>1, <2>3, TopPopped
    <3>3. z \in Nat /\ z > 0 /\ z \in 1 .. Len(p) - 1
      BY <1>2, <2>3
    <3>4. Await(Rel, old, new, a, c)
      BY <1>1, <3>3
    <3>5. a.of \in D
      <4>1. a \in A
        BY <1>1, <3>3
      <4> QED BY <4>1 DEF A, FramesOf
    <3>6. /\ Running(old, p) = Moving(oldBack.event, GoesOn(x, oldBack.to))
          /\ Running(new, q) = Moving(newBack.event, GoesOn(y, newBack.to))
      <4>1. Running(old, p) = GivesBack(old, p, v, heap) /\ Running(new, q) = GivesBack(new, q, v, heap)
        BY <1>1, <1>7, <1>8, <1>12, <2>3
      <4>2. c.of = a.of
        BY <3>4 DEF Await
      <4> HIDE DEF v, heap, z, a, c
      <4> QED BY <3>2, <4>1, <4>2 DEF GivesBack
    <3>7. \/ oldBack.event = Undefined
          \/ /\ oldBack.event = Silent /\ newBack.event = Silent
             /\ \E k : Related(Rel, old, Frame(a.of, oldBack.to), Frame(a.of, newBack.to), k)
      BY <3>1, <3>4 DEF Await
    <3> HIDE DEF v, heap, oldBack, newBack, x, y, a, c
    <3>8. CASE oldBack.event = Undefined
      BY <3>6, <3>8 DEF Keeps, Moving
    <3>9. ASSUME oldBack.event = Silent, newBack.event = Silent,
                 NEW k, Related(Rel, old, Frame(a.of, oldBack.to), Frame(a.of, newBack.to), k)
          PROVE  <<GoesOn(x, oldBack.to), GoesOn(y, newBack.to), k>> \in W
      <4>1. <<oldBack.to, newBack.to, k>> \in Rel[a.of]
        BY <3>9 DEF Related, Frame
      <4>2. k \in Nat /\ Frame(a.of, oldBack.to) \in A /\ Frame(a.of, newBack.to) \in B
        BY <3>5, <4>1, RelatedStep, FramesAre DEF A, B
      <4>3. Top(y).of = a.of /\ Top(x).of = a.of
        BY <3>2, <3>4 DEF Await
      <4>4. /\ GoesOn(x, oldBack.to) \in Seq(A) /\ Len(GoesOn(x, oldBack.to)) = Len(x)
            /\ Top(GoesOn(x, oldBack.to)) = Frame(a.of, oldBack.to)
            /\ \A i \in 1 .. Len(x) - 1 : GoesOn(x, oldBack.to)[i] = x[i]
        <5>1. x \in Seq(A) /\ Len(x) > 0 /\ Frame(Top(x).of, oldBack.to) \in A
          BY <3>2, <3>3, <4>2, <4>3
        <5>2. Frame(Top(x).of, oldBack.to) = Frame(a.of, oldBack.to)
          BY <4>3
        <5> HIDE DEF z
        <5> QED BY <5>1, <5>2, TopReplaced
      <4>5. /\ GoesOn(y, newBack.to) \in Seq(B) /\ Len(GoesOn(y, newBack.to)) = Len(y)
            /\ Top(GoesOn(y, newBack.to)) = Frame(a.of, newBack.to)
            /\ \A i \in 1 .. Len(y) - 1 : GoesOn(y, newBack.to)[i] = y[i]
        <5>1. y \in Seq(B) /\ Len(y) > 0 /\ Frame(Top(y).of, newBack.to) \in B
          BY <3>2, <3>3, <4>2, <4>3
        <5>2. Frame(Top(y).of, newBack.to) = Frame(a.of, newBack.to)
          BY <4>3
        <5> HIDE DEF z
        <5> QED BY <5>1, <5>2, TopReplaced
      <4> DEFINE x1 == GoesOn(x, oldBack.to)
                 y1 == GoesOn(y, newBack.to)
      <4>6. ASSUME NEW i \in 1 .. z - 1
            PROVE  Await(Rel, old, new, x1[i], y1[i])
        <5>1. i \in 1 .. z /\ i \in 1 .. Len(p) - 1
          BY <3>3
        <5>2. x1[i] = p[i] /\ y1[i] = q[i]
          BY <3>2, <4>4, <4>5, <5>1
        <5> QED BY <1>1, <5>1, <5>2
      <4> HIDE DEF z
      <4>7. Stacked(Rel, old, new, x1, y1, k)
        BY <3>2, <3>3, <3>9, <4>4, <4>5, <4>6 DEF Stacked
      <4> QED BY <4>2, <4>4, <4>5, <4>7, StacksAre DEF W, A, B
    <3>10. CASE /\ oldBack.event = Silent /\ newBack.event = Silent
                /\ \E k : Related(Rel, old, Frame(a.of, oldBack.to), Frame(a.of, newBack.to), k)
      <4>1. \E k : <<GoesOn(x, oldBack.to), GoesOn(y, newBack.to), k>> \in W
        BY <3>9, <3>10
      <4> QED BY <3>6, <3>10, <4>1, KeepsTogether DEF W
    <3> QED BY <3>7, <3>8, <3>10
  <2>4. CASE /\ o.event.kind \notin {"silent", "print", "call"}
             /\ ~(o.event.kind = "return" /\ Len(p) > 1)
    BY <1>1, <1>7, <1>8, <1>12, <2>4 DEF Keeps, Moving
  <2> QED BY <2>1, <2>2, <2>3, <2>4
<1> QED BY <1>4, <1>10, <1>11, <1>12 DEF Follows, o, d

(* Programs of bodies that do the same behave the same.                    *)
THEOREM ProgramBehavesAs ==
  ASSUME NEW arity, NEW old, NEW new,
         \A f \in DOMAIN arity : Shaped(old[f], arity) /\ DoesTheSame(arity[f], old[f], new[f])
  PROVE  BehavesAs(arity, old, new)
<1> DEFINE D == DOMAIN arity
           Fits(f, R) == \E K \in Nat : Simulation(R, K, arity[f], old[f], new[f])
           Rel == [f \in D |-> CHOOSE R : Fits(f, R)]
           W == Stacks(D, Rel, old, new)
<1>1. Simulates(D, arity, old, new, Rel)
  <2> SUFFICES ASSUME NEW f \in D
               PROVE  Fits(f, Rel[f])
    BY DEF Simulates
  <2>1. \E R : Fits(f, R)
    BY DEF DoesTheSame
  <2>2. Rel[f] = CHOOSE R : Fits(f, R)
    OBVIOUS
  <2> HIDE DEF Fits
  <2> QED BY <2>1, <2>2
<1> HIDE DEF Rel
<1>2. ASSUME NEW f \in D, NEW args \in [1 .. arity[f] -> Values], NEW heap \in Heaps
      PROVE  \E n : <<<<Called(old, f, args, heap)>>, <<Called(new, f, args, heap)>>, n>> \in W
  <2> DEFINE a == Called(old, f, args, heap)
             c == Called(new, f, args, heap)
             p == <<a>>
             q == <<c>>
  <2>1. PICK n : <<Entered(old[f], args, heap), Entered(new[f], args, heap), n>> \in Rel[f]
    BY <1>1, <1>2, RelatedStep
  <2>2. n \in Nat
    BY <1>1, <1>2, <2>1, RelatedStep
  <2>3. InBody(old[f], Entered(old[f], args, heap))
    BY <1>2, EntersIn DEF Shaped
  <2>4. /\ a \in FramesOf(D, Rel, 1) /\ c \in FramesOf(D, Rel, 2)
        /\ Related(Rel, old, a, c, n)
    BY <1>2, <2>1, <2>3, FramesAre DEF Called, Related
  <2> HIDE DEF a, c
  <2>5. /\ p \in Seq(FramesOf(D, Rel, 1)) /\ Len(p) = 1 /\ Top(p) = a
        /\ q \in Seq(FramesOf(D, Rel, 2)) /\ Len(q) = 1 /\ Top(q) = c
    BY <2>4 DEF Top
  <2>6. 1 .. 1 - 1 = {}
    OBVIOUS
  <2> HIDE DEF p, q
  <2>7. Stacked(Rel, old, new, p, q, n)
    BY <2>4, <2>5, <2>6 DEF Stacked
  <2>8. <<p, q, n>> \in W
    BY <2>2, <2>5, <2>7, StacksAre
  <2> QED BY <2>8 DEF p, q, a, c
<1>3. \A f \in D : Shaped(old[f], arity)
  OBVIOUS
<1>4. ASSUME NEW p, NEW q, NEW n, <<p, q, n>> \in W
      PROVE  n \in Nat /\ Keeps(W, old, new, p, q, n)
  <2>1. n \in Nat
    BY <1>4, StacksAre
  <2>2. Keeps(W, old, new, p, q, n)
    BY <1>1, <1>3, <1>4, StacksStep
  <2> QED BY <2>1, <2>2
<1> HIDE DEF W
<1> QED BY <1>2, <1>4 DEF BehavesAs

(* Behaving the same is not something every program does either.           *)
LEMMA BehaviourTells ==
  ASSUME NEW arity, NEW f \in DOMAIN arity, NEW old, NEW new, NEW v, NEW w, v # w,
         1 \in DOMAIN old[f].blocks[ENTRY].stmts, old[f].blocks[ENTRY].stmts[1] = PrintStmt(Scalar(v)),
         1 \in DOMAIN new[f].blocks[ENTRY].stmts, new[f].blocks[ENTRY].stmts[1] = PrintStmt(Scalar(w))
  PROVE  ~BehavesAs(arity, old, new)
<1> DEFINE args == [i \in 1 .. arity[f] |-> 0]
<1> SUFFICES ASSUME NEW W, NEW n,
                    Keeps(W, old, new, <<Called(old, f, args, <<>>)>>, <<Called(new, f, args, <<>>)>>, n)
             PROVE  FALSE
  <2>1. args \in [1 .. arity[f] -> Values] /\ <<>> \in Heaps
    BY DEF Values, Heaps
  <2> HIDE DEF args
  <2> QED BY <2>1 DEF BehavesAs
<1>1. ASSUME NEW table, NEW z, 1 \in DOMAIN table[f].blocks[ENTRY].stmts,
             table[f].blocks[ENTRY].stmts[1] = PrintStmt(Scalar(z))
      PROVE  Running(table, <<Called(table, f, args, <<>>)>>).event = Printing(z)
  <2> DEFINE a == Entered(table[f], args, <<>>)
             p == <<Called(table, f, args, <<>>)>>
  <2>1. a.block = ENTRY /\ a.next = 1
    BY DEF Entered, At
  <2>2. AtStmt(table[f], a) /\ StmtAt(table[f], a) = PrintStmt(Scalar(z))
    BY <1>1, <2>1 DEF AtStmt, StmtAt, BlockAt
  <2>3. StmtDoes(Types(table[f]), a.mem, PrintStmt(Scalar(z))).event = Printing(z)
    BY DEF StmtDoes, PrintStmt, Scalar, CanEval, ValueOf, Doing
  <2>4. Top(p).of = f /\ Top(p).at = a
    BY DEF Top, Called, Frame
  <2> HIDE DEF a, p
  <2>5. Does(table[f], a).event = Printing(z)
    BY <2>2, <2>3 DEF Does, Moving
  <2>6. Running(table, p).event = Printing(z)
    BY <2>4, <2>5 DEF Running, Moving, Printing, Event
  <2> QED BY <2>6 DEF p
<1>2. /\ Running(old, <<Called(old, f, args, <<>>)>>).event = Printing(v)
      /\ Running(new, <<Called(new, f, args, <<>>)>>).event = Printing(w)
  BY <1>1
<1>3. Printing(v) # Printing(w) /\ Printing(v) # Undefined /\ Printing(v) # Silent
  BY DEF Printing, Undefined, Silent, Event
<1> HIDE DEF args
<1> QED BY <1>2, <1>3 DEF Keeps
=============================================================================
