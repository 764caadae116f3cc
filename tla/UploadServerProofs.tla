------------------------- MODULE UploadServerProofs -------------------------
(***************************************************************************)
(* The counters of the upload server are exact and its memory is bounded,  *)
(* for any number of connections, threads and bytes.                       *)
(*                                                                         *)
(* The argument needs sums over the connections, and so facts about        *)
(* SumFunction.  They are proved here from its definition, by induction    *)
(* over the subsets of a finite set: a set of subsets that contains every  *)
(* subset whose smaller subsets it contains is all of them.                *)
(***************************************************************************)
EXTENDS UploadServer, FiniteSetTheorems, TLAPS

\* Induction over the subsets of a finite set, from the library's theorem that
\* strict inclusion is well founded.
LEMMA SubsetInduction ==
  ASSUME NEW S, IsFiniteSet(S), NEW C,
         \A s \in SUBSET S : (\A x \in s : s \ {x} \in C) => s \in C
  PROVE  SUBSET S \subseteq C
<1> DEFINE T == (SUBSET S) \ C
           R == StrictSubsetOrdering(S)
           F == FiniteSubsetsOf(S)
<1>1. SUFFICES ASSUME T # {} PROVE FALSE
  OBVIOUS
<1>2. IsWellFoundedOn(R, F)
  BY FS_StrictSubsetOrderingWellFounded
<1>3. T \subseteq F
  BY FS_FiniteSubsetsOfFinite
<1>4. PICK s \in T : \A t \in T : ~ (<<t, s>> \in R)
  <2> HIDE DEF T, R, F
  <2> QED BY <1>1, <1>2, <1>3, WFMin
<1>5. \A x \in s : s \ {x} \in C
  <2> SUFFICES ASSUME NEW x \in s, s \ {x} \in T PROVE FALSE
    OBVIOUS
  <2>1. <<s \ {x}, s>> \in R
    BY DEF StrictSubsetOrdering
  <2> QED BY <1>4, <2>1
<1> QED BY <1>5

----------------------------------------------------------------------------
(* Sums. *)

\* g gives the sum of f over every subset of S.
SumTable(g, f, S) ==
  /\ g \in [SUBSET S -> Nat]
  /\ g[{}] = 0
  /\ \A s \in SUBSET S : \A x \in s : g[s] = f[x] + g[s \ {x}]

\* One round of SumFunction's recursion, and the recursion on the subsets with at
\* most as many elements as s.
Round(f, g, u) == IF u = {} THEN 0 ELSE LET x == CHOOSE x \in u : TRUE IN f[x] + g[u \ {x}]

SumUpTo(g, f, S, s) ==
  g = [u \in {v \in SUBSET S : Cardinality(v) <= Cardinality(s)} |-> Round(f, g, u)]

\* The recursion has a solution on the subsets of every size, each a solution of
\* the one before with one more round.
LEMMA SumUpToExists ==
  ASSUME NEW S, IsFiniteSet(S), NEW f
  PROVE  \A s \in SUBSET S : \E g : SumUpTo(g, f, S, s)
<1> DEFINE C == {s \in SUBSET S : \E g : SumUpTo(g, f, S, s)}
<1>1. ASSUME NEW s \in SUBSET S, \A x \in s : s \ {x} \in C PROVE \E g : SumUpTo(g, f, S, s)
  <2>1. CASE s = {}
    <3> DEFINE g == [u \in {v \in SUBSET S : Cardinality(v) <= Cardinality(s)} |-> 0]
    <3>1. \A v \in SUBSET S : Cardinality(v) <= Cardinality(s) => v = {}
      BY <2>1, FS_EmptySet, FS_Subset, FS_CardinalityType
    <3>2. SumUpTo(g, f, S, s)
      BY <3>1 DEF SumUpTo, Round
    <3> QED BY <3>2
  <2>2. CASE s # {}
    <3>1. PICK y \in s : TRUE
      BY <2>2
    <3>2. PICK h : SumUpTo(h, f, S, s \ {y})
      BY <1>1, <3>1
    <3> DEFINE Small == {v \in SUBSET S : Cardinality(v) <= Cardinality(s \ {y})}
               Large == {v \in SUBSET S : Cardinality(v) <= Cardinality(s)}
               g == [u \in Large |-> IF u \in Small THEN h[u] ELSE Round(f, h, u)]
    <3>3. IsFiniteSet(s) /\ Cardinality(s \ {y}) = Cardinality(s) - 1 /\ Cardinality(s) \in Nat
      BY <3>1, FS_Subset, FS_RemoveElement, FS_CardinalityType
    <3>4. Small \subseteq Large /\ {} \in Small
      BY <3>3, FS_EmptySet, FS_Subset, FS_CardinalityType
    <3>5. \A u \in Large : \A x \in u : u \ {x} \in Small
      <4> SUFFICES ASSUME NEW u \in Large, NEW x \in u PROVE u \ {x} \in Small
        OBVIOUS
      <4>1. Cardinality(u \ {x}) = Cardinality(u) - 1 /\ Cardinality(u) \in Nat
        BY FS_Subset, FS_RemoveElement, FS_CardinalityType
      <4> QED BY <4>1, <3>3
    <3>6. \A u \in Small : g[u] = h[u] /\ h[u] = Round(f, h, u)
      BY <3>2, <3>4 DEF SumUpTo
    <3>7. ASSUME NEW u \in Large PROVE g[u] = Round(f, g, u)
      <4>1. g[u] = Round(f, h, u)
        BY <3>6
      <4>2. Round(f, h, u) = Round(f, g, u)
        <5> DEFINE x == CHOOSE x \in u : TRUE
        <5>1. u # {} => x \in u
          OBVIOUS
        <5>2. u # {} => g[u \ {x}] = h[u \ {x}]
          BY <5>1, <3>5, <3>6
        <5> HIDE DEF g
        <5> QED BY <5>2 DEF Round
      <4> QED BY <4>1, <4>2
    <3>8. g = [u \in Large |-> g[u]]
      OBVIOUS
    <3>9. SumUpTo(g, f, S, s)
      <4> HIDE DEF g
      <4> QED BY <3>7, <3>8 DEF SumUpTo
    <3> QED BY <3>9
  <2> QED BY <2>1, <2>2
<1>2. SUBSET S \subseteq C
  <2>1. \A s \in SUBSET S : (\A x \in s : s \ {x} \in C) => s \in C
    BY <1>1
  <2> HIDE DEF C
  <2> QED BY <2>1, SubsetInduction
<1> QED BY <1>2

\* SumFunction is the value at its domain of such a table.
LEMMA SumIsTable ==
  ASSUME NEW S, IsFiniteSet(S), NEW f \in [S -> Nat]
  PROVE  \E g : SumTable(g, f, S) /\ SumFunction(f) = g[S]
<1> DEFINE iter[u \in SUBSET S] == IF u = {} THEN 0 ELSE LET x == CHOOSE x \in u : TRUE IN f[x] + iter[u \ {x}]
<1>1. SumFunction(f) = iter[S]
  BY DEF SumFunction, SumFunctionOnSet, FoldFunctionOnSet, MapThenFoldSet
<1>2. iter = [u \in SUBSET S |-> IF u = {} THEN 0 ELSE LET x == CHOOSE x \in u : TRUE IN f[x] + iter[u \ {x}]]
  <2>1. PICK g : g = [u \in SUBSET S |-> Round(f, g, u)]
    <3>1. {v \in SUBSET S : Cardinality(v) <= Cardinality(S)} = SUBSET S
      BY FS_Subset
    <3>2. \E g : SumUpTo(g, f, S, S)
      BY SumUpToExists
    <3> QED BY <3>1, <3>2 DEF SumUpTo
  <2>2. g = [u \in SUBSET S |-> IF u = {} THEN 0 ELSE LET x == CHOOSE x \in u : TRUE IN f[x] + g[u \ {x}]]
    BY <2>1, Zenon DEF Round
  <2> QED BY <2>2, Zenon DEF iter
<1> HIDE DEF iter
<1>3. \A u \in SUBSET S : iter[u] = Round(f, iter, u)
  BY <1>2 DEF Round
<1> DEFINE P(u) == /\ iter[u] \in Nat
                   /\ \A y \in u : iter[u \ {y}] \in Nat /\ iter[u] = f[y] + iter[u \ {y}]
           C == {u \in SUBSET S : P(u)}
<1>4. ASSUME NEW u \in SUBSET S, \A x \in u : u \ {x} \in C PROVE P(u)
  <2>1. CASE u = {}
    <3>1. iter[u] = 0
      BY <1>3, <2>1 DEF Round
    <3> QED BY <2>1, <3>1
  <2>2. CASE u # {}
    <3>1. PICK x \in u : iter[u] = f[x] + iter[u \ {x}]
      BY <1>3, <2>2 DEF Round
    <3>2. ASSUME NEW y \in u, y # x PROVE iter[u \ {y}] \in Nat /\ iter[u] = f[y] + iter[u \ {y}]
      <4>1. iter[u \ {x}] = f[y] + iter[(u \ {x}) \ {y}]
        BY <1>4, <3>1, <3>2
      <4>2. iter[u \ {y}] = f[x] + iter[(u \ {y}) \ {x}]
        BY <1>4, <3>1, <3>2
      <4>3. (u \ {x}) \ {y} = (u \ {y}) \ {x} /\ iter[(u \ {x}) \ {y}] \in Nat
        BY <1>4, <3>1, <3>2
      <4>4. iter[u \ {y}] \in Nat /\ f[x] \in Nat /\ f[y] \in Nat
        BY <1>4, <3>1
      <4> HIDE DEF C
      <4> QED BY <3>1, <4>1, <4>2, <4>3, <4>4
    <3>3. iter[u \ {x}] \in Nat /\ f[x] \in Nat
      BY <1>4, <3>1
    <3>4. \A y \in u : iter[u \ {y}] \in Nat /\ iter[u] = f[y] + iter[u \ {y}]
      BY <3>1, <3>2, <3>3
    <3> QED BY <3>1, <3>3, <3>4
  <2> QED BY <2>1, <2>2
<1>5. SUBSET S \subseteq C
  <2>1. \A u \in SUBSET S : (\A x \in u : u \ {x} \in C) => u \in C
    BY <1>4
  <2> HIDE DEF C
  <2> QED BY <2>1, SubsetInduction
<1>6. SumTable(iter, f, S)
  BY <1>2, <1>3, <1>5 DEF SumTable, Round
<1> QED BY <1>1, <1>6

\* Where one function is nowhere larger than another, neither is its sum.
LEMMA SumsInOrder ==
  ASSUME NEW S, IsFiniteSet(S), NEW f \in [S -> Nat], NEW h \in [S -> Nat],
         NEW g, NEW k, SumTable(g, f, S), SumTable(k, h, S)
  PROVE  \A s \in SUBSET S : (\A x \in s : f[x] <= h[x]) => g[s] <= k[s]
<1> DEFINE P(s) == (\A x \in s : f[x] <= h[x]) => g[s] <= k[s]
           C == {s \in SUBSET S : P(s)}
<1>1. ASSUME NEW s \in SUBSET S, \A x \in s : s \ {x} \in C, \A x \in s : f[x] <= h[x]
      PROVE  g[s] <= k[s]
  <2>1. CASE s = {}
    BY <2>1 DEF SumTable
  <2>2. CASE s # {}
    <3>1. PICK x \in s : TRUE
      BY <2>2
    <3>2. g[s] = f[x] + g[s \ {x}] /\ k[s] = h[x] + k[s \ {x}]
      BY <3>1 DEF SumTable
    <3>3. g[s \ {x}] <= k[s \ {x}]
      BY <1>1, <3>1
    <3>4. g[s \ {x}] \in Nat /\ k[s \ {x}] \in Nat /\ f[x] \in Nat /\ h[x] \in Nat
      BY <3>1 DEF SumTable
    <3> QED BY <1>1, <3>2, <3>3, <3>4
  <2> QED BY <2>1, <2>2
<1>2. SUBSET S \subseteq C
  <2>1. \A s \in SUBSET S : (\A x \in s : s \ {x} \in C) => s \in C
    BY <1>1
  <2> HIDE DEF C
  <2> QED BY <2>1, SubsetInduction
<1> QED BY <1>2

\* A sum of naturals is one, is at least each of its summands, and is zero when they are.
LEMMA SumType ==
  ASSUME NEW S, IsFiniteSet(S), NEW f \in [S -> Nat]
  PROVE  /\ SumFunction(f) \in Nat
         /\ \A x \in S : f[x] <= SumFunction(f)
         /\ (\A x \in S : f[x] = 0) => SumFunction(f) = 0
<1>1. PICK g : SumTable(g, f, S) /\ SumFunction(f) = g[S]
  BY SumIsTable
<1>2. ASSUME NEW x \in S PROVE f[x] <= SumFunction(f)
  <2>1. g[S \ {x}] \in Nat /\ g[S] = f[x] + g[S \ {x}] /\ f[x] \in Nat
    BY <1>1 DEF SumTable
  <2> QED BY <1>1, <2>1
<1>3. ASSUME \A x \in S : f[x] = 0 PROVE SumFunction(f) = 0
  <2> DEFINE zero == [s \in SUBSET S |-> 0]
  <2>1. SumTable(zero, f, S)
    BY <1>3 DEF SumTable
  <2>2. zero[S] = 0
    OBVIOUS
  <2> HIDE DEF zero
  <2>3. g[S] <= zero[S]
    BY <1>1, <2>1, SumsInOrder
  <2> QED BY <1>1, <2>2, <2>3 DEF SumTable
<1> QED BY <1>1, <1>2, <1>3 DEF SumTable

\* Larger summands give a larger sum.
LEMMA SumMonotone ==
  ASSUME NEW S, IsFiniteSet(S), NEW f \in [S -> Nat], NEW h \in [S -> Nat],
         \A x \in S : f[x] <= h[x]
  PROVE  SumFunction(f) <= SumFunction(h)
<1>1. PICK g : SumTable(g, f, S) /\ SumFunction(f) = g[S]
  BY SumIsTable
<1>2. PICK k : SumTable(k, h, S) /\ SumFunction(h) = k[S]
  BY SumIsTable
<1> QED BY <1>1, <1>2, SumsInOrder

\* Changing one summand changes the sum by as much.
LEMMA SumUpdate ==
  ASSUME NEW S, IsFiniteSet(S), NEW f \in [S -> Nat], NEW x \in S, NEW v \in Nat
  PROVE  SumFunction([f EXCEPT ![x] = v]) = SumFunction(f) - f[x] + v
<1> DEFINE h == [f EXCEPT ![x] = v]
<1>1. h \in [S -> Nat] /\ h[x] = v /\ \A y \in S \ {x} : h[y] = f[y]
  OBVIOUS
<1> HIDE DEF h
<1>2. PICK g : SumTable(g, f, S) /\ SumFunction(f) = g[S]
  BY SumIsTable
<1>3. PICK k : SumTable(k, h, S) /\ SumFunction(h) = k[S]
  BY <1>1, SumIsTable
<1>4. g[S \ {x}] = k[S \ {x}]
  <2>1. \A y \in S \ {x} : f[y] <= h[y] /\ h[y] <= f[y]
    BY <1>1
  <2>2. g[S \ {x}] <= k[S \ {x}]
    BY <1>1, <1>2, <1>3, <2>1, SumsInOrder
  <2>3. k[S \ {x}] <= g[S \ {x}]
    BY <1>1, <1>2, <1>3, <2>1, SumsInOrder
  <2>4. g[S \ {x}] \in Nat /\ k[S \ {x}] \in Nat
    BY <1>2, <1>3 DEF SumTable
  <2> QED BY <2>2, <2>3, <2>4
<1>5. g[S] = f[x] + g[S \ {x}] /\ k[S] = v + k[S \ {x}]
  BY <1>1, <1>2, <1>3 DEF SumTable
<1>6. g[S \ {x}] \in Nat /\ f[x] \in Nat
  BY <1>2 DEF SumTable
<1>7. SumFunction(h) = SumFunction(f) - f[x] + v
  BY <1>2, <1>3, <1>4, <1>5, <1>6
<1> QED BY <1>7 DEF h

----------------------------------------------------------------------------
(* The inductive invariant. *)

\* A handler has reserved its buffer from admission to its answer; before, and
\* once a connection is closed while the server runs, it has none.
HandlerInv ==
  \A r \in Requests :
    /\ reserved[r] = IF pc[r] \in {"body", "pipeline"} THEN length[r] ELSE 0
    /\ pc[r] \in {"body", "pipeline"} => length[r] > 0
    /\ pc[r] = "header" => length[r] = 0
    /\ pc[r] = "closed" /\ ~closing => length[r] = 0

\* Only a handler that waits for its call has one; but a call that runs may
\* outlive its handler once the server closes.
CallInv ==
  \A r \in Requests :
    /\ thread[r] = "queued" => pc[r] = "pipeline"
    /\ thread[r] \in Running /\ ~closing => pc[r] = "pipeline"
    /\ pc[r] \in {"header", "body"} => thread[r] = "none"
    /\ pc[r] = "closed" /\ ~closing => thread[r] = "none"
    /\ pc[r] = "answer" /\ code[r] = "ok" => thread[r] \in {"none", "ended"}

\* A call finds its buffer complete or wiped, and while the server runs nobody
\* wipes one that a call has still to read.
BufferInv ==
  \A r \in Requests :
    /\ thread[r] \in {"queued"} \cup Running => body[r] \in {"sent", "zeros"}
    /\ thread[r] \in {"queued", "gate", "store"} /\ ~closing => body[r] = "sent"
    /\ (thread[r] = "commit" \/ outcome[r] = "ok") /\ ~closing => stored[r] = "sent"

ServerInv ==
  /\ TypeOK /\ HandlerInv /\ CallInv /\ BufferInv
  /\ CountersExact /\ MemoryBounded /\ AcknowledgedIsStored
----------------------------------------------------------------------------
(* The counters. *)

\* The size of a set that one element has joined, left, or neither.
LEMMA CountChange ==
  ASSUME NEW S, IsFiniteSet(S), NEW x, NEW A \in SUBSET S, NEW B \in SUBSET S, A \ {x} = B \ {x}
  PROVE  /\ Cardinality(A) \in Nat
         /\ Cardinality(B) = Cardinality(A) - (IF x \in A THEN 1 ELSE 0) + (IF x \in B THEN 1 ELSE 0)
<1>1. IsFiniteSet(A) /\ IsFiniteSet(B) /\ Cardinality(A) \in Nat /\ Cardinality(B) \in Nat
  BY FS_Subset, FS_CardinalityType
<1>2. Cardinality(A \ {x}) = IF x \in A THEN Cardinality(A) - 1 ELSE Cardinality(A)
  BY <1>1, FS_RemoveElement
<1>3. Cardinality(B \ {x}) = IF x \in B THEN Cardinality(B) - 1 ELSE Cardinality(B)
  BY <1>1, FS_RemoveElement
<1> QED BY <1>1, <1>2, <1>3

\* The counters follow what one handler reserves and releases.
LEMMA ReservationCounted ==
  ASSUME TypeOK, CountersExact, NEW r \in Requests, NEW n \in Lengths \cup {0},
         reserved' = [reserved EXCEPT ![r] = n],
         waiting' = waiting - (IF reserved[r] > 0 THEN 1 ELSE 0) + (IF n > 0 THEN 1 ELSE 0),
         buffered' = buffered - reserved[r] + n
  PROVE  /\ waiting' = Cardinality({q \in Requests : reserved'[q] > 0}) /\ waiting' \in Nat
         /\ buffered' = SumFunction(reserved') /\ buffered' \in Nat
<1> DEFINE A == {q \in Requests : reserved[q] > 0}
           B == {q \in Requests : reserved'[q] > 0}
<1>1. IsFiniteSet(Requests) /\ reserved \in [Requests -> Nat] /\ n \in Nat
  <2>1. Lengths \cup {0} \subseteq Nat /\ IsFiniteSet(Requests)
    BY ServerAssumption
  <2> QED BY <2>1 DEF TypeOK
<1>2. A \ {r} = B \ {r} /\ (r \in A <=> reserved[r] > 0) /\ (r \in B <=> n > 0)
  <2>1. reserved'[r] = n /\ \A q \in Requests \ {r} : reserved'[q] = reserved[q]
    BY <1>1
  <2> QED BY <2>1
<1>3. Cardinality(B) = waiting'
  <2>1. A \in SUBSET Requests /\ B \in SUBSET Requests
    OBVIOUS
  <2> HIDE DEF A, B
  <2>2. Cardinality(B) = Cardinality(A) - (IF r \in A THEN 1 ELSE 0) + (IF r \in B THEN 1 ELSE 0)
    BY <1>1, <1>2, <2>1, CountChange
  <2> QED BY <1>2, <2>2 DEF CountersExact, A
<1>4. Cardinality(B) \in Nat
  BY <1>1, FS_Subset, FS_CardinalityType
<1>5. SumFunction(reserved') = buffered'
  BY <1>1, SumUpdate DEF CountersExact
<1>6. SumFunction(reserved') \in Nat
  <2>1. reserved' \in [Requests -> Nat]
    BY <1>1
  <2> QED BY <1>1, <2>1, SumType
<1> QED BY <1>3, <1>4, <1>5, <1>6

\* active follows what one handler does.
LEMMA ActivityCounted ==
  ASSUME TypeOK, CountersExact, NEW r \in Requests, NEW at, pc' = [pc EXCEPT ![r] = at],
         active' = active - (IF pc[r] = "pipeline" THEN 1 ELSE 0) + (IF at = "pipeline" THEN 1 ELSE 0)
  PROVE  active' = Cardinality({q \in Requests : pc'[q] = "pipeline"}) /\ active' \in Nat
<1> DEFINE A == {q \in Requests : pc[q] = "pipeline"}
           B == {q \in Requests : pc'[q] = "pipeline"}
<1>1. IsFiniteSet(Requests) /\ A \in SUBSET Requests /\ B \in SUBSET Requests
  BY ServerAssumption
<1>2. A \ {r} = B \ {r} /\ (r \in A <=> pc[r] = "pipeline") /\ (r \in B <=> at = "pipeline")
  BY DEF TypeOK
<1>3. Cardinality(B) = active'
  <2> HIDE DEF A, B
  <2>1. Cardinality(B) = Cardinality(A) - (IF r \in A THEN 1 ELSE 0) + (IF r \in B THEN 1 ELSE 0)
    BY <1>1, <1>2, CountChange
  <2> QED BY <1>2, <2>1 DEF CountersExact, A
<1>4. Cardinality(B) \in Nat
  <2> HIDE DEF B
  <2> QED BY <1>1, FS_Subset, FS_CardinalityType
<1> QED BY <1>3, <1>4

----------------------------------------------------------------------------
(* The handlers and calls, one action at a time. *)

\* TypeOK without the ranges of the counters, which follow from their exactness.
StateType ==
  /\ closing \in BOOLEAN
  /\ pc \in [Requests -> {"closed", "header", "body", "pipeline", "answer"}]
  /\ code \in [Requests -> {"none", "ok", "error"}]
  /\ length \in [Requests -> Lengths \cup {0}]
  /\ reserved \in [Requests -> Lengths \cup {0}]
  /\ body \in [Requests -> {"none", "partial", "sent", "zeros"}]
  /\ thread \in [Requests -> {"none", "queued", "ended"} \cup Running]
  /\ outcome \in [Requests -> {"none", "ok", "error"}]
  /\ stored \in [Requests -> {"none", "sent", "zeros"}]
  /\ queue \in Seq(Requests)

LocalInv == StateType /\ HandlerInv /\ CallInv /\ BufferInv /\ AcknowledgedIsStored

\* The handler's ways out before its upload is complete.
EndsEarly(r) ==
  /\ ~closing
  /\ \/ pc[r] = "header" /\ \E c \in {"ok", "error"} : Finish(r, c)
     \/ pc[r] = "body" /\ Finish(r, "error")
  /\ UNCHANGED <<calls, active>>

LEMMA HandlerSteps ==
  ASSUME NEW r \in Requests, Handle(r)
  PROVE  \/ EndsEarly(r) \/ Connect(r) \/ \E n \in Lengths : Admit(r, n)
         \/ Dispatch(r) \/ Resume(r) \/ Cancel(r) \/ Close(r)
BY DEF Handle, EndsEarly, AnswerHeader, HeaderTimeout, Refuse, BodyCut, BodyTimeout, At

\* A handler that ends early leaves no call behind.
LEMMA EndsEarlyLocal ==
  ASSUME LocalInv, NEW r \in Requests, EndsEarly(r)
  PROVE  LocalInv'
<1> USE ServerAssumption DEF LocalInv, StateType, Running
<1>1. StateType'
  BY DEF EndsEarly, Finish, calls
<1>2. HandlerInv'
  BY DEF HandlerInv, EndsEarly, Finish, calls
<1>3. CallInv'
  BY DEF HandlerInv, CallInv, EndsEarly, Finish, calls
<1>4. BufferInv'
  BY DEF CallInv, BufferInv, EndsEarly, Finish, calls
<1>5. AcknowledgedIsStored'
  BY DEF HandlerInv, CallInv, BufferInv, AcknowledgedIsStored, EndsEarly, Finish, calls
<1> QED BY <1>1, <1>2, <1>3, <1>4, <1>5

\* A new connection finds nothing of the one before.
LEMMA ConnectLocal ==
  ASSUME LocalInv, NEW r \in Requests, Connect(r)
  PROVE  LocalInv'
<1> USE ServerAssumption DEF LocalInv, StateType, Running
<1>1. StateType'
  BY DEF Connect, At, calls, counters
<1>2. HandlerInv'
  BY DEF HandlerInv, Connect, At, calls, counters
<1>3. CallInv'
  BY DEF HandlerInv, CallInv, Connect, At, calls, counters
<1>4. BufferInv'
  BY DEF CallInv, BufferInv, Connect, At, calls, counters
<1>5. AcknowledgedIsStored'
  BY DEF HandlerInv, CallInv, BufferInv, AcknowledgedIsStored, Connect, At, calls, counters
<1> QED BY <1>1, <1>2, <1>3, <1>4, <1>5

\* An admitted upload has reserved the length of its buffer.
LEMMA AdmitLocal ==
  ASSUME LocalInv, NEW r \in Requests, NEW n \in Lengths, Admit(r, n)
  PROVE  LocalInv'
<1> USE ServerAssumption DEF LocalInv, StateType, Running
<1>1. StateType'
  BY DEF Admit, At, calls
<1>2. HandlerInv'
  BY DEF HandlerInv, Admit, At, calls
<1>3. CallInv'
  BY DEF HandlerInv, CallInv, Admit, At, calls
<1>4. BufferInv'
  BY DEF CallInv, BufferInv, Admit, At, calls
<1>5. AcknowledgedIsStored'
  BY DEF HandlerInv, CallInv, BufferInv, AcknowledgedIsStored, Admit, At, calls
<1> QED BY <1>1, <1>2, <1>3, <1>4, <1>5

\* A dispatched upload is complete.
LEMMA DispatchLocal ==
  ASSUME LocalInv, NEW r \in Requests, Dispatch(r)
  PROVE  LocalInv'
<1> USE ServerAssumption DEF LocalInv, StateType, Running
<1>1. StateType'
  BY DEF Dispatch, At
<1>2. HandlerInv'
  BY DEF HandlerInv, Dispatch, At
<1>3. CallInv'
  BY DEF HandlerInv, CallInv, Dispatch, At
<1>4. BufferInv'
  BY DEF CallInv, BufferInv, Dispatch, At
<1>5. AcknowledgedIsStored'
  BY DEF HandlerInv, CallInv, BufferInv, AcknowledgedIsStored, Dispatch, At
<1> QED BY <1>1, <1>2, <1>3, <1>4, <1>5

\* A handler resumes when its call has ended, and answers 200 only when the document is stored.
LEMMA ResumeLocal ==
  ASSUME LocalInv, NEW r \in Requests, Resume(r)
  PROVE  LocalInv'
<1> USE ServerAssumption DEF LocalInv, StateType, Running
<1>1. StateType'
  BY DEF Resume, Finish, At, calls
<1>2. HandlerInv'
  BY DEF HandlerInv, Resume, Finish, At, calls
<1>3. CallInv'
  BY DEF HandlerInv, CallInv, Resume, Finish, At, calls
<1>4. BufferInv'
  BY DEF CallInv, BufferInv, Resume, Finish, At, calls
<1>5. AcknowledgedIsStored'
  BY DEF HandlerInv, CallInv, BufferInv, AcknowledgedIsStored, Resume, Finish, At, calls
<1> QED BY <1>1, <1>2, <1>3, <1>4, <1>5

\* A cancelled handler leaves at most a call that already runs.
LEMMA CancelLocal ==
  ASSUME LocalInv, NEW r \in Requests, Cancel(r)
  PROVE  LocalInv'
<1> USE ServerAssumption DEF LocalInv, StateType, Running
<1>1. StateType'
  BY DEF Cancel, Finish
<1>2. HandlerInv'
  BY DEF HandlerInv, Cancel, Finish
<1>3. CallInv'
  BY DEF HandlerInv, CallInv, Cancel, Finish
<1>4. BufferInv'
  BY DEF CallInv, BufferInv, Cancel, Finish
<1>5. AcknowledgedIsStored'
  BY DEF HandlerInv, CallInv, BufferInv, AcknowledgedIsStored, Cancel, Finish
<1> QED BY <1>1, <1>2, <1>3, <1>4, <1>5

\* A closed connection keeps its buffer only for a call that outlives it.
LEMMA CloseLocal ==
  ASSUME LocalInv, NEW r \in Requests, Close(r)
  PROVE  LocalInv'
<1> USE ServerAssumption DEF LocalInv, StateType, Running
<1>1. StateType'
  <2>1. CASE thread[r] \in Running
    BY <2>1 DEF Close, counters
  <2>2. CASE thread[r] \notin Running
    BY <2>2 DEF Close, counters
  <2> QED BY <2>1, <2>2
<1>2. HandlerInv'
  <2>1. CASE thread[r] \in Running
    BY <2>1 DEF CallInv, HandlerInv, Close, counters
  <2>2. CASE thread[r] \notin Running
    BY <2>2 DEF HandlerInv, Close, counters
  <2> QED BY <2>1, <2>2
<1>3. CallInv'
  BY DEF HandlerInv, CallInv, Close, counters
<1>4. BufferInv'
  BY DEF CallInv, BufferInv, Close, counters
<1>5. AcknowledgedIsStored'
  BY DEF HandlerInv, CallInv, BufferInv, AcknowledgedIsStored, Close, counters
<1> QED BY <1>1, <1>2, <1>3, <1>4, <1>5

\* The gate reads a buffer nobody has wiped.
LEMMA GateLocal ==
  ASSUME LocalInv, NEW r \in Requests, Gate(r)
  PROVE  LocalInv'
<1> USE ServerAssumption DEF LocalInv, StateType, Running
<1>1. StateType'
  BY DEF Gate, handler, counters
<1>2. HandlerInv'
  BY DEF HandlerInv, Gate, handler, counters
<1>3. CallInv'
  BY DEF HandlerInv, CallInv, Gate, handler, counters
<1>4. BufferInv'
  BY DEF CallInv, BufferInv, Gate, handler, counters
<1>5. AcknowledgedIsStored'
  BY DEF HandlerInv, CallInv, BufferInv, AcknowledgedIsStored, Gate, handler, counters
<1> QED BY <1>1, <1>2, <1>3, <1>4, <1>5

\* A failed gate ends the call with an error.
LEMMA GateFailsLocal ==
  ASSUME LocalInv, NEW r \in Requests, GateFails(r)
  PROVE  LocalInv'
<1> USE ServerAssumption DEF LocalInv, StateType, Running
<1>1. StateType'
  BY DEF GateFails, EndCall, handler, counters
<1>2. HandlerInv'
  BY DEF HandlerInv, GateFails, EndCall, handler, counters
<1>3. CallInv'
  BY DEF HandlerInv, CallInv, GateFails, EndCall, handler, counters
<1>4. BufferInv'
  BY DEF CallInv, BufferInv, GateFails, EndCall, handler, counters
<1>5. AcknowledgedIsStored'
  BY DEF HandlerInv, CallInv, BufferInv, AcknowledgedIsStored, GateFails, EndCall, handler, counters
<1> QED BY <1>1, <1>2, <1>3, <1>4, <1>5

\* While the server runs, what is stored is what was sent.
LEMMA StoreLocal ==
  ASSUME LocalInv, NEW r \in Requests, Store(r)
  PROVE  LocalInv'
<1> USE ServerAssumption DEF LocalInv, StateType, Running
<1>1. StateType'
  BY DEF BufferInv, Store, handler, counters
<1>2. HandlerInv'
  BY DEF HandlerInv, Store, handler, counters
<1>3. CallInv'
  BY DEF HandlerInv, CallInv, Store, handler, counters
<1>4. BufferInv'
  BY DEF CallInv, BufferInv, Store, handler, counters
<1>5. AcknowledgedIsStored'
  BY DEF HandlerInv, CallInv, BufferInv, AcknowledgedIsStored, Store, handler, counters
<1> QED BY <1>1, <1>2, <1>3, <1>4, <1>5

\* A call ends well only after it has stored.
LEMMA CompleteLocal ==
  ASSUME LocalInv, NEW r \in Requests, Complete(r)
  PROVE  LocalInv'
<1> USE ServerAssumption DEF LocalInv, StateType, Running
<1>1. StateType'
  BY DEF Complete, EndCall, handler, counters
<1>2. HandlerInv'
  BY DEF HandlerInv, Complete, EndCall, handler, counters
<1>3. CallInv'
  BY DEF HandlerInv, CallInv, Complete, EndCall, handler, counters
<1>4. BufferInv'
  BY DEF CallInv, BufferInv, Complete, EndCall, handler, counters
<1>5. AcknowledgedIsStored'
  BY DEF HandlerInv, CallInv, BufferInv, AcknowledgedIsStored, Complete, EndCall, handler, counters
<1> QED BY <1>1, <1>2, <1>3, <1>4, <1>5

\* A thread takes a queued call, whose handler waits for it.
LEMMA StartCallLocal ==
  ASSUME LocalInv, StartCall
  PROVE  LocalInv'
<1> USE ServerAssumption DEF LocalInv, StateType, Running
<1> DEFINE q == Head(queue)
<1>1. q \in Requests /\ Tail(queue) \in Seq(Requests)
  BY DEF StartCall
<1>2. thread' = [thread EXCEPT ![q] = IF thread[q] = "queued" THEN "gate" ELSE thread[q]]
  BY <1>1 DEF StartCall
<1>3. queue' = Tail(queue) /\ UNCHANGED <<handler, body, outcome, stored>>
  BY DEF StartCall
<1> HIDE DEF q
<1>4. StateType'
  BY <1>1, <1>2, <1>3 DEF handler, counters
<1>5. HandlerInv'
  BY <1>3 DEF HandlerInv, handler, counters
<1>6. CallInv'
  BY <1>1, <1>2, <1>3 DEF CallInv, handler, counters
<1>7. BufferInv'
  BY <1>1, <1>2, <1>3 DEF BufferInv, handler, counters
<1>8. AcknowledgedIsStored'
  BY <1>3 DEF AcknowledgedIsStored, handler, counters
<1> QED BY <1>4, <1>5, <1>6, <1>7, <1>8

\* What holds while the server runs is not asked for afterwards.
LEMMA ShutdownLocal ==
  ASSUME LocalInv, Shutdown
  PROVE  LocalInv'
<1> USE DEF LocalInv, Shutdown, calls, counters
<1>1. StateType'
  BY DEF StateType
<1>2. HandlerInv'
  BY DEF HandlerInv
<1>3. CallInv'
  BY DEF CallInv
<1>4. BufferInv'
  BY DEF BufferInv
<1>5. AcknowledgedIsStored'
  BY DEF AcknowledgedIsStored
<1> QED BY <1>1, <1>2, <1>3, <1>4, <1>5

\* No action of a handler, a pool thread or the operator breaks the parts of the
\* invariant that speak of one connection at a time.
LEMMA LocalStep == ASSUME LocalInv, [Next]_vars PROVE LocalInv'
<1>1. ASSUME NEW r \in Requests, Handle(r) PROVE LocalInv'
  BY <1>1, HandlerSteps, EndsEarlyLocal, ConnectLocal, AdmitLocal, DispatchLocal, ResumeLocal,
     CancelLocal, CloseLocal
<1>2. ASSUME NEW r \in Requests, Execute(r) PROVE LocalInv'
  BY <1>2, GateLocal, GateFailsLocal, StoreLocal, CompleteLocal DEF Execute
<1>3. CASE UNCHANGED vars
  <2> USE <1>3 DEF LocalInv, vars, calls, counters
  <2>1. StateType' /\ HandlerInv' /\ CallInv'
    BY DEF StateType, HandlerInv, CallInv
  <2>2. BufferInv' /\ AcknowledgedIsStored'
    BY DEF BufferInv, AcknowledgedIsStored
  <2> QED BY <2>1, <2>2
<1> QED BY <1>1, <1>2, <1>3, StartCallLocal, ShutdownLocal DEF Next

----------------------------------------------------------------------------
(* The counters and the memory. *)

CounterRanges == waiting \in 0..MaxPending /\ active \in 0..MaxPending /\ buffered \in 0..BufferLimit

\* Exact counters stay in their ranges when none is raised past its limit, since
\* no more calls are made than reservations held.
LEMMA RangesFollow ==
  ASSUME StateType', HandlerInv', CountersExact', waiting' \in Nat, active' \in Nat, buffered' \in Nat,
         waiting' <= MaxPending, buffered' <= BufferLimit
  PROVE  CounterRanges'
<1> DEFINE A == {q \in Requests : pc'[q] = "pipeline"}
           B == {q \in Requests : reserved'[q] > 0}
<1>1. MaxPending \in Nat /\ BufferLimit \in Nat /\ Lengths \cup {0} \subseteq Nat
  BY ServerAssumption
<1>2. A \subseteq B
  BY <1>1 DEF StateType, HandlerInv
<1>3. B \subseteq Requests /\ IsFiniteSet(Requests)
  BY ServerAssumption
<1>4. Cardinality(A) <= Cardinality(B)
  <2> HIDE DEF A, B
  <2> QED BY <1>2, <1>3, FS_Subset
<1>5. active' <= waiting'
  BY <1>4 DEF CountersExact
<1> QED BY <1>1, <1>5 DEF CounterRanges

\* Lengths and limits are numbers.
LEMMA LengthsAreNatural ==
  /\ MaxPending \in Nat /\ BufferLimit \in Nat /\ Lengths \cup {0} \subseteq Nat
  /\ TypeOK => reserved \in [Requests -> Nat] /\ length \in [Requests -> Nat]
<1>1. MaxPending \in Nat /\ BufferLimit \in Nat /\ Lengths \cup {0} \subseteq Nat
  BY ServerAssumption
<1> QED BY <1>1 DEF TypeOK

\* An action that neither reserves nor releases and neither makes nor ends a call.
LEMMA CountersKept ==
  ASSUME CountersExact, CounterRanges, UNCHANGED <<reserved, counters>>,
         \A r \in Requests : pc'[r] = "pipeline" <=> pc[r] = "pipeline"
  PROVE  CountersExact' /\ CounterRanges'
<1>1. {r \in Requests : pc'[r] = "pipeline"} = {r \in Requests : pc[r] = "pipeline"}
  OBVIOUS
<1> QED BY <1>1 DEF CountersExact, CounterRanges, counters

\* Every way out of a handler gives its reservation back.
LEMMA FinishCounted ==
  ASSUME TypeOK, LocalInv, LocalInv', CountersExact, CounterRanges, NEW r \in Requests, NEW c, Finish(r, c),
         active' = active - (IF pc[r] = "pipeline" THEN 1 ELSE 0)
  PROVE  CountersExact' /\ CounterRanges'
<1>1. /\ waiting' = Cardinality({q \in Requests : reserved'[q] > 0}) /\ waiting' \in Nat
      /\ buffered' = SumFunction(reserved') /\ buffered' \in Nat
  <2>1. waiting \in Int /\ buffered \in Int /\ reserved[r] \in Int
    BY LengthsAreNatural DEF TypeOK
  <2>2. waiting' = waiting - (IF reserved[r] > 0 THEN 1 ELSE 0) + (IF 0 > 0 THEN 1 ELSE 0)
    BY <2>1 DEF Finish
  <2>3. buffered' = buffered - reserved[r] + 0
    BY <2>1 DEF Finish
  <2>4. reserved' = [reserved EXCEPT ![r] = 0]
    BY DEF Finish
  <2> QED BY <2>2, <2>3, <2>4, ReservationCounted
<1>2. active' = Cardinality({q \in Requests : pc'[q] = "pipeline"}) /\ active' \in Nat
  <2>1. pc' = [pc EXCEPT ![r] = "answer"]
    BY DEF Finish
  <2>2. active' = active - (IF pc[r] = "pipeline" THEN 1 ELSE 0) + (IF "answer" = "pipeline" THEN 1 ELSE 0)
    BY DEF CounterRanges
  <2> QED BY <2>1, <2>2, ActivityCounted
<1>3. CountersExact'
  BY <1>1, <1>2 DEF CountersExact
<1>4. waiting' <= MaxPending /\ buffered' <= BufferLimit
  <2>1. MaxPending \in Nat /\ BufferLimit \in Nat /\ reserved[r] \in Nat
    BY LengthsAreNatural DEF TypeOK
  <2> QED BY <2>1 DEF Finish, CounterRanges
<1>5. StateType' /\ HandlerInv'
  BY DEF LocalInv
<1> QED BY <1>1, <1>2, <1>3, <1>4, <1>5, RangesFollow

\* An admission raises waiting and buffered, and within their limits.
LEMMA AdmitCounted ==
  ASSUME TypeOK, LocalInv, LocalInv', CountersExact, CounterRanges,
         NEW r \in Requests, NEW n \in Lengths, Admit(r, n)
  PROVE  CountersExact' /\ CounterRanges'
<1>1. n \in Nat /\ n > 0 /\ reserved[r] = 0
  BY LengthsAreNatural DEF Admit, At, LocalInv, HandlerInv
<1>2. /\ waiting' = Cardinality({q \in Requests : reserved'[q] > 0}) /\ waiting' \in Nat
      /\ buffered' = SumFunction(reserved') /\ buffered' \in Nat
  <2>1. waiting' = waiting - (IF reserved[r] > 0 THEN 1 ELSE 0) + (IF n > 0 THEN 1 ELSE 0)
    BY <1>1 DEF Admit, CounterRanges
  <2>2. buffered' = buffered - reserved[r] + n
    BY <1>1 DEF Admit, CounterRanges
  <2>3. reserved' = [reserved EXCEPT ![r] = n]
    BY DEF Admit
  <2> QED BY <2>1, <2>2, <2>3, ReservationCounted
<1>3. {q \in Requests : pc'[q] = "pipeline"} = {q \in Requests : pc[q] = "pipeline"}
  BY DEF Admit, At, TypeOK
<1>4. CountersExact'
  BY <1>2, <1>3 DEF CountersExact, Admit
<1>5. active' \in Nat /\ waiting' <= MaxPending /\ buffered' <= BufferLimit
  BY <1>1, LengthsAreNatural DEF Admit, CounterRanges
<1>6. StateType' /\ HandlerInv'
  BY DEF LocalInv
<1> QED BY <1>2, <1>4, <1>5, <1>6, RangesFollow

\* A dispatch raises active, of a handler whose reservation is counted already.
LEMMA DispatchCounted ==
  ASSUME TypeOK, LocalInv, LocalInv', CountersExact, CounterRanges, NEW r \in Requests, Dispatch(r)
  PROVE  CountersExact' /\ CounterRanges'
<1>1. active' = Cardinality({q \in Requests : pc'[q] = "pipeline"}) /\ active' \in Nat
  <2>1. pc' = [pc EXCEPT ![r] = "pipeline"]
    BY DEF Dispatch
  <2>2. active' = active - (IF pc[r] = "pipeline" THEN 1 ELSE 0) + (IF "pipeline" = "pipeline" THEN 1 ELSE 0)
    BY DEF Dispatch, At, CounterRanges
  <2> QED BY <2>1, <2>2, ActivityCounted
<1>2. CountersExact'
  BY <1>1 DEF CountersExact, Dispatch
<1>3. waiting' \in Nat /\ buffered' \in Nat /\ waiting' <= MaxPending /\ buffered' <= BufferLimit
  BY LengthsAreNatural DEF Dispatch, CounterRanges
<1>4. StateType' /\ HandlerInv'
  BY DEF LocalInv
<1> QED BY <1>1, <1>2, <1>3, <1>4, RangesFollow

\* Every action, whichever way a handler ends, keeps the counters equal to what they
\* count and within the limits of Admit.
LEMMA CountersStep ==
  ASSUME TypeOK, LocalInv, LocalInv', CountersExact, CounterRanges, [Next]_vars
  PROVE  CountersExact' /\ CounterRanges'
<1>1. ASSUME NEW r \in Requests, EndsEarly(r) PROVE CountersExact' /\ CounterRanges'
  <2>1. active' = active - (IF pc[r] = "pipeline" THEN 1 ELSE 0)
    BY <1>1 DEF EndsEarly, CounterRanges
  <2>2. \E c : Finish(r, c)
    BY <1>1 DEF EndsEarly
  <2> QED BY <2>1, <2>2, FinishCounted
<1>2. ASSUME NEW r \in Requests, Resume(r) \/ Cancel(r) PROVE CountersExact' /\ CounterRanges'
  <2>1. active' = active - (IF pc[r] = "pipeline" THEN 1 ELSE 0)
    BY <1>2 DEF Resume, Cancel, At, CounterRanges
  <2>2. \E c : Finish(r, c)
    BY <1>2 DEF Resume, Cancel
  <2> QED BY <2>1, <2>2, FinishCounted
<1>3. ASSUME NEW r \in Requests, Connect(r) \/ Close(r) PROVE CountersExact' /\ CounterRanges'
  <2>1. UNCHANGED <<reserved, counters>>
    BY <1>3 DEF Connect, Close
  <2>2. \A q \in Requests : pc'[q] = "pipeline" <=> pc[q] = "pipeline"
    BY <1>3 DEF Connect, Close, At, TypeOK
  <2> QED BY <2>1, <2>2, CountersKept
<1>4. ASSUME UNCHANGED handler \/ Shutdown \/ UNCHANGED vars PROVE CountersExact' /\ CounterRanges'
  <2>1. UNCHANGED <<reserved, counters>> /\ UNCHANGED pc
    BY <1>4 DEF Shutdown, handler, vars
  <2> QED BY <2>1, CountersKept
<1>5. ASSUME NEW r \in Requests, Execute(r) PROVE UNCHANGED handler
  BY <1>5 DEF Execute, Gate, GateFails, Store, Complete
<1>6. StartCall => UNCHANGED handler
  BY DEF StartCall
<1>7. ASSUME NEW r \in Requests, Handle(r) PROVE CountersExact' /\ CounterRanges'
  BY <1>7, <1>1, <1>2, <1>3, HandlerSteps, AdmitCounted, DispatchCounted
<1> QED BY <1>4, <1>5, <1>6, <1>7 DEF Next

\* The buffers that are alive.
Held == [r \in Requests |-> IF Alive(r) THEN length[r] ELSE 0]

\* Once the server closes nothing is admitted, and buffers only go.
LEMMA ClosingHoldsNoMore ==
  ASSUME TypeOK, LocalInv, [Next]_vars, closing'
  PROVE  \A r \in Requests : Held'[r] <= Held[r]
<1> SUFFICES ASSUME NEW q \in Requests
             PROVE  /\ Alive(q)' => Alive(q)
                    /\ length'[q] \in {length[q], 0}
  BY LengthsAreNatural DEF Held, TypeOK
<1> USE DEF Alive, Running
<1>1. ASSUME NEW r \in Requests, Handle(r) PROVE (Alive(q)' => Alive(q)) /\ length'[q] \in {length[q], 0}
  <2>1. closing
    BY <1>1, HandlerSteps DEF EndsEarly, Finish, Connect, Admit, Dispatch, Resume, Cancel, Close, At
  <2>2. Cancel(r) \/ Close(r)
    BY <1>1, <2>1, HandlerSteps DEF EndsEarly, Connect, Admit, Dispatch, Resume, At
  <2>3. CASE Cancel(r)
    BY <2>3 DEF Cancel, Finish, TypeOK
  <2>4. CASE Close(r)
    BY <2>4 DEF Close, TypeOK
  <2> QED BY <2>2, <2>3, <2>4
<1>2. ASSUME NEW r \in Requests, Execute(r) PROVE (Alive(q)' => Alive(q)) /\ length'[q] \in {length[q], 0}
  BY <1>2 DEF Execute, Gate, GateFails, Store, Complete, EndCall, handler, TypeOK
<1>3. ASSUME StartCall PROVE (Alive(q)' => Alive(q)) /\ length'[q] \in {length[q], 0}
  <2>1. Head(queue) \in Requests
    BY <1>3 DEF StartCall, TypeOK
  <2>2. thread[q] = "queued" => pc[q] = "pipeline"
    BY DEF LocalInv, CallInv
  <2> QED BY <1>3, <2>1, <2>2 DEF StartCall, handler, TypeOK
<1>4. ASSUME Shutdown \/ UNCHANGED vars PROVE (Alive(q)' => Alive(q)) /\ length'[q] \in {length[q], 0}
  BY <1>4 DEF Shutdown, vars, calls
<1> QED BY <1>1, <1>2, <1>3, <1>4 DEF Next

\* While the server runs, what is alive is reserved.
LEMMA MemoryStep ==
  ASSUME TypeOK, TypeOK', LocalInv, LocalInv', CountersExact', MemoryBounded, [Next]_vars
  PROVE  MemoryBounded'
<1>1. Held \in [Requests -> Nat] /\ Held' \in [Requests -> Nat] /\ reserved' \in [Requests -> Nat]
  <2>1. length \in [Requests -> Nat] /\ length' \in [Requests -> Nat] /\ reserved' \in [Requests -> Nat]
    BY LengthsAreNatural DEF TypeOK
  <2> QED BY <2>1 DEF Held
<1>2. IsFiniteSet(Requests) /\ BufferLimit \in Nat
  BY ServerAssumption
<1>3. SumFunction(Held) \in Nat /\ SumFunction(Held') \in Nat /\ SumFunction(reserved') \in Nat
  BY <1>1, <1>2, SumType
<1>4. CASE closing'
  <2>1. SumFunction(Held') <= SumFunction(Held)
    BY <1>1, <1>2, <1>4, ClosingHoldsNoMore, SumMonotone
  <2> QED BY <1>2, <1>3, <2>1 DEF MemoryBounded, Held
<1>5. CASE ~closing'
  <2>1. \A r \in Requests : Held'[r] <= reserved'[r]
    BY <1>5, LengthsAreNatural DEF Held, Alive, Running, LocalInv, HandlerInv, CallInv, TypeOK
  <2>2. SumFunction(Held') <= SumFunction(reserved')
    BY <1>1, <1>2, <2>1, SumMonotone
  <2>3. SumFunction(reserved') <= BufferLimit
    BY DEF CountersExact, TypeOK
  <2> QED BY <1>2, <1>3, <2>2, <2>3 DEF MemoryBounded, Held
<1> QED BY <1>4, <1>5

----------------------------------------------------------------------------
\* A server that has just started: no connection, no reservation, no call.
LEMMA ServerInvInit == Init => ServerInv
<1> SUFFICES ASSUME Init PROVE ServerInv
  OBVIOUS
<1>1. IsFiniteSet(Requests) /\ reserved \in [Requests -> Nat] /\ MaxPending \in Nat /\ BufferLimit \in Nat
  BY ServerAssumption DEF Init
<1>2. TypeOK
  <2>1. queue \in Seq(Requests)
    BY DEF Init
  <2>2. waiting \in 0..MaxPending /\ active \in 0..MaxPending /\ buffered \in 0..BufferLimit
    BY <1>1 DEF Init
  <2>3. \A x : x \in {"none", "queued", "ended"} => x \in {"none", "queued", "ended"} \cup Running
    OBVIOUS
  <2>4. thread \in [Requests -> {"none", "queued", "ended"} \cup Running]
    BY <2>3 DEF Init
  <2> QED BY <2>1, <2>2, <2>4 DEF Init, TypeOK
<1>3. HandlerInv /\ CallInv /\ BufferInv /\ AcknowledgedIsStored
  BY DEF Init, HandlerInv, CallInv, BufferInv, AcknowledgedIsStored, Running
<1>4. CountersExact
  <2>1. {r \in Requests : reserved[r] > 0} = {} /\ {r \in Requests : pc[r] = "pipeline"} = {}
    BY DEF Init
  <2>2. SumFunction(reserved) = 0
    BY <1>1, SumType DEF Init
  <2> QED BY <2>1, <2>2, FS_EmptySet DEF CountersExact, Init
<1>5. MemoryBounded
  <2>1. Held \in [Requests -> Nat] /\ \A r \in Requests : Held[r] = 0
    BY DEF Init, Held
  <2>2. SumFunction(Held) = 0
    BY <1>1, <2>1, SumType
  <2> QED BY <1>1, <2>2 DEF MemoryBounded, Held
<1> QED BY <1>2, <1>3, <1>4, <1>5 DEF ServerInv

\* The parts put together: connections, then counters, then memory.
LEMMA ServerInvStep == ASSUME ServerInv, [Next]_vars PROVE ServerInv'
<1>1. LocalInv /\ CounterRanges
  BY DEF ServerInv, LocalInv, StateType, TypeOK, CounterRanges
<1>2. LocalInv'
  BY <1>1, LocalStep
<1>3. CountersExact' /\ CounterRanges'
  BY <1>1, <1>2, CountersStep DEF ServerInv
<1>4. TypeOK'
  BY <1>2, <1>3 DEF LocalInv, StateType, CounterRanges, TypeOK
<1>5. MemoryBounded'
  BY <1>1, <1>2, <1>3, <1>4, MemoryStep DEF ServerInv
<1> QED BY <1>2, <1>3, <1>4, <1>5 DEF ServerInv, LocalInv

\* What holds between the handlers, the pool and the limits at every moment, for any
\* number of connections, any limits and any lengths of bodies.
THEOREM ServerInvariant == Spec => []ServerInv
BY ServerInvInit, ServerInvStep, PTL DEF Spec

\* The locals of the handlers and of the pool threads, the queue and the counters keep
\* their declared shape; no counter leaves the range from zero to its limit.
THEOREM ServerTypeCorrect == Spec => []TypeOK
<1>1. ServerInv => TypeOK
  BY DEF ServerInv
<1> QED BY <1>1, ServerInvariant, PTL

\* waiting, active and buffered count the reservations that are held, the handlers
\* waiting for a call and the bytes reserved: no way out of a handler (answer,
\* disconnection, timeout, failure, cancellation) leaks one or gives it back twice.
THEOREM CountersExactHolds == Spec => []CountersExact
<1>1. ServerInv => CountersExact
  BY DEF ServerInv
<1> QED BY <1>1, ServerInvariant, PTL

\* The bodies alive in handlers and pool threads together never take more than the
\* buffer limit, also after a cancellation and while the server closes.
THEOREM MemoryBoundedHolds == Spec => []MemoryBounded
<1>1. ServerInv => MemoryBounded
  BY DEF ServerInv
<1> QED BY <1>1, ServerInvariant, PTL

\* A client that got its receipt sent the document that was stored: the buffer was not
\* wiped between the pool thread's start and its write.
THEOREM AcknowledgedIsStoredHolds == Spec => []AcknowledgedIsStored
<1>1. ServerInv => AcknowledgedIsStored
  BY DEF ServerInv
<1> QED BY <1>1, ServerInvariant, PTL

=============================================================================
