-------------------------- MODULE GenerationProofs --------------------------
(***************************************************************************)
(* Proofs about Generation, for every number of requests and sources, all  *)
(* prices and budgets and every byte limit.                                *)
(***************************************************************************)
EXTENDS Generation, FiniteSetTheorems, WellFoundedInduction, TLAPS

-----------------------------------------------------------------------------
(* Sums.  The account of s.buffered is a sum over the requests, a fold of  *)
(* the community modules.  The induction theorems of the library take an   *)
(* operator, so induction is used in the form "a set of naturals without a *)
(* least element is empty".                                                *)

(* A set of naturals without a least element is empty.                     *)
LEMMA LeastNat ==
  ASSUME NEW T \in SUBSET Nat, \A n \in T : \E m \in T : m < n
  PROVE  T = {}
<1> DEFINE R == {ss \in Nat \X Nat : ss[1] < ss[2]}
<1>1. IsWellFoundedOn(R, Nat)
  BY NatLessThanWellFounded DEF OpToRel
<1>2. SUFFICES ASSUME T # {} PROVE FALSE
  OBVIOUS
<1>3. PICK n \in T : \A m \in T : ~(<<m, n>> \in R)
  <2> HIDE DEF R
  <2> QED
    BY <1>1, <1>2, WFMin
<1>4. PICK m \in T : m < n
  OBVIOUS
<1>5. <<m, n>> \in R
  BY <1>4
<1> QED
  BY <1>3, <1>5

\* The element that a fold takes next.
Pick(s) == CHOOSE x \in s : TRUE

\* f is the function the fold of h over the subsets of S computes.
IsSum(f, h, S) ==
    f = [s \in SUBSET S |-> IF s = {} THEN 0 ELSE h[Pick(s)] + f[s \ {Pick(s)}]]

(* A set that is not empty contains the element taken next.                *)
LEMMA PickInSet ==
  ASSUME NEW s, s # {}
  PROVE  Pick(s) \in s
BY DEF Pick

(* The recursion of the fold is well defined.                              *)
LEMMA SumExists ==
  ASSUME NEW S, IsFiniteSet(S), NEW h \in [S -> Nat]
  PROVE  \E f : IsSum(f, h, S)
<1> DEFINE Layer(n) == {s \in SUBSET S : Cardinality(s) <= n}
           Body(f, s) == IF s = {} THEN 0 ELSE h[Pick(s)] + f[s \ {Pick(s)}]
           Good(n) == \E f \in [Layer(n) -> Nat] : \A s \in Layer(n) : f[s] = Body(f, s)
           Bad == {n \in Nat : ~Good(n)}
<1>1. ASSUME NEW s \in SUBSET S
      PROVE  IsFiniteSet(s) /\ Cardinality(s) \in Nat /\ Cardinality(s) <= Cardinality(S)
  BY FS_Subset, FS_CardinalityType
<1>2. ASSUME NEW s \in SUBSET S, s # {}
      PROVE  /\ Pick(s) \in S /\ s \ {Pick(s)} \in SUBSET S
             /\ Cardinality(s) >= 1
             /\ Cardinality(s \ {Pick(s)}) = Cardinality(s) - 1
  <2>1. Pick(s) \in s
    BY <1>2, PickInSet
  <2>2. IsFiniteSet(s) /\ Cardinality(s) \in Nat /\ Cardinality(s) # 0
    BY <1>1, <1>2, FS_EmptySet
  <2>3. Cardinality(s \ {Pick(s)}) = Cardinality(s) - 1
    BY <2>1, <2>2, FS_RemoveElement
  <2> QED
    BY <2>1, <2>2, <2>3
<1>3. Good(0)
  <2>1. Layer(0) = {{}}
    BY <1>1, FS_EmptySet
  <2> DEFINE f == [s \in Layer(0) |-> 0]
  <2>2. f \in [Layer(0) -> Nat] /\ \A s \in Layer(0) : f[s] = Body(f, s)
    BY <2>1
  <2> QED
    BY <2>2
<1>4. ASSUME NEW n \in Nat, Good(n) PROVE Good(n + 1)
  <2>1. PICK f \in [Layer(n) -> Nat] : \A s \in Layer(n) : f[s] = Body(f, s)
    BY <1>4
  <2> DEFINE g == [s \in Layer(n + 1) |-> IF s \in Layer(n) THEN f[s] ELSE Body(f, s)]
  <2>2. ASSUME NEW s \in Layer(n + 1), s # {}
        PROVE  s \ {Pick(s)} \in Layer(n)
    <3>1. Cardinality(s) <= n + 1 /\ Cardinality(s) \in Nat /\ s \in SUBSET S
      BY <1>1
    <3> QED
      BY <1>2, <2>2, <3>1
  <2>3. Layer(n) \subseteq Layer(n + 1)
    BY <1>1
  <2>4. {} \in Layer(n)
    BY FS_EmptySet
  <2> HIDE DEF Layer
  <2>5. ASSUME NEW s \in Layer(n + 1)
        PROVE  Body(f, s) \in Nat /\ g[s] = Body(f, s) /\ Body(g, s) = Body(f, s)
    <3>1. CASE s = {}
      BY <2>1, <2>4, <3>1
    <3>2. CASE s # {}
      <4>1. Pick(s) \in S
        BY <1>2, <3>2 DEF Layer
      <4>2. h[Pick(s)] \in Nat
        BY <4>1
      <4>3. s \ {Pick(s)} \in Layer(n)
        BY <2>2, <3>2
      <4>4. f[s \ {Pick(s)}] \in Nat /\ g[s \ {Pick(s)}] = f[s \ {Pick(s)}]
        BY <2>1, <2>3, <4>3
      <4>5. Body(f, s) \in Nat /\ Body(g, s) = Body(f, s)
        BY <3>2, <4>2, <4>4
      <4>6. s \in Layer(n) => f[s] = Body(f, s)
        BY <2>1
      <4>7. g[s] = IF s \in Layer(n) THEN f[s] ELSE Body(f, s)
        OBVIOUS
      <4> QED
        BY <4>5, <4>6, <4>7
    <3> QED
      BY <3>1, <3>2
  <2>6. g \in [Layer(n + 1) -> Nat]
    BY <2>1, <2>5
  <2> HIDE DEF g, Body
  <2> QED
    BY <2>5, <2>6
<1>5. \A n \in Nat : Good(n)
  <2> HIDE DEF Good
  <2>1. ASSUME NEW n \in Bad PROVE \E m \in Bad : m < n
    <3>1. n \in Nat /\ ~Good(n) /\ n # 0
      BY <1>3
    <3>2. n - 1 \in Nat /\ (n - 1) + 1 = n
      BY <3>1
    <3>3. ~Good(n - 1)
      BY <1>4, <3>1, <3>2
    <3>4. n - 1 \in Bad
      BY <3>2, <3>3
    <3> QED
      BY <3>1, <3>4
  <2>2. Bad \in SUBSET Nat
    OBVIOUS
  <2>3. Bad = {}
    <3> HIDE DEF Bad
    <3> QED
      BY <2>1, <2>2, LeastNat
  <2> QED
    BY <2>3
<1>6. Cardinality(S) \in Nat /\ Layer(Cardinality(S)) = SUBSET S
  BY <1>1, FS_CardinalityType
<1>7. PICK f \in [SUBSET S -> Nat] : \A s \in SUBSET S : f[s] = Body(f, s)
  <2> HIDE DEF Layer
  <2> QED
    BY <1>5, <1>6, ZenonT(30)
<1> QED
  BY <1>7 DEF IsSum
(* A sum of naturals is a natural, and at least each of its terms.         *)
LEMMA SumBounds ==
  ASSUME NEW S, IsFiniteSet(S), NEW h \in [S -> Nat], NEW f, IsSum(f, h, S)
  PROVE  /\ \A s \in SUBSET S : f[s] \in Nat
         /\ \A x \in S : h[x] <= f[S]
<1> DEFINE Fine(s) == f[s] \in Nat /\ \A x \in s : h[x] <= f[s]
           Bad == {n \in Nat : \E s \in SUBSET S : Cardinality(s) = n /\ ~Fine(s)}
<1>1. \A s \in SUBSET S : f[s] = IF s = {} THEN 0 ELSE h[Pick(s)] + f[s \ {Pick(s)}]
  BY DEF IsSum
<1>2. ASSUME NEW n \in Bad PROVE \E m \in Bad : m < n
  <2>1. PICK s \in SUBSET S : Cardinality(s) = n /\ ~Fine(s)
    OBVIOUS
  <2>2. s # {}
    BY <1>1, <2>1
  <2>3. Pick(s) \in s /\ Pick(s) \in S /\ s \ {Pick(s)} \in SUBSET S
    BY <2>2, PickInSet
  <2>4. IsFiniteSet(s) /\ n \in Nat
    BY FS_Subset
  <2>5. Cardinality(s \ {Pick(s)}) = n - 1 /\ n # 0
    BY <2>1, <2>2, <2>3, <2>4, FS_RemoveElement, FS_EmptySet
  <2>6. ~Fine(s \ {Pick(s)})
    <3>1. f[s] = h[Pick(s)] + f[s \ {Pick(s)}] /\ h[Pick(s)] \in Nat
      BY <1>1, <2>2, <2>3
    <3>2. \A x \in s : h[x] \in Nat
      OBVIOUS
    <3> SUFFICES ASSUME Fine(s \ {Pick(s)}) PROVE FALSE
      OBVIOUS
    <3>3. f[s] \in Nat
      BY <3>1
    <3>4. ASSUME NEW x \in s PROVE h[x] <= f[s]
      <4>1. h[x] \in Nat /\ f[s \ {Pick(s)}] \in Nat
        BY <3>2
      <4>2. CASE x = Pick(s)
        BY <3>1, <4>1, <4>2
      <4>3. CASE x # Pick(s)
        <5>1. h[x] <= f[s \ {Pick(s)}]
          BY <4>3
        <5> QED
          BY <3>1, <4>1, <5>1
      <4> QED
        BY <4>2, <4>3
    <3> QED
      BY <2>1, <3>3, <3>4
  <2>7. n - 1 \in Nat /\ n - 1 < n
    BY <2>4, <2>5
  <2> HIDE DEF Fine
  <2>8. n - 1 \in Bad
    BY <2>3, <2>5, <2>6, <2>7
  <2> QED
    BY <2>7, <2>8
<1>3. Bad = {}
  <2>1. Bad \in SUBSET Nat
    OBVIOUS
  <2> HIDE DEF Bad
  <2> QED
    BY <1>2, <2>1, LeastNat
<1>4. \A s \in SUBSET S : Fine(s)
  <2>1. \A s \in SUBSET S : Cardinality(s) \in Nat
    BY FS_Subset, FS_CardinalityType
  <2> HIDE DEF Fine
  <2> QED
    BY <1>3, <2>1
<1> QED
  BY <1>4

(* If one term grows by d, so does the sum.                                *)
LEMMA SumOfChanged ==
  ASSUME NEW S, IsFiniteSet(S), NEW h \in [S -> Nat], NEW k \in [S -> Nat],
         NEW f, IsSum(f, h, S), NEW g, IsSum(g, k, S),
         NEW r \in S, NEW d \in Int, k[r] = h[r] + d,
         \A x \in S \ {r} : k[x] = h[x]
  PROVE  g[S] = f[S] + d
<1> DEFINE Fine(s) == g[s] = f[s] + IF r \in s THEN d ELSE 0
           Bad == {n \in Nat : \E s \in SUBSET S : Cardinality(s) = n /\ ~Fine(s)}
<1>1. /\ \A s \in SUBSET S : f[s] = IF s = {} THEN 0 ELSE h[Pick(s)] + f[s \ {Pick(s)}]
      /\ \A s \in SUBSET S : g[s] = IF s = {} THEN 0 ELSE k[Pick(s)] + g[s \ {Pick(s)}]
  BY DEF IsSum
<1>2. \A s \in SUBSET S : f[s] \in Nat /\ g[s] \in Nat
  BY SumBounds
<1>3. ASSUME NEW n \in Bad PROVE \E m \in Bad : m < n
  <2>1. PICK s \in SUBSET S : Cardinality(s) = n /\ ~Fine(s)
    OBVIOUS
  <2>2. s # {}
    <3>1. ASSUME s = {} PROVE Fine(s)
      <4>1. f[s] = 0 /\ g[s] = 0 /\ r \notin s
        BY <1>1, <3>1
      <4> QED
        BY <4>1
    <3> QED
      BY <2>1, <3>1
  <2>3. Pick(s) \in s /\ Pick(s) \in S /\ s \ {Pick(s)} \in SUBSET S
    BY <2>2, PickInSet
  <2>4. IsFiniteSet(s) /\ n \in Nat
    BY FS_Subset
  <2>5. Cardinality(s \ {Pick(s)}) = n - 1 /\ n # 0
    BY <2>1, <2>2, <2>3, <2>4, FS_RemoveElement, FS_EmptySet
  <2>6. ~Fine(s \ {Pick(s)})
    <3>1. /\ f[s] = h[Pick(s)] + f[s \ {Pick(s)}] /\ h[Pick(s)] \in Nat
          /\ g[s] = k[Pick(s)] + g[s \ {Pick(s)}] /\ k[Pick(s)] \in Nat
          /\ f[s \ {Pick(s)}] \in Nat /\ g[s \ {Pick(s)}] \in Nat
      BY <1>1, <1>2, <2>2, <2>3
    <3>2. CASE Pick(s) = r
      <4>1. r \in s /\ r \notin s \ {Pick(s)} /\ k[Pick(s)] = h[Pick(s)] + d
        BY <2>3, <3>2
      <4> QED
        BY <2>1, <3>1, <4>1
    <3>3. CASE Pick(s) # r
      <4>1. (r \in s <=> r \in s \ {Pick(s)}) /\ k[Pick(s)] = h[Pick(s)]
        BY <2>3, <3>3
      <4> QED
        BY <2>1, <3>1, <4>1
    <3> QED
      BY <3>2, <3>3
  <2>7. n - 1 \in Nat /\ n - 1 < n
    BY <2>4, <2>5
  <2> HIDE DEF Fine
  <2>8. n - 1 \in Bad
    BY <2>3, <2>5, <2>6, <2>7
  <2> QED
    BY <2>7, <2>8
<1>4. Bad = {}
  <2>1. Bad \in SUBSET Nat
    OBVIOUS
  <2> HIDE DEF Bad
  <2> QED
    BY <1>3, <2>1, LeastNat
<1>5. Fine(S)
  <2>1. Cardinality(S) \in Nat
    BY FS_CardinalityType
  <2> HIDE DEF Fine
  <2> QED
    BY <1>4, <2>1
<1> QED
  BY <1>5

\* What each request holds.
Held == [r \in Requests |-> Holding(r)]

(* The fold of the model is the sum of what the requests hold.             *)
LEMMA HoldingSum ==
  ASSUME Held \in [Requests -> Nat]
  PROVE  \E f : IsSum(f, Held, Requests) /\ MapThenSumSet(Holding, Requests) = f[Requests]
<1> DEFINE Body(f) == [s \in SUBSET Requests |->
                         IF s = {} THEN 0
                         ELSE LET x == CHOOSE x \in s : TRUE
                              IN  Holding(x) + f[s \ {x}]]
           f == CHOOSE g : g = Body(g)
<1>1. \A g : IsSum(g, Held, Requests) <=> g = Body(g)
  <2>1. \A g : Body(g) = [s \in SUBSET Requests |->
                            IF s = {} THEN 0 ELSE Held[Pick(s)] + g[s \ {Pick(s)}]]
    BY PickInSet DEF Pick, Held
  <2> QED
    BY <2>1 DEF IsSum
<1>2. \E g : g = Body(g)
  <2>1. PICK g : IsSum(g, Held, Requests)
    BY SumExists, GenerationAssumption
  <2> HIDE DEF Body
  <2> QED
    BY <1>1, <2>1
<1>3. f = Body(f)
  BY <1>2
<1>4. MapThenSumSet(Holding, Requests) = f[Requests]
  BY DEF MapThenSumSet, MapThenFoldSet
<1> QED
  BY <1>1, <1>3, <1>4
-----------------------------------------------------------------------------
(* The inductive invariant                                                 *)

Users(s) == {r \in Requests : at[r] = s}

\* A request has a lease from Router.Acquire to its return, and the leases
\* of a source are counted.
LeaseInv ==
    /\ \A r \in Requests :
         (at[r] = NoSource) <=>
         pc[r] \in {"idle", "sizing", "reserving", "upload", "routing", "done"}
    /\ \A s \in Sources : leases[s] = Cardinality(Users(s))

\* What a request has caused so far.  An attempt that may be repeated has
\* not made a provider generate, and what it cost is known.
CostInv ==
    \A r \in Requests :
        /\ begun[r] <= 1 /\ billed[r] <= Budget /\ spent[r] <= Budget
        /\ pc[r] \in {"idle", "sizing", "reserving", "upload", "routing", "calling", "submitted"}
             => begun[r] = 0
        /\ pc[r] \in {"idle", "sizing", "reserving", "upload", "routing", "calling"}
             => billed[r] <= spent[r]
        /\ pc[r] \in {"calling", "submitted", "generating", "answered"}
             => /\ billed[r] <= spent[r] + Price[at[r]]
                /\ spent[r] + Price[at[r]] <= Budget
        /\ pc[r] = "answered" /\ answer[r] = "before" => billed[r] <= spent[r]
        /\ pc[r] = "answered" /\ Safe(r) => begun[r] = 0

\* Only a response that came to its end is reported as complete.
VerdictInv ==
    \A r \in Requests :
        verdict[r] = "ok" => pc[r] = "done" /\ r \in complete /\ passed[r] = produced[r]

\* A reservation under way would fit if nothing had changed since the load;
\* a request that is not inside has none.
ReserveInv ==
    \A r \in Requests :
        /\ pc[r] = "reserving" => loaded[r] + Need(r) <= MaxBytes
        /\ pc[r] = "upload" => reserved[r] = Upload
        /\ pc[r] \in {"idle", "sizing", "reserving", "upload"} => streamed[r] = 0
        /\ pc[r] \in {"idle", "done"} => reserved[r] = 0 /\ streamed[r] = 0 /\ captured[r] = 0

IInv == TypeOK /\ LeaseInv /\ CostInv /\ VerdictInv /\ ReserveInv /\ BytesAccounted
-----------------------------------------------------------------------------
(* Facts                                                                   *)

(* What the requests hold are naturals, before and after a step.           *)
LEMMA HeldFacts ==
  /\ TypeOK => Held \in [Requests -> Nat] /\ \A r \in Requests : Held[r] = Holding(r)
  /\ TypeOK /\ BytesAccounted => \A r \in Requests : Holding(r) \in Nat /\ Holding(r) <= bytes
<1>1. ASSUME TypeOK
      PROVE  Held \in [Requests -> Nat] /\ \A r \in Requests : Held[r] = Holding(r)
  <2>1. \A r \in Requests : Holding(r) \in Nat
    BY <1>1 DEF TypeOK, Holding
  <2> QED
    BY <2>1 DEF Held
<1>2. ASSUME TypeOK, BytesAccounted
      PROVE  \A r \in Requests : Holding(r) \in Nat /\ Holding(r) <= bytes
  <2>1. PICK f : IsSum(f, Held, Requests) /\ MapThenSumSet(Holding, Requests) = f[Requests]
    BY <1>1, <1>2, HoldingSum
  <2>2. \A r \in Requests : Held[r] <= f[Requests]
    BY <1>1, <1>2, <2>1, SumBounds, GenerationAssumption
  <2> QED
    BY <1>1, <1>2, <2>1, <2>2 DEF BytesAccounted
<1> QED
  BY <1>1, <1>2

(* The fold over the state after a step.                                   *)
LEMMA HoldingSumNext ==
  (Held \in [Requests -> Nat])'
    => (\E f : IsSum(f, Held, Requests) /\ MapThenSumSet(Holding, Requests) = f[Requests])'
<1>1. Held \in [Requests -> Nat]
      => \E f : IsSum(f, Held, Requests) /\ MapThenSumSet(Holding, Requests) = f[Requests]
  BY HoldingSum
<1> QED
  BY <1>1, PTL

(* The account stays right when the counter changes by what one request    *)
(* takes or gives back.                                                    *)
LEMMA AccountStep ==
  ASSUME TypeOK, BytesAccounted, NEW r \in Requests, NEW d \in Int,
         reserved' \in [Requests -> Nat], streamed' \in [Requests -> Nat],
         captured' \in [Requests -> Nat],
         \A q \in Requests \ {r} : /\ reserved'[q] = reserved[q] /\ streamed'[q] = streamed[q]
                                   /\ captured'[q] = captured[q],
         Holding(r)' = Holding(r) + d,
         bytes' = bytes + d, bytes' <= MaxBytes
  PROVE  bytes' \in Nat /\ BytesAccounted'
<1>1. Held' \in [Requests -> Nat] /\ Held'[r] = Held[r] + d
      /\ \A q \in Requests \ {r} : Held'[q] = Held[q]
  <2>1. \A q \in Requests : Holding(q)' \in Nat
    BY DEF Holding
  <2>2. \A q \in Requests \ {r} : Holding(q)' = Holding(q)
    BY DEF Holding
  <2>3. Held' = [q \in Requests |-> Holding(q)'] /\ Held = [q \in Requests |-> Holding(q)]
    BY DEF Held
  <2> QED
    BY <2>1, <2>2, <2>3
<1>2. PICK f : IsSum(f, Held, Requests) /\ MapThenSumSet(Holding, Requests) = f[Requests]
  BY HeldFacts, HoldingSum
<1>3. PICK g : IsSum(g, Held', Requests) /\ MapThenSumSet(Holding, Requests)' = g[Requests]
  BY <1>1, HoldingSumNext
<1>4. g[Requests] = f[Requests] + d /\ g[Requests] \in Nat
  <2>1. Held \in [Requests -> Nat] /\ IsFiniteSet(Requests)
    BY HeldFacts, GenerationAssumption
  <2>2. g[Requests] = f[Requests] + d
    BY <1>1, <1>2, <1>3, <2>1, SumOfChanged
  <2>3. g[Requests] \in Nat
    BY <1>1, <1>3, <2>1, SumBounds
  <2> QED
    BY <2>2, <2>3
<1> QED
  BY <1>2, <1>3, <1>4 DEF BytesAccounted

(* A step that leaves all reservations alone.                              *)
LEMMA SameBytes ==
  ASSUME TypeOK, BytesAccounted, UNCHANGED <<bytes, reserved, streamed, captured>>
  PROVE  BytesAccounted'
<1>1. CASE Requests = {}
  <2>1. PICK f : IsSum(f, Held, Requests) /\ MapThenSumSet(Holding, Requests) = f[Requests]
    BY HeldFacts, HoldingSum
  <2>2. Held' = Held
    BY DEF Held, Holding
  <2>3. PICK g : IsSum(g, Held', Requests) /\ MapThenSumSet(Holding, Requests)' = g[Requests]
    BY <2>2, HeldFacts, HoldingSumNext
  <2>4. f[Requests] = 0 /\ g[Requests] = 0
    BY <1>1, <2>1, <2>3 DEF IsSum
  <2> QED
    BY <2>1, <2>3, <2>4 DEF BytesAccounted
<1>2. CASE Requests # {}
  <2>1. PICK r \in Requests : TRUE
    BY <1>2
  <2>2. bytes' = bytes + 0 /\ bytes' <= MaxBytes
    BY DEF TypeOK, BytesAccounted
  <2>3. Holding(r)' = Holding(r) + 0
    <3>1. Holding(r) \in Nat /\ Holding(r)' = Holding(r)
      BY DEF Holding, TypeOK
    <3> QED
      BY <3>1
  <2> QED
    BY <2>2, <2>3, AccountStep DEF TypeOK
<1> QED
  BY <1>1, <1>2

(* A source is leased.                                                     *)
LEMMA LeaseTaken ==
  ASSUME TypeOK, LeaseInv, NEW r \in Requests, NEW s \in Sources, at[r] = NoSource,
         at' = [at EXCEPT ![r] = s], leases' = [leases EXCEPT ![s] = @ + 1]
  PROVE  \A t \in Sources : leases'[t] = Cardinality(Users(t)')
<1> TAKE t \in Sources
<1>1. IsFiniteSet(Users(t)) /\ leases[t] = Cardinality(Users(t)) /\ NoSource \notin Sources
  BY GenerationAssumption, FS_Subset DEF Users, LeaseInv
<1>2. CASE t = s
  <2>1. Users(t)' = Users(t) \cup {r} /\ r \notin Users(t)
    BY <1>1, <1>2 DEF Users, TypeOK
  <2>2. Cardinality(Users(t)') = Cardinality(Users(t)) + 1
    BY <1>1, <2>1, FS_AddElement
  <2> QED
    BY <1>1, <1>2, <2>2 DEF TypeOK
<1>3. CASE t # s
  <2>1. Users(t)' = Users(t)
    BY <1>1, <1>3 DEF Users, TypeOK
  <2> QED
    BY <1>1, <1>3, <2>1 DEF TypeOK
<1> QED
  BY <1>2, <1>3

(* A lease goes back; a request without one changes nothing.               *)
LEMMA LeaseGiven ==
  ASSUME TypeOK, LeaseInv, NEW r \in Requests,
         at' = [at EXCEPT ![r] = NoSource],
         leases' = [s \in Sources |-> IF s = at[r] THEN leases[s] - 1 ELSE leases[s]]
  PROVE  /\ \A t \in Sources : leases'[t] = Cardinality(Users(t)')
         /\ leases' \in [Sources -> Nat]
<1>1. ASSUME NEW t \in Sources
      PROVE  leases'[t] = Cardinality(Users(t)') /\ leases'[t] \in Nat
  <2>1. /\ IsFiniteSet(Users(t)) /\ leases[t] = Cardinality(Users(t))
        /\ leases[t] \in Nat /\ NoSource \notin Sources
    BY GenerationAssumption, FS_Subset DEF Users, LeaseInv, TypeOK
  <2>2. CASE t = at[r]
    <3>1. Users(t)' = Users(t) \ {r} /\ r \in Users(t)
      BY <2>1, <2>2 DEF Users, TypeOK
    <3>2. /\ Cardinality(Users(t)') = Cardinality(Users(t)) - 1
          /\ Cardinality(Users(t)) # 0
      BY <2>1, <3>1, FS_RemoveElement, FS_EmptySet
    <3> QED
      BY <2>1, <2>2, <3>2
  <2>3. CASE t # at[r]
    <3>1. Users(t)' = Users(t)
      BY <2>1, <2>3 DEF Users, TypeOK
    <3> QED
      BY <2>1, <2>3, <3>1
  <2> QED
    BY <2>2, <2>3
<1> QED
  BY <1>1

(* A step that moves no lease.                                             *)
LEMMA SameLeases ==
  ASSUME LeaseInv, UNCHANGED <<at, leases>>,
         \A r \in Requests :
           (at[r] = NoSource) <=>
           pc'[r] \in {"idle", "sizing", "reserving", "upload", "routing", "done"}
  PROVE  LeaseInv'
BY DEF LeaseInv, Users
-----------------------------------------------------------------------------
(* Steps                                                                   *)

(* The initial states satisfy the invariant.                               *)
LEMMA InitInv == Init => IInv
<1> SUFFICES ASSUME Init PROVE IInv
  OBVIOUS
<1>1. TypeOK
  BY DEF Init, TypeOK
<1>2. LeaseInv
  <2>1. \A s \in Sources : Users(s) = {}
    BY GenerationAssumption DEF Init, Users
  <2> QED
    BY <2>1, FS_EmptySet DEF Init, LeaseInv
<1>3. CostInv /\ VerdictInv /\ ReserveInv
  BY GenerationAssumption DEF Init, CostInv, VerdictInv, ReserveInv
<1>4. BytesAccounted
  <2> DEFINE zero == [s \in SUBSET Requests |-> 0]
  <2>1. PICK f : IsSum(f, Held, Requests) /\ MapThenSumSet(Holding, Requests) = f[Requests]
    BY <1>1, HeldFacts, HoldingSum
  <2>2. Held = [r \in Requests |-> 0] /\ Held \in [Requests -> Nat]
    BY DEF Held, Holding, Init
  <2>3. IsSum(zero, Held, Requests)
    <3>1. \A s \in SUBSET Requests : s # {} => Pick(s) \in Requests
      BY PickInSet
    <3> QED
      BY <2>2, <3>1 DEF IsSum
  <2>4. f[Requests] = 0
    <3>1. CASE Requests = {}
      BY <2>1, <3>1 DEF IsSum
    <3>2. CASE Requests # {}
      <4>1. PICK r \in Requests : Held[r] = Held[r] + 0
        BY <2>2, <3>2
      <4>2. f[Requests] = zero[Requests] + 0
        <5> HIDE DEF zero
        <5> QED
          BY <2>1, <2>2, <2>3, <4>1, SumOfChanged, GenerationAssumption
      <4> QED
        BY <4>2
    <3> QED
      BY <3>1, <3>2
  <2> QED
    BY <2>1, <2>4, GenerationAssumption DEF Init, BytesAccounted
<1> QED
  BY <1>1, <1>2, <1>3, <1>4 DEF IInv

(* generate returns, by whatever way: all that it holds comes back.        *)
LEMMA ReturnStep ==
  ASSUME IInv, NEW r \in Requests, pc[r] \notin {"idle", "done"}, Return(r),
         NEW v \in {"ok", "error", "aborted"}, verdict' = [verdict EXCEPT ![r] = v],
         v = "ok" => r \in complete /\ passed[r] = produced[r]
  PROVE  IInv'
<1> USE DEF IInv
<1>1. /\ bytes' = bytes - Holding(r)
      /\ reserved' = [reserved EXCEPT ![r] = 0]
      /\ streamed' = [streamed EXCEPT ![r] = 0]
      /\ captured' = [captured EXCEPT ![r] = 0]
      /\ leases' = [s \in Sources |-> IF s = at[r] THEN leases[s] - 1 ELSE leases[s]]
      /\ at' = [at EXCEPT ![r] = NoSource]
      /\ pc' = [pc EXCEPT ![r] = "done"]
      /\ recorded' = [recorded EXCEPT ![r] = IF at[r] = NoSource THEN @ ELSE @ + 1]
      /\ UNCHANGED <<loaded, tried, spent, attempts, answer, gone, passed, produced, complete,
                     cut, begun, billed>>
  BY DEF Return, query, response, world
<1>2. /\ \A t \in Sources : leases'[t] = Cardinality(Users(t)')
      /\ leases' \in [Sources -> Nat]
  BY <1>1, LeaseGiven
<1>3. /\ reserved' \in [Requests -> Nat] /\ streamed' \in [Requests -> Nat]
      /\ captured' \in [Requests -> Nat] /\ recorded' \in [Requests -> Nat]
  BY <1>1 DEF TypeOK
<1>4. bytes' \in Nat /\ BytesAccounted'
  <2>1. Holding(r) \in Nat /\ Holding(r) <= bytes /\ bytes \in Nat /\ bytes <= MaxBytes
    BY HeldFacts DEF TypeOK, BytesAccounted
  <2>2. Holding(r)' = 0
    BY <1>1 DEF Holding, TypeOK
  <2>3. -Holding(r) \in Int /\ Holding(r)' = Holding(r) + (-Holding(r))
        /\ bytes' = bytes + (-Holding(r))
    BY <1>1, <2>1, <2>2
  <2>4. bytes' <= MaxBytes
    BY <1>1, <2>1, GenerationAssumption
  <2>5. \A q \in Requests \ {r} : /\ reserved'[q] = reserved[q] /\ streamed'[q] = streamed[q]
                                  /\ captured'[q] = captured[q]
    BY <1>1 DEF TypeOK
  <2> QED
    BY <1>3, <2>3, <2>4, <2>5, AccountStep
<1>5. /\ pc'[r] = "done" /\ at'[r] = NoSource /\ verdict'[r] = v
      /\ reserved'[r] = 0 /\ streamed'[r] = 0 /\ captured'[r] = 0
      /\ \A q \in Requests \ {r} : /\ pc'[q] = pc[q] /\ at'[q] = at[q]
                                   /\ verdict'[q] = verdict[q] /\ reserved'[q] = reserved[q]
                                   /\ streamed'[q] = streamed[q] /\ captured'[q] = captured[q]
  BY <1>1 DEF TypeOK
<1>6. TypeOK'
  <2>1. at' \in [Requests -> Sources \cup {NoSource}]
    BY <1>1 DEF TypeOK
  <2>2. pc' \in [Requests -> {"idle", "sizing", "reserving", "upload", "routing", "calling",
                              "submitted", "generating", "answered", "delivering", "done"}]
    BY <1>1 DEF TypeOK
  <2>3. verdict' \in [Requests -> {"none", "ok", "error", "aborted"}]
    BY DEF TypeOK
  <2> QED
    BY <1>1, <1>2, <1>3, <1>4, <2>1, <2>2, <2>3 DEF TypeOK
<1>7. LeaseInv'
  BY <1>2, <1>5 DEF LeaseInv
<1>8. CostInv'
  BY <1>1, <1>5 DEF CostInv, Safe
<1>9. VerdictInv'
  BY <1>1, <1>5 DEF VerdictInv
<1>10. ReserveInv'
  BY <1>1, <1>5 DEF ReserveInv, Need
<1> QED
  BY <1>4, <1>6, <1>7, <1>8, <1>9, <1>10

(* Every way out of generate.                                              *)
LEMMA LeaveSteps ==
  ASSUME IInv, NEW r \in Requests,
         \/ ReserveRefused(r) \/ ReadBodyFails(r) \/ RouteFails(r) \/ GiveUp(r)
         \/ ResponseEnds(r) \/ ResponseBreaks(r)
  PROVE  IInv'
<1>1. CASE ReserveRefused(r) \/ ReadBodyFails(r) \/ RouteFails(r) \/ GiveUp(r)
  BY <1>1, ReturnStep DEF ReserveRefused, ReadBodyFails, RouteFails, GiveUp, Fail
<1>2. CASE ResponseEnds(r)
  BY <1>2, ReturnStep DEF ResponseEnds, EndsWell
<1>3. CASE ResponseBreaks(r)
  BY <1>3, ReturnStep DEF ResponseBreaks
<1> QED
  BY <1>1, <1>2, <1>3
(* Ingress: the slot, the load of reserve, and the end of the context.     *)
LEMMA EnterSteps ==
  ASSUME IInv, NEW r \in Requests, Enter(r) \/ ReserveLoad(r) \/ Cancel(r)
  PROVE  IInv'
<1> USE DEF IInv
<1>1. UNCHANGED <<bytes, reserved, streamed, captured, leases, at, tried, spent, attempts,
                  answer, passed, produced, complete, cut, begun, billed, verdict, recorded>>
  BY DEF Enter, ReserveLoad, Cancel, budget, query, response, world
<1>2. /\ pc' \in [Requests -> {"idle", "sizing", "reserving", "upload", "routing", "calling",
                               "submitted", "generating", "answered", "delivering", "done"}]
      /\ loaded' \in [Requests -> Nat] /\ gone' \subseteq Requests
  BY DEF Enter, ReserveLoad, Cancel, TypeOK, budget, Inside
<1>3. \A q \in Requests : \/ pc'[q] = pc[q]
                          \/ pc[q] = "idle" /\ pc'[q] = "sizing"
                          \/ pc[q] = "sizing" /\ pc'[q] = "reserving"
  BY DEF Enter, ReserveLoad, Cancel, TypeOK
<1>4. TypeOK'
  BY <1>1, <1>2 DEF TypeOK
<1>5. LeaseInv'
  BY <1>1, <1>3, SameLeases DEF LeaseInv
<1>6. CostInv'
  BY <1>1, <1>3 DEF CostInv, Safe
<1>7. VerdictInv'
  BY <1>1, <1>3 DEF VerdictInv
<1>8. ReserveInv'
  <2>1. \A q \in Requests : Need(q)' = Need(q)
    BY <1>1 DEF Need
  <2>2. CASE ReserveLoad(r)
    <3>1. /\ pc' = [pc EXCEPT ![r] = "reserving"] /\ pc[r] = "sizing"
          /\ loaded' = [loaded EXCEPT ![r] = bytes] /\ Need(r) <= MaxBytes - bytes
      BY <2>2 DEF ReserveLoad
    <3>2. Need(r) \in Nat /\ bytes \in Nat /\ MaxBytes \in Nat
      BY GenerationAssumption DEF Need, TypeOK
    <3>3. bytes + Need(r) <= MaxBytes
      BY <3>1, <3>2
    <3>4. /\ pc'[r] = "reserving" /\ loaded'[r] = bytes
          /\ \A q \in Requests \ {r} : pc'[q] = pc[q] /\ loaded'[q] = loaded[q]
      BY <3>1 DEF TypeOK
    <3> QED
      BY <1>1, <2>1, <3>1, <3>3, <3>4 DEF ReserveInv
  <2>3. CASE Enter(r) \/ Cancel(r)
    <3>1. loaded' = loaded /\ \A q \in Requests : pc'[q] = "reserving" => pc[q] = "reserving"
      BY <2>3 DEF Enter, Cancel, budget, TypeOK
    <3> QED
      BY <1>1, <1>3, <2>1, <3>1 DEF ReserveInv
  <2> QED
    BY <2>2, <2>3
<1>9. BytesAccounted'
  BY <1>1, SameBytes
<1> QED
  BY <1>4, <1>5, <1>6, <1>7, <1>8, <1>9

(* The compare-and-swap of reserve.                                        *)
LEMMA ReserveSwapStep ==
  ASSUME IInv, NEW r \in Requests, ReserveSwap(r)
  PROVE  IInv'
<1> USE DEF IInv
<1>1. /\ pc[r] = "reserving"
      /\ loaded' = [loaded EXCEPT ![r] = 0]
      /\ UNCHANGED <<captured, leases, at, tried, spent, attempts, answer, gone, passed,
                     produced, complete, cut, begun, billed, verdict, recorded>>
  BY DEF ReserveSwap, query, response, world
<1>2. \/ /\ bytes = loaded[r] /\ reserved[r] = 0 /\ bytes' = bytes + Upload
         /\ reserved' = [reserved EXCEPT ![r] = Upload] /\ streamed' = streamed
         /\ pc' = [pc EXCEPT ![r] = "upload"]
      \/ /\ bytes = loaded[r] /\ reserved[r] # 0 /\ bytes' = bytes + StreamBytes
         /\ streamed' = [streamed EXCEPT ![r] = StreamBytes] /\ reserved' = reserved
         /\ pc' = [pc EXCEPT ![r] = "routing"]
      \/ /\ UNCHANGED <<bytes, reserved, streamed>>
         /\ pc' = [pc EXCEPT ![r] = "sizing"]
  BY DEF ReserveSwap, Swaps, Need
<1>3. /\ Upload \in Nat /\ StreamBytes \in Nat /\ MaxBytes \in Nat
      /\ bytes \in Nat /\ loaded[r] + Need(r) <= MaxBytes /\ streamed[r] = 0
  BY <1>1, GenerationAssumption DEF TypeOK, ReserveInv
<1>4. /\ reserved' \in [Requests -> Nat] /\ streamed' \in [Requests -> Nat]
      /\ captured' \in [Requests -> Nat] /\ loaded' \in [Requests -> Nat]
  BY <1>1, <1>2, <1>3 DEF TypeOK
<1>5. /\ \A q \in Requests \ {r} : /\ reserved'[q] = reserved[q] /\ streamed'[q] = streamed[q]
                                   /\ captured'[q] = captured[q] /\ loaded'[q] = loaded[q]
                                   /\ pc'[q] = pc[q]
      /\ \/ pc'[r] = "upload" /\ reserved'[r] = Upload /\ streamed'[r] = 0
         \/ pc'[r] = "routing"
         \/ pc'[r] = "sizing" /\ streamed'[r] = 0
  BY <1>1, <1>2, <1>3 DEF TypeOK
<1>6. bytes' \in Nat /\ BytesAccounted'
  <2>0. reserved[r] \in Nat /\ streamed[r] \in Nat /\ captured[r] \in Nat
    BY DEF TypeOK
  <2>1. CASE /\ bytes = loaded[r] /\ reserved[r] = 0 /\ bytes' = bytes + Upload
             /\ reserved' = [reserved EXCEPT ![r] = Upload] /\ streamed' = streamed
    <3>1. Holding(r)' = Holding(r) + Upload
      BY <1>1, <1>3, <2>0, <2>1 DEF Holding, TypeOK
    <3>2. bytes' <= MaxBytes
      BY <1>3, <2>1 DEF Need
    <3> QED
      BY <1>3, <1>4, <1>5, <2>1, <3>1, <3>2, AccountStep
  <2>2. CASE /\ bytes = loaded[r] /\ reserved[r] # 0 /\ bytes' = bytes + StreamBytes
             /\ streamed' = [streamed EXCEPT ![r] = StreamBytes] /\ reserved' = reserved
    <3>1. Holding(r)' = Holding(r) + StreamBytes
      BY <1>1, <1>3, <2>0, <2>2 DEF Holding, TypeOK
    <3>2. bytes' <= MaxBytes
      BY <1>3, <2>2 DEF Need
    <3> QED
      BY <1>3, <1>4, <1>5, <2>2, <3>1, <3>2, AccountStep
  <2>3. CASE UNCHANGED <<bytes, reserved, streamed>>
    BY <1>1, <1>3, <2>3, SameBytes
  <2> QED
    BY <1>2, <2>1, <2>2, <2>3
<1>7. pc' \in [Requests -> {"idle", "sizing", "reserving", "upload", "routing", "calling",
                            "submitted", "generating", "answered", "delivering", "done"}]
  BY <1>2 DEF TypeOK
<1>8. TypeOK'
  BY <1>1, <1>4, <1>6, <1>7 DEF TypeOK
<1>9. LeaseInv'
  BY <1>1, <1>5, SameLeases DEF LeaseInv
<1>10. CostInv'
  BY <1>1, <1>5 DEF CostInv, Safe
<1>11. VerdictInv'
  BY <1>1, <1>5 DEF VerdictInv
<1>12. ReserveInv'
  BY <1>5 DEF ReserveInv, Need
<1> QED
  BY <1>6, <1>8, <1>9, <1>10, <1>11, <1>12

(* Bytes go back before the end: the body was shorter than its             *)
(* reservation, or the response is accepted.                               *)
LEMMA ShrinkStep ==
  ASSUME IInv, NEW r \in Requests, ReadBody(r) \/ Accept(r)
  PROVE  IInv'
<1> USE DEF IInv
<1>1. UNCHANGED <<loaded, streamed, captured, leases, at, tried, spent, attempts, answer, gone,
                  passed, produced, complete, cut, begun, billed, verdict, recorded>>
  BY DEF ReadBody, Accept, query, response, world
<1>2. PICK n \in Nat : /\ n <= reserved[r]
                       /\ reserved' = [reserved EXCEPT ![r] = n]
                       /\ bytes' = bytes + (n - reserved[r])
  <2>1. bytes \in Nat /\ reserved[r] \in Nat
    BY DEF TypeOK
  <2>2. CASE ReadBody(r)
    <3>1. reserved[r] = Upload /\ Retained \in Nat /\ Retained <= Upload
      BY <2>2, GenerationAssumption DEF ReadBody, ReserveInv
    <3>2. bytes' = bytes + (Retained - reserved[r])
      BY <2>1, <2>2, <3>1 DEF ReadBody
    <3> QED
      BY <2>2, <3>1, <3>2 DEF ReadBody
  <2>3. CASE Accept(r) /\ at[r] \in Web
    <3>1. bytes' = bytes + (reserved[r] - reserved[r])
          /\ reserved' = [reserved EXCEPT ![r] = reserved[r]]
      BY <2>1, <2>3 DEF Accept, TypeOK
    <3>2. reserved[r] <= reserved[r]
      BY <2>1
    <3> QED
      BY <2>1, <3>1, <3>2, Zenon
  <2>4. CASE Accept(r) /\ at[r] \notin Web
    <3>1. bytes' = bytes + (0 - reserved[r]) /\ reserved' = [reserved EXCEPT ![r] = 0]
      BY <2>1, <2>4 DEF Accept
    <3>2. 0 \in Nat /\ 0 <= reserved[r]
      BY <2>1
    <3> QED
      BY <3>1, <3>2, Zenon
  <2> QED
    BY <2>2, <2>3, <2>4
<1>3. reserved' \in [Requests -> Nat]
  BY <1>2 DEF TypeOK
<1>4. bytes' \in Nat /\ BytesAccounted'
  <2>1. /\ reserved[r] \in Nat /\ streamed[r] \in Nat /\ captured[r] \in Nat
        /\ reserved'[r] = n /\ bytes \in Nat /\ bytes <= MaxBytes /\ MaxBytes \in Nat
    BY <1>2, GenerationAssumption DEF TypeOK, BytesAccounted
  <2>2. Holding(r)' = Holding(r) + (n - reserved[r]) /\ n - reserved[r] \in Int
    BY <1>1, <2>1 DEF Holding
  <2>3. bytes' <= MaxBytes
    BY <1>2, <2>1
  <2>4. \A q \in Requests \ {r} : /\ reserved'[q] = reserved[q] /\ streamed'[q] = streamed[q]
                                  /\ captured'[q] = captured[q]
    BY <1>1, <1>2 DEF TypeOK
  <2>5. streamed' \in [Requests -> Nat] /\ captured' \in [Requests -> Nat]
    BY <1>1 DEF TypeOK
  <2> QED
    BY <1>2, <1>3, <2>2, <2>3, <2>4, <2>5, AccountStep
<1>5. /\ \A q \in Requests \ {r} : pc'[q] = pc[q] /\ reserved'[q] = reserved[q]
      /\ \/ pc[r] = "upload" /\ pc'[r] \in {"sizing", "routing"}
         \/ pc[r] = "answered" /\ pc'[r] = "delivering"
      /\ pc' \in [Requests -> {"idle", "sizing", "reserving", "upload", "routing", "calling",
                               "submitted", "generating", "answered", "delivering", "done"}]
  BY <1>2 DEF ReadBody, Accept, TypeOK
<1>6. TypeOK'
  BY <1>1, <1>3, <1>4, <1>5 DEF TypeOK
<1>7. LeaseInv'
  BY <1>1, <1>5, SameLeases DEF LeaseInv
<1>8. CostInv'
  BY <1>1, <1>5 DEF CostInv, Safe
<1>9. VerdictInv'
  BY <1>1, <1>5 DEF VerdictInv
<1>10. ReserveInv'
  BY <1>1, <1>5 DEF ReserveInv, Need
<1> QED
  BY <1>4, <1>6, <1>7, <1>8, <1>9, <1>10
(* Router.Acquire grants a source that is within the budget.               *)
LEMMA RouteStep ==
  ASSUME IInv, NEW r \in Requests, NEW s \in Sources, Route(r, s)
  PROVE  IInv'
<1> USE DEF IInv
<1>1. /\ pc[r] = "routing" /\ spent[r] + Price[s] <= Budget
      /\ at' = [at EXCEPT ![r] = s]
      /\ leases' = [leases EXCEPT ![s] = @ + 1]
      /\ attempts' = [attempts EXCEPT ![r] = @ + 1]
      /\ pc' = [pc EXCEPT ![r] = "calling"]
      /\ UNCHANGED <<bytes, loaded, reserved, streamed, captured, tried, spent, answer, gone,
                     passed, produced, complete, cut, begun, billed, verdict, recorded>>
  BY DEF Route, budget, response, world
<1>2. at[r] = NoSource
  BY <1>1 DEF LeaseInv
<1>3. /\ pc'[r] = "calling" /\ at'[r] = s /\ s # NoSource
      /\ \A q \in Requests \ {r} : pc'[q] = pc[q] /\ at'[q] = at[q]
  BY <1>1, GenerationAssumption DEF TypeOK
<1>4. TypeOK'
  <2>1. at' \in [Requests -> Sources \cup {NoSource}] /\ leases' \in [Sources -> Nat]
    BY <1>1 DEF TypeOK
  <2>2. attempts' \in [Requests -> Nat]
    BY <1>1 DEF TypeOK
  <2>3. pc' \in [Requests -> {"idle", "sizing", "reserving", "upload", "routing", "calling",
                              "submitted", "generating", "answered", "delivering", "done"}]
    BY <1>1 DEF TypeOK
  <2> QED
    BY <1>1, <2>1, <2>2, <2>3 DEF TypeOK
<1>5. LeaseInv'
  <2>1. \A t \in Sources : leases'[t] = Cardinality(Users(t)')
    BY <1>1, <1>2, LeaseTaken
  <2> QED
    BY <1>3, <2>1 DEF LeaseInv
<1>6. CostInv'
  <2>1. Price[s] \in Nat /\ spent[r] \in Nat /\ billed[r] \in Nat /\ billed[r] <= spent[r]
    BY <1>1, GenerationAssumption DEF TypeOK, CostInv
  <2>2. billed[r] <= spent[r] + Price[s]
    BY <2>1
  <2> QED
    BY <1>1, <1>3, <2>1, <2>2 DEF CostInv, Safe
<1>7. VerdictInv' /\ ReserveInv'
  BY <1>1, <1>3 DEF VerdictInv, ReserveInv, Need
<1>8. BytesAccounted'
  BY <1>1, SameBytes
<1> QED
  BY <1>4, <1>5, <1>6, <1>7, <1>8

(* Client.Do returns: "before" only if nothing was submitted, and a        *)
(* rejection by a native API only if nothing was generated.                *)
LEMMA AnswersStep ==
  ASSUME IInv, NEW r \in Requests, pc[r] \in {"calling", "submitted", "generating"},
         NEW x \in Errors \cup Responses, Answers(r, x), UNCHANGED world,
         x = "before" => pc[r] = "calling",
         x = "rejected" /\ at[r] \in Contract => begun[r] = 0
  PROVE  IInv'
<1> USE DEF IInv
<1>1. /\ answer' = [answer EXCEPT ![r] = x]
      /\ pc' = [pc EXCEPT ![r] = "answered"]
      /\ UNCHANGED <<bytes, loaded, reserved, streamed, captured, leases, at, tried, spent,
                     attempts, gone, passed, produced, complete, cut, begun, billed, verdict,
                     recorded>>
  BY DEF Answers, budget, query, response, world
<1>2. /\ pc'[r] = "answered" /\ answer'[r] = x
      /\ \A q \in Requests \ {r} : pc'[q] = pc[q] /\ answer'[q] = answer[q]
  BY <1>1 DEF TypeOK
<1>3. TypeOK'
  <2>1. answer' \in [Requests -> Errors \cup Responses \cup {"none"}]
    BY <1>1 DEF TypeOK
  <2>2. pc' \in [Requests -> {"idle", "sizing", "reserving", "upload", "routing", "calling",
                              "submitted", "generating", "answered", "delivering", "done"}]
    BY <1>1 DEF TypeOK
  <2> QED
    BY <1>1, <2>1, <2>2 DEF TypeOK
<1>4. LeaseInv'
  BY <1>1, <1>2, SameLeases DEF LeaseInv
<1>5. CostInv'
  <2>1. x = "before" => billed[r] <= spent[r] /\ begun[r] = 0
    BY DEF CostInv
  <2>2. ASSUME NEW q \in Requests
        PROVE  Safe(q)' <=> IF q = r
                            THEN x = "before" \/ (x = "rejected" /\ at[r] \in Contract)
                            ELSE Safe(q)
    BY <1>1, <1>2 DEF Safe
  <2> QED
    BY <1>1, <1>2, <2>1, <2>2 DEF CostInv
<1>6. VerdictInv' /\ ReserveInv'
  BY <1>1, <1>2 DEF VerdictInv, ReserveInv, Need
<1>7. BytesAccounted'
  BY <1>1, SameBytes
<1> QED
  BY <1>3, <1>4, <1>5, <1>6, <1>7

(* What can come back from a call.                                         *)
LEMMA CallSteps ==
  ASSUME IInv, NEW r \in Requests,
         \/ NotSent(r) \/ NoConnection(r) \/ ConnectionBreaks(r)
         \/ \E x \in Responses : ProviderReplies(r, x)
  PROVE  IInv'
<1>1. CASE NotSent(r)
  BY <1>1, AnswersStep DEF NotSent, Errors
<1>2. CASE NoConnection(r)
  BY <1>2, AnswersStep DEF NoConnection, TransportError, Errors
<1>3. CASE ConnectionBreaks(r)
  BY <1>3, AnswersStep DEF ConnectionBreaks, TransportError, Errors
<1>4. ASSUME NEW x \in Responses, ProviderReplies(r, x) PROVE IInv'
  <2>1. x # "before" /\ pc[r] \in {"submitted", "generating"}
    BY <1>4 DEF ProviderReplies, Responses
  <2>2. x = "rejected" /\ at[r] \in Contract => begun[r] = 0
    BY <1>4 DEF ProviderReplies, IInv, CostInv
  <2>3. Answers(r, x) /\ UNCHANGED world
    BY <1>4 DEF ProviderReplies
  <2> QED
    BY <2>1, <2>2, <2>3, AnswersStep
<1> QED
  BY <1>1, <1>2, <1>3, <1>4

(* The request reaches the provider, and the provider begins to generate.  *)
LEMMA SubmitSteps ==
  ASSUME IInv, NEW r \in Requests, Submit(r) \/ ProviderBegins(r)
  PROVE  IInv'
<1> USE DEF IInv
<1>1. UNCHANGED <<bytes, loaded, reserved, streamed, captured, leases, at, tried, spent,
                  attempts, answer, gone, passed, produced, complete, cut, verdict, recorded>>
  BY DEF Submit, ProviderBegins, budget, query, response
<1>2. \/ /\ pc[r] = "calling" /\ pc' = [pc EXCEPT ![r] = "submitted"]
         /\ billed' = [billed EXCEPT ![r] = @ + Price[at[r]]] /\ begun' = begun
      \/ /\ pc[r] = "submitted" /\ pc' = [pc EXCEPT ![r] = "generating"]
         /\ begun' = [begun EXCEPT ![r] = @ + 1] /\ billed' = billed
  BY DEF Submit, ProviderBegins
<1>3. at[r] \in Sources /\ Price[at[r]] \in Nat
  <2>1. at[r] \in Sources
    BY <1>2 DEF LeaseInv, TypeOK
  <2> QED
    BY <2>1, GenerationAssumption
<1>4. /\ begun[r] = 0 /\ billed[r] \in Nat /\ spent[r] \in Nat /\ Budget \in Nat
      /\ spent[r] + Price[at[r]] <= Budget
      /\ pc[r] = "calling" => billed[r] <= spent[r]
      /\ billed[r] <= spent[r] + Price[at[r]]
  BY <1>2, GenerationAssumption DEF CostInv, TypeOK
<1>5. /\ pc'[r] \in {"submitted", "generating"}
      /\ pc'[r] = "submitted" => begun'[r] = 0
      /\ begun'[r] <= 1
      /\ billed'[r] <= spent[r] + Price[at[r]] /\ billed'[r] <= Budget
  BY <1>2, <1>3, <1>4 DEF TypeOK
<1>6. \A q \in Requests \ {r} : pc'[q] = pc[q] /\ billed'[q] = billed[q] /\ begun'[q] = begun[q]
  BY <1>2 DEF TypeOK
<1>7. TypeOK'
  <2>1. pc' \in [Requests -> {"idle", "sizing", "reserving", "upload", "routing", "calling",
                              "submitted", "generating", "answered", "delivering", "done"}]
    BY <1>2 DEF TypeOK
  <2>2. begun' \in [Requests -> Nat] /\ billed' \in [Requests -> Nat]
    BY <1>2, <1>3 DEF TypeOK
  <2> QED
    BY <1>1, <2>1, <2>2 DEF TypeOK
<1>8. LeaseInv'
  BY <1>1, <1>2, <1>5, <1>6, SameLeases DEF LeaseInv
<1>9. CostInv'
  BY <1>1, <1>4, <1>5, <1>6 DEF CostInv, Safe
<1>10. VerdictInv' /\ ReserveInv'
  BY <1>1, <1>2, <1>5, <1>6 DEF VerdictInv, ReserveInv, Need
<1>11. BytesAccounted'
  BY <1>1, SameBytes
<1> QED
  BY <1>7, <1>8, <1>9, <1>10, <1>11

(* The attempt is repeated elsewhere; what it cost counts.                 *)
LEMMA RetryStep ==
  ASSUME IInv, NEW r \in Requests, Retry(r)
  PROVE  IInv'
<1> USE DEF IInv
<1>1. /\ pc[r] = "answered" /\ Safe(r)
      /\ spent' = [spent EXCEPT ![r] = @ + Cost(r)]
      /\ leases' = [leases EXCEPT ![at[r]] = @ - 1]
      /\ tried' = [tried EXCEPT ![r] = @ \cup {at[r]}]
      /\ at' = [at EXCEPT ![r] = NoSource]
      /\ pc' = [pc EXCEPT ![r] = "routing"]
      /\ UNCHANGED <<bytes, loaded, reserved, streamed, captured, attempts, answer, gone,
                     passed, produced, complete, cut, begun, billed, verdict, recorded>>
  BY DEF Retry, MayRetry, LeaseReleased, budget, response, world
<1>2. at[r] \in Sources
  BY <1>1 DEF LeaseInv, TypeOK
<1>3. Price[at[r]] \in Nat /\ Cost(r) \in Nat /\ Cost(r) <= Price[at[r]]
  BY <1>2, GenerationAssumption DEF Cost
<1>4. leases' = [s \in Sources |-> IF s = at[r] THEN leases[s] - 1 ELSE leases[s]]
  BY <1>1, <1>2 DEF TypeOK
<1>5. /\ \A t \in Sources : leases'[t] = Cardinality(Users(t)')
      /\ leases' \in [Sources -> Nat]
  BY <1>1, <1>4, LeaseGiven
<1>6. /\ pc'[r] = "routing" /\ at'[r] = NoSource
      /\ \A q \in Requests \ {r} : pc'[q] = pc[q] /\ at'[q] = at[q] /\ spent'[q] = spent[q]
      /\ spent'[r] = spent[r] + Cost(r)
  BY <1>1 DEF TypeOK
<1>7. begun[r] = 0 /\ billed[r] <= spent'[r] /\ spent'[r] <= Budget
  <2>1. /\ begun[r] = 0 /\ spent[r] + Price[at[r]] <= Budget
        /\ billed[r] <= spent[r] + Price[at[r]]
        /\ answer[r] = "before" => billed[r] <= spent[r]
        /\ spent[r] \in Nat /\ billed[r] \in Nat /\ Budget \in Nat
    BY <1>1, GenerationAssumption DEF CostInv, TypeOK
  <2>2. answer[r] = "before" \/ Cost(r) = Price[at[r]]
    BY <1>1 DEF Safe, Cost, Responses
  <2> QED
    BY <1>3, <1>6, <2>1, <2>2
<1>8. TypeOK'
  <2>1. at' \in [Requests -> Sources \cup {NoSource}] /\ tried' \in [Requests -> SUBSET Sources]
    BY <1>1, <1>2 DEF TypeOK
  <2>2. spent' \in [Requests -> Nat]
    BY <1>1, <1>3 DEF TypeOK
  <2>3. pc' \in [Requests -> {"idle", "sizing", "reserving", "upload", "routing", "calling",
                              "submitted", "generating", "answered", "delivering", "done"}]
    BY <1>1 DEF TypeOK
  <2> QED
    BY <1>1, <1>5, <2>1, <2>2, <2>3 DEF TypeOK
<1>9. LeaseInv'
  BY <1>5, <1>6 DEF LeaseInv
<1>10. CostInv'
  BY <1>1, <1>6, <1>7 DEF CostInv, Safe
<1>11. VerdictInv' /\ ReserveInv'
  BY <1>1, <1>6 DEF VerdictInv, ReserveInv, Need
<1>12. BytesAccounted'
  BY <1>1, SameBytes
<1> QED
  BY <1>8, <1>9, <1>10, <1>11, <1>12

(* The provider sends, or stops sending.                                   *)
LEMMA ProviderSteps ==
  ASSUME IInv, NEW r \in Requests,
         ProviderStops(r) \/ \E last \in BOOLEAN : ProviderSends(r, last)
  PROVE  IInv'
<1> USE DEF IInv
<1>1. /\ pc[r] = "delivering"
      /\ UNCHANGED <<bytes, loaded, reserved, streamed, captured, leases, pc, at, tried, spent,
                     attempts, answer, gone, passed, begun, billed, verdict, recorded>>
  BY DEF ProviderStops, ProviderSends, budget, query, world
<1>2. /\ produced' = produced \/ produced' = [produced EXCEPT ![r] = @ + 1]
      /\ complete' = complete \/ complete' = complete \cup {r}
      /\ cut' = cut \/ cut' = cut \cup {r}
  BY DEF ProviderStops, ProviderSends
<1>3. TypeOK'
  <2>1. produced' \in [Requests -> Nat] /\ complete' \subseteq Requests /\ cut' \subseteq Requests
    BY <1>2 DEF TypeOK
  <2> QED
    BY <1>1, <2>1 DEF TypeOK
<1>4. LeaseInv'
  BY <1>1, SameLeases DEF LeaseInv
<1>5. CostInv' /\ ReserveInv'
  BY <1>1 DEF CostInv, Safe, ReserveInv, Need
<1>6. VerdictInv'
  BY <1>1, <1>2 DEF VerdictInv, TypeOK
<1>7. BytesAccounted'
  BY <1>1, SameBytes
<1> QED
  BY <1>3, <1>4, <1>5, <1>6, <1>7

(* A frame or a chunk is passed on, and perhaps captured.                  *)
LEMMA DeliverStep ==
  ASSUME IInv, NEW r \in Requests, Deliver(r)
  PROVE  IInv'
<1> USE DEF IInv
<1>1. /\ pc[r] = "delivering"
      /\ passed' = [passed EXCEPT ![r] = @ + 1]
      /\ UNCHANGED <<loaded, reserved, streamed, leases, pc, at, tried, spent, attempts, answer,
                     gone, produced, complete, cut, begun, billed, verdict, recorded>>
  BY DEF Deliver, query, world
<1>2. \/ /\ captured' = [captured EXCEPT ![r] = @ + Chunk] /\ bytes' = bytes + Chunk
         /\ Chunk <= MaxBytes - bytes
      \/ UNCHANGED <<captured, bytes>>
  BY DEF Deliver, Captures
<1>3. /\ Chunk \in Nat /\ MaxBytes \in Nat /\ bytes \in Nat
      /\ reserved[r] \in Nat /\ streamed[r] \in Nat /\ captured[r] \in Nat
  BY GenerationAssumption DEF TypeOK
<1>4. captured' \in [Requests -> Nat] /\ passed' \in [Requests -> Nat]
  BY <1>1, <1>2, <1>3 DEF TypeOK
<1>5. bytes' \in Nat /\ BytesAccounted'
  <2>1. CASE /\ captured' = [captured EXCEPT ![r] = @ + Chunk] /\ bytes' = bytes + Chunk
             /\ Chunk <= MaxBytes - bytes
    <3>1. /\ captured'[r] = captured[r] + Chunk
          /\ \A q \in Requests \ {r} : captured'[q] = captured[q]
      BY <2>1 DEF TypeOK
    <3>2. Holding(r)' = Holding(r) + Chunk
      BY <1>1, <1>3, <3>1 DEF Holding
    <3>3. bytes' <= MaxBytes
      BY <1>3, <2>1
    <3>4. reserved' \in [Requests -> Nat] /\ streamed' \in [Requests -> Nat]
      BY <1>1 DEF TypeOK
    <3>5. \A q \in Requests \ {r} : /\ reserved'[q] = reserved[q] /\ streamed'[q] = streamed[q]
                                    /\ captured'[q] = captured[q]
      BY <1>1, <3>1
    <3>6. Chunk \in Int /\ bytes' = bytes + Chunk
      BY <1>3, <2>1
    <3> QED
      BY <1>4, <3>2, <3>3, <3>4, <3>5, <3>6, AccountStep
  <2>2. CASE UNCHANGED <<captured, bytes>>
    BY <1>1, <1>3, <2>2, SameBytes
  <2> QED
    BY <1>2, <2>1, <2>2
<1>6. TypeOK'
  BY <1>1, <1>4, <1>5 DEF TypeOK
<1>7. LeaseInv'
  BY <1>1, SameLeases DEF LeaseInv
<1>8. CostInv'
  BY <1>1 DEF CostInv, Safe
<1>9. ReserveInv'
  <2>1. \A q \in Requests \ {r} : captured'[q] = captured[q]
    BY <1>2 DEF TypeOK
  <2> QED
    BY <1>1, <2>1 DEF ReserveInv, Need
<1>10. VerdictInv'
  BY <1>1 DEF VerdictInv, TypeOK
<1> QED
  BY <1>5, <1>6, <1>7, <1>8, <1>9, <1>10
-----------------------------------------------------------------------------
(* Theorems                                                                *)

(* Every step preserves the invariant.                                     *)
LEMMA NextInv == IInv /\ [Next]_vars => IInv'
<1> SUFFICES ASSUME IInv, [Next]_vars PROVE IInv'
  OBVIOUS
<1>1. ASSUME NEW r \in Requests, IngressStep(r) PROVE IInv'
  BY <1>1, EnterSteps, ReserveSwapStep, ShrinkStep, LeaveSteps DEF IngressStep
<1>2. ASSUME NEW r \in Requests, AttemptStep(r) PROVE IInv'
  BY <1>2, RouteStep, LeaveSteps, CallSteps, SubmitSteps, RetryStep DEF AttemptStep
<1>3. ASSUME NEW r \in Requests, ResponseStep(r) PROVE IInv'
  BY <1>3, LeaveSteps, ShrinkStep, DeliverStep, ProviderSteps DEF ResponseStep
<1>4. CASE UNCHANGED vars
  <2>1. UNCHANGED <<bytes, loaded, reserved, streamed, captured, leases, pc, at, tried, spent,
                    attempts, answer, gone, passed, produced, complete, cut, begun, billed,
                    verdict, recorded>>
    BY <1>4 DEF vars, budget, query, response, world
  <2>2. TypeOK'
    BY <2>1 DEF IInv, TypeOK
  <2>3. LeaseInv' /\ BytesAccounted'
    BY <2>1, SameLeases, SameBytes DEF IInv, LeaseInv
  <2>4. CostInv' /\ VerdictInv' /\ ReserveInv'
    BY <2>1 DEF IInv, CostInv, VerdictInv, ReserveInv, Safe, Need
  <2> QED
    BY <2>2, <2>3, <2>4 DEF IInv
<1> QED
  BY <1>1, <1>2, <1>3, <1>4 DEF Next

(* The invariant holds in every reachable state.                           *)
LEMMA Invariance == Spec => []IInv
<1>1. Init => IInv
  BY InitInv
<1>2. IInv /\ [Next]_vars => IInv'
  BY NextInv
<1> QED
  BY <1>1, <1>2, PTL DEF Spec

(* However connections fail and providers answer, a request makes at most  *)
(* one provider generate, and the estimates of all attempts that reached a *)
(* provider stay within its budget (acquireResponse, Client.Do).           *)
THEOREM RetryIsSafe == Spec => []RetriesAreSafe
<1>1. IInv => RetriesAreSafe
  BY DEF IInv, CostInv, RetriesAreSafe, NoDuplicateGeneration, WithinBudget
<1> QED
  BY <1>1, Invariance, PTL

(* A response that the client sees end cleanly was passed on to its last   *)
(* frame (streamResponse).                                                 *)
THEOREM CompletionIsHonest == Spec => []HonestCompletion
<1>1. IInv => HonestCompletion
  BY DEF IInv, VerdictInv, HonestCompletion
<1> QED
  BY <1>1, Invariance, PTL

(* s.buffered is the sum of what the requests inside hold and within its   *)
(* limit, the leases of a source are the requests that hold one, and       *)
(* neither is kept by a request that is over, for any number of requests   *)
(* that race for the budget with a load and a compare-and-swap.            *)
THEOREM EverythingComesBack == Spec => []NothingLeaks
<1>1. IInv => NothingLeaks
  <2> SUFFICES ASSUME IInv PROVE BytesReturned
    BY DEF IInv, LeaseInv, NothingLeaks, LeasesReturned, Users
  <2> QED
    BY DEF IInv, ReserveInv, BytesReturned, Inside, Holding
<1> QED
  BY <1>1, Invariance, PTL

=============================================================================
