---------------------------- MODULE RouterProofs ----------------------------
(***************************************************************************)
(* Proofs about Router, for every number of requests, sources, limits,     *)
(* configurations and generations.                                         *)
(***************************************************************************)
EXTENDS Router, FiniteSetTheorems, SequenceTheorems, TLAPS

(* Removing one position from a queue leaves the others in order           *)
(* (removeWaiter).                                                         *)
LEMMA RemoveAtProperties ==
  ASSUME NEW S, NEW q \in Seq(S), NEW i \in 1..Len(q)
  PROVE  /\ RemoveAt(q, i) \in Seq(S)
         /\ Len(RemoveAt(q, i)) = Len(q) - 1
         /\ \A j \in 1..(Len(q) - 1) :
              RemoveAt(q, i)[j] = IF j < i THEN q[j] ELSE q[j + 1]
<1>1. Len(q) \in Nat /\ \A j \in 1..Len(q) : q[j] \in S
  BY LenProperties, ElementOfSeq
<1> DEFINE a == SubSeq(q, 1, i - 1)
           b == SubSeq(q, i + 1, Len(q))
<1>2. /\ a \in Seq(S)
      /\ Len(a) = i - 1
      /\ \A j \in 1..(i - 1) : a[j] = q[j]
  <2>1. \A j \in 1..(i - 1) : q[j] \in S
    BY <1>1
  <2>2. /\ a \in Seq(S)
        /\ Len(a) = IF 1 <= i - 1 THEN (i - 1) - 1 + 1 ELSE 0
        /\ \A j \in 1..((i - 1) - 1 + 1) : a[j] = q[1 + j - 1]
    BY <1>1, <2>1, SubSeqProperties
  <2> QED
    BY <1>1, <2>2
<1>3. /\ b \in Seq(S)
      /\ Len(b) = Len(q) - i
      /\ \A j \in 1..(Len(q) - i) : b[j] = q[i + j]
  <2>1. \A j \in (i + 1)..Len(q) : q[j] \in S
    BY <1>1
  <2>2. /\ b \in Seq(S)
        /\ Len(b) = IF i + 1 <= Len(q) THEN Len(q) - (i + 1) + 1 ELSE 0
        /\ \A j \in 1..(Len(q) - (i + 1) + 1) : b[j] = q[(i + 1) + j - 1]
    BY <1>1, <2>1, SubSeqProperties
  <2> QED
    BY <1>1, <2>2
<1>4. RemoveAt(q, i) = a \o b
  BY DEF RemoveAt
<1>5. /\ a \o b \in Seq(S)
      /\ Len(a \o b) = Len(a) + Len(b)
      /\ \A j \in 1..(Len(a) + Len(b)) :
           (a \o b)[j] = IF j <= Len(a) THEN a[j] ELSE b[j - Len(a)]
  BY <1>2, <1>3, ConcatProperties
<1> HIDE DEF a, b
<1> QED
  BY <1>1, <1>2, <1>3, <1>4, <1>5

-----------------------------------------------------------------------------
(* The inductive invariant                                                 *)

\* Only a request with a lease points to cells.
HeldByLease == \A c \in Requests : pc[c] # "leased" => held[c] = {}

\* Exactly the routers before the current one are retired, and no request
\* knows a router that has not been built.
RetiredAreOld ==
    /\ retired = 1..(gen - 1)
    /\ \A c \in Requests : at[c] <= gen

\* The current router works on the registered cells.
CurrentCells ==
    \A k \in UsedKeys(cfg[gen]) : slot[k] \in Gens /\ cells[gen][k] = slot[k]

\* Those cells carry the limits of the current configuration.
CurrentLimits ==
    \A k \in UsedKeys(cfg[gen]) \ Sources :
        limit[<<k, slot[k]>>] = cfg[gen].limit[k]

CapacityInv ==
    LeaseAccounting /\ NoSplitCapacity /\ HeldByLease /\ CurrentCells /\ CurrentLimits

IInv == TypeOK /\ QueueAgreement /\ RetiredAreOld /\ CapacityInv

-----------------------------------------------------------------------------
(* Facts about configurations                                              *)

(* A source of a validated configuration uses keys only.                   *)
LEMMA UsesAreKeys ==
  ASSUME NEW cf \in Configs
  PROVE  /\ \A s \in Sources : Uses(cf, s) \subseteq Keys
         /\ UsedKeys(cf) \subseteq Keys
         /\ \A s \in cf.sources : Uses(cf, s) \subseteq UsedKeys(cf)
         /\ cf.sources \subseteq UsedKeys(cf)
         /\ cf.sources \subseteq Sources /\ cf.enabled \subseteq Sources
         /\ \A k \in Keys : cf.limit[k] \in Nat \ {0}
         /\ \A q \in Queries : cf.permits[q] \subseteq cf.sources
<1>1. cf \in ConfigType /\ \A q \in Queries : cf.permits[q] \subseteq cf.sources
  BY ConfigAssumption
<1>2. /\ cf.sources \subseteq Sources /\ cf.enabled \subseteq Sources
      /\ cf.quota \in [Sources -> Quotas]
      /\ cf.account \in [Sources -> Accounts \cup {NoAccount}]
      /\ cf.limit \in [Keys -> Nat \ {0}]
  BY <1>1 DEF ConfigType
<1>3. \A s \in Sources : Uses(cf, s) \subseteq Keys
  BY <1>2 DEF Uses, Keys
<1>4. UsedKeys(cf) \subseteq Keys
  BY <1>2, <1>3 DEF UsedKeys
<1>5. /\ \A s \in cf.sources : Uses(cf, s) \subseteq UsedKeys(cf)
      /\ \A s \in cf.sources : s \in Uses(cf, s)
  BY DEF UsedKeys, Uses
<1> QED
  BY <1>1, <1>2, <1>3, <1>4, <1>5

(* What choose promises when it finds a source: the router is the current  *)
(* one, and every registered cell the source uses has room.                *)
LEMMA RunnableFacts ==
  ASSUME IInv, NEW g \in 1..gen, NEW q \in Queries, NEW s \in Runnable(g, q)
  PROVE  /\ g = gen
         /\ s \in cfg[gen].permits[q]
         /\ s \in cfg[gen].sources
         /\ total < MaxInflight
         /\ Takes(g, s) = {<<k, slot[k]>> : k \in Uses(cfg[gen], s)}
         /\ \A k \in Uses(cfg[gen], s) :
              /\ k \in Keys
              /\ slot[k] \in Gens
              /\ active[<<k, slot[k]>>] < cfg[gen].limit[k]
         /\ q \in Probes \/ <<s, slot[s]>> \in enabled \ blocked
<1>1. gen \in Gens /\ cfg[gen] \in Configs /\ Gens = 1..MaxGen /\ MaxGen \in Nat
  BY BoundsAssumption DEF IInv, TypeOK, Gens
<1>2. g = gen
  BY <1>1 DEF IInv, RetiredAreOld, Runnable, Eligible
<1>3. /\ s \in cfg[gen].permits[q]
      /\ total < MaxInflight
      /\ HasRoom(gen, s)
      /\ q \in Probes \/ (Cell(gen, s) \in enabled /\ Cell(gen, s) \notin blocked)
  BY <1>2 DEF Runnable, Eligible, UsableAsEligible
<1>4. s \in cfg[gen].sources /\ s \in Sources
  BY <1>1, <1>3, UsesAreKeys
<1>5. \A k \in Uses(cfg[gen], s) :
         /\ k \in Keys
         /\ slot[k] \in Gens
         /\ Cell(gen, k) = <<k, slot[k]>>
  BY <1>1, <1>4, UsesAreKeys DEF IInv, CapacityInv, CurrentCells, Cell
<1>6. Takes(g, s) = {<<k, slot[k]>> : k \in Uses(cfg[gen], s)}
  BY <1>2, <1>5 DEF Takes
<1>7. \A k \in Uses(cfg[gen], s) : active[<<k, slot[k]>>] < cfg[gen].limit[k]
  <2>1. TAKE k \in Uses(cfg[gen], s)
  <2>2. active[<<k, slot[k]>>] < CellLimit(gen, k)
    BY <1>3, <1>5 DEF HasRoom
  <2>3. k \in UsedKeys(cfg[gen])
    BY <1>1, <1>4, UsesAreKeys
  <2>4. CellLimit(gen, k) = cfg[gen].limit[k]
    BY <1>5, <2>3 DEF CellLimit, IInv, CapacityInv, CurrentLimits
  <2> QED
    BY <2>2, <2>4
<1>8. s \in Uses(cfg[gen], s)
  BY DEF Uses
<1> QED
  BY <1>2, <1>3, <1>4, <1>5, <1>6, <1>7, <1>8

-----------------------------------------------------------------------------
(* Initial states                                                          *)

(* The first router, before any request.                                   *)
LEMMA InitInv == Init => IInv
<1> SUFFICES ASSUME Init PROVE IInv
  OBVIOUS
<1> USE DEF Init
<1>1. /\ MaxGen \in Nat \ {0} /\ Gens = 1..MaxGen /\ 1 \in Gens
      /\ MaxQueued \in Nat
  BY BoundsAssumption DEF Gens
<1>2. First \in Configs /\ First.sources \subseteq Sources
      /\ UsedKeys(First) \subseteq Keys
      /\ \A k \in Keys : First.limit[k] \in Nat \ {0}
  BY ConfigAssumption, UsesAreKeys
<1>3. AnyQuery \in Queries
  BY KindsAssumption DEF AnyQuery
<1>4. Sources \subseteq Keys
  BY DEF Keys
<1>5. TypeOK
  <2>1. enabled \subseteq Cells
    BY <1>1, <1>2, <1>4 DEF Cells
  <2>2. limit \in [Cells -> Nat \ {0}]
    BY <1>2 DEF Cells
  <2>3. queue \in [Gens -> Seq(Requests)]
    OBVIOUS
  <2>4. /\ cells \in [Gens -> [Keys -> 0..MaxGen]]
        /\ slot \in [Keys -> 0..MaxGen]
    BY <1>1
  <2>5. /\ pc \in [Requests -> {"idle", "parked", "woken", "leased"}]
        /\ at \in [Requests -> 0..MaxGen]
        /\ query \in [Requests -> Queries]
        /\ held \in [Requests -> SUBSET Cells]
    BY <1>1, <1>3
  <2>6. /\ active \in [Cells -> Int] /\ total \in Int
        /\ blocked \subseteq Cells /\ cooling \subseteq Cells
        /\ done \subseteq Requests /\ ready \subseteq Requests
        /\ retired \subseteq Gens
    OBVIOUS
  <2>7. gen \in Gens /\ cfg \in [Gens -> Configs] /\ lapsed \in BOOLEAN
    BY <1>1, <1>2
  <2> QED
    BY <2>1, <2>2, <2>3, <2>4, <2>5, <2>6, <2>7, Zenon DEF TypeOK
<1>6. QueueAgreement
  BY <1>1 DEF QueueAgreement, Waiting
<1>7. RetiredAreOld
  BY DEF RetiredAreOld
<1>8. CapacityInv
  <2>1. Leased = {} /\ \A x : Holders(x) = {}
    BY DEF Leased, Holders
  <2>2. LeaseAccounting
    BY <2>1, FS_EmptySet DEF LeaseAccounting
  <2>3. NoSplitCapacity /\ HeldByLease
    BY DEF NoSplitCapacity, HeldByLease
  <2>4. CurrentCells
    BY <1>1, <1>2 DEF CurrentCells
  <2>5. CurrentLimits
    BY <1>1, <1>2 DEF CurrentLimits, Cells
  <2> QED
    BY <2>2, <2>3, <2>4, <2>5 DEF CapacityInv
<1> QED
  BY <1>5, <1>6, <1>7, <1>8 DEF IInv

-----------------------------------------------------------------------------
(* Leases                                                                  *)

(* Granting: each counter of the lease goes up by one, and so does the     *)
(* number of leases that point to it.                                      *)
LEMMA GrantKeepsCapacity ==
  ASSUME IInv, NEW c \in Requests, pc[c] # "leased",
         NEW g \in 1..gen, NEW q \in Queries, NEW s \in Runnable(g, q),
         Grant(c, g, s), UNCHANGED <<routerVars, cellVars>>
  PROVE  /\ CapacityInv'
         /\ total' \in Int /\ active' \in [Cells -> Int]
         /\ held' \in [Requests -> SUBSET Cells]
         /\ pc' \in [Requests -> {"idle", "parked", "woken", "leased"}]
         /\ Leased' = Leased \cup {c}
         /\ \A x \in Cells : Holders(x)' = IF x \in Takes(g, s) THEN Holders(x) \cup {c}
                                           ELSE Holders(x)
<1> USE DEF IInv, CapacityInv
<1>1. /\ Takes(g, s) = {<<k, slot[k]>> : k \in Uses(cfg[gen], s)}
      /\ \A k \in Uses(cfg[gen], s) : k \in Keys /\ slot[k] \in Gens
  BY RunnableFacts
<1>2. Takes(g, s) \subseteq Cells
  BY <1>1 DEF Cells
<1>3. /\ held[c] = {}
      /\ held' = [held EXCEPT ![c] = Takes(g, s)]
      /\ pc' = [pc EXCEPT ![c] = "leased"]
      /\ total' = total + 1
      /\ active' = [x \in Cells |-> IF x \in Takes(g, s) THEN active[x] + 1 ELSE active[x]]
  BY DEF HeldByLease, Grant
<1>4. /\ total' \in Int /\ active' \in [Cells -> Int]
      /\ held' \in [Requests -> SUBSET Cells]
      /\ pc' \in [Requests -> {"idle", "parked", "woken", "leased"}]
  BY <1>2, <1>3 DEF TypeOK
<1>5. Leased' = Leased \cup {c} /\ c \notin Leased
  BY <1>3 DEF Leased, TypeOK
<1>6. \A x \in Cells : /\ c \notin Holders(x)
                       /\ Holders(x)' = IF x \in Takes(g, s) THEN Holders(x) \cup {c}
                                        ELSE Holders(x)
  BY <1>3 DEF Holders, TypeOK
<1>7. LeaseAccounting'
  <2>1. IsFiniteSet(Leased) /\ \A x : IsFiniteSet(Holders(x))
    BY FS_Subset, KindsAssumption DEF Leased, Holders
  <2>2. total' = Cardinality(Leased')
    BY <1>3, <1>5, <2>1, FS_AddElement DEF LeaseAccounting
  <2>3. \A x \in Cells : active'[x] = Cardinality(Holders(x)')
    <3>1. TAKE x \in Cells
    <3>2. active[x] = Cardinality(Holders(x))
      BY DEF LeaseAccounting
    <3>3. CASE x \in Takes(g, s)
      BY <1>3, <1>6, <2>1, <3>2, <3>3, FS_AddElement
    <3>4. CASE x \notin Takes(g, s)
      BY <1>3, <1>6, <3>2, <3>4
    <3> QED
      BY <3>3, <3>4
  <2> QED
    BY <2>2, <2>3 DEF LeaseAccounting
<1>8. NoSplitCapacity'
  <2>1. slot' = slot
    BY DEF cellVars
  <2>2. \A x \in Takes(g, s) : x[2] = slot[x[1]]
    BY <1>1
  <2> QED
    BY <1>3, <2>1, <2>2 DEF NoSplitCapacity, TypeOK
<1>9. HeldByLease'
  BY <1>3 DEF HeldByLease, TypeOK
<1>10. CurrentCells' /\ CurrentLimits'
  BY DEF CurrentCells, CurrentLimits, routerVars, cellVars
<1> QED
  BY <1>4, <1>5, <1>6, <1>7, <1>8, <1>9, <1>10

(* Releasing: the reverse, whatever generation granted the lease.          *)
LEMMA ReleaseKeepsCapacity ==
  ASSUME IInv, NEW c \in Requests, NEW status, Release(c, status)
  PROVE  /\ CapacityInv'
         /\ total' \in Int /\ active' \in [Cells -> Int]
         /\ held' \in [Requests -> SUBSET Cells]
         /\ pc' \in [Requests -> {"idle", "parked", "woken", "leased"}]
<1> USE DEF IInv, CapacityInv
<1>1. /\ pc[c] = "leased"
      /\ held' = [held EXCEPT ![c] = {}]
      /\ pc' = [pc EXCEPT ![c] = "idle"]
      /\ total' = total - 1
      /\ active' = [x \in Cells |-> IF x \in held[c] THEN active[x] - 1 ELSE active[x]]
      /\ slot' = slot /\ limit' = limit /\ gen' = gen /\ cfg' = cfg /\ cells' = cells
  BY DEF Release, routerVars
<1>2. /\ total' \in Int /\ active' \in [Cells -> Int]
      /\ held' \in [Requests -> SUBSET Cells]
      /\ pc' \in [Requests -> {"idle", "parked", "woken", "leased"}]
  BY <1>1 DEF TypeOK
<1>3. Leased' = Leased \ {c} /\ c \in Leased
  BY <1>1 DEF Leased, TypeOK
<1>4. \A x \in Cells : /\ Holders(x)' = Holders(x) \ {c}
                       /\ c \in Holders(x) <=> x \in held[c]
  BY <1>1 DEF Holders, TypeOK
<1>5. LeaseAccounting'
  <2>1. IsFiniteSet(Leased) /\ \A x : IsFiniteSet(Holders(x))
    BY FS_Subset, KindsAssumption DEF Leased, Holders
  <2>2. total' = Cardinality(Leased')
    BY <1>1, <1>3, <2>1, FS_RemoveElement DEF LeaseAccounting
  <2>3. \A x \in Cells : active'[x] = Cardinality(Holders(x)')
    <3>1. TAKE x \in Cells
    <3>2. active[x] = Cardinality(Holders(x))
      BY DEF LeaseAccounting
    <3>3. Cardinality(Holders(x)') = IF c \in Holders(x) THEN Cardinality(Holders(x)) - 1
                                     ELSE Cardinality(Holders(x))
      BY <1>4, <2>1, FS_RemoveElement
    <3> QED
      BY <1>1, <1>4, <3>2, <3>3
  <2> QED
    BY <2>2, <2>3 DEF LeaseAccounting
<1>6. NoSplitCapacity' /\ HeldByLease'
  BY <1>1 DEF NoSplitCapacity, HeldByLease, TypeOK
<1>7. CurrentCells' /\ CurrentLimits'
  BY <1>1 DEF CurrentCells, CurrentLimits
<1> QED
  BY <1>2, <1>5, <1>6, <1>7

-----------------------------------------------------------------------------
(* Queues                                                                  *)

(* A waiting request is found at one position of its router's queue.       *)
LEMMA PositionFacts ==
  ASSUME TypeOK, QueueAgreement, NEW c \in Requests, Waiting(c), at[c] \in Gens
  PROVE  /\ Position(at[c], c) \in 1..Len(queue[at[c]])
         /\ queue[at[c]][Position(at[c], c)] = c
<1>1. queue[at[c]] \in Seq(Requests)
  BY DEF TypeOK
<1>2. DOMAIN queue[at[c]] = 1..Len(queue[at[c]])
  BY <1>1, LenProperties
<1>3. \E i \in DOMAIN queue[at[c]] : queue[at[c]][i] = c
  BY DEF QueueAgreement
<1> QED
  BY <1>2, <1>3 DEF Position

(* Joining the queue of a router (the enqueue in Acquire).                 *)
LEMMA JoinKeepsQueue ==
  ASSUME TypeOK, QueueAgreement, NEW c \in Requests, NEW g \in Gens,
         ~Waiting(c), Len(queue[g]) < MaxQueued,
         queue' = [queue EXCEPT ![g] = Append(@, c)],
         pc' = [pc EXCEPT ![c] = "parked"],
         at' = [at EXCEPT ![c] = g]
  PROVE  queue' \in [Gens -> Seq(Requests)] /\ QueueAgreement'
<1>1. \A h \in Gens : /\ queue[h] \in Seq(Requests)
                      /\ Len(queue[h]) \in Nat
                      /\ DOMAIN queue[h] = 1..Len(queue[h])
  BY LenProperties DEF TypeOK
<1>2. /\ queue'[g] = Append(queue[g], c)
      /\ \A h \in Gens \ {g} : queue'[h] = queue[h]
  BY DEF TypeOK
<1>3. /\ queue'[g] \in Seq(Requests)
      /\ Len(queue'[g]) = Len(queue[g]) + 1
      /\ DOMAIN queue'[g] = 1..(Len(queue[g]) + 1)
      /\ \A i \in 1..Len(queue[g]) : queue'[g][i] = queue[g][i]
      /\ queue'[g][Len(queue[g]) + 1] = c
  <2> DEFINE q == queue[g]
  <2>1. q \in Seq(Requests)
    BY <1>1
  <2>2. /\ Append(q, c) \in Seq(Requests)
        /\ Len(Append(q, c)) = Len(q) + 1
        /\ \A i \in 1..Len(q) : Append(q, c)[i] = q[i]
        /\ Append(q, c)[Len(q) + 1] = c
    BY <2>1
  <2>3. DOMAIN Append(q, c) = 1..(Len(q) + 1)
    BY <2>2, LenProperties
  <2> QED
    BY <1>2, <2>2, <2>3
<1>4. queue' \in [Gens -> Seq(Requests)]
  BY <1>1, <1>2, <1>3 DEF TypeOK
<1>5. \A h \in Gens : \A i \in DOMAIN queue[h] : queue[h][i] # c
  BY DEF QueueAgreement
<1>6. \A h \in Gens :
        /\ Len(queue'[h]) <= MaxQueued
        /\ \A i, j \in DOMAIN queue'[h] : queue'[h][i] = queue'[h][j] => i = j
  <2>1. TAKE h \in Gens
  <2>2. /\ Len(queue[h]) <= MaxQueued
        /\ \A i, j \in DOMAIN queue[h] : queue[h][i] = queue[h][j] => i = j
    BY DEF QueueAgreement
  <2>3. CASE h = g
    BY <1>1, <1>3, <1>5, <2>2, <2>3, BoundsAssumption
  <2>4. CASE h # g
    BY <1>2, <2>2, <2>4
  <2> QED
    BY <2>3, <2>4
<1>7. \A d \in Requests, h \in Gens :
        (\E i \in DOMAIN queue'[h] : queue'[h][i] = d) <=> (Waiting(d)' /\ at'[d] = h)
  <2>1. TAKE d \in Requests, h \in Gens
  <2>2. (\E i \in DOMAIN queue[h] : queue[h][i] = d) <=> (Waiting(d) /\ at[d] = h)
    BY DEF QueueAgreement
  <2>3. (\E i \in DOMAIN queue'[h] : queue'[h][i] = d)
          <=> \/ \E i \in DOMAIN queue[h] : queue[h][i] = d
              \/ h = g /\ d = c
    BY <1>1, <1>2, <1>3
  <2>4. d = c => Waiting(d)' /\ at'[d] = g
    BY DEF TypeOK, Waiting
  <2>5. d # c => pc'[d] = pc[d] /\ at'[d] = at[d]
    BY DEF TypeOK
  <2> QED
    BY <2>2, <2>3, <2>4, <2>5 DEF Waiting
<1> QED
  BY <1>4, <1>6, <1>7 DEF QueueAgreement

(* Leaving the queue (removeWaiter).                                       *)
LEMMA LeaveKeepsQueue ==
  ASSUME TypeOK, QueueAgreement, NEW c \in Requests, NEW g \in Gens,
         Waiting(c), at[c] = g,
         queue' = [queue EXCEPT ![g] = RemoveWaiter(g, c)],
         ~Waiting(c)',
         \A d \in Requests \ {c} : pc'[d] = pc[d] /\ at'[d] = at[d]
  PROVE  queue' \in [Gens -> Seq(Requests)] /\ QueueAgreement'
<1> DEFINE p == Position(g, c)
<1>1. \A h \in Gens : /\ queue[h] \in Seq(Requests)
                      /\ Len(queue[h]) \in Nat
                      /\ DOMAIN queue[h] = 1..Len(queue[h])
  BY LenProperties DEF TypeOK
<1>2. p \in 1..Len(queue[g]) /\ queue[g][p] = c
  BY PositionFacts
<1>3. /\ queue'[g] = RemoveAt(queue[g], p)
      /\ \A h \in Gens \ {g} : queue'[h] = queue[h]
  BY DEF TypeOK, RemoveWaiter
<1> HIDE DEF p
<1>4. /\ queue'[g] \in Seq(Requests)
      /\ Len(queue'[g]) = Len(queue[g]) - 1
      /\ \A j \in 1..(Len(queue[g]) - 1) :
           queue'[g][j] = IF j < p THEN queue[g][j] ELSE queue[g][j + 1]
  <2> DEFINE q == queue[g]
  <2>1. q \in Seq(Requests) /\ p \in 1..Len(q)
    BY <1>1, <1>2
  <2>2. /\ RemoveAt(q, p) \in Seq(Requests)
        /\ Len(RemoveAt(q, p)) = Len(q) - 1
        /\ \A j \in 1..(Len(q) - 1) :
             RemoveAt(q, p)[j] = IF j < p THEN q[j] ELSE q[j + 1]
    <3> HIDE DEF q
    <3> QED
      BY <2>1, RemoveAtProperties
  <2> QED
    BY <1>3, <2>2
<1>5. DOMAIN queue'[g] = 1..(Len(queue[g]) - 1)
  BY <1>4, LenProperties
<1>6. queue' \in [Gens -> Seq(Requests)]
  BY <1>1, <1>3, <1>4 DEF TypeOK
<1>7. \A i, j \in 1..Len(queue[g]) : queue[g][i] = queue[g][j] => i = j
  BY <1>1 DEF QueueAgreement
<1>8. \A h \in Gens :
        /\ Len(queue'[h]) <= MaxQueued
        /\ \A i, j \in DOMAIN queue'[h] : queue'[h][i] = queue'[h][j] => i = j
  <2>1. TAKE h \in Gens
  <2>2. /\ Len(queue[h]) <= MaxQueued
        /\ \A i, j \in DOMAIN queue[h] : queue[h][i] = queue[h][j] => i = j
    BY DEF QueueAgreement
  <2>3. CASE h = g
    <3>1. Len(queue'[h]) <= MaxQueued
      BY <1>1, <1>4, <2>2, <2>3, BoundsAssumption
    <3>2. ASSUME NEW i \in DOMAIN queue'[h], NEW j \in DOMAIN queue'[h],
                 queue'[h][i] = queue'[h][j]
          PROVE  i = j
      <4> DEFINE f(n) == IF n < p THEN n ELSE n + 1
      <4>1. i \in 1..(Len(queue[g]) - 1) /\ j \in 1..(Len(queue[g]) - 1)
        BY <1>5, <2>3
      <4>2. /\ f(i) \in 1..Len(queue[g]) /\ queue'[g][i] = queue[g][f(i)]
            /\ f(j) \in 1..Len(queue[g]) /\ queue'[g][j] = queue[g][f(j)]
        <5>1. p \in Nat /\ Len(queue[g]) \in Nat
          BY <1>1, <1>2
        <5>2. ASSUME NEW n \in 1..(Len(queue[g]) - 1)
              PROVE  f(n) \in 1..Len(queue[g]) /\ queue'[g][n] = queue[g][f(n)]
          <6>1. f(n) \in 1..Len(queue[g])
            BY <5>1
          <6>2. CASE n < p
            BY <1>4, <6>1, <6>2
          <6>3. CASE ~(n < p)
            BY <1>4, <6>1, <6>3
          <6> QED
            BY <6>2, <6>3
        <5> HIDE DEF f
        <5> QED
          BY <4>1, <5>2
      <4>3. f(i) = f(j)
        <5> HIDE DEF f
        <5> QED
          BY <1>7, <2>3, <3>2, <4>2
      <4> QED
        BY <1>1, <1>2, <4>1, <4>3
    <3> QED
      BY <3>1, <3>2
  <2>4. CASE h # g
    BY <1>3, <2>2, <2>4
  <2> QED
    BY <2>3, <2>4
<1>9. \A d \in Requests, h \in Gens :
        (\E i \in DOMAIN queue'[h] : queue'[h][i] = d) <=> (Waiting(d)' /\ at'[d] = h)
  <2>1. TAKE d \in Requests, h \in Gens
  <2>2. (\E i \in DOMAIN queue[h] : queue[h][i] = d) <=> (Waiting(d) /\ at[d] = h)
    BY DEF QueueAgreement
  <2>3. CASE d = c
    <3>1. ~\E i \in DOMAIN queue'[h] : queue'[h][i] = c
      <4>1. CASE h = g
        BY <1>1, <1>2, <1>4, <1>5, <1>7, <4>1
      <4>2. CASE h # g
        BY <1>3, <2>2, <2>3, <4>2
      <4> QED
        BY <4>1, <4>2
    <3> QED
      BY <2>3, <3>1
  <2>4. CASE d # c
    <3>1. pc'[d] = pc[d] /\ at'[d] = at[d]
      BY <2>4
    <3>2. (\E i \in DOMAIN queue'[h] : queue'[h][i] = d)
            <=> \E i \in DOMAIN queue[h] : queue[h][i] = d
      <4>1. CASE h = g
        <5>1. ASSUME NEW i \in DOMAIN queue'[g], queue'[g][i] = d
              PROVE  \E j \in DOMAIN queue[g] : queue[g][j] = d
          BY <1>1, <1>2, <1>4, <1>5, <5>1
        <5>2. ASSUME NEW i \in DOMAIN queue[g], queue[g][i] = d
              PROVE  \E j \in DOMAIN queue'[g] : queue'[g][j] = d
          <6>1. i \in 1..Len(queue[g]) /\ i # p
            BY <1>1, <1>2, <2>4, <5>2
          <6>2. CASE i < p
            <7>1. i \in DOMAIN queue'[g] /\ queue'[g][i] = d
              BY <1>1, <1>2, <1>4, <1>5, <5>2, <6>1, <6>2
            <7> QED
              BY <7>1
          <6>3. CASE i > p
            <7>1. i - 1 \in DOMAIN queue'[g] /\ queue'[g][i - 1] = d
              BY <1>1, <1>2, <1>4, <1>5, <5>2, <6>1, <6>3
            <7> QED
              BY <7>1
          <6> QED
            BY <1>1, <1>2, <6>1, <6>2, <6>3
        <5> QED
          BY <4>1, <5>1, <5>2
      <4>2. CASE h # g
        BY <1>3, <4>2
      <4> QED
        BY <4>1, <4>2
    <3> QED
      BY <2>2, <3>1, <3>2 DEF Waiting
  <2> QED
    BY <2>3, <2>4
<1> QED
  BY <1>6, <1>8, <1>9 DEF QueueAgreement

(* A step that moves no request into or out of a queue.                    *)
LEMMA SameQueue ==
  ASSUME QueueAgreement, queue' = queue,
         \A d \in Requests : Waiting(d)' <=> Waiting(d),
         \A d \in Requests : Waiting(d) => at'[d] = at[d]
  PROVE  QueueAgreement'
BY DEF QueueAgreement

(* Tokens only go to requests.                                             *)
LEMMA SignalledType ==
  ASSUME NEW g \in Gens, queue' \in [Gens -> Seq(Requests)]
  PROVE  Signalled(g)' \subseteq Requests
<1>1. queue'[g] \in Seq(Requests) /\ DOMAIN queue'[g] = 1..Len(queue'[g])
  BY LenProperties
<1>2. \A i \in DOMAIN queue'[g] : queue'[g][i] \in Requests
  BY <1>1, ElementOfSeq
<1> QED
  BY <1>2 DEF Signalled

-----------------------------------------------------------------------------
(* Steps                                                                   *)

(* A step that grants and returns nothing, in the same configuration.      *)
LEMMA SameCapacity ==
  ASSUME CapacityInv, UNCHANGED <<routerVars, slot, limit, useVars>>,
         \A d \in Requests : pc'[d] = "leased" <=> pc[d] = "leased"
  PROVE  CapacityInv'
<1>1. Leased' = Leased /\ \A x : Holders(x)' = Holders(x)
  BY DEF Leased, Holders, useVars
<1>2. LeaseAccounting'
  BY <1>1 DEF CapacityInv, LeaseAccounting, useVars
<1>3. NoSplitCapacity' /\ HeldByLease'
  BY DEF CapacityInv, NoSplitCapacity, HeldByLease, useVars
<1>4. CurrentCells' /\ CurrentLimits'
  BY DEF CapacityInv, CurrentCells, CurrentLimits, routerVars
<1> QED
  BY <1>2, <1>3, <1>4 DEF CapacityInv

(* Acquire, when a newcomer is served at once.                             *)
LEMMA AcquireNowStep ==
  ASSUME IInv, NEW c \in Requests, NEW g \in 1..gen, NEW q \in Queries,
         AcquireNow(c, g, q)
  PROVE  IInv'
<1> USE DEF IInv
<1>1. /\ pc[c] = "idle"
      /\ at' = [at EXCEPT ![c] = g]
      /\ query' = [query EXCEPT ![c] = q]
      /\ UNCHANGED <<routerVars, cellVars, queue, done, ready, lapsed>>
  BY DEF AcquireNow
<1>2. PICK s \in Runnable(g, q) : Grant(c, g, s)
  BY DEF AcquireNow
<1>3. /\ CapacityInv'
      /\ total' \in Int /\ active' \in [Cells -> Int]
      /\ held' \in [Requests -> SUBSET Cells]
      /\ pc' \in [Requests -> {"idle", "parked", "woken", "leased"}]
  BY <1>1, <1>2, GrantKeepsCapacity
<1>4. gen \in Nat /\ g \in 0..MaxGen
  BY BoundsAssumption DEF TypeOK, Gens
<1>5. TypeOK'
  BY <1>1, <1>3, <1>4 DEF TypeOK, routerVars, cellVars
<1>6. QueueAgreement'
  BY <1>1, <1>2, SameQueue DEF TypeOK, Grant, Waiting
<1>7. RetiredAreOld'
  BY <1>1, <1>4 DEF TypeOK, RetiredAreOld, routerVars
<1> QED
  BY <1>3, <1>5, <1>6, <1>7

(* Acquire, when a newcomer has to queue.                                  *)
LEMMA AcquireQueueStep ==
  ASSUME IInv, NEW c \in Requests, NEW g \in 1..gen, NEW q \in Queries,
         AcquireQueue(c, g, q)
  PROVE  IInv'
<1> USE DEF IInv
<1>1. /\ pc[c] = "idle" /\ Len(queue[g]) < MaxQueued
      /\ queue' = [queue EXCEPT ![g] = Append(@, c)]
      /\ pc' = [pc EXCEPT ![c] = "parked"]
      /\ at' = [at EXCEPT ![c] = g]
      /\ query' = [query EXCEPT ![c] = q]
      /\ UNCHANGED <<routerVars, cellVars, useVars, done, ready, lapsed>>
  BY DEF AcquireQueue
<1>2. gen \in Nat /\ g \in 0..MaxGen /\ g \in Gens
  BY BoundsAssumption DEF TypeOK, Gens
<1>3. queue' \in [Gens -> Seq(Requests)] /\ QueueAgreement'
  BY <1>1, <1>2, JoinKeepsQueue DEF Waiting
<1>4. TypeOK'
  BY <1>1, <1>2, <1>3 DEF TypeOK, routerVars, cellVars, useVars
<1>5. RetiredAreOld'
  BY <1>1, <1>2 DEF TypeOK, RetiredAreOld, routerVars
<1>6. CapacityInv'
  BY <1>1, SameCapacity DEF TypeOK, cellVars
<1> QED
  BY <1>3, <1>4, <1>5, <1>6

(* The select of Acquire returns, or the context ends, or the waiter goes  *)
(* back to the select: only pc, done and ready change.                     *)
LEMMA SelectStep ==
  ASSUME IInv, NEW c \in Requests,
         \/ WakeByToken(c) \/ WakeByContext(c) \/ WakeByTimer(c) \/ Cancel(c)
         \/ \E g \in Gens : ResumeWait(c, g)
  PROVE  IInv'
<1> USE DEF IInv
<1>1. /\ UNCHANGED <<routerVars, cellVars, useVars, queue, at, query, lapsed>>
      /\ done' \subseteq Requests /\ ready' \subseteq Requests
      /\ Waiting(c)
      /\ \/ pc' = pc
         \/ pc' = [pc EXCEPT ![c] = "woken"]
         \/ pc' = [pc EXCEPT ![c] = "parked"]
  BY DEF WakeByToken, WakeByContext, WakeByTimer, Cancel, ResumeWait, Waiting, TypeOK
<1>2. /\ pc' \in [Requests -> {"idle", "parked", "woken", "leased"}]
      /\ \A d \in Requests : Waiting(d)' <=> Waiting(d)
      /\ \A d \in Requests : pc'[d] = "leased" <=> pc[d] = "leased"
  BY <1>1 DEF TypeOK, Waiting
<1>3. TypeOK'
  BY <1>1, <1>2 DEF TypeOK, routerVars, cellVars, useVars
<1>4. QueueAgreement'
  BY <1>1, <1>2, SameQueue
<1>5. RetiredAreOld'
  BY <1>1 DEF RetiredAreOld, routerVars
<1>6. CapacityInv'
  BY <1>1, <1>2, SameCapacity DEF cellVars
<1> QED
  BY <1>3, <1>4, <1>5, <1>6

(* A waiter leaves without a lease.                                        *)
LEMMA ResumeRefusedStep ==
  ASSUME IInv, NEW c \in Requests, NEW g \in Gens, ResumeRefused(c, g)
  PROVE  IInv'
<1> USE DEF IInv
<1>1. /\ pc[c] = "woken" /\ g = at[c]
      /\ pc' = [pc EXCEPT ![c] = "idle"]
      /\ at' = [at EXCEPT ![c] = 0]
      /\ query' = [query EXCEPT ![c] = AnyQuery]
      /\ queue' = [queue EXCEPT ![g] = RemoveWaiter(g, c)]
      /\ done' = done \ {c}
      /\ ready' = (ready \ {c}) \cup Signalled(g)'
      /\ lapsed' = (lapsed /\ g # gen)
      /\ UNCHANGED <<routerVars, cellVars, useVars>>
  BY DEF ResumeRefused, LeaveQueue, Forget
<1>2. AnyQuery \in Queries
  BY KindsAssumption DEF AnyQuery
<1>3. queue' \in [Gens -> Seq(Requests)] /\ QueueAgreement'
  <2>1. Waiting(c) /\ ~Waiting(c)'
    BY <1>1 DEF TypeOK, Waiting
  <2>2. \A d \in Requests \ {c} : pc'[d] = pc[d] /\ at'[d] = at[d]
    BY <1>1 DEF TypeOK
  <2> QED
    BY <1>1, <2>1, <2>2, LeaveKeepsQueue
<1>4. ready' \subseteq Requests
  BY <1>1, <1>3, SignalledType DEF TypeOK
<1>5. gen \in Nat
  BY DEF TypeOK, Gens
<1>6. lapsed' \in BOOLEAN
  BY <1>1, Zenon
<1>7. /\ pc' \in [Requests -> {"idle", "parked", "woken", "leased"}]
      /\ at' \in [Requests -> 0..MaxGen]
      /\ query' \in [Requests -> Queries]
  BY <1>1, <1>2, BoundsAssumption DEF TypeOK
<1>8. TypeOK'
  BY <1>1, <1>3, <1>4, <1>6, <1>7 DEF TypeOK, routerVars, cellVars, useVars
<1>9. RetiredAreOld'
  BY <1>1, <1>5 DEF TypeOK, RetiredAreOld, routerVars
<1>10. CapacityInv'
  BY <1>1, SameCapacity DEF TypeOK, cellVars
<1> QED
  BY <1>3, <1>8, <1>9, <1>10

(* A waiter leaves with a lease.                                           *)
LEMMA ResumeGrantStep ==
  ASSUME IInv, NEW c \in Requests, NEW g \in Gens, ResumeGrant(c, g)
  PROVE  IInv'
<1> USE DEF IInv
<1>1. /\ pc[c] = "woken" /\ g = at[c]
      /\ queue' = [queue EXCEPT ![g] = RemoveWaiter(g, c)]
      /\ done' = done \ {c}
      /\ ready' = (ready \ {c}) \cup Signalled(g)'
      /\ lapsed' = (lapsed /\ g # gen)
      /\ UNCHANGED <<routerVars, cellVars, at, query>>
  BY DEF ResumeGrant, LeaveQueue
<1>2. PICK s \in Runnable(g, query[c]) : Grant(c, g, s)
  BY DEF ResumeGrant
<1>3. g \in 1..gen /\ query[c] \in Queries
  BY <1>1, BoundsAssumption DEF TypeOK, RetiredAreOld, Gens
<1>4. /\ CapacityInv'
      /\ total' \in Int /\ active' \in [Cells -> Int]
      /\ held' \in [Requests -> SUBSET Cells]
      /\ pc' \in [Requests -> {"idle", "parked", "woken", "leased"}]
  BY <1>1, <1>2, <1>3, GrantKeepsCapacity
<1>5. pc' = [pc EXCEPT ![c] = "leased"]
  BY <1>2 DEF Grant
<1>6. queue' \in [Gens -> Seq(Requests)] /\ QueueAgreement'
  <2>1. Waiting(c) /\ ~Waiting(c)'
    BY <1>1, <1>5 DEF TypeOK, Waiting
  <2>2. \A d \in Requests \ {c} : pc'[d] = pc[d] /\ at'[d] = at[d]
    BY <1>1, <1>5 DEF TypeOK
  <2> QED
    BY <1>1, <2>1, <2>2, LeaveKeepsQueue
<1>7. ready' \subseteq Requests
  BY <1>1, <1>6, SignalledType DEF TypeOK
<1>8. lapsed' \in BOOLEAN
  BY <1>1, Zenon
<1>9. TypeOK'
  BY <1>1, <1>4, <1>6, <1>7, <1>8 DEF TypeOK, routerVars, cellVars
<1>10. RetiredAreOld'
  BY <1>1 DEF RetiredAreOld, routerVars
<1> QED
  BY <1>4, <1>6, <1>9, <1>10

(* A lease is returned.                                                    *)
LEMMA ReleaseStep ==
  ASSUME IInv, NEW c \in Requests, NEW status, Release(c, status)
  PROVE  IInv'
<1> USE DEF IInv
<1>1. /\ pc[c] = "leased"
      /\ pc' = [pc EXCEPT ![c] = "idle"]
      /\ at' = [at EXCEPT ![c] = 0]
      /\ query' = [query EXCEPT ![c] = AnyQuery]
      /\ blocked' = blocked \cup Blocks(c, status)
      /\ cooling' = cooling \cup Cools(c, status)
      /\ UNCHANGED <<routerVars, slot, limit, enabled, queue, done>>
      /\ ready' = ready \cup Signalled(gen)'
      /\ lapsed' = FALSE
  BY DEF Release, Forget
<1>2. /\ CapacityInv'
      /\ total' \in Int /\ active' \in [Cells -> Int]
      /\ held' \in [Requests -> SUBSET Cells]
      /\ pc' \in [Requests -> {"idle", "parked", "woken", "leased"}]
  BY ReleaseKeepsCapacity
<1>3. AnyQuery \in Queries
  BY KindsAssumption DEF AnyQuery
<1>4. /\ blocked' \subseteq Cells /\ cooling' \subseteq Cells
      /\ queue' \in [Gens -> Seq(Requests)]
      /\ at' \in [Requests -> 0..MaxGen]
      /\ query' \in [Requests -> Queries]
  BY <1>1, <1>3, BoundsAssumption DEF TypeOK, Blocks, Cools
<1>5. ready' \subseteq Requests
  <2>1. gen' = gen /\ gen \in Gens
    BY <1>1 DEF TypeOK, routerVars
  <2>2. PICK g \in Gens : g = gen
    BY <2>1
  <2>3. Signalled(g)' \subseteq Requests
    BY <1>4, SignalledType
  <2> QED
    BY <1>1, <2>1, <2>2, <2>3 DEF TypeOK, Signalled
<1>6. TypeOK'
  BY <1>1, <1>2, <1>4, <1>5 DEF TypeOK, routerVars
<1>7. QueueAgreement'
  <2>1. \A d \in Requests : (Waiting(d)' <=> Waiting(d)) /\ (Waiting(d) => at'[d] = at[d])
    BY <1>1 DEF TypeOK, Waiting
  <2> QED
    BY <1>1, <2>1, SameQueue
<1>8. RetiredAreOld'
  BY <1>1 DEF TypeOK, RetiredAreOld, routerVars, Gens
<1> QED
  BY <1>2, <1>6, <1>7, <1>8

(* Time passes the end of a cooldown.                                      *)
LEMMA CooldownStep ==
  ASSUME IInv, NEW x \in Cells, CooldownEnds(x)
  PROVE  IInv'
<1> USE DEF IInv
<1>1. /\ UNCHANGED <<routerVars, slot, limit, enabled, blocked, useVars, queue, requestVars>>
      /\ cooling' = cooling \ {x} /\ lapsed' = TRUE
  BY DEF CooldownEnds
<1>2. TypeOK'
  BY <1>1 DEF TypeOK, routerVars, useVars, requestVars
<1>3. QueueAgreement'
  BY <1>1, SameQueue DEF requestVars, Waiting
<1>4. RetiredAreOld'
  BY <1>1 DEF RetiredAreOld, routerVars, requestVars
<1>5. CapacityInv'
  BY <1>1, SameCapacity DEF requestVars
<1> QED
  BY <1>2, <1>3, <1>4, <1>5

(* A source is switched on or off.                                         *)
LEMMA SetEnabledStep ==
  ASSUME IInv, NEW s \in Sources, NEW on \in BOOLEAN, SetEnabled(s, on)
  PROVE  IInv'
<1> USE DEF IInv
<1>1. /\ s \in cfg[gen].sources
      /\ enabled' \subseteq enabled \cup {Cell(gen, s)}
      /\ blocked' \subseteq blocked
      /\ UNCHANGED <<routerVars, slot, limit, cooling, useVars, queue, pc, at, query, done>>
      /\ ready' = ready \cup Signalled(gen)'
      /\ lapsed' = FALSE
  BY DEF SetEnabled
<1>2. gen \in Gens /\ cfg[gen] \in Configs
  BY DEF TypeOK
<1>3. Cell(gen, s) \in Cells
  <2>1. s \in UsedKeys(cfg[gen]) /\ s \in Keys
    BY <1>1, <1>2, UsesAreKeys
  <2>2. cells[gen][s] = slot[s] /\ slot[s] \in Gens
    BY <2>1 DEF CapacityInv, CurrentCells
  <2> QED
    BY <2>1, <2>2 DEF Cell, Cells
<1>4. ready' \subseteq Requests
  <2>1. PICK g \in Gens : g = gen
    BY <1>2
  <2>2. queue' \in [Gens -> Seq(Requests)] /\ gen' = gen
    BY <1>1 DEF TypeOK, routerVars
  <2>3. Signalled(g)' \subseteq Requests
    BY <2>2, SignalledType
  <2> QED
    BY <1>1, <2>1, <2>2, <2>3 DEF TypeOK, Signalled
<1>5. TypeOK'
  BY <1>1, <1>3, <1>4 DEF TypeOK, routerVars, useVars
<1>6. QueueAgreement'
  BY <1>1, SameQueue DEF Waiting
<1>7. RetiredAreOld'
  BY <1>1 DEF RetiredAreOld, routerVars
<1>8. CapacityInv'
  BY <1>1, SameCapacity
<1> QED
  BY <1>5, <1>6, <1>7, <1>8

(* The next generation takes over.  The step that matters: a key with an   *)
(* outstanding lease keeps its cell, because its counter is not zero.      *)
LEMMA AdoptStep ==
  ASSUME IInv, NEW cf \in Configs, Adopt(cf)
  PROVE  IInv'
<1> USE DEF IInv
<1>1. /\ gen < MaxGen /\ gen' = gen + 1
      /\ cfg' = [cfg EXCEPT ![gen + 1] = cf]
      /\ cells' = [cells EXCEPT ![gen + 1] = AdoptedCells(cf)]
      /\ slot' = AdoptedSlot(cf)
      /\ limit' = AdoptedLimit(cf)
      /\ AdoptHealth(cf)
      /\ retired' = retired \cup {gen}
      /\ ready' = ready \cup OldWaiters
      /\ lapsed' = FALSE
      /\ UNCHANGED <<queue, cooling, useVars, pc, at, query, done>>
  BY DEF Adopt
<1>2. /\ gen \in Nat /\ gen \in Gens /\ gen' \in Gens
      /\ MaxGen \in Nat /\ Gens = 1..MaxGen /\ gen + 1 \in 0..MaxGen
  BY <1>1, BoundsAssumption DEF TypeOK, Gens
<1>3. /\ cf.sources \subseteq Sources /\ UsedKeys(cf) \subseteq Keys
      /\ Sources \subseteq Keys
      /\ \A k \in Keys : cf.limit[k] \in Nat \ {0}
  BY UsesAreKeys DEF Keys
<1>4. \A k \in Keys : AdoptedCell(k) \in Gens
  BY <1>1, <1>2 DEF AdoptedCell, TypeOK
<1>5. TypeOK'
  <2>1. cells' \in [Gens -> [Keys -> 0..MaxGen]]
    <3>1. AdoptedCells(cf) \in [Keys -> 0..MaxGen]
      BY <1>2, <1>4 DEF AdoptedCells
    <3> QED
      BY <1>1, <3>1 DEF TypeOK
  <2>2. slot' \in [Keys -> 0..MaxGen]
    BY <1>1, <1>2, <1>4 DEF AdoptedSlot, TypeOK
  <2>3. limit' \in [Cells -> Nat \ {0}]
    BY <1>1, <1>3 DEF AdoptedLimit, TypeOK, Cells
  <2>4. enabled' \subseteq Cells /\ blocked' \subseteq Cells
    BY <1>1, <1>3, <1>4 DEF AdoptHealth, TypeOK, Cells
  <2>5. ready' \subseteq Requests
    <3>1. queue[gen] \in Seq(Requests) /\ DOMAIN queue[gen] = 1..Len(queue[gen])
      BY <1>2, LenProperties DEF TypeOK
    <3>2. OldWaiters \subseteq Requests
      BY <3>1, ElementOfSeq DEF OldWaiters
    <3> QED
      BY <1>1, <3>2 DEF TypeOK
  <2>6. cfg' \in [Gens -> Configs] /\ retired' \subseteq Gens
    BY <1>1, <1>2 DEF TypeOK
  <2> QED
    BY <1>1, <1>2, <2>1, <2>2, <2>3, <2>4, <2>5, <2>6 DEF TypeOK, useVars
<1>6. QueueAgreement'
  BY <1>1, SameQueue DEF Waiting
<1>7. RetiredAreOld'
  BY <1>1, <1>2 DEF RetiredAreOld, TypeOK
<1>8. cfg'[gen'] = cf /\ cells'[gen'] = AdoptedCells(cf)
  BY <1>1, <1>2 DEF TypeOK
<1>9. CapacityInv'
  <2>1. LeaseAccounting'
    BY <1>1 DEF CapacityInv, LeaseAccounting, Leased, Holders, useVars
  <2>2. HeldByLease'
    BY <1>1 DEF CapacityInv, HeldByLease, useVars
  <2>3. NoSplitCapacity'
    <3>1. SUFFICES ASSUME NEW c \in Requests, NEW x \in held[c]
                   PROVE  x[2] = slot'[x[1]]
      BY <1>1 DEF NoSplitCapacity, useVars
    <3>2. /\ x \in Cells /\ x[1] \in Keys /\ x[2] \in Gens
          /\ x[2] = slot[x[1]] /\ x = <<x[1], slot[x[1]]>>
      BY DEF TypeOK, Cells, CapacityInv, NoSplitCapacity
    <3>3. slot[x[1]] # 0
      BY <1>2, <3>2
    <3>4. active[x] # 0
      <4>1. c \in Holders(x) /\ IsFiniteSet(Holders(x))
        BY FS_Subset, KindsAssumption DEF Holders
      <4>2. Cardinality(Holders(x)) # 0
        BY <4>1, FS_EmptySet
      <4> QED
        BY <3>2, <4>2 DEF CapacityInv, LeaseAccounting
    <3>5. active[<<x[1], slot[x[1]]>>] # 0
      BY <3>2, <3>4
    <3>6. slot'[x[1]] = slot[x[1]]
      BY <1>1, <3>2, <3>3, <3>5 DEF AdoptedSlot, AdoptedCell
    <3> QED
      BY <3>2, <3>6
  <2>4. \A k \in UsedKeys(cf) : slot'[k] = AdoptedCell(k) /\ cells'[gen'][k] = AdoptedCell(k)
    BY <1>1, <1>3, <1>8 DEF AdoptedSlot, AdoptedCells
  <2>5. CurrentCells'
    BY <1>3, <1>4, <1>8, <2>4 DEF CurrentCells
  <2>6. CurrentLimits'
    <3>1. SUFFICES ASSUME NEW k \in UsedKeys(cf) \ Sources
                   PROVE  limit'[<<k, slot'[k]>>] = cf.limit[k]
      BY <1>8 DEF CurrentLimits
    <3>2. slot'[k] = AdoptedCell(k) /\ <<k, AdoptedCell(k)>> \in Cells
      BY <1>3, <1>4, <2>4 DEF Cells
    <3> QED
      BY <1>1, <3>2 DEF AdoptedLimit
  <2> QED
    BY <2>1, <2>2, <2>3, <2>5, <2>6 DEF CapacityInv
<1> QED
  BY <1>5, <1>6, <1>7, <1>9

(* IInv is inductive.                                                      *)
LEMMA NextInv == IInv /\ [Next]_vars => IInv'
<1> SUFFICES ASSUME IInv, [Next]_vars PROVE IInv'
  OBVIOUS
<1>1. ASSUME NEW c \in Requests, RequestStep(c) PROVE IInv'
  <2>1. ASSUME NEW g \in 1..gen, NEW q \in Queries, AcquireNow(c, g, q) PROVE IInv'
    BY <2>1, AcquireNowStep
  <2>2. ASSUME NEW g \in 1..gen, NEW q \in Queries, AcquireQueue(c, g, q) PROVE IInv'
    BY <2>2, AcquireQueueStep
  <2>3. CASE WakeByToken(c) \/ WakeByContext(c) \/ WakeByTimer(c) \/ Cancel(c)
    BY <2>3, SelectStep
  <2>4. ASSUME NEW g \in Gens, ResumeRefused(c, g) PROVE IInv'
    BY <2>4, ResumeRefusedStep
  <2>5. ASSUME NEW g \in Gens, ResumeGrant(c, g) PROVE IInv'
    BY <2>5, ResumeGrantStep
  <2>6. ASSUME NEW g \in Gens, ResumeWait(c, g) PROVE IInv'
    BY <2>6, SelectStep
  <2>7. ASSUME NEW status \in Statuses, Release(c, status) PROVE IInv'
    BY <2>7, ReleaseStep
  <2> QED
    BY <1>1, <2>1, <2>2, <2>3, <2>4, <2>5, <2>6, <2>7 DEF RequestStep, Resume
<1>2. ASSUME NEW x \in Cells, CooldownEnds(x) PROVE IInv'
  BY <1>2, CooldownStep
<1>3. ASSUME NEW s \in Sources, NEW on \in BOOLEAN, SetEnabled(s, on) PROVE IInv'
  BY <1>3, SetEnabledStep
<1>4. ASSUME NEW cf \in Configs, Adopt(cf) PROVE IInv'
  BY <1>4, AdoptStep
<1>5. CASE UNCHANGED vars
  <2>1. UNCHANGED <<routerVars, queue, cellVars, useVars, requestVars, lapsed>>
    BY <1>5 DEF vars
  <2>2. TypeOK'
    BY <2>1 DEF IInv, TypeOK, routerVars, cellVars, useVars, requestVars
  <2>3. QueueAgreement'
    BY <2>1, SameQueue DEF IInv, Waiting, requestVars
  <2>4. RetiredAreOld'
    BY <2>1 DEF IInv, RetiredAreOld, routerVars, requestVars
  <2>5. CapacityInv'
    BY <2>1, SameCapacity DEF IInv, cellVars, requestVars
  <2> QED
    BY <2>2, <2>3, <2>4, <2>5 DEF IInv
<1> QED
  BY <1>1, <1>2, <1>3, <1>4, <1>5 DEF Next, AdminStep

(* IInv holds in every reachable state.                                    *)
LEMMA Invariance == Spec => []IInv
BY InitInv, NextInv, PTL DEF Spec

-----------------------------------------------------------------------------
(* Results                                                                 *)

(* Every variable keeps its type.                                          *)
THEOREM TypeCorrect == Spec => []TypeOK
<1>1. IInv => TypeOK
  BY DEF IInv
<1> QED
  BY <1>1, Invariance, PTL

(* Acquire, Release and Adopt keep every counter equal to the number of    *)
(* outstanding leases that point to it.                                    *)
THEOREM AccountingCorrect == Spec => []LeaseAccounting
<1>1. IInv => LeaseAccounting
  BY DEF IInv, CapacityInv
<1> QED
  BY <1>1, Invariance, PTL

(* Adopt never gives capacity that is in use a second cell.                *)
THEOREM NeverSplit == Spec => []NoSplitCapacity
<1>1. IInv => NoSplitCapacity
  BY DEF IInv, CapacityInv
<1> QED
  BY <1>1, Invariance, PTL

(* The queues hold exactly the requests inside Acquire, each once, within  *)
(* MaxQueued.                                                              *)
THEOREM QueuesAgree == Spec => []QueueAgreement
<1>1. IInv => QueueAgreement
  BY DEF IInv
<1> QED
  BY <1>1, Invariance, PTL

(* A request gets a lease only through the grant in Acquire, by the router *)
(* and for the query it called with.                                       *)
LEMMA GrantedByAcquire ==
  ASSUME IInv, [Next]_vars, NEW c \in Requests, Granted(c)
  PROVE  \E g \in 1..gen : \E q \in Queries : \E s \in Runnable(g, q) :
           /\ Grant(c, g, s)
           /\ at'[c] = g /\ query'[c] = q
           /\ UNCHANGED <<routerVars, cellVars>>
<1> USE DEF IInv
<1>1. pc[c] # "leased" /\ pc'[c] = "leased" /\ pc'[c] # pc[c]
  BY DEF Granted
<1>2. ASSUME NEW d \in Requests, NEW g \in 1..gen, NEW q \in Queries, AcquireNow(d, g, q)
      PROVE  d = c /\ \E s \in Runnable(g, q) :
               /\ Grant(c, g, s)
               /\ at'[c] = g /\ query'[c] = q
               /\ UNCHANGED <<routerVars, cellVars>>
  <2>1. PICK s \in Runnable(g, q) : Grant(d, g, s)
    BY <1>2 DEF AcquireNow
  <2>2. d = c
    BY <1>1, <2>1 DEF Grant, TypeOK
  <2>3. at'[c] = g /\ query'[c] = q /\ UNCHANGED <<routerVars, cellVars>>
    BY <1>2, <2>2 DEF AcquireNow, TypeOK
  <2> QED
    BY <2>1, <2>2, <2>3
<1>3. ASSUME NEW d \in Requests, NEW g \in Gens, ResumeGrant(d, g)
      PROVE  /\ g \in 1..gen /\ query[c] \in Queries
             /\ \E s \in Runnable(g, query[c]) :
                  /\ Grant(c, g, s)
                  /\ at'[c] = g /\ query'[c] = query[c]
                  /\ UNCHANGED <<routerVars, cellVars>>
  <2>1. PICK s \in Runnable(g, query[d]) : Grant(d, g, s)
    BY <1>3 DEF ResumeGrant
  <2>2. d = c
    BY <1>1, <2>1 DEF Grant, TypeOK
  <2>3. at'[c] = g /\ query'[c] = query[c] /\ at[c] = g /\ UNCHANGED <<routerVars, cellVars>>
    BY <1>3, <2>2 DEF ResumeGrant
  <2>4. g \in 1..gen /\ query[c] \in Queries
    BY <2>3, BoundsAssumption DEF RetiredAreOld, TypeOK, Gens
  <2> QED
    BY <2>1, <2>2, <2>3, <2>4
<1>4. ASSUME NEW d \in Requests, RequestStep(d),
             ~(\E g \in 1..gen, q \in Queries : AcquireNow(d, g, q)),
             ~(\E g \in Gens : ResumeGrant(d, g))
      PROVE  FALSE
  <2>1. \/ pc' = pc
        \/ \E v \in {"parked", "woken", "idle"} : pc' = [pc EXCEPT ![d] = v]
    BY <1>4 DEF RequestStep, Resume, AcquireQueue, WakeByToken, WakeByContext,
         WakeByTimer, Cancel, ResumeRefused, ResumeWait, Release
  <2> QED
    BY <1>1, <2>1 DEF TypeOK
<1>5. CASE \E x \in Cells : CooldownEnds(x)
  BY <1>1, <1>5 DEF CooldownEnds, requestVars
<1>6. CASE AdminStep
  BY <1>1, <1>6 DEF AdminStep, SetEnabled, Adopt
<1>7. CASE UNCHANGED vars
  BY <1>1, <1>7 DEF vars, requestVars
<1> QED
  BY <1>2, <1>3, <1>4, <1>5, <1>6, <1>7 DEF Next

(* A grant stays within the limits of the current configuration, leases of *)
(* every earlier generation included: hot updates never double a slot.     *)
THEOREM GrantsWithinLimits == Spec => GrantWithinLimits
<1>1. ASSUME IInv, IInv', [Next]_vars, NEW c \in Requests, Granted(c)
      PROVE  /\ Cardinality(Leased') <= MaxInflight
             /\ \A x \in held'[c] :
                  Cardinality(HoldersOfKey(x[1])') <= cfg[gen].limit[x[1]]
  <2>1. PICK g \in 1..gen, q \in Queries :
           \E s \in Runnable(g, q) : Grant(c, g, s) /\ UNCHANGED <<routerVars, cellVars>>
    BY <1>1, GrantedByAcquire
  <2>2. PICK s \in Runnable(g, q) : Grant(c, g, s) /\ UNCHANGED <<routerVars, cellVars>>
    BY <2>1
  <2>3. pc[c] # "leased"
    BY <1>1 DEF Granted
  <2>4. /\ total < MaxInflight
        /\ Takes(g, s) = {<<k, slot[k]>> : k \in Uses(cfg[gen], s)}
        /\ \A k \in Uses(cfg[gen], s) :
             /\ k \in Keys
             /\ slot[k] \in Gens
             /\ active[<<k, slot[k]>>] < cfg[gen].limit[k]
    BY <1>1, RunnableFacts
  <2>5. cfg[gen] \in Configs /\ MaxInflight \in Nat
    BY <1>1, BoundsAssumption DEF IInv, TypeOK
  <2>6. Cardinality(Leased') <= MaxInflight
    <3>1. total' = Cardinality(Leased') /\ total' = total + 1 /\ total \in Int
      BY <1>1, <2>2 DEF IInv, CapacityInv, LeaseAccounting, Grant, TypeOK
    <3> QED
      BY <2>4, <2>5, <3>1
  <2>7. ASSUME NEW x \in held'[c]
        PROVE  Cardinality(HoldersOfKey(x[1])') <= cfg[gen].limit[x[1]]
    <3>1. held'[c] = Takes(g, s)
      BY <1>1, <2>2 DEF Grant, IInv, TypeOK
    <3>2. PICK k \in Uses(cfg[gen], s) : x = <<k, slot[k]>>
      BY <2>4, <2>7, <3>1
    <3>3. k \in Keys /\ slot'[k] = slot[k] /\ slot[k] \in Gens /\ x \in Cells /\ x[1] = k
      BY <2>2, <2>4, <3>2 DEF cellVars, Cells
    <3>4. HoldersOfKey(k)' = Holders(<<k, slot[k]>>)'
      <4>1. \A d \in Requests : \A y \in held'[d] :
              y \in Cells /\ y[2] = slot'[y[1]] /\ y = <<y[1], slot'[y[1]]>>
        BY <1>1 DEF IInv, CapacityInv, NoSplitCapacity, TypeOK, Cells
      <4>2. \A d \in Requests : (\E y \in held'[d] : y[1] = k) <=> <<k, slot'[k]>> \in held'[d]
        BY <4>1
      <4> QED
        BY <3>3, <4>2 DEF HoldersOfKey, Holders
    <3>5. active'[x] = Cardinality(Holders(x)')
      BY <1>1, <3>3 DEF IInv, CapacityInv, LeaseAccounting
    <3>6. Holders(x)' = Holders(<<k, slot[k]>>)'
      BY <2>2, <3>2 DEF Holders, cellVars
    <3>7. active'[x] = active[x] + 1
      BY <2>2, <2>7, <3>1, <3>3 DEF Grant
    <3>8. active[x] < cfg[gen].limit[k] /\ cfg[gen].limit[k] \in Nat /\ active[x] \in Int
      BY <1>1, <2>4, <2>5, <3>2, <3>3, UsesAreKeys DEF IInv, TypeOK
    <3>9. Cardinality(HoldersOfKey(k)') <= cfg[gen].limit[k]
      BY <3>4, <3>5, <3>6, <3>7, <3>8
    <3> QED
      BY <3>3, <3>9
  <2> QED
    BY <2>6, <2>7
<1>2. IInv /\ IInv' /\ [Next]_vars =>
        [\A c \in Requests : Granted(c) =>
           /\ Cardinality(Leased') <= MaxInflight
           /\ \A x \in held'[c] :
                Cardinality(HoldersOfKey(x[1])') <= cfg[gen].limit[x[1]]]_vars
  BY <1>1
<1> QED
  BY <1>2, Invariance, PTL DEF Spec, GrantWithinLimits

(* Every grant is made by the current router, under its configuration and  *)
(* through the registered cells.                                           *)
THEOREM GrantsUnderCurrentPolicy == Spec => GrantUnderCurrentPolicy
<1>1. ASSUME IInv, [Next]_vars, NEW c \in Requests, Granted(c)
      PROVE  /\ at'[c] = gen
             /\ \E s \in cfg[gen].permits[query'[c]] :
                  /\ held'[c] = {<<k, slot[k]>> : k \in Uses(cfg[gen], s)}
                  /\ \/ query'[c] \in Probes
                     \/ <<s, slot[s]>> \in enabled \ blocked
  <2>1. PICK g \in 1..gen, q \in Queries : \E s \in Runnable(g, q) :
           /\ Grant(c, g, s)
           /\ at'[c] = g /\ query'[c] = q
    BY <1>1, GrantedByAcquire
  <2>2. PICK s \in Runnable(g, q) : Grant(c, g, s) /\ at'[c] = g /\ query'[c] = q
    BY <2>1
  <2>3. /\ g = gen
        /\ s \in cfg[gen].permits[q]
        /\ Takes(g, s) = {<<k, slot[k]>> : k \in Uses(cfg[gen], s)}
        /\ q \in Probes \/ <<s, slot[s]>> \in enabled \ blocked
    BY <1>1, RunnableFacts
  <2>4. held'[c] = Takes(g, s)
    BY <1>1, <2>2 DEF Grant, IInv, TypeOK
  <2> QED
    BY <2>2, <2>3, <2>4
<1>2. IInv /\ [Next]_vars =>
        [\A c \in Requests : Granted(c) =>
           /\ at'[c] = gen
           /\ \E s \in cfg[gen].permits[query'[c]] :
                /\ held'[c] = {<<k, slot[k]>> : k \in Uses(cfg[gen], s)}
                /\ \/ query'[c] \in Probes
                   \/ <<s, slot[s]>> \in enabled \ blocked]_vars
  BY <1>1
<1> QED
  BY <1>2, Invariance, PTL DEF Spec, GrantUnderCurrentPolicy

-----------------------------------------------------------------------------
(* Order of the grants                                                     *)

(* A grant to c is made when nobody before it in the queue could run: the  *)
(* earlier waiters if c waits, all waiters if c is a newcomer.             *)
LEMMA GrantedInTurn ==
  ASSUME IInv, [Next]_vars, NEW c \in Requests, Granted(c)
  PROVE  \E g \in 1..gen : \E q \in Queries :
           /\ Runnable(g, q) # {}
           /\ Turn(g, c)
           /\ at'[c] = g /\ query'[c] = q
           /\ Waiting(c) => at[c] = g
<1> USE DEF IInv
<1>1. pc[c] # "leased" /\ pc'[c] = "leased" /\ pc'[c] # pc[c]
  BY DEF Granted
<1>2. ASSUME NEW d \in Requests, NEW g \in 1..gen, NEW q \in Queries, AcquireNow(d, g, q)
      PROVE  /\ Runnable(g, q) # {} /\ Turn(g, c)
             /\ at'[c] = g /\ query'[c] = q
             /\ ~Waiting(c)
  <2>1. PICK s \in Runnable(g, q) : Grant(d, g, s)
    BY <1>2 DEF AcquireNow
  <2>2. d = c
    BY <1>1, <2>1 DEF Grant, TypeOK
  <2> QED
    BY <1>2, <2>1, <2>2 DEF AcquireNow, TypeOK, Waiting
<1>3. ASSUME NEW d \in Requests, NEW g \in Gens, ResumeGrant(d, g)
      PROVE  /\ g \in 1..gen /\ query[c] \in Queries
             /\ Runnable(g, query[c]) # {} /\ Turn(g, c)
             /\ at'[c] = g /\ query'[c] = query[c]
             /\ at[c] = g
  <2>1. PICK s \in Runnable(g, query[d]) : Grant(d, g, s)
    BY <1>3 DEF ResumeGrant
  <2>2. d = c
    BY <1>1, <2>1 DEF Grant, TypeOK
  <2>3. /\ Turn(g, c) /\ at[c] = g
        /\ at'[c] = g /\ query'[c] = query[c]
    BY <1>3, <2>2 DEF ResumeGrant
  <2>4. g \in 1..gen /\ query[c] \in Queries
    BY <2>3, BoundsAssumption DEF RetiredAreOld, TypeOK, Gens
  <2> QED
    BY <2>1, <2>2, <2>3, <2>4
<1>4. \/ \E d \in Requests, g \in 1..gen, q \in Queries : AcquireNow(d, g, q)
      \/ \E d \in Requests, g \in Gens : ResumeGrant(d, g)
  <2>1. ASSUME NEW d \in Requests, RequestStep(d),
               ~(\E g \in 1..gen, q \in Queries : AcquireNow(d, g, q)),
               ~(\E g \in Gens : ResumeGrant(d, g))
        PROVE  FALSE
    <3>1. \/ pc' = pc
          \/ \E v \in {"parked", "woken", "idle"} : pc' = [pc EXCEPT ![d] = v]
      BY <2>1 DEF RequestStep, Resume, AcquireQueue, WakeByToken, WakeByContext,
           WakeByTimer, Cancel, ResumeRefused, ResumeWait, Release
    <3> QED
      BY <1>1, <3>1 DEF TypeOK
  <2>2. CASE \E x \in Cells : CooldownEnds(x)
    BY <1>1, <2>2 DEF CooldownEnds, requestVars
  <2>3. CASE AdminStep
    BY <1>1, <2>3 DEF AdminStep, SetEnabled, Adopt
  <2>4. CASE UNCHANGED vars
    BY <1>1, <2>4 DEF vars, requestVars
  <2> QED
    BY <2>1, <2>2, <2>3, <2>4 DEF Next
<1> QED
  BY <1>2, <1>3, <1>4

(* Among live requests for the same thing in one router, grants are first  *)
(* come, first served.                                                     *)
THEOREM FirstComeFirstServed == Spec => SameQueryFIFO
<1>1. ASSUME IInv, [Next]_vars, NEW c \in Requests, NEW d \in Requests,
             Granted(c), Waiting(d), c # d, d \notin done,
             at[d] = at'[c], query[d] = query'[c]
      PROVE  Waiting(c) /\ Position(at[c], c) < Position(at[d], d)
  <2>1. PICK g \in 1..gen, q \in Queries :
           /\ Runnable(g, q) # {}
           /\ Turn(g, c)
           /\ at'[c] = g /\ query'[c] = q
           /\ Waiting(c) => at[c] = g
    BY <1>1, GrantedInTurn
  <2>2. g \in Gens /\ at[d] = g /\ query[d] = q
    BY <1>1, <2>1, BoundsAssumption DEF IInv, TypeOK, Gens
  <2>3. /\ Position(g, d) \in 1..Len(queue[g])
        /\ queue[g][Position(g, d)] = d
    BY <1>1, <2>2, PositionFacts DEF IInv
  <2>4. /\ queue[g] \in Seq(Requests) /\ Len(queue[g]) \in Nat
    BY <1>1, <2>2, LenProperties DEF IInv, TypeOK
  <2>5. ASSUME NEW n \in Nat, TurnAfter(g, n) PROVE Position(g, d) > n
    <3>1. SUFFICES ASSUME Position(g, d) <= n PROVE FALSE
      BY <2>3, <2>4
    <3>2. Position(g, d) \in 1..n
      BY <2>3, <2>4, <3>1
    <3>3. queue[g][Position(g, d)] \in done \/ Runnable(g, query[queue[g][Position(g, d)]]) = {}
      BY <2>5, <3>2 DEF TurnAfter
    <3> QED
      BY <1>1, <2>1, <2>2, <2>3, <3>3
  <2>6. Waiting(c)
    <3>1. SUFFICES ASSUME ~Waiting(c) PROVE FALSE
      OBVIOUS
    <3>2. TurnAfter(g, Len(queue[g]))
      BY <2>1, <3>1 DEF Turn
    <3> QED
      BY <2>3, <2>4, <2>5, <3>2
  <2>7. /\ at[c] = g
        /\ Position(g, c) \in 1..Len(queue[g])
        /\ queue[g][Position(g, c)] = c
    BY <1>1, <2>1, <2>2, <2>6, PositionFacts DEF IInv
  <2>8. TurnAfter(g, Position(g, c) - 1) /\ Position(g, c) - 1 \in Nat
    BY <2>1, <2>4, <2>6, <2>7 DEF Turn
  <2>9. Position(g, d) > Position(g, c) - 1
    BY <2>5, <2>8
  <2>10. Position(g, d) # Position(g, c)
    BY <1>1, <2>3, <2>7
  <2> QED
    BY <2>2, <2>3, <2>4, <2>6, <2>7, <2>9, <2>10
<1>2. IInv /\ [Next]_vars =>
        [\A c, d \in Requests :
           (Granted(c) /\ Waiting(d) /\ c # d /\ d \notin done
              /\ at[d] = at'[c] /\ query[d] = query'[c])
           => /\ Waiting(c)
              /\ Position(at[c], c) < Position(at[d], d)]_vars
  BY <1>1
<1> QED
  BY <1>2, Invariance, PTL DEF Spec, SameQueryFIFO

(* Adopt keeps cooldowns and rejections: the registered cell of a key both *)
(* configurations use is carried over, whatever holds it.                  *)
THEOREM HealthIsCarriedOver == Spec => HealthSurvivesAdopt
<1>1. ASSUME IInv, [Next]_vars, gen' # gen
      PROVE  /\ \A k \in UsedKeys(cfg[gen]) \cap UsedKeys(cfg'[gen']) :
                  <<k, slot[k]>> \in cooling => <<k, slot'[k]>> \in cooling'
             /\ \A s \in cfg[gen].sources \cap cfg'[gen'].sources :
                  <<s, slot[s]>> \in blocked \cap enabled => <<s, slot'[s]>> \in blocked'
  <2>1. PICK cf \in Configs : Adopt(cf)
    <3>1. ASSUME NEW c \in Requests, RequestStep(c) PROVE FALSE
      BY <1>1, <3>1 DEF RequestStep, Resume, AcquireNow, AcquireQueue, WakeByToken,
           WakeByContext, WakeByTimer, Cancel, ResumeRefused, ResumeGrant, ResumeWait,
           Release, routerVars
    <3>2. ASSUME NEW x \in Cells, CooldownEnds(x) PROVE FALSE
      BY <1>1, <3>2 DEF CooldownEnds, routerVars
    <3>3. ASSUME NEW s \in Sources, NEW on \in BOOLEAN, SetEnabled(s, on) PROVE FALSE
      BY <1>1, <3>3 DEF SetEnabled, routerVars
    <3>4. ~UNCHANGED vars
      BY <1>1 DEF vars, routerVars
    <3> QED
      BY <1>1, <3>1, <3>2, <3>3, <3>4 DEF Next, AdminStep
  <2>2. gen \in Gens /\ gen + 1 \in Gens /\ cfg[gen] \in Configs /\ cfg'[gen'] = cf
    BY <1>1, <2>1, BoundsAssumption DEF Adopt, IInv, TypeOK, Gens
  <2>3. ASSUME NEW k \in UsedKeys(cfg[gen]) \cap UsedKeys(cf)
        PROVE  slot'[k] = slot[k] /\ AdoptedCell(k) = slot[k]
    <3>1. k \in Keys /\ slot[k] \in Gens
      BY <1>1, <2>2, UsesAreKeys DEF IInv, CapacityInv, CurrentCells
    <3>2. slot[k] # 0
      BY <3>1 DEF Gens
    <3> QED
      BY <2>1, <3>1, <3>2 DEF Adopt, AdoptedSlot, AdoptedCell
  <2>4. cooling' = cooling
    BY <2>1 DEF Adopt
  <2>5. ASSUME NEW s \in cfg[gen].sources \cap cf.sources,
               <<s, slot[s]>> \in blocked \cap enabled
        PROVE  <<s, slot'[s]>> \in blocked'
    <3>1. slot'[s] = slot[s]
      BY <2>2, <2>3, UsesAreKeys
    <3>2. \A y \in blocked \cap enabled : y \in blocked'
      BY <2>1 DEF Adopt, AdoptHealth
    <3> QED
      BY <2>5, <3>1, <3>2
  <2> QED
    BY <2>2, <2>3, <2>4, <2>5
<1>2. IInv /\ [Next]_vars =>
        [gen' # gen =>
           /\ \A k \in UsedKeys(cfg[gen]) \cap UsedKeys(cfg'[gen']) :
                <<k, slot[k]>> \in cooling => <<k, slot'[k]>> \in cooling'
           /\ \A s \in cfg[gen].sources \cap cfg'[gen'].sources :
                <<s, slot[s]>> \in blocked \cap enabled => <<s, slot'[s]>> \in blocked']_vars
  BY <1>1
<1> QED
  BY <1>2, Invariance, PTL DEF Spec, HealthSurvivesAdopt

-----------------------------------------------------------------------------
(* Wakeups                                                                 *)

\* Only the context of a waiting request is watched.
DoneAreWaiting == \A c \in done : Waiting(c)

WakeInv == IInv /\ DoneAreWaiting /\ NoLostWakeup

(* The waiter that signal wakes is the first of the queue that is stirred. *)
LEMMA SignalledFirst ==
  ASSUME TypeOK, QueueAgreement, NEW g \in Gens, NEW w \in Signalled(g)
  PROVE  /\ w \in Requests /\ Waiting(w) /\ at[w] = g
         /\ Stirred(g, w)
         /\ Position(g, w) \in 1..Len(queue[g])
         /\ \A h \in 1..(Position(g, w) - 1) : ~Stirred(g, queue[g][h])
<1>1. queue[g] \in Seq(Requests) /\ DOMAIN queue[g] = 1..Len(queue[g])
  BY LenProperties DEF TypeOK
<1>2. PICK i \in 1..Len(queue[g]) :
         /\ w = queue[g][i]
         /\ Stirred(g, queue[g][i])
         /\ \A h \in 1..(i - 1) : ~Stirred(g, queue[g][h])
  BY <1>1 DEF Signalled
<1>3. w \in Requests
  BY <1>1, <1>2, ElementOfSeq
<1>4. Waiting(w) /\ at[w] = g
  BY <1>1, <1>2, <1>3 DEF QueueAgreement
<1>5. Position(g, w) \in 1..Len(queue[g]) /\ queue[g][Position(g, w)] = w
  BY <1>3, <1>4, PositionFacts
<1>6. Position(g, w) = i
  BY <1>1, <1>2, <1>5 DEF QueueAgreement
<1> QED
  BY <1>2, <1>3, <1>4, <1>5, <1>6

(* A live waiter that could run, but whose turn it is not, is not the one  *)
(* that signal would wake: an earlier one can run, too.                    *)
LEMMA NotYourTurn ==
  ASSUME TypeOK, QueueAgreement, NEW g \in Gens, NEW w \in Signalled(g),
         w \notin done, Eligible(g, query[w]) # {}
  PROVE  Runnable(g, query[w]) # {} /\ Turn(g, w)
<1>1. /\ w \in Requests /\ Waiting(w)
      /\ Stirred(g, w)
      /\ Position(g, w) \in 1..Len(queue[g])
      /\ \A h \in 1..(Position(g, w) - 1) : ~Stirred(g, queue[g][h])
  BY SignalledFirst
<1>2. Runnable(g, query[w]) # {}
  BY <1>1 DEF Stirred
<1>3. TurnAfter(g, Position(g, w) - 1)
  BY <1>1 DEF TurnAfter, Stirred
<1> QED
  BY <1>1, <1>2, <1>3 DEF Turn

(* A step that leaves a queue alone, stirs nobody in it and calms nobody   *)
(* down leaves the waiter to be woken the same.                            *)
LEMMA SameSignalled ==
  ASSUME TypeOK, NEW g \in Gens, queue'[g] = queue[g],
         \A i \in 1..Len(queue[g]) :
            Stirred(g, queue[g][i])' <=> Stirred(g, queue[g][i])
  PROVE  Signalled(g)' = Signalled(g)
<1>1. queue[g] \in Seq(Requests) /\ DOMAIN queue[g] = 1..Len(queue[g])
      /\ Len(queue[g]) \in Nat
  BY LenProperties DEF TypeOK
<1> DEFINE A(j) == Stirred(g, queue[g][j])
           First1(j) == A(j) /\ \A h \in 1..(j - 1) : ~A(h)
<1>2. \A j \in 1..Len(queue[g]) : A(j)' <=> A(j)
  OBVIOUS
<1>3. Signalled(g) = {queue[g][i] : i \in {j \in 1..Len(queue[g]) : First1(j)}}
  BY <1>1 DEF Signalled
<1>4. Signalled(g)' = {queue[g][i] : i \in {j \in 1..Len(queue[g]) : First1(j)'}}
  BY <1>1 DEF Signalled
<1> HIDE DEF A
<1>5. \A j \in 1..Len(queue[g]) : First1(j)' <=> First1(j)
  BY <1>1, <1>2
<1> QED
  BY <1>3, <1>4, <1>5

(* Waiters of retired routers are woken, and nobody is eligible there.     *)
LEMMA RetiredNotEligible ==
  ASSUME IInv, NEW g \in Gens, g <= gen, g # gen, NEW q
  PROVE  Eligible(g, q) = {}
<1>1. g \in 1..(gen - 1)
  BY BoundsAssumption DEF IInv, TypeOK, Gens
<1> QED
  BY <1>1 DEF Eligible, IInv, RetiredAreOld

(* The steps after which signal runs on the current router wake the waiter *)
(* that should be woken.                                                   *)
LEMMA SignalWakes ==
  ASSUME IInv, gen' = gen, NEW c \in Requests,
         Signalled(gen)' \subseteq ready',
         \A d \in Requests \ {c} : Waiting(d)' => /\ Waiting(d) /\ at'[d] = at[d]
                                                  /\ pc'[d] = pc[d],
         ~Waiting(c)' \/ (pc'[c] = pc[c] /\ at'[c] = at[c]),
         \A d \in Requests : Waiting(d)' /\ d \in ready => d \in ready',
         RetiredWaitersWoken
  PROVE  NoLostWakeup'
<1>1. CurrentWaiterWoken'
  BY DEF CurrentWaiterWoken
<1>2. RetiredWaitersWoken'
  BY DEF RetiredWaitersWoken, Waiting
<1> QED
  BY <1>1, <1>2 DEF NoLostWakeup

(* A newcomer that is served at once takes capacity nobody in the queue    *)
(* could have used.                                                        *)
LEMMA AcquireNowWakes ==
  ASSUME WakeInv, IInv', NEW c \in Requests, NEW g \in 1..gen, NEW q \in Queries,
         AcquireNow(c, g, q)
  PROVE  WakeInv'
<1> USE DEF WakeInv
<1>1. /\ pc[c] = "idle" /\ Turn(g, c)
      /\ at' = [at EXCEPT ![c] = g]
      /\ query' = [query EXCEPT ![c] = q]
      /\ UNCHANGED <<routerVars, cellVars, queue, done, ready, lapsed>>
  BY DEF AcquireNow
<1>2. PICK s \in Runnable(g, q) : Grant(c, g, s)
  BY DEF AcquireNow
<1>3. g = gen /\ g \in Gens /\ gen' = gen /\ cfg[gen] \in Configs
  BY <1>1, <1>2, RunnableFacts DEF IInv, TypeOK, routerVars
<1>4. /\ pc' = [pc EXCEPT ![c] = "leased"]
      /\ total' = total + 1
      /\ \A x \in Cells : active'[x] \in {active[x], active[x] + 1}
  BY <1>2 DEF Grant
<1>5. \A d \in Requests \ {c} : /\ pc'[d] = pc[d] /\ at'[d] = at[d]
                                /\ query'[d] = query[d]
  BY <1>1, <1>4 DEF IInv, TypeOK
<1>6. ~Waiting(c) /\ ~Waiting(c)'
  BY <1>1, <1>4 DEF Waiting, IInv, TypeOK
<1>7. DoneAreWaiting'
  BY <1>1, <1>5, <1>6 DEF DoneAreWaiting, Waiting, IInv, TypeOK
<1>8. RetiredWaitersWoken'
  BY <1>1, <1>3, <1>5, <1>6 DEF NoLostWakeup, RetiredWaitersWoken, Waiting
<1>9. \A p \in Queries : Eligible(g, p)' = Eligible(g, p)
  BY <1>1 DEF Eligible, UsableAsEligible, Cell, routerVars, cellVars
<1>10. ASSUME NEW p \in Queries PROVE Runnable(g, p)' \subseteq Runnable(g, p)
  <2>1. SUFFICES ASSUME NEW t \in Runnable(g, p)' PROVE t \in Runnable(g, p)
    OBVIOUS
  <2>2. t \in Eligible(g, p) /\ total' < MaxInflight /\ HasRoom(g, t)'
    BY <1>9, <2>1 DEF Runnable
  <2>3. t \in cfg[gen].sources
    BY <1>3, <2>2, UsesAreKeys DEF Eligible, UsableAsEligible
  <2>4. \A k \in Uses(cfg[g], t) : Cell(g, k) \in Cells /\ k \in Keys
    BY <1>3, <2>3, UsesAreKeys DEF IInv, CapacityInv, CurrentCells, Cell, Cells
  <2>5. \A k \in Uses(cfg[g], t) : active[Cell(g, k)] < CellLimit(g, k)
    <3>1. TAKE k \in Uses(cfg[g], t)
    <3>2. active'[Cell(g, k)] < CellLimit(g, k)
      BY <1>1, <1>3, <2>2 DEF HasRoom, CellLimit, Cell, routerVars, cellVars
    <3>3. active[Cell(g, k)] \in Int /\ CellLimit(g, k) \in Nat
      BY <1>3, <2>4, UsesAreKeys DEF IInv, TypeOK, CellLimit
    <3> QED
      BY <1>4, <2>4, <3>2, <3>3
  <2>6. HasRoom(g, t)
    BY <1>1, <2>2, <2>5 DEF HasRoom, Cell, routerVars, cellVars
  <2>7. total < MaxInflight
    BY <1>4, <2>2, BoundsAssumption DEF IInv, TypeOK
  <2> QED
    BY <2>2, <2>6, <2>7 DEF Runnable
<1>11. queue[g] \in Seq(Requests) /\ Len(queue[g]) \in Nat /\ DOMAIN queue[g] = 1..Len(queue[g])
  BY <1>3, LenProperties DEF IInv, TypeOK
<1>12. ASSUME NEW i \in 1..Len(queue[g])
       PROVE  Stirred(g, queue[g][i])' <=> Stirred(g, queue[g][i])
  <2> DEFINE w == queue[g][i]
  <2>1. w \in Requests /\ w # c
    BY <1>3, <1>6, <1>11, ElementOfSeq DEF IInv, QueueAgreement
  <2>2. queue'[g][i] = w /\ query'[w] = query[w] /\ query[w] \in Queries
    BY <1>1, <1>5, <2>1 DEF IInv, TypeOK
  <2>3. w \in done \/ Runnable(g, query[w]) = {}
    BY <1>1, <1>6 DEF Turn, TurnAfter
  <2>4. Eligible(g, query[w])' = Eligible(g, query[w])
    BY <1>9, <2>2 DEF Eligible, UsableAsEligible
  <2>5. Runnable(g, query[w]) = {} => Runnable(g, query[w])' = {}
    <3>1. PICK p \in Queries : p = query[w]
      BY <2>2
    <3>2. Runnable(g, p)' \subseteq Runnable(g, p)
      BY <1>10
    <3>3. Runnable(g, query[w])' = Runnable(g, p)'
      BY <2>2, <3>1 DEF Runnable, Eligible, UsableAsEligible
    <3> QED
      BY <3>1, <3>2, <3>3
  <2> QED
    BY <1>1, <2>2, <2>3, <2>4, <2>5 DEF Stirred
<1>13. Signalled(g)' = Signalled(g)
  BY <1>1, <1>3, <1>12, SameSignalled DEF IInv
<1>14. CurrentWaiterWoken'
  <2>1. SUFFICES ASSUME ~lapsed', NEW w \in Signalled(gen)'
                 PROVE  w \in ready' \/ w \in done' \/ pc'[w] = "woken"
    BY DEF CurrentWaiterWoken
  <2>2. w \in Signalled(g)
    BY <1>3, <1>13, <2>1 DEF Signalled
  <2>3. w \in Requests /\ Waiting(w)
    BY <1>3, <2>2, SignalledFirst DEF IInv
  <2>4. w \in ready \/ w \in done \/ pc[w] = "woken"
    BY <1>1, <1>3, <2>1, <2>2 DEF NoLostWakeup, CurrentWaiterWoken
  <2> QED
    BY <1>1, <1>5, <1>6, <2>3, <2>4
<1> QED
  BY <1>7, <1>8, <1>14 DEF NoLostWakeup

(* A newcomer that queues is not the one to be woken: either it cannot run *)
(* or somebody before it can.                                              *)
LEMMA AcquireQueueWakes ==
  ASSUME WakeInv, IInv', NEW c \in Requests, NEW g \in 1..gen, NEW q \in Queries,
         AcquireQueue(c, g, q)
  PROVE  WakeInv'
<1> USE DEF WakeInv
<1>1. /\ pc[c] = "idle"
      /\ Eligible(g, q) # {}
      /\ ~(Runnable(g, q) # {} /\ Turn(g, c))
      /\ queue' = [queue EXCEPT ![g] = Append(@, c)]
      /\ pc' = [pc EXCEPT ![c] = "parked"]
      /\ at' = [at EXCEPT ![c] = g]
      /\ query' = [query EXCEPT ![c] = q]
      /\ UNCHANGED <<routerVars, cellVars, useVars, done, ready, lapsed>>
  BY DEF AcquireQueue
<1>2. g = gen /\ g \in Gens /\ gen' = gen
  <2>1. g \in Gens /\ g <= gen /\ gen' = gen
    BY <1>1, BoundsAssumption DEF IInv, TypeOK, Gens, routerVars
  <2> QED
    BY <1>1, <2>1, RetiredNotEligible
<1>3. \A d \in Requests \ {c} : /\ pc'[d] = pc[d] /\ at'[d] = at[d]
                                /\ query'[d] = query[d]
  BY <1>1 DEF IInv, TypeOK
<1>4. ~Waiting(c) /\ c \notin done /\ query'[c] = q /\ at'[c] = g
  BY <1>1 DEF DoneAreWaiting, Waiting, IInv, TypeOK
<1>5. DoneAreWaiting'
  BY <1>1, <1>3, <1>4 DEF DoneAreWaiting, Waiting, IInv, TypeOK
<1>6. RetiredWaitersWoken'
  BY <1>1, <1>2, <1>3, <1>4 DEF NoLostWakeup, RetiredWaitersWoken, Waiting
<1>7. \A p \in Queries : /\ Eligible(g, p)' = Eligible(g, p)
                         /\ Runnable(g, p)' = Runnable(g, p)
  BY <1>1 DEF Eligible, UsableAsEligible, Runnable, HasRoom, CellLimit, Cell,
       routerVars, cellVars, useVars
<1>8. /\ queue[g] \in Seq(Requests) /\ Len(queue[g]) \in Nat
      /\ DOMAIN queue[g] = 1..Len(queue[g])
  BY <1>2, LenProperties DEF IInv, TypeOK
<1>9. /\ \A i \in 1..Len(queue[g]) : queue'[g][i] = queue[g][i]
      /\ queue'[g][Len(queue[g]) + 1] = c
      /\ DOMAIN queue'[g] = 1..(Len(queue[g]) + 1)
  <2>1. queue'[g] = Append(queue[g], c)
    BY <1>1, <1>2 DEF IInv, TypeOK
  <2>2. PICK old \in Seq(Requests) : old = queue[g]
    BY <1>8
  <2>3. /\ Append(old, c) \in Seq(Requests)
        /\ Len(Append(old, c)) = Len(old) + 1
        /\ \A i \in 1..Len(old) : Append(old, c)[i] = old[i]
        /\ Append(old, c)[Len(old) + 1] = c
    OBVIOUS
  <2>4. DOMAIN Append(old, c) = 1..(Len(old) + 1)
    BY <2>3, LenProperties
  <2> QED
    BY <2>1, <2>2, <2>3, <2>4
<1>10. ASSUME NEW i \in 1..Len(queue[g])
       PROVE  /\ queue[g][i] \in Requests \ {c}
              /\ Stirred(g, queue[g][i])' <=> Stirred(g, queue[g][i])
  <2> DEFINE w == queue[g][i]
  <2>1. w \in Requests /\ w # c
    BY <1>2, <1>4, <1>8, ElementOfSeq DEF IInv, QueueAgreement
  <2>2. query'[w] = query[w] /\ query[w] \in Queries
    BY <1>3, <2>1 DEF IInv, TypeOK
  <2>3. PICK p \in Queries : p = query[w]
    BY <2>2
  <2>4. Stirred(g, w) <=> w \in done \/ Runnable(g, p) # {} \/ Eligible(g, p) = {}
    BY <2>3 DEF Stirred
  <2>5. Stirred(g, queue[g][i])' <=>
          w \in done' \/ Runnable(g, p)' # {} \/ Eligible(g, p)' = {}
    <3>1. queue'[g][i] = w /\ query'[w] = p
      BY <1>9, <2>2, <2>3
    <3> QED
      BY <3>1 DEF Stirred, Runnable, Eligible, UsableAsEligible
  <2> QED
    BY <1>1, <1>7, <2>1, <2>4, <2>5
<1>11. CurrentWaiterWoken'
  <2>1. SUFFICES ASSUME ~lapsed', NEW w \in Signalled(g)'
                 PROVE  w \in ready' \/ w \in done' \/ pc'[w] = "woken"
    BY <1>2 DEF CurrentWaiterWoken, Signalled
  <2>2. PICK i \in 1..(Len(queue[g]) + 1) :
           /\ w = queue'[g][i]
           /\ Stirred(g, queue[g][i])'
           /\ \A h \in 1..(i - 1) : ~Stirred(g, queue[g][h])'
    BY <1>9 DEF Signalled
  <2>3. CASE i = Len(queue[g]) + 1
    <3>1. \A h \in 1..Len(queue[g]) : ~Stirred(g, queue[g][h])
      <4>1. ASSUME NEW h \in 1..Len(queue[g]) PROVE ~Stirred(g, queue[g][h])
        <5>1. h \in 1..(i - 1)
          BY <1>8, <2>3
        <5>2. ~Stirred(g, queue[g][h])'
          BY <2>2, <5>1
        <5> QED
          BY <1>10, <5>2
      <4> QED
        BY <4>1
    <3>2. TurnAfter(g, Len(queue[g]))
      BY <3>1 DEF TurnAfter, Stirred
    <3>3. Turn(g, c)
      BY <1>4, <3>2 DEF Turn
    <3>4. w = c /\ Stirred(g, c)'
      BY <1>9, <2>2, <2>3
    <3>5. c \in done' \/ Runnable(g, q)' # {} \/ Eligible(g, q)' = {}
      BY <1>4, <3>4 DEF Stirred, Runnable, Eligible, UsableAsEligible
    <3> QED
      BY <1>1, <1>4, <1>7, <3>3, <3>5
  <2>4. CASE i \in 1..Len(queue[g])
    <3>1. /\ w = queue[g][i] /\ w \in Requests \ {c}
          /\ Stirred(g, queue[g][i])
          /\ \A h \in 1..(i - 1) : ~Stirred(g, queue[g][h])
      <4>1. w = queue[g][i]
        BY <1>9, <2>2, <2>4
      <4>2. w \in Requests \ {c} /\ Stirred(g, queue[g][i])
        BY <1>10, <2>2, <2>4, <4>1
      <4>3. ASSUME NEW h \in 1..(i - 1) PROVE ~Stirred(g, queue[g][h])
        <5>1. h \in 1..Len(queue[g])
          BY <1>8, <2>4
        <5>2. ~Stirred(g, queue[g][h])'
          BY <2>2
        <5> QED
          BY <1>10, <5>1, <5>2
      <4> QED
        BY <4>1, <4>2, <4>3
    <3>2. w \in Signalled(g)
      BY <1>8, <2>4, <3>1 DEF Signalled
    <3> QED
      BY <1>1, <1>2, <1>3, <2>1, <3>1, <3>2 DEF NoLostWakeup, CurrentWaiterWoken
  <2> QED
    BY <1>8, <2>2, <2>3, <2>4
<1> QED
  BY <1>5, <1>6, <1>11 DEF NoLostWakeup

(* Waking up, the end of a context, and going back to the select.          *)
LEMMA SelectWakes ==
  ASSUME WakeInv, IInv', NEW c \in Requests,
         \/ WakeByToken(c) \/ WakeByContext(c) \/ WakeByTimer(c) \/ Cancel(c)
         \/ \E g \in Gens : ResumeWait(c, g)
  PROVE  WakeInv'
<1> USE DEF WakeInv
<1>1. /\ UNCHANGED <<routerVars, cellVars, useVars, queue, at, query, lapsed>>
      /\ Waiting(c)
      /\ done' \in {done, done \cup {c}}
      /\ \A d \in Requests \ {c} : pc'[d] = pc[d] /\ (d \in ready' <=> d \in ready)
      /\ Waiting(c)'
  BY DEF WakeByToken, WakeByContext, WakeByTimer, Cancel, ResumeWait, Waiting, IInv, TypeOK
<1>2. \/ pc'[c] = "woken"
      \/ c \in done'
      \/ \E g \in Gens : ResumeWait(c, g)
  BY DEF WakeByToken, WakeByContext, WakeByTimer, Cancel, IInv, TypeOK
<1>3. DoneAreWaiting'
  BY <1>1 DEF DoneAreWaiting, Waiting, IInv, TypeOK
<1>4. gen \in Gens /\ gen' = gen /\ at[c] \in 0..MaxGen /\ at[c] <= gen
  BY <1>1 DEF IInv, TypeOK, RetiredAreOld, routerVars
<1>5. ASSUME NEW g \in Gens, ResumeWait(c, g)
      PROVE  /\ g = gen
             /\ done' = done
             /\ c \notin Signalled(gen)
  <2>1. /\ g = at[c] /\ c \notin done /\ done' = done
        /\ Eligible(g, query[c]) # {}
        /\ ~(Runnable(g, query[c]) # {} /\ Turn(g, c))
    BY <1>5 DEF ResumeWait
  <2>2. g = gen
    BY <1>4, <2>1, RetiredNotEligible
  <2> QED
    BY <1>4, <2>1, <2>2, NotYourTurn DEF IInv
<1>6. RetiredWaitersWoken'
  <2>1. SUFFICES ASSUME NEW d \in Requests, Waiting(d)', at'[d] # gen'
                 PROVE  d \in ready' \/ pc'[d] = "woken"
    BY DEF RetiredWaitersWoken
  <2>2. CASE d # c
    BY <1>1, <1>4, <2>1, <2>2 DEF NoLostWakeup, RetiredWaitersWoken, Waiting
  <2>3. CASE d = c
    <3>1. at[c] # gen /\ (c \in ready \/ pc[c] = "woken")
      BY <1>1, <1>4, <2>1, <2>3 DEF NoLostWakeup, RetiredWaitersWoken
    <3>2. ~\E g \in Gens : ResumeWait(c, g)
      BY <1>5, <3>1 DEF ResumeWait
    <3> QED
      BY <2>3, <3>1, <3>2 DEF WakeByToken, WakeByContext, WakeByTimer, Cancel, IInv, TypeOK
  <2> QED
    BY <2>2, <2>3
<1>7. \A p \in Queries : /\ Eligible(gen, p)' = Eligible(gen, p)
                         /\ Runnable(gen, p)' = Runnable(gen, p)
  BY <1>1 DEF Eligible, UsableAsEligible, Runnable, HasRoom, CellLimit, Cell,
       routerVars, cellVars, useVars
<1>8. CurrentWaiterWoken'
  <2>1. SUFFICES ASSUME ~lapsed', NEW w \in Signalled(gen)', w # c \/ pc'[c] # "woken",
                        w \notin done'
                 PROVE  w \in ready' \/ pc'[w] = "woken"
    BY DEF CurrentWaiterWoken
  <2>2. /\ queue[gen] \in Seq(Requests) /\ Len(queue[gen]) \in Nat
        /\ DOMAIN queue[gen] = 1..Len(queue[gen])
        /\ queue' = queue /\ \A i \in 1..Len(queue[gen]) : queue[gen][i] \in Requests
    BY <1>1, <1>4, LenProperties, ElementOfSeq DEF IInv, TypeOK
  <2>3. PICK i \in 1..Len(queue[gen]) :
           /\ w = queue[gen][i]
           /\ Stirred(gen, queue[gen][i])'
           /\ \A h \in 1..(i - 1) : ~Stirred(gen, queue[gen][h])'
    BY <1>4, <2>1, <2>2 DEF Signalled
  <2>4. ASSUME NEW h \in 1..Len(queue[gen])
        PROVE  Stirred(gen, queue[gen][h])' <=>
                 Stirred(gen, queue[gen][h]) \/ queue[gen][h] \in done'
    <3>1. PICK d \in Requests : d = queue[gen][h] /\ d = queue'[gen'][h]
      BY <1>4, <2>2
    <3>2. PICK p \in Queries : p = query[d] /\ p = query'[d]
      BY <1>1 DEF IInv, TypeOK
    <3>3. Stirred(gen, queue[gen][h])' <=>
            d \in done' \/ Runnable(gen, p)' # {} \/ Eligible(gen, p)' = {}
      BY <3>1, <3>2 DEF Stirred, Runnable, Eligible, UsableAsEligible
    <3>4. Stirred(gen, queue[gen][h]) <=>
            d \in done \/ Runnable(gen, p) # {} \/ Eligible(gen, p) = {}
      BY <3>1, <3>2 DEF Stirred
    <3> QED
      BY <1>1, <1>7, <3>1, <3>3, <3>4
  <2>5. w \in Signalled(gen)
    <3>1. Stirred(gen, queue[gen][i])
      BY <2>1, <2>3, <2>4
    <3>2. \A h \in 1..(i - 1) : ~Stirred(gen, queue[gen][h])
      BY <2>2, <2>3, <2>4
    <3> QED
      BY <2>2, <2>3, <3>1, <3>2 DEF Signalled
  <2>6. w \in ready \/ pc[w] = "woken"
    BY <1>1, <2>1, <2>5 DEF NoLostWakeup, CurrentWaiterWoken
  <2>7. w \in Requests
    BY <2>2, <2>3
  <2>8. CASE w # c
    BY <1>1, <2>6, <2>7, <2>8
  <2>9. CASE w = c
    BY <1>2, <1>5, <2>1, <2>5, <2>9
  <2> QED
    BY <2>8, <2>9
<1> QED
  BY <1>3, <1>6, <1>8 DEF NoLostWakeup

(* Whoever leaves the queue passes the token on.                           *)
LEMMA LeaveWakes ==
  ASSUME WakeInv, IInv', NEW c \in Requests, NEW g \in Gens,
         ResumeRefused(c, g) \/ ResumeGrant(c, g)
  PROVE  WakeInv'
<1> USE DEF WakeInv
<1>1. /\ pc[c] = "woken" /\ g = at[c]
      /\ queue' = [queue EXCEPT ![g] = RemoveWaiter(g, c)]
      /\ done' = done \ {c}
      /\ ready' = (ready \ {c}) \cup Signalled(g)'
      /\ lapsed' = (lapsed /\ g # gen)
      /\ UNCHANGED <<routerVars, cellVars>>
      /\ \E v \in {"idle", "leased"} : pc' = [pc EXCEPT ![c] = v]
      /\ \A d \in Requests \ {c} : at'[d] = at[d] /\ query'[d] = query[d]
  BY DEF ResumeRefused, ResumeGrant, LeaveQueue, Forget, Grant, IInv, TypeOK
<1>2. /\ ~Waiting(c)'
      /\ \A d \in Requests \ {c} : pc'[d] = pc[d]
  BY <1>1 DEF Waiting, IInv, TypeOK
<1>3. gen \in Gens /\ gen' = gen /\ g <= gen
  BY <1>1 DEF IInv, TypeOK, RetiredAreOld, routerVars
<1>4. DoneAreWaiting'
  BY <1>1, <1>2 DEF DoneAreWaiting, Waiting, IInv, TypeOK
<1>5. RetiredWaitersWoken'
  BY <1>1, <1>2, <1>3 DEF NoLostWakeup, RetiredWaitersWoken, Waiting
<1>6. CurrentWaiterWoken'
  <2>1. CASE g = gen
    <3>1. Signalled(gen)' = Signalled(g)'
      BY <1>3, <2>1 DEF Signalled
    <3> QED
      BY <1>1, <3>1 DEF CurrentWaiterWoken
  <2>2. CASE g # gen
    <3>1. ~\E s \in Runnable(g, query[c]) : Grant(c, g, s)
      BY <1>3, <2>2, RetiredNotEligible DEF Runnable
    <3>2. useVars' = useVars
      BY <3>1 DEF ResumeGrant, ResumeRefused
    <3>3. PICK n \in Gens : n = gen /\ n = gen'
      BY <1>3
    <3>4. queue'[n] = queue[n] /\ lapsed' = lapsed
      BY <1>1, <2>2, <3>3 DEF IInv, TypeOK
    <3>5. \A i \in 1..Len(queue[n]) : Stirred(n, queue[n][i])' <=> Stirred(n, queue[n][i])
      <4>1. TAKE i \in 1..Len(queue[n])
      <4>2. /\ queue[n] \in Seq(Requests) /\ DOMAIN queue[n] = 1..Len(queue[n])
        BY LenProperties DEF IInv, TypeOK
      <4>3. PICK d \in Requests : d = queue[n][i] /\ d = queue'[n][i]
        BY <3>4, <4>2, ElementOfSeq
      <4>4. d # c
        BY <1>1, <2>2, <3>3, <4>2, <4>3 DEF IInv, QueueAgreement
      <4>5. PICK p \in Queries : p = query[d] /\ p = query'[d]
        BY <1>1, <4>4 DEF IInv, TypeOK
      <4>6. Eligible(n, p)' = Eligible(n, p) /\ Runnable(n, p)' = Runnable(n, p)
        BY <1>1, <3>2 DEF Eligible, UsableAsEligible, Runnable, HasRoom, CellLimit, Cell,
             routerVars, cellVars, useVars
      <4>7. Stirred(n, queue[n][i])' <=>
              d \in done' \/ Runnable(n, p)' # {} \/ Eligible(n, p)' = {}
        BY <4>3, <4>5 DEF Stirred, Runnable, Eligible, UsableAsEligible
      <4>8. Stirred(n, queue[n][i]) <=>
              d \in done \/ Runnable(n, p) # {} \/ Eligible(n, p) = {}
        BY <4>3, <4>5 DEF Stirred
      <4> QED
        BY <1>1, <4>4, <4>6, <4>7, <4>8
    <3>6. Signalled(n)' = Signalled(n)
      BY <3>4, <3>5, SameSignalled DEF IInv
    <3>7. SUFFICES ASSUME ~lapsed', NEW w \in Signalled(gen)'
                   PROVE  w \in ready' \/ w \in done' \/ pc'[w] = "woken"
      BY DEF CurrentWaiterWoken
    <3>8. w \in Signalled(n)
      BY <3>3, <3>6, <3>7 DEF Signalled
    <3>9. w \in Requests /\ at[w] = n
      BY <3>8, SignalledFirst DEF IInv
    <3>10. w # c
      BY <1>1, <2>2, <3>3, <3>9
    <3>11. w \in ready \/ w \in done \/ pc[w] = "woken"
      BY <3>3, <3>4, <3>7, <3>8 DEF NoLostWakeup, CurrentWaiterWoken
    <3> QED
      BY <1>1, <1>2, <3>9, <3>10, <3>11
  <2> QED
    BY <2>1, <2>2
<1> QED
  BY <1>4, <1>5, <1>6 DEF NoLostWakeup

(* Release and SetEnabled signal the current router.                       *)
LEMMA ReleaseWakes ==
  ASSUME WakeInv, IInv', NEW c \in Requests, NEW status, Release(c, status)
  PROVE  WakeInv'
<1> USE DEF WakeInv
<1>1. /\ pc[c] = "leased"
      /\ pc' = [pc EXCEPT ![c] = "idle"]
      /\ at' = [at EXCEPT ![c] = 0]
      /\ gen' = gen /\ done' = done
      /\ ready' = ready \cup Signalled(gen)'
  BY DEF Release, Forget, routerVars
<1>2. /\ ~Waiting(c)' /\ ~Waiting(c)
      /\ \A d \in Requests \ {c} : pc'[d] = pc[d] /\ at'[d] = at[d]
  BY <1>1 DEF Waiting, IInv, TypeOK
<1>3. DoneAreWaiting'
  BY <1>1, <1>2 DEF DoneAreWaiting, Waiting, IInv, TypeOK
<1>4. NoLostWakeup'
  BY <1>1, <1>2, SignalWakes DEF NoLostWakeup, Waiting
<1> QED
  BY <1>3, <1>4

(* A switched source wakes the first waiter it concerns.                   *)
LEMMA SetEnabledWakes ==
  ASSUME WakeInv, IInv', NEW s \in Sources, NEW on \in BOOLEAN, SetEnabled(s, on)
  PROVE  WakeInv'
<1> USE DEF WakeInv
<1>1. /\ gen' = gen /\ done' = done /\ pc' = pc /\ at' = at
      /\ ready' = ready \cup Signalled(gen)'
  BY DEF SetEnabled, routerVars
<1>2. DoneAreWaiting'
  BY <1>1 DEF DoneAreWaiting, Waiting
<1>3. CurrentWaiterWoken'
  BY <1>1 DEF CurrentWaiterWoken
<1>4. RetiredWaitersWoken'
  BY <1>1 DEF NoLostWakeup, RetiredWaitersWoken, Waiting
<1> QED
  BY <1>2, <1>3, <1>4 DEF NoLostWakeup

(* Adopt wakes the whole queue of the router it retires, and nobody waits  *)
(* in the router that takes over.                                          *)
LEMMA AdoptWakes ==
  ASSUME WakeInv, IInv', NEW cf \in Configs, Adopt(cf)
  PROVE  WakeInv'
<1> USE DEF WakeInv
<1>1. /\ gen < MaxGen /\ gen' = gen + 1
      /\ ready' = ready \cup OldWaiters
      /\ UNCHANGED <<queue, pc, at, query, done>>
  BY DEF Adopt
<1>2. gen \in Nat /\ gen \in Gens /\ gen + 1 \in Gens
  BY <1>1, BoundsAssumption DEF IInv, TypeOK, Gens
<1>3. DoneAreWaiting'
  BY <1>1 DEF DoneAreWaiting, Waiting
<1>4. \A d \in Requests : at[d] \in 0..MaxGen /\ at[d] <= gen
  BY DEF IInv, TypeOK, RetiredAreOld
<1>5. \A i \in DOMAIN queue[gen + 1] : FALSE
  <2>1. SUFFICES ASSUME NEW i \in DOMAIN queue[gen + 1] PROVE FALSE
    OBVIOUS
  <2>2. queue[gen + 1] \in Seq(Requests) /\ DOMAIN queue[gen + 1] = 1..Len(queue[gen + 1])
    BY <1>2, LenProperties DEF IInv, TypeOK
  <2>3. queue[gen + 1][i] \in Requests
    BY <2>1, <2>2, ElementOfSeq
  <2>4. at[queue[gen + 1][i]] = gen + 1
    BY <1>2, <2>1, <2>3 DEF IInv, QueueAgreement
  <2> QED
    BY <1>2, <1>4, <2>3, <2>4
<1>6. CurrentWaiterWoken'
  <2>1. Signalled(gen)' = {}
    BY <1>1, <1>5 DEF Signalled
  <2> QED
    BY <2>1 DEF CurrentWaiterWoken
<1>7. RetiredWaitersWoken'
  <2>1. SUFFICES ASSUME NEW d \in Requests, Waiting(d) PROVE d \in ready' \/ pc'[d] = "woken"
    BY <1>1 DEF RetiredWaitersWoken, Waiting
  <2>2. CASE at[d] = gen
    BY <1>1, <1>2, <2>1, <2>2 DEF OldWaiters, IInv, QueueAgreement
  <2>3. CASE at[d] # gen
    BY <1>1, <2>1, <2>3 DEF NoLostWakeup, RetiredWaitersWoken
  <2> QED
    BY <2>2, <2>3
<1> QED
  BY <1>3, <1>6, <1>7 DEF NoLostWakeup

(* WakeInv is inductive.                                                   *)
LEMMA WakeInvariance == Spec => []WakeInv
<1>1. Init => WakeInv
  <2>1. SUFFICES ASSUME Init PROVE DoneAreWaiting /\ NoLostWakeup
    BY InitInv DEF WakeInv
  <2>2. 1 \in Gens
    BY BoundsAssumption DEF Gens
  <2>3. Signalled(gen) = {}
    BY <2>1, <2>2 DEF Init, Signalled
  <2> QED
    BY <2>1, <2>3 DEF Init, DoneAreWaiting, NoLostWakeup, CurrentWaiterWoken,
         RetiredWaitersWoken, Waiting
<1>2. WakeInv /\ [Next]_vars => WakeInv'
  <2> SUFFICES ASSUME WakeInv, [Next]_vars PROVE WakeInv'
    OBVIOUS
  <2>0. IInv'
    BY NextInv DEF WakeInv
  <2>1. ASSUME NEW c \in Requests, RequestStep(c) PROVE WakeInv'
    <3>1. ASSUME NEW g \in 1..gen, NEW q \in Queries, AcquireNow(c, g, q) PROVE WakeInv'
      BY <2>0, <3>1, AcquireNowWakes
    <3>2. ASSUME NEW g \in 1..gen, NEW q \in Queries, AcquireQueue(c, g, q) PROVE WakeInv'
      BY <2>0, <3>2, AcquireQueueWakes
    <3>3. CASE \/ WakeByToken(c) \/ WakeByContext(c) \/ WakeByTimer(c) \/ Cancel(c)
               \/ \E g \in Gens : ResumeWait(c, g)
      BY <2>0, <3>3, SelectWakes
    <3>4. ASSUME NEW g \in Gens, ResumeRefused(c, g) \/ ResumeGrant(c, g) PROVE WakeInv'
      BY <2>0, <3>4, LeaveWakes
    <3>5. ASSUME NEW status \in Statuses, Release(c, status) PROVE WakeInv'
      BY <2>0, <3>5, ReleaseWakes
    <3> QED
      BY <2>1, <3>1, <3>2, <3>3, <3>4, <3>5 DEF RequestStep, Resume
  <2>2. ASSUME NEW x \in Cells, CooldownEnds(x) PROVE WakeInv'
    BY <2>0, <2>2 DEF WakeInv, CooldownEnds, DoneAreWaiting, NoLostWakeup,
         CurrentWaiterWoken, RetiredWaitersWoken, Waiting, requestVars, routerVars
  <2>3. ASSUME NEW s \in Sources, NEW on \in BOOLEAN, SetEnabled(s, on) PROVE WakeInv'
    BY <2>0, <2>3, SetEnabledWakes
  <2>4. ASSUME NEW cf \in Configs, Adopt(cf) PROVE WakeInv'
    BY <2>0, <2>4, AdoptWakes
  <2>5. CASE UNCHANGED vars
    <3>1. UNCHANGED <<routerVars, queue, cellVars, useVars, requestVars, lapsed>>
      BY <2>5 DEF vars
    <3>2. Signalled(gen)' = Signalled(gen)
      BY <3>1 DEF Signalled, Stirred, Runnable, Eligible, UsableAsEligible, HasRoom,
           CellLimit, Cell, routerVars, cellVars, useVars, requestVars
    <3> QED
      BY <2>0, <3>1, <3>2 DEF WakeInv, DoneAreWaiting, NoLostWakeup, CurrentWaiterWoken,
           RetiredWaitersWoken, Waiting, requestVars, routerVars
  <2> QED
    BY <2>1, <2>2, <2>3, <2>4, <2>5 DEF Next, AdminStep
<1> QED
  BY <1>1, <1>2, PTL DEF Spec

(* Nobody sleeps who could go on: unless a cooldown has just run out, the  *)
(* first waiter that signal looks for is awake or holds a token, and so is *)
(* every waiter of a retired router.                                       *)
THEOREM NoWakeupIsLost == Spec => []NoLostWakeup
<1>1. WakeInv => NoLostWakeup
  BY DEF WakeInv
<1> QED
  BY <1>1, WakeInvariance, PTL

=============================================================================
