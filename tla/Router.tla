------------------------------- MODULE Router -------------------------------
(***************************************************************************)
(* Admission control of the gateway: internal/routing/router.go and        *)
(* internal/routing/reconfigure.go.                                        *)
(*                                                                         *)
(* A request asks one router (one configuration generation) for a lease on *)
(* some source.  A lease takes one unit of the global in-flight budget and *)
(* one unit of every capacity cell the source uses: its own state, its     *)
(* quota domain and, if it has one, its account.  A request that cannot    *)
(* run waits in the router's FIFO queue.  Adopt replaces the router by one *)
(* compiled from the next configuration while leases are outstanding and   *)
(* requests are queued.                                                    *)
(*                                                                         *)
(* Every section of the code that holds capacity.mu is one action.  The    *)
(* only points where a request gives the lock up are the select in Acquire *)
(* (pc = "parked", then "woken" until the lock is taken again) and the     *)
(* time between Acquire and Release (pc = "leased").                       *)
(*                                                                         *)
(* Abstracted: which runnable source choose picks (any of them here), and  *)
(* the static part of eligible, which is the field permits of a            *)
(* configuration.  A newcomer that is refused (its context is done, no     *)
(* eligible source, queue full) changes nothing and has no action.         *)
(***************************************************************************)
EXTENDS Naturals, Integers, Sequences, FiniteSets, SequencesExt

CONSTANTS
    Requests,       \* callers of Acquire
    Queries,        \* what a caller may ask for
    Probes,         \* the queries with Query.Probe set
    Sources, Quotas, Accounts,  \* identifiers of the three kinds of capacity
    NoAccount,      \* Source.AccountID = ""
    Configs,        \* the configurations that may be adopted
    First,          \* the configuration of the first router
    Statuses,       \* the classes of status a lease may be released with
    MaxInflight,    \* Runtime.MaxInflight
    MaxQueued,      \* Runtime.MaxQueued
    MaxGen          \* bound: number of routers ever built

Keys == Sources \cup Quotas \cup Accounts
Gens == 1..MaxGen

(***************************************************************************)
(* The part of a validated configuration that admission control reads.     *)
(* permits[q] are the sources that pass every check of eligible that does  *)
(* not depend on the run-time enabled and blocked flags.  The run-time     *)
(* limits are pinned to the start-up configuration, so they are constants. *)
(***************************************************************************)
ConfigType ==
    [sources : SUBSET Sources,
     enabled : SUBSET Sources,
     quota   : [Sources -> Quotas],
     account : [Sources -> Accounts \cup {NoAccount}],
     limit   : [Keys -> Nat \ {0}],
     permits : [Queries -> SUBSET Sources]]

ASSUME KindsAssumption ==
    /\ Sources \cap Quotas = {}
    /\ Sources \cap Accounts = {}
    /\ Quotas \cap Accounts = {}
    /\ NoAccount \notin Keys
    /\ IsFiniteSet(Requests)
    /\ Queries # {} /\ Probes \subseteq Queries

ASSUME ConfigAssumption ==
    /\ Configs \subseteq ConfigType
    /\ First \in Configs
    /\ \A cf \in Configs : \A q \in Queries : cf.permits[q] \subseteq cf.sources

ASSUME BoundsAssumption ==
    /\ MaxInflight \in Nat \ {0}
    /\ MaxQueued \in Nat
    /\ MaxGen \in Nat \ {0}

ASSUME StatusAssumption ==
    Statuses \subseteq {"neutral", "rejected", "throttled", "failed"}

-----------------------------------------------------------------------------

VARIABLES
    \* One router per generation
    gen,        \* capacity.current
    cfg,        \* Router.cfg
    cells,      \* Router.state, .quotas, .accounts: birth of the cell per key
    retired,    \* the generations whose Router.retired is set
    queue,      \* the waiters of each router, head first
    \* capacity, shared by all generations
    slot,       \* sourceStates, quotaStates, accountStates: birth, or 0
    total,      \* capacity.active
    active,     \* the active counter of every cell
    limit,      \* quota.limit of every cell
    enabled,    \* the source cells with state.enabled
    blocked,    \* the source cells with state.blocked
    cooling,    \* the cells whose cooldown lies in the future
    \* requests
    pc, at, query,  \* where a request is, the router and the query it uses
    done,       \* the waiting requests whose context is done
    ready,      \* the requests with a token in waiter.ready
    held,       \* the cells a request's lease points to
    \* history
    lapsed      \* a cooldown has ended since the current queue was signalled

routerVars == <<gen, cfg, cells, retired>>
cellVars == <<slot, limit, enabled, blocked, cooling>>
useVars == <<total, active, held>>
requestVars == <<pc, at, query, done, ready>>
vars == <<routerVars, queue, cellVars, useVars, requestVars, lapsed>>

(***************************************************************************)
(* A cell (a *state or *quota object) is named by its key and by the       *)
(* generation whose New allocated it.                                      *)
(***************************************************************************)
Cells == Keys \X Gens

\* An idle request has no router (0) and no query of interest.
AnyQuery == CHOOSE q \in Queries : TRUE
Forget(c) ==
    /\ at' = [at EXCEPT ![c] = 0]
    /\ query' = [query EXCEPT ![c] = AnyQuery]

Waiting(c) == pc[c] \in {"parked", "woken"}

-----------------------------------------------------------------------------
(* Helpers                                                                 *)

Cell(g, k) == <<k, cells[g][k]>>

Uses(cf, s) == {s, cf.quota[s]} \cup ({cf.account[s]} \ {NoAccount})
UsedKeys(cf) == UNION {Uses(cf, s) : s \in cf.sources}

\* The cells a lease on source s of router g points to.
Takes(g, s) == {Cell(g, k) : k \in Uses(cfg[g], s)}

\* A source's limit is read from the configuration, the others from the cell.
CellLimit(g, k) == IF k \in Sources THEN cfg[g].limit[k] ELSE limit[Cell(g, k)]

UsableAsEligible(g, q) ==
    {s \in cfg[g].permits[q] :
        q \in Probes \/ (Cell(g, s) \in enabled /\ Cell(g, s) \notin blocked)}

\* Faulty variant: retired routers go on choosing.
EligibleIgnoringRetired(g, q) == UsableAsEligible(g, q)

\* The second result of choose is Eligible(g, q) # {}.
Eligible(g, q) == IF g \in retired THEN {} ELSE UsableAsEligible(g, q)

HasRoom(g, s) ==
    /\ \A k \in Uses(cfg[g], s) : active[Cell(g, k)] < CellLimit(g, k)
    /\ Cell(g, s) \notin cooling
    /\ Cell(g, cfg[g].quota[s]) \notin cooling

\* The first result of choose is nonnegative iff Runnable(g, q) # {}.
Runnable(g, q) ==
    {s \in Eligible(g, q) : total < MaxInflight /\ HasRoom(g, s)}

\* No live request among the first n waiters of router g can run now.
TurnAfter(g, n) ==
    \A i \in 1..n : LET w == queue[g][i]
                    IN  w \in done \/ Runnable(g, query[w]) = {}

Position(g, c) == CHOOSE i \in DOMAIN queue[g] : queue[g][i] = c

\* Faulty variant: a newcomer does not look at the queue.
TurnWithBarging(g, c) == TurnAfter(g, IF Waiting(c) THEN Position(g, c) - 1 ELSE 0)

Turn(g, c) == TurnAfter(g, IF Waiting(c) THEN Position(g, c) - 1
                                         ELSE Len(queue[g]))

\* Faulty variant: a waiter whose sources were switched off is passed over.
StirredByCapacityOnly(g, w) == w \in done \/ Runnable(g, query[w]) # {}

Stirred(g, w) ==
    \/ w \in done
    \/ Runnable(g, query[w]) # {}
    \/ Eligible(g, query[w]) = {}

\* The waiter, if there is one, that signal() gives a token to.
Signalled(g) ==
    {queue[g][i] : i \in {j \in DOMAIN queue[g] :
        /\ Stirred(g, queue[g][j])
        /\ \A h \in 1..(j - 1) : ~Stirred(g, queue[g][h])}}

-----------------------------------------------------------------------------
(* Acquire                                                                 *)

\* Faulty variant: the account's counter is not incremented.
GrantSkippingAccount(c, g, s) ==
    /\ total' = total + 1
    /\ active' = [x \in Cells |->
                    IF x \in Takes(g, s) /\ x[1] \notin Accounts
                    THEN active[x] + 1 ELSE active[x]]
    /\ held' = [held EXCEPT ![c] = Takes(g, s)]
    /\ pc' = [pc EXCEPT ![c] = "leased"]

Grant(c, g, s) ==
    /\ total' = total + 1
    /\ active' = [x \in Cells |-> IF x \in Takes(g, s) THEN active[x] + 1
                                                       ELSE active[x]]
    /\ held' = [held EXCEPT ![c] = Takes(g, s)]
    /\ pc' = [pc EXCEPT ![c] = "leased"]

\* A newcomer runs at once: it never had a waiter, so nobody is signalled.
AcquireNow(c, g, q) ==
    /\ pc[c] = "idle"
    /\ Turn(g, c)
    /\ \E s \in Runnable(g, q) : Grant(c, g, s)
    /\ at' = [at EXCEPT ![c] = g]
    /\ query' = [query EXCEPT ![c] = q]
    /\ UNCHANGED <<routerVars, cellVars, queue, done, ready, lapsed>>

\* A newcomer joins the queue and enters the select.
AcquireQueue(c, g, q) ==
    /\ pc[c] = "idle"
    /\ Eligible(g, q) # {}
    /\ ~(Runnable(g, q) # {} /\ Turn(g, c))
    /\ Len(queue[g]) < MaxQueued
    /\ queue' = [queue EXCEPT ![g] = Append(@, c)]
    /\ pc' = [pc EXCEPT ![c] = "parked"]
    /\ at' = [at EXCEPT ![c] = g]
    /\ query' = [query EXCEPT ![c] = q]
    /\ UNCHANGED <<routerVars, cellVars, useVars, done, ready, lapsed>>

\* The select returns: by a token, by the context, or after 250 ms.
WakeByToken(c) ==
    /\ pc[c] = "parked"
    /\ c \in ready
    /\ ready' = ready \ {c}
    /\ pc' = [pc EXCEPT ![c] = "woken"]
    /\ UNCHANGED <<routerVars, cellVars, useVars, queue, at, query, done, lapsed>>

WakeByContext(c) ==
    /\ pc[c] = "parked"
    /\ c \in done
    /\ pc' = [pc EXCEPT ![c] = "woken"]
    /\ UNCHANGED <<routerVars, cellVars, useVars, queue, at, query, done, ready, lapsed>>

WakeByTimer(c) ==
    /\ pc[c] = "parked"
    /\ pc' = [pc EXCEPT ![c] = "woken"]
    /\ UNCHANGED <<routerVars, cellVars, useVars, queue, at, query, done, ready, lapsed>>

\* Faulty variant: the head of the list is unlinked, whoever leaves.
RemoveHead(g, c) == Tail(queue[g])

RemoveWaiter(g, c) == RemoveAt(queue[g], Position(g, c))

\* Faulty variant: whoever leaves does not pass the baton.
LeaveQueueSilently(c, g) ==
    /\ queue' = [queue EXCEPT ![g] = RemoveWaiter(g, c)]
    /\ done' = done \ {c}
    /\ ready' = ready \ {c}
    /\ lapsed' = (lapsed /\ g # gen)

\* The deferred part of Acquire: removeWaiter, then signal on its own router.
LeaveQueue(c, g) ==
    /\ queue' = [queue EXCEPT ![g] = RemoveWaiter(g, c)]
    /\ done' = done \ {c}
    /\ ready' = (ready \ {c}) \cup Signalled(g)'
    /\ lapsed' = (lapsed /\ g # gen)

ResumeRefused(c, g) ==
    /\ pc[c] = "woken"
    /\ g = at[c]
    /\ c \in done \/ Eligible(g, query[c]) = {}
    /\ pc' = [pc EXCEPT ![c] = "idle"]
    /\ Forget(c)
    /\ UNCHANGED <<routerVars, cellVars, useVars>>
    /\ LeaveQueue(c, g)

ResumeGrant(c, g) ==
    /\ pc[c] = "woken"
    /\ g = at[c]
    /\ c \notin done
    /\ Turn(g, c)
    /\ \E s \in Runnable(g, query[c]) : Grant(c, g, s)
    /\ UNCHANGED <<routerVars, cellVars, at, query>>
    /\ LeaveQueue(c, g)

ResumeWait(c, g) ==
    /\ pc[c] = "woken"
    /\ g = at[c]
    /\ c \notin done
    /\ Eligible(g, query[c]) # {}
    /\ ~(Runnable(g, query[c]) # {} /\ Turn(g, c))
    /\ pc' = [pc EXCEPT ![c] = "parked"]
    /\ UNCHANGED <<routerVars, cellVars, useVars, queue, at, query, done, ready, lapsed>>

\* The context of a waiting request ends: client gone or queue timeout.
Cancel(c) ==
    /\ Waiting(c)
    /\ c \notin done
    /\ done' = done \cup {c}
    /\ UNCHANGED <<routerVars, cellVars, useVars, queue, pc, at, query, ready, lapsed>>

-----------------------------------------------------------------------------
(* Release                                                                 *)

\* 401 and 403 are "rejected", 429 is "throttled", 0 and 5xx are "failed";
\* the administrative release, 2xx, 499 and the other 4xx are "neutral".
Blocks(c, status) == {x \in held[c] : status = "rejected" /\ x[1] \in Sources}
Cools(c, status) ==
    {x \in held[c] : \/ status = "throttled" /\ x[1] \in Quotas
                     \/ status = "failed" /\ x[1] \in Sources}

Release(c, status) ==
    /\ pc[c] = "leased"
    /\ total' = total - 1
    /\ active' = [x \in Cells |-> IF x \in held[c] THEN active[x] - 1
                                                   ELSE active[x]]
    /\ held' = [held EXCEPT ![c] = {}]
    /\ blocked' = blocked \cup Blocks(c, status)
    /\ cooling' = cooling \cup Cools(c, status)
    /\ pc' = [pc EXCEPT ![c] = "idle"]
    /\ Forget(c)
    /\ UNCHANGED <<routerVars, slot, limit, enabled, queue, done>>
    /\ ready' = ready \cup Signalled(gen)'
    /\ lapsed' = FALSE

\* Time passes the end of a cooldown.  No code runs: nobody is signalled.
CooldownEnds(x) ==
    /\ x \in cooling
    /\ cooling' = cooling \ {x}
    /\ lapsed' = TRUE
    /\ UNCHANGED <<routerVars, slot, limit, enabled, blocked, useVars, queue, requestVars>>

-----------------------------------------------------------------------------
(* Administration.  The control plane serialises these on the current      *)
(* router.                                                                 *)

SetEnabled(s, on) ==
    /\ s \in cfg[gen].sources
    /\ LET x == {Cell(gen, s)} IN
         /\ enabled' = IF on THEN enabled \cup x ELSE enabled \ x
         /\ blocked' = IF on THEN blocked \ x ELSE blocked
    /\ UNCHANGED <<routerVars, slot, limit, cooling, useVars, queue, pc, at, query, done>>
    /\ ready' = ready \cup Signalled(gen)'
    /\ lapsed' = FALSE

\* The cell of key k in the next router: the registered one, or a new one.
AdoptedCell(k) == IF slot[k] # 0 THEN slot[k] ELSE gen + 1

\* Faulty variant: unused keys are forgotten although leases are out.
AdoptedSlotForgetful(cf) ==
    [k \in Keys |-> IF k \in UsedKeys(cf) THEN AdoptedCell(k) ELSE 0]

\* The registry afterwards: keys the next configuration does not use are
\* forgotten only when nothing holds their cell.
AdoptedSlot(cf) ==
    [k \in Keys |->
        IF k \in UsedKeys(cf) THEN AdoptedCell(k)
        ELSE IF slot[k] # 0 /\ active[<<k, slot[k]>>] = 0 THEN 0 ELSE slot[k]]

\* Birth 0 in cells marks a key the router does not use.
AdoptedCells(cf) ==
    [k \in Keys |-> IF k \in UsedKeys(cf) THEN AdoptedCell(k) ELSE 0]

\* Faulty variants: a kept cell keeps its limit; a limit is off by one.
AdoptedLimitStale(cf) == limit
AdoptedLimitOffByOne(cf) ==
    [x \in Cells |->
        IF x[1] \in UsedKeys(cf) \ Sources /\ x[2] = AdoptedCell(x[1])
        THEN cf.limit[x[1]] - 1 ELSE limit[x]]

AdoptedLimit(cf) ==
    [x \in Cells |->
        IF x[1] \in UsedKeys(cf) \ Sources /\ x[2] = AdoptedCell(x[1])
        THEN cf.limit[x[1]] ELSE limit[x]]

\* Faulty variant: every update unblocks the sources it enables.
AdoptHealthUnblocking(cf) ==
    LET on  == {<<s, AdoptedCell(s)>> : s \in cf.sources \cap cf.enabled}
        off == {<<s, AdoptedCell(s)>> : s \in cf.sources \ cf.enabled}
    IN  /\ enabled' = (enabled \cup on) \ off
        /\ blocked' = blocked \ on

\* A source switched from disabled to enabled is no longer blocked.
AdoptHealth(cf) ==
    LET on  == {<<s, AdoptedCell(s)>> : s \in cf.sources \cap cf.enabled}
        off == {<<s, AdoptedCell(s)>> : s \in cf.sources \ cf.enabled}
    IN  /\ enabled' = (enabled \cup on) \ off
        /\ blocked' = blocked \ (on \ enabled)

\* The requests queued in the router that is being retired.
OldWaiters == {queue[gen][i] : i \in DOMAIN queue[gen]}

Adopt(cf) ==
    /\ gen < MaxGen
    /\ gen' = gen + 1
    /\ cfg' = [cfg EXCEPT ![gen + 1] = cf]
    /\ cells' = [cells EXCEPT ![gen + 1] = AdoptedCells(cf)]
    /\ slot' = AdoptedSlot(cf)
    /\ limit' = AdoptedLimit(cf)
    /\ AdoptHealth(cf)
    /\ retired' = retired \cup {gen}
    /\ ready' = ready \cup OldWaiters
    /\ lapsed' = FALSE
    /\ UNCHANGED <<queue, cooling, useVars, pc, at, query, done>>

-----------------------------------------------------------------------------

Init ==
    /\ gen = 1
    /\ cfg = [g \in Gens |-> First]
    /\ cells = [g \in Gens |-> [k \in Keys |->
                    IF k \in UsedKeys(First) THEN 1 ELSE 0]]
    /\ retired = {}
    /\ queue = [g \in Gens |-> <<>>]
    /\ slot = [k \in Keys |-> IF k \in UsedKeys(First) THEN 1 ELSE 0]
    /\ total = 0
    /\ active = [x \in Cells |-> 0]
    /\ limit = [x \in Cells |-> First.limit[x[1]]]
    /\ enabled = {<<s, 1>> : s \in First.sources \cap First.enabled}
    /\ blocked = {}
    /\ cooling = {}
    /\ pc = [c \in Requests |-> "idle"]
    /\ at = [c \in Requests |-> 0]
    /\ query = [c \in Requests |-> AnyQuery]
    /\ done = {}
    /\ ready = {}
    /\ held = [c \in Requests |-> {}]
    /\ lapsed = FALSE

Resume(c) ==
    \E g \in Gens : ResumeRefused(c, g) \/ ResumeGrant(c, g) \/ ResumeWait(c, g)

RequestStep(c) ==
    \/ \E g \in 1..gen, q \in Queries : AcquireNow(c, g, q)
    \/ \E g \in 1..gen, q \in Queries : AcquireQueue(c, g, q)
    \/ WakeByToken(c)
    \/ WakeByContext(c)
    \/ WakeByTimer(c)
    \/ Resume(c)
    \/ Cancel(c)
    \/ \E status \in Statuses : Release(c, status)

AdminStep ==
    \/ \E s \in Sources, on \in BOOLEAN : SetEnabled(s, on)
    \/ \E cf \in Configs : Adopt(cf)

Next ==
    \/ \E c \in Requests : RequestStep(c)
    \/ \E x \in Cells : CooldownEnds(x)
    \/ AdminStep

Spec == Init /\ [][Next]_vars

(***************************************************************************)
(* Fairness.  The Go scheduler brings every woken waiter to the lock;      *)
(* every caller releases its lease (generate defers the release, and every *)
(* upstream call has a deadline).  A parked waiter returns because of its  *)
(* 250 ms timer; or, without the timer, because of a token or its context. *)
(* Cooldowns last at most 24 hours.  Nothing is assumed of clients or of   *)
(* the administrator.                                                      *)
(***************************************************************************)
Fairness ==
    \A c \in Requests :
         /\ WF_vars(Resume(c))
         /\ WF_vars(\E status \in Statuses : Release(c, status))

TimerFairness ==
    /\ \A c \in Requests : WF_vars(WakeByTimer(c))
    /\ \A x \in Cells : WF_vars(CooldownEnds(x))

SignalFairness ==
    \A c \in Requests : WF_vars(WakeByToken(c)) /\ WF_vars(WakeByContext(c))

-----------------------------------------------------------------------------
(* Properties                                                              *)

(* The registry, the routers' cells, queues and counters are well formed.  *)
TypeOK ==
    /\ gen \in Gens
    /\ cfg \in [Gens -> Configs]
    /\ cells \in [Gens -> [Keys -> 0..MaxGen]]
    /\ retired \subseteq Gens
    /\ queue \in [Gens -> Seq(Requests)]
    /\ slot \in [Keys -> 0..MaxGen]
    /\ total \in Int
    /\ active \in [Cells -> Int]
    /\ limit \in [Cells -> Nat \ {0}]
    /\ enabled \subseteq Cells /\ blocked \subseteq Cells /\ cooling \subseteq Cells
    /\ pc \in [Requests -> {"idle", "parked", "woken", "leased"}]
    /\ at \in [Requests -> 0..MaxGen]
    /\ query \in [Requests -> Queries]
    /\ done \subseteq Requests /\ ready \subseteq Requests
    /\ held \in [Requests -> SUBSET Cells]
    /\ lapsed \in BOOLEAN

Leased == {c \in Requests : pc[c] = "leased"}
Holders(x) == {c \in Requests : x \in held[c]}

\* The requests that hold a unit of key k, through whatever cell.
HoldersOfKey(k) == {c \in Requests : \E x \in held[c] : x[1] = k}

(* Every counter equals the number of outstanding leases that point to it, *)
(* whatever generation granted them: Acquire and Release pair up across    *)
(* hot updates, and no counter leaks or goes negative.                     *)
LeaseAccounting ==
    /\ total = Cardinality(Leased)
    /\ \A x \in Cells : active[x] = Cardinality(Holders(x))

(* A cell some lease points to is the registered cell of its key: Adopt    *)
(* never allocates a second cell for capacity that is still in use, not    *)
(* even after a configuration that dropped the source and one that         *)
(* restored it.                                                            *)
NoSplitCapacity ==
    \A c \in Requests : \A x \in held[c] : x[2] = slot[x[1]]

(* The waiters of a router are exactly the requests inside its Acquire     *)
(* loop, each once, and never more than MaxQueued.                         *)
QueueAgreement ==
    /\ \A g \in Gens :
         /\ Len(queue[g]) <= MaxQueued
         /\ \A i, j \in DOMAIN queue[g] : queue[g][i] = queue[g][j] => i = j
    /\ \A c \in Requests, g \in Gens :
         (\E i \in DOMAIN queue[g] : queue[g][i] = c) <=> (Waiting(c) /\ at[c] = g)

Granted(c) == pc[c] # "leased" /\ pc'[c] = "leased"

(* When a lease is granted, the leases outstanding on each of its keys,    *)
(* those of retired generations included, are within the limits the        *)
(* current configuration sets, and the process is within MaxInflight.      *)
(* "A hot update never doubles an account's available slots."              *)
GrantWithinLimits ==
    [][\A c \in Requests : Granted(c) =>
         /\ Cardinality(Leased') <= MaxInflight
         /\ \A x \in held'[c] :
              Cardinality(HoldersOfKey(x[1])') <= cfg[gen].limit[x[1]]]_vars

(* A lease is only granted by the current generation, on a source its own  *)
(* configuration permits for the query, through the registered cells, so   *)
(* that "old queued requests must not use stale routing policy".           *)
GrantUnderCurrentPolicy ==
    [][\A c \in Requests : Granted(c) =>
         /\ at'[c] = gen
         /\ \E s \in cfg[gen].permits[query'[c]] :
              /\ held'[c] = {<<k, slot[k]>> : k \in Uses(cfg[gen], s)}
              /\ \/ query'[c] \in Probes
                 \/ <<s, slot[s]>> \in enabled \ blocked]_vars

(* A request is never granted a lease while an older live request for the  *)
(* same thing waits in the same router: newcomers do not overtake waiters  *)
(* and waiters do not overtake each other.                                 *)
SameQueryFIFO ==
    [][\A c, d \in Requests :
         (Granted(c) /\ Waiting(d) /\ c # d /\ d \notin done
            /\ at[d] = at'[c] /\ query[d] = query'[c])
         => /\ Waiting(c)
            /\ Position(at[c], c) < Position(at[d], d)]_vars

\* Unless a cooldown has just run out, the first waiter of the current
\* router that could make progress is on its way to the lock.
CurrentWaiterWoken ==
    ~lapsed => \A c \in Signalled(gen) :
                  c \in ready \/ c \in done \/ pc[c] = "woken"

\* Every request still queued in a retired router has been woken to fail.
RetiredWaitersWoken ==
    \A c \in Requests : Waiting(c) /\ at[c] # gen => c \in ready \/ pc[c] = "woken"

(* Nobody sleeps who could go on: capacity that comes free is handed from  *)
(* waiter to waiter without the timer (signal, removeWaiter), and a hot    *)
(* update wakes the whole queue of the router it retires (Adopt).          *)
NoLostWakeup == CurrentWaiterWoken /\ RetiredWaitersWoken

(* A hot update keeps the health of everything both configurations use: a  *)
(* cooldown goes on, and a source an upstream rejected stays blocked       *)
(* unless the update switches it from disabled to enabled.                 *)
HealthSurvivesAdopt ==
    [][gen' # gen =>
         /\ \A k \in UsedKeys(cfg[gen]) \cap UsedKeys(cfg'[gen']) :
              <<k, slot[k]>> \in cooling => <<k, slot'[k]>> \in cooling'
         /\ \A s \in cfg[gen].sources \cap cfg'[gen'].sources :
              <<s, slot[s]>> \in blocked \cap enabled => <<s, slot'[s]>> \in blocked']_vars

(* From some point on nobody switches sources on or off.                   *)
SettledSources == <>[][enabled' = enabled /\ blocked \subseteq blocked']_vars

(* Once sources are no longer switched, every request that waits leaves    *)
(* the queue: with a lease, refused, or because its context ended.         *)
(* Newcomers, cooldowns and other queries cannot starve it.                *)
WaitersLeave ==
    SettledSources => \A c \in Requests : Waiting(c) ~> ~Waiting(c)
=============================================================================
