------------------------------ MODULE MCRouter ------------------------------
(***************************************************************************)
(* Small instances of Router: three scenarios for the safety properties,   *)
(* and one instance for the liveness of waiters.                           *)
(***************************************************************************)
EXTENDS Router

CONSTANTS s1, s2, q1, a1, u1, u2, p1

VARIABLE scenario   \* which of the small instances a behaviour is about

\* Two sources of one account and quota domain.  u1 asks for either source,
\* u2 for the second only, p1 is a probe of the first.
Shared(limits, present, on) ==
    [sources |-> present,
     enabled |-> on,
     quota   |-> [s \in Sources |-> q1],
     account |-> [s \in Sources |-> IF s = s1 THEN a1 ELSE NoAccount],
     limit   |-> limits,
     permits |-> [q \in Queries |->
                    present \cap (CASE q = u1 -> {s1, s2}
                                    [] q = u2 -> {s2}
                                    [] q = p1 -> {s1})]]

Limits(ms1, mq1) == [k \in Keys |-> IF k = q1 THEN mq1 ELSE IF k = s1 THEN ms1 ELSE 1]

Wide  == Shared(Limits(2, 2), {s1, s2}, {s1, s2})
Tight == Shared(Limits(1, 1), {s1, s2}, {s1})
Gone  == Shared(Limits(1, 2), {s2}, {s2})
Even  == Shared(Limits(1, 2), {s1, s2}, {s1, s2})

AllConfigs == {Wide, Tight, Gone}
JustWide   == {Wide}
JustEven   == {Even}

Symmetry == Permutations(Requests)

-----------------------------------------------------------------------------
(* One run for all safety properties.  The state space of four requests    *)
(* and two updates is too large, and so each scenario explores fully what  *)
(* its bounds leave of it.  Idle requests are all alike, so that at most   *)
(* n busy requests stand for n requests.                                   *)

\* How many requests are under way and how many wait, how many routers are
\* built, what is asked for, which cells cool down or are blocked, and which
\* sources the administrator switches without an update.
Bounds ==
    [update |-> [busy |-> 3, queued |-> 1, gens |-> 3, queries |-> {u1, u2},
                 affected |-> {}, switched |-> {s1}],
     health |-> [busy |-> 2, queued |-> 1, gens |-> 2, queries |-> {u1, p1},
                 affected |-> Keys, switched |-> Sources],
     queue  |-> [busy |-> 4, queued |-> 3, gens |-> 1, queries |-> {u1, u2},
                 affected |-> {s1}, switched |-> {s2}]]

Busy == {c \in Requests : pc[c] # "idle"}

AsConfigured(s) == Cell(gen, s) \in enabled <=> s \in cfg[gen].enabled

WithinBounds ==
    LET b == Bounds[scenario]
    IN  /\ Cardinality(Busy) <= b.busy
        /\ gen <= b.gens
        /\ \A g \in Gens : Len(queue[g]) <= b.queued
        /\ \A c \in Busy : query[c] \in b.queries
        /\ \A x \in cooling \cup blocked : x[1] \in b.affected
        /\ \A s \in cfg[gen].sources \ b.switched : AsConfigured(s)
        /\ scenario = "queue" => blocked = {}

ScenarioInit == Init /\ scenario \in DOMAIN Bounds

ScenarioNext == Next /\ UNCHANGED scenario /\ WithinBounds'

ScenarioSpec == ScenarioInit /\ [][ScenarioNext]_<<vars, scenario>>

-----------------------------------------------------------------------------
(* Liveness, from one state space for both ways a waiter comes back        *)

LiveInit == Init /\ scenario = "live"

LiveSpec ==
    /\ LiveInit
    /\ [][Next /\ UNCHANGED scenario]_<<vars, scenario>>
    /\ Fairness

(* Every waiter leaves the queue: with the 250 ms timer when leases are    *)
(* released and cooldowns end (Acquire), and without the timer, while      *)
(* nothing cools down, by the chain of signals alone (signal).             *)
NobodyStaysQueued ==
    /\ TimerFairness => WaitersLeave
    /\ SignalFairness /\ [](cooling = {}) => WaitersLeave
=============================================================================
