----------------------------- MODULE MCTraffic -----------------------------
(***************************************************************************)
(* The algorithms a request meets on its way, for TLC.  They share no      *)
(* state, so one run explores them side by side: part says which one a     *)
(* behaviour is about, and the others stay in an initial state.            *)
(***************************************************************************)
EXTENDS Traffic

CONSTANTS l4, l5

VARIABLE part

\* Three targets: two accounts of one provider, and a source on its own that
\* shares a quota domain with one of them
ThreeTargets == <<
    [provider |-> "p", account |-> "a", quota |-> "d", limit |-> 2, weight |-> 1, cost |-> 2,
     subscribed |-> FALSE, kind |-> "reverse"],
    [provider |-> "p", account |-> "b", quota |-> "e", limit |-> 1, weight |-> 2, cost |-> 1,
     subscribed |-> FALSE, kind |-> "official"],
    [provider |-> "q", account |-> "none", quota |-> "e", limit |-> 2, weight |-> 2, cost |-> 2,
     subscribed |-> TRUE, kind |-> "other"]>>

TwoQuotas == [d |-> 2, e |-> 2]

TwoAccounts == [a |-> [limit |-> 2, weight |-> 1, hash |-> [x |-> 1, y |-> 2]],
                b |-> [limit |-> 2, weight |-> 2, hash |-> [x |-> 2, y |-> 1]]]

SomePreferences == {<<>>, <<"lower_latency", "official_api", "existing_subscription">>,
                    <<"lower_cost", "reverse_source">>}

\* One latency is enough for a policy that does not look at them.
OneLatency == \A t \in DOMAIN Candidates : latency'[t] <= 1

\* All policies, for four leases
FourLeases ==
    /\ start' <= 4
    /\ type \notin {"auto", "latency"} /\ "lower_latency" \notin Routing!Range(prefs) => OneLatency

\* The policies that promise shares, as long as all targets are free
KeepsShares == steady' /\ weather' = 0 /\ OneLatency

Result(in, outTokens, total, known, ok, canceled) ==
    [in |-> in, out |-> outTokens, total |-> total, known |-> known, ok |-> ok,
     canceled |-> canceled, none |-> FALSE]

\* What a handler may say of an execution
Success == Result(1, 2, 0, TRUE, TRUE, FALSE)
AllResults ==
    {Success, Result(-1, 0, -1, FALSE, FALSE, FALSE), Result(2, 0, 3, TRUE, FALSE, TRUE)}

AllStatuses == {-1, 0, 200, 499}

\* Three leases are enough for the counters.
ThreeLeases == \A l \in {l4, l5} : state'[l] = "held" /\ execution'[l] = NoResult

\* For the ring to go around more than once all leases are used, and end well.
AllSucceed ==
    /\ \A l \in Leases : execution'[l] \in {NoResult, Success}
    /\ \A i \in DOMAIN events' : events'[i].outcome = "succeeded"

ASSUME TrafficAssumption ==
    /\ Routing!PolicyAssumption /\ Reader!ReaderAssumption
    /\ Observer!ObserverAssumption /\ LogAssumption

all == <<part, routing, reading, observing, vars>>

-----------------------------------------------------------------------------

MCInit ==
    /\ part \in {"best", "shares", "reader", "observer", "log", "ring"}
    /\ Routing!Init
    /\ type \in {"fallback", "weighted"} => strategy = "round-robin"    \* asks no pool
    /\ type \in {"auto", "latency", "load-balance"} /\ prefs # <<>> => strategy = "sticky"
    /\ part \notin {"best", "shares"} => type = "fallback" /\ prefs = <<>>
    /\ part = "shares" => /\ type \in {"weighted", "load-balance"}
                          /\ strategy = "round-robin" /\ prefs = <<>>
    /\ Reader!Init /\ (part # "reader" => body = <<>> /\ ~breaks)
    /\ Observer!Init /\ (part # "observer" => protocol = "chat")
    /\ Init

MCNext ==
    /\ \/ part = "best" /\ Routing!Next /\ FourLeases /\ UNCHANGED <<reading, observing, vars>>
       \/ part = "shares" /\ Routing!Next /\ KeepsShares /\ UNCHANGED <<reading, observing, vars>>
       \/ part = "reader" /\ Reader!Read /\ UNCHANGED <<routing, observing, vars>>
       \/ part = "observer" /\ Observer!Next /\ UNCHANGED <<routing, reading, vars>>
       \/ part = "log" /\ Next /\ ThreeLeases /\ UNCHANGED <<routing, reading, observing>>
       \/ part = "ring" /\ Next /\ AllSucceed /\ UNCHANGED <<routing, reading, observing>>
    /\ UNCHANGED part

MCSpec == MCInit /\ [][MCNext]_all
=============================================================================
