--------------------------- MODULE RoutingPolicy ---------------------------
(***************************************************************************)
(* Which target a request is sent to: Router.choose, poolPreferences and   *)
(* comparePreferences (internal/routing/router.go, pools.go,               *)
(* preferences.go), with the bookkeeping that Acquire and Release do for   *)
(* them.  Module Router models the same choice as "some free target"; here *)
(* requests are served one at a time and the choice itself is the subject. *)
(*                                                                         *)
(* The targets are those of one group, one model per source, in the order  *)
(* of r.candidates; eligible is a set that changes under the router's      *)
(* feet.  A fraction is an integer: Scale times its value.                 *)
(***************************************************************************)
EXTENDS Integers, FiniteSets, FiniteSetsExt, Functions, Sequences, SequencesExt

CONSTANTS
    Candidates,     \* a sequence of records: the targets
    Quotas,         \* QuotaMaxInflight of each quota domain
    Accounts,       \* each account's MaxInflight and Weight, and its hash for each affinity
    MaxActive,      \* Runtime.MaxInflight
    Affinities,     \* values of Query.Affinity
    Types,          \* the types of the group that are tried
    Strategies,     \* the pool strategies that are tried
    Preferences,    \* the preference lists that are tried
    Scale,          \* a common multiple of all weights and limits
    MaxGrants,      \* bound: leases
    MaxWeather      \* bound: changes of eligibility, cooldowns

Targets == DOMAIN Candidates
Slow == 2           \* latencies are 0, not measured, to Slow
NoAccount == "none"

\* What the instances satisfy
PolicyAssumption ==
    /\ Candidates \in Seq([provider : STRING, account : DOMAIN Accounts \cup {NoAccount},
                           quota : DOMAIN Quotas, limit : Nat \ {0}, weight : Nat \ {0},
                           cost : Nat, subscribed : BOOLEAN,
                           kind : {"official", "reverse", "other"}])
    /\ \A q \in DOMAIN Quotas : Quotas[q] \in Nat \ {0}
    /\ NoAccount \notin DOMAIN Accounts
    /\ \A t, u \in Targets :             \* an account is of one provider
         Candidates[t].account = Candidates[u].account /\ Candidates[t].account # NoAccount
             => Candidates[t].provider = Candidates[u].provider
    /\ \A a \in DOMAIN Accounts : Accounts[a].limit \in Nat \ {0} /\ Accounts[a].weight \in Nat \ {0}
    /\ Preferences \subseteq Seq(STRING)
    /\ Scale \in Nat
    /\ \A t \in Targets : Scale % Candidates[t].limit = 0 /\ Scale % Candidates[t].weight = 0
    /\ \A a \in DOMAIN Accounts : Scale % Accounts[a].limit = 0 /\ Scale % Accounts[a].weight = 0

VARIABLES
    type, strategy, prefs,  \* the policy, chosen at the start
    active,     \* r.active
    load,       \* state.active
    used,       \* quota.active of each account
    spent,      \* quota.active of each quota domain
    finish,     \* state.virtualFinish
    account,    \* quota.virtualFinish and lastDispatch of each account
    latency,    \* state.latency
    cursor,     \* r.cursor
    sequence,   \* r.dispatchSequence
    cold,       \* targets in a cooldown (state.cooldown)
    throttled,  \* quota domains in a cooldown (quota.cooldown)
    barred,     \* targets that are not eligible
    weather,    \* changes of these so far
    grants,     \* history: leases of each target
    leases,     \* history: leases of each account
    steady      \* history: every target has been free at every choice

policy == <<type, strategy, prefs>>
vars == <<policy, active, load, used, spent, finish, account, latency, cursor, sequence, cold,
          throttled, barred, weather, grants, leases, steady>>

Owner(t) == Candidates[t].account

-----------------------------------------------------------------------------
(* The algorithms                                                          *)

HasSlot(t) ==
    /\ load[t] < Candidates[t].limit /\ t \notin cold
    /\ LET q == Candidates[t].quota IN spent[q] < Quotas[q] /\ q \notin throttled
    /\ Owner(t) # NoAccount => used[Owner(t)] < Accounts[Owner(t)].limit

Free(t) == t \notin barred /\ HasSlot(t) /\ active < MaxActive

PoolScore(a, affinity) ==
    CASE strategy = "weighted" -> account[a].finish
      [] strategy = "least-load" -> used[a] * (Scale \div Accounts[a].limit)
      [] strategy = "sticky" -> Accounts[a].hash[affinity]
      [] OTHER -> 0

BeatsInPool(a, b, affinity) ==
    \/ PoolScore(a, affinity) < PoolScore(b, affinity)
    \/ PoolScore(a, affinity) = PoolScore(b, affinity) /\ account[a].last < account[b].last

Usable(t) == Owner(t) # NoAccount /\ t \notin barred /\ HasSlot(t)

\* poolPreferences: one account for each provider, found by a scan.  It is
\* not asked for a group with an order of its own.
PoolPreferences(affinity) ==
    LET scan(best, t) ==
            LET p == Candidates[t].provider
            IN IF Usable(t) /\ (best[p] = NoAccount \/ BeatsInPool(Owner(t), best[p], affinity))
               THEN [best EXCEPT ![p] = Owner(t)] ELSE best
        none == [p \in {Candidates[t].provider : t \in Targets} |-> NoAccount]
    IN IF type \in {"fallback", "select", "weighted"} THEN none
       ELSE FoldLeft(scan, none, [t \in Targets |-> t])

\* preferenceValue; one that is not known is worse than any other.
Infinity == 1000
PreferenceValue(t, preference) ==
    CASE preference = "lower_latency" -> IF latency[t] = 0 THEN Infinity ELSE latency[t]
      [] preference = "lower_cost" -> Candidates[t].cost
      [] preference = "existing_subscription" -> IF Candidates[t].subscribed THEN 0 ELSE 1
      [] preference = "official_api" -> IF Candidates[t].kind = "official" THEN 0 ELSE 1
      [] preference = "reverse_source" -> IF Candidates[t].kind = "reverse" THEN 0 ELSE 1
      [] OTHER -> 1

Compare(t, u) ==
    LET differs == {i \in DOMAIN prefs : PreferenceValue(t, prefs[i]) # PreferenceValue(u, prefs[i])}
    IN IF differs = {} THEN 0
       ELSE PreferenceValue(t, prefs[Min(differs)]) - PreferenceValue(u, prefs[Min(differs)])

\* The score of a policy; the least one wins.
Value(t) ==
    LET share == load[t] * (Scale \div Candidates[t].limit)
    IN CASE type = "weighted" -> finish[t]
         [] type \in {"fallback", "select"} -> t - 1
         [] type = "latency" -> latency[t]
         [] type = "auto" -> share * Infinity + latency[t]
         [] OTHER -> share

\* Faulty variant: the first target with score 0 wins over a preferred one.
StopsAtZero(t) == Value(t) = 0

\* A score of 0 cannot be beaten, unless there are preferences.
EndsScan(t) == Value(t) = 0 /\ prefs = <<>>

InPool(t, preferred) ==
    LET a == preferred[Candidates[t].provider] IN a = NoAccount \/ Owner(t) \in {a, NoAccount}

Rotated == [i \in Targets |-> ((cursor + i - 1) % Len(Candidates)) + 1]

\* choose: 0 if there is none
Choose(affinity) ==
    LET preferred == PoolPreferences(affinity)
        scan(s, t) ==
            IF s.stop \/ ~Free(t) \/ ~InPool(t, preferred) THEN s
            ELSE IF s.best = 0 \/ Compare(t, s.best) < 0
                    \/ (Compare(t, s.best) = 0 /\ Value(t) < Value(s.best))
            THEN [best |-> t, stop |-> EndsScan(t)]
            ELSE s
    IN FoldLeft(scan, [best |-> 0, stop |-> FALSE], Rotated).best

-----------------------------------------------------------------------------
(* Leases                                                                  *)

\* Faulty variant: the weight is not used.
EqualTurn(t) == finish[t] + Scale

Turn(t) == finish[t] + (Scale \div Candidates[t].weight)

\* The part of Acquire after choose
Dispatch(affinity) ==
    /\ cursor < MaxGrants
    /\ LET t == Choose(affinity)
       IN /\ t # 0
          /\ active' = active + 1
          /\ load' = [load EXCEPT ![t] = @ + 1]
          /\ spent' = [spent EXCEPT ![Candidates[t].quota] = @ + 1]
          /\ finish' = [finish EXCEPT ![t] = Turn(t)]
          /\ cursor' = cursor + 1
          /\ grants' = [grants EXCEPT ![t] = @ + 1]
          /\ IF Owner(t) = NoAccount THEN UNCHANGED <<used, account, sequence, leases>>
             ELSE /\ used' = [used EXCEPT ![Owner(t)] = @ + 1]
                  /\ sequence' = sequence + 1
                  /\ account' = [account EXCEPT ![Owner(t)] =
                       [finish |-> @.finish + (Scale \div Accounts[Owner(t)].weight),
                        last |-> sequence']]
                  /\ leases' = [leases EXCEPT ![Owner(t)] = @ + 1]
          /\ steady' = (steady /\ \A u \in Targets : Free(u))
    /\ UNCHANGED <<policy, latency, cold, throttled, barred, weather>>

\* Release: a success is measured; a failure may start a cooldown, of the
\* source (no answer, 5xx) or of its quota domain (429).
Release(t, took, cools) ==
    /\ load[t] > 0
    /\ cools # "nothing" => took = 0 /\ weather < MaxWeather
    /\ active' = active - 1
    /\ load' = [load EXCEPT ![t] = @ - 1]
    /\ used' = IF Owner(t) = NoAccount THEN used ELSE [used EXCEPT ![Owner(t)] = @ - 1]
    /\ spent' = [spent EXCEPT ![Candidates[t].quota] = @ - 1]
    /\ latency' = IF took > 0 THEN [latency EXCEPT ![t] = took] ELSE latency
    /\ cold' = IF cools = "source" THEN cold \cup {t} ELSE cold
    /\ throttled' = IF cools = "quota" THEN throttled \cup {Candidates[t].quota} ELSE throttled
    /\ weather' = IF cools = "nothing" THEN weather ELSE weather + 1
    /\ UNCHANGED <<policy, finish, account, cursor, sequence, barred, grants, leases, steady>>

\* A cooldown ends, a target is switched off or on.
Weather(t) ==
    /\ weather < MaxWeather
    /\ weather' = weather + 1
    /\ \/ t \in cold /\ cold' = cold \ {t} /\ UNCHANGED <<throttled, barred>>
       \/ /\ Candidates[t].quota \in throttled
          /\ throttled' = throttled \ {Candidates[t].quota} /\ UNCHANGED <<cold, barred>>
       \/ barred' = SymDiff(barred, {t}) /\ UNCHANGED <<cold, throttled>>
    /\ UNCHANGED <<policy, active, load, used, spent, finish, account, latency, cursor, sequence,
                   grants, leases, steady>>

Init ==
    /\ type \in Types /\ strategy \in Strategies /\ prefs \in Preferences
    /\ load = [t \in Targets |-> 0] /\ finish = load /\ latency = load /\ grants = load
    /\ used = [a \in DOMAIN Accounts |-> 0] /\ leases = used
    /\ active = 0 /\ spent = [q \in DOMAIN Quotas |-> 0]
    /\ account = [a \in DOMAIN Accounts |-> [finish |-> 0, last |-> 0]]
    /\ cursor = 0 /\ sequence = 0 /\ steady = TRUE
    /\ cold = {} /\ throttled = {} /\ barred = {} /\ weather = 0

Next ==
    \/ \E affinity \in Affinities : Dispatch(affinity)
    \/ \E t \in Targets : \/ Weather(t)
                          \/ \E took \in 0..Slow, cools \in {"nothing", "source", "quota"} :
                                Release(t, took, cools)

Spec == Init /\ [][Next]_vars

-----------------------------------------------------------------------------
(* Properties                                                              *)

\* The targets among which a policy has to choose
Contenders(affinity) ==
    LET preferred == PoolPreferences(affinity)
    IN {t \in Targets : Free(t) /\ InPool(t, preferred)}

\* How far a target is from the cursor
Distance(t) == (t - 1 - cursor) % Len(Candidates)

\* t is strictly better than u: by the preferences in their order, then the
\* policy's score, then the rotation
Better(t, u) ==
    \/ Compare(t, u) < 0
    \/ Compare(t, u) = 0 /\ Value(t) < Value(u)
    \/ Compare(t, u) = 0 /\ Value(t) = Value(u) /\ Distance(t) < Distance(u)

(* The scan of choose, which starts at the cursor and may stop early,      *)
(* finds the best target there is.                                         *)
ChoosesBest ==
    \A affinity \in Affinities :
        LET t == Choose(affinity)
        IN /\ t = 0 <=> Contenders(affinity) = {}
           /\ t # 0 => \A u \in Contenders(affinity) \ {t} : Better(t, u)

(* Preferring one account of a provider never leaves a request waiting     *)
(* while some target is free: a queue only forms when nothing is.          *)
WorkConserving ==
    \A affinity \in Affinities : Choose(affinity) = 0 => \A t \in Targets : ~Free(t)

(* In a weighted group whose targets were all free all the time, no target *)
(* is ahead of another by more than one turn of its weight.                *)
WeightedShare ==
    steady /\ type = "weighted" /\ prefs = <<>> =>
        \A t, u \in Targets :
            grants[t] * (Scale \div Candidates[t].weight) - grants[u] * (Scale \div Candidates[u].weight)
                <= Scale \div Candidates[t].weight

(* In a round-robin pool whose accounts were free all the time, no account *)
(* of a provider is used twice more than another one.                      *)
PoolTakesTurns ==
    steady /\ strategy = "round-robin" /\ type \notin {"fallback", "select", "weighted"} =>
        \A t, u \in Targets :
            Owner(t) # NoAccount /\ Owner(u) # NoAccount /\ Candidates[t].provider = Candidates[u].provider
                => leases[Owner(t)] - leases[Owner(u)] <= 1
=============================================================================
