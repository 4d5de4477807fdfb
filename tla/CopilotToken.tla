---------------------------- MODULE CopilotToken ----------------------------
(***************************************************************************)
(* The shared Copilot token (internal/upstream/client.go, copilotToken):   *)
(* requests of one source share a short-lived token, the first one that    *)
(* finds it missing or expired exchanges the GitHub credential for a new   *)
(* one with its own context, and the others wait on a channel for it.      *)
(***************************************************************************)
EXTENDS Naturals

CONSTANTS
    Requests,
    MaxTime         \* bound on the clock

VARIABLES
    now,            \* the clock
    expires,        \* copilotToken.expires; 0: no token yet
    refreshing,     \* the channel in copilotToken.refreshing, named by its owner
    closed,         \* channels already closed
    pc,             \* where each request's get stands
    waitsFor,       \* the channel a request waits on
    got,            \* time at which the token a request returned runs out
    canceled        \* requests whose context is done

vars == <<now, expires, refreshing, closed, pc, waitsFor, got, canceled>>

None == "none"

\* What the instances satisfy
TokenAssumption == None \notin Requests

Init ==
    /\ now = 1 /\ expires = 0
    /\ refreshing = None /\ closed = {}
    /\ pc = [r \in Requests |-> "idle"]
    /\ waitsFor = [r \in Requests |-> None]
    /\ got = [r \in Requests |-> 0]
    /\ canceled = {}

To(r, where) == pc' = [pc EXCEPT ![r] = where]

-----------------------------------------------------------------------------

Current == expires # 0 /\ now < expires

Unowned == refreshing = None

\* One pass of get's loop under the mutex: the cached token, the channel of
\* the exchange under way, or an exchange of one's own.
Look(r) ==
    /\ pc[r] \in {"idle", "again"}
    /\ \/ /\ Current
          /\ got' = [got EXCEPT ![r] = expires]
          /\ To(r, "returned")
          /\ UNCHANGED <<refreshing, waitsFor>>
       \/ /\ ~Current /\ ~Unowned
          /\ waitsFor' = [waitsFor EXCEPT ![r] = refreshing]
          /\ To(r, "waiting")
          /\ UNCHANGED <<refreshing, got>>
       \/ /\ ~Current /\ Unowned
          /\ refreshing' = r
          /\ To(r, "exchanging")
          /\ UNCHANGED <<waitsFor, got>>
    /\ UNCHANGED <<now, expires, closed, canceled>>

\* The select: either arm may be taken when both are ready.
Wake(r) ==
    /\ pc[r] = "waiting"
    /\ \/ waitsFor[r] \in closed /\ To(r, "again")
       \/ r \in canceled /\ To(r, "failed")
    /\ UNCHANGED <<now, expires, refreshing, closed, waitsFor, got, canceled>>

\* Owner r closes its channel and removes it, whatever the exchange gave.
Announce(r, granted) ==
    /\ closed' = closed \cup {r}
    /\ refreshing' = None

\* exchange and what follows it under the mutex. A canceled context makes
\* it fail; a lifetime is at least one second.
Exchanged(r) ==
    /\ pc[r] = "exchanging"
    /\ \/ /\ r \notin canceled
          /\ \E life \in 1..2 : expires' = now + life /\ got' = [got EXCEPT ![r] = now + life]
          /\ To(r, "returned")
          /\ Announce(r, TRUE)
       \/ /\ To(r, "failed")
          /\ Announce(r, FALSE)
          /\ UNCHANGED <<expires, got>>
    /\ UNCHANGED <<now, waitsFor, canceled>>

\* The caller of a request gives up.
Cancel(r) ==
    /\ r \notin canceled /\ pc[r] \notin {"returned", "failed"}
    /\ canceled' = canceled \cup {r}
    /\ UNCHANGED <<now, expires, refreshing, closed, pc, waitsFor, got>>

Tick ==
    /\ now < MaxTime
    /\ now' = now + 1
    /\ UNCHANGED <<expires, refreshing, closed, pc, waitsFor, got, canceled>>

Next ==
    \/ \E r \in Requests : Look(r) \/ Wake(r) \/ Exchanged(r) \/ Cancel(r)
    \/ Tick

\* Goroutines run, and the exchange ends by its 15 second timeout.
Proceed(r) == Look(r) \/ Wake(r) \/ Exchanged(r)

Fairness == \A r \in Requests : WF_vars(Proceed(r))

Spec == Init /\ [][Next]_vars /\ Fairness

-----------------------------------------------------------------------------
(* Properties                                                              *)

(* At most one exchange of the source's credential is under way, and a     *)
(* request only ever waits for one that runs or has announced its end.     *)
OneExchangeAtATime ==
    /\ \A r, s \in Requests : pc[r] = "exchanging" /\ pc[s] = "exchanging" => r = s
    /\ \A r \in Requests : pc[r] = "waiting" =>
         waitsFor[r] \in closed \/ pc[waitsFor[r]] = "exchanging"

(* A request that takes the shared token takes one that is not past its    *)
(* time at that moment.                                                    *)
TakesCurrent ==
    \A r \in Requests : pc[r] # "returned" /\ pc'[r] = "returned" => now < got'[r]
NeverStale == [][TakesCurrent]_vars

(* Every request ends, although any exchange may fail and any owner may be *)
(* canceled.                                                               *)
RequestsEnd == \A r \in Requests : <>(pc[r] \in {"returned", "failed"})
=============================================================================
