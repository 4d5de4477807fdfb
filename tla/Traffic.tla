------------------------------ MODULE Traffic ------------------------------
(***************************************************************************)
(* The algorithms a request meets on its way: the choice of a target       *)
(* (RoutingPolicy), the framing of the answer (SSEReader), the verdict on  *)
(* its frames (StreamObserver), and what is recorded of it (ExecutionLog). *)
(* Each takes the result of the one before as data and shares no state     *)
(* with it; what is promised of them is stated here.                       *)
(***************************************************************************)
EXTENDS ExecutionLog

CONSTANTS
    Candidates, Quotas, Accounts, MaxActive, Affinities, Types, Strategies, Preferences, Scale,
    MaxGrants, MaxWeather,
    Buffer, Limit, MaxBody,
    Protocols, Indices, Invalid, TokenCounts, MaxFrames

VARIABLES
    type, strategy, prefs, active, load, used, spent, finish, account, latency, start,
    dispatch, cold, throttled, barred, weather, grants, leases, steady,
    body, breaks, at, frame, lineBytes, out, end, cuts,
    protocol, observer, sent, result, frames, fate

Routing == INSTANCE RoutingPolicy WITH cursor <- start, sequence <- dispatch

Reader == INSTANCE SSEReader

Observer == INSTANCE StreamObserver WITH Tokens <- TokenCounts

routing == <<type, strategy, prefs, active, load, used, spent, finish, account, latency, start,
             dispatch, cold, throttled, barred, weather, grants, leases, steady>>
reading == <<body, breaks, at, frame, lineBytes, out, end, cuts>>
observing == <<protocol, observer, sent, result, frames, fate>>

-----------------------------------------------------------------------------
(* Properties, beside RecordsAreTrue and RingIsLog of ExecutionLog         *)

(* The scan of choose, which starts at the cursor and may stop early,      *)
(* finds the best target there is, and preferring one account of a         *)
(* provider never leaves a request waiting while some target is free       *)
(* (poolPreferences).                                                      *)
ChoosesBest == Routing!ChoosesBest /\ Routing!WorkConserving

(* While all targets were free, no target of a weighted group is ahead of  *)
(* another by more than one turn of its weight (virtualFinish), and no     *)
(* account of a round-robin pool is used twice more than another one       *)
(* (lastDispatch).                                                         *)
FairShares == Routing!WeightedShare /\ Routing!PoolTakesTurns

(* The frames are the events of the stream, each one whole, in order and   *)
(* without a byte lost, wherever the buffer's boundaries fall.  A body     *)
(* that stops within an event, or because the connection broke, is never   *)
(* taken for one that ended, and the limit stops every longer event and no *)
(* shorter one (SSEReader.Next).                                           *)
FramesAreEvents == Reader!FramesAreEvents /\ Reader!EndIsHonest /\ Reader!WithinLimit

(* An execution counts as successful if and only if the protocol's own end *)
(* has arrived, or the body ended with every choice that began finished,   *)
(* while no failure was reported and neither connection was lost; its      *)
(* tokens are the ones the provider has declared, the latest of each kind  *)
(* (CompletionObserver.Observe, mergeUsage, streamResponse).               *)
VerdictIsRight == Observer!SuccessIsExact /\ Observer!UsageIsDeclared
=============================================================================
