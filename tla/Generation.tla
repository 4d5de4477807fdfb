----------------------------- MODULE Generation -----------------------------
(***************************************************************************)
(* One generation request from ingress to the end of its response:         *)
(* Server.generate (internal/api/server.go), acquireResponse               *)
(* (attempts.go), Client.Do (internal/upstream/client.go) and              *)
(* streamResponse (stream.go).                                             *)
(*                                                                         *)
(* Requests run concurrently; they share the ingress slots and the byte    *)
(* budget s.buffered, which reserve changes with a load and a              *)
(* compare-and-swap.  A request may be tried at several sources, one after *)
(* the other, and what happens upstream is not always visible: the         *)
(* connection may fail before or after the provider has begun to generate. *)
(*                                                                         *)
(* Abstracted: Router.Acquire (module Router) is any source that was not   *)
(* tried and is within the request's budget, or an error; payloads are the *)
(* bytes they reserve; statuses are the classes the code tells apart.      *)
(***************************************************************************)
EXTENDS Naturals, Integers, FiniteSets, FiniteSetsExt

CONSTANTS
    Requests,
    Streams,        \* the requests with stream = true
    Stateful,       \* the requests with Query.Stateful
    Sources,
    NoSource,
    Contract,       \* native API sources: 401, 403 and 429 precede generation
    Wire,           \* sources called through the standard HTTP transport
    Web,            \* chatgpt-web sources, which keep the payload reserved
    Price,          \* the admission estimate at each source
    Budget,         \* Group.MaxUSDPerRequest
    GroupAttempts,  \* Group.MaxAttempts, or the default of a fallback group
    MaxIngress,     \* capacity of the ingress channel
    MaxBytes,       \* Runtime.MaxBufferedBytes
    Upload,         \* bytes reserved before the body is read
    Retained,       \* bytes reserved once it has been read
    StreamBytes,    \* bytes reserved for a stream
    Chunk,          \* bytes of one read of a plain body
    CaptureLimit,   \* the most that is captured for usage accounting
    MaxFrames       \* bound: frames, or chunks, of a response

ASSUME GenerationAssumption ==
    /\ IsFiniteSet(Requests) /\ Streams \subseteq Requests /\ Stateful \subseteq Requests
    /\ NoSource \notin Sources
    /\ Contract \subseteq Sources /\ Wire \subseteq Sources /\ Web \subseteq Sources
    /\ Price \in [Sources -> Nat]
    /\ Budget \in Nat /\ GroupAttempts \in Nat \ {0}
    /\ MaxIngress \in Nat /\ MaxBytes \in Nat
    /\ Upload \in Nat \ {0} /\ Retained \in 1..Upload
    /\ StreamBytes \in Nat \ {0} /\ Chunk \in Nat \ {0} /\ CaptureLimit \in Nat
    /\ MaxFrames \in Nat

VARIABLES
    \* shared
    bytes,      \* s.buffered
    leases,     \* outstanding leases of each source
    \* requests
    pc,
    loaded,     \* what reserve has loaded
    reserved,   \* bytes of the payload's reservation
    streamed,   \* bytes of the stream's reservation
    captured,   \* bytes of the usage capture
    at,         \* the source of the lease, or NoSource
    tried,      \* Query.ExcludedSources
    spent,      \* Query.SpentUSD
    attempts,   \* attempts begun
    answer,     \* what Client.Do returned
    passed,     \* frames of the response written to the client
    gone,       \* the requests whose context is done
    \* what the provider and the client see
    begun,      \* how often a provider began to generate for a request
    billed,     \* estimates of the attempts that reached a provider
    produced,   \* frames of the response the provider has sent
    complete,   \* the requests whose last frame is the end of the response
    cut,        \* the requests whose connection ended before that
    verdict,    \* what the client can tell of its response
    recorded    \* execution results recorded for the request's leases

budget == <<bytes, loaded, reserved, streamed, captured>>
query == <<tried, spent, attempts>>
response == <<passed, produced, complete, cut>>
world == <<begun, billed>>
vars == <<budget, leases, pc, at, query, answer, gone, response, world, verdict, recorded>>

Holding(r) == reserved[r] + streamed[r] + captured[r]
Inside == {r \in Requests : pc[r] \notin {"idle", "done"}}

\* Client.Do's errors, and the statuses of its responses
Errors == {"before", "ambiguous"}
Responses == {"ok", "rejected", "failed"}

-----------------------------------------------------------------------------
(* The end of generate: the deferred functions record the result, and      *)
(* return the capture, the lease, the stream's and the payload's           *)
(* reservation and the ingress slot.                                       *)

Return(r) ==
    /\ bytes' = bytes - Holding(r)
    /\ reserved' = [reserved EXCEPT ![r] = 0]
    /\ streamed' = [streamed EXCEPT ![r] = 0]
    /\ captured' = [captured EXCEPT ![r] = 0]
    /\ leases' = [s \in Sources |-> IF s = at[r] THEN leases[s] - 1 ELSE leases[s]]
    /\ at' = [at EXCEPT ![r] = NoSource]
    /\ pc' = [pc EXCEPT ![r] = "done"]
    /\ recorded' = [recorded EXCEPT ![r] = IF at[r] = NoSource THEN @ ELSE @ + 1]
    /\ UNCHANGED <<loaded, query, answer, gone, response, world>>

\* The client gets an error of the gateway.
Fail(r) ==
    /\ Return(r)
    /\ verdict' = [verdict EXCEPT ![r] = "error"]

-----------------------------------------------------------------------------
(* Ingress                                                                 *)

Enter(r) ==
    /\ pc[r] = "idle"
    /\ Cardinality(Inside) < MaxIngress
    /\ pc' = [pc EXCEPT ![r] = "sizing"]
    /\ UNCHANGED <<budget, leases, at, query, answer, gone, response, world, verdict, recorded>>

\* The payload is reserved before the body is read, a stream's frames after.
Need(r) == IF reserved[r] = 0 THEN Upload ELSE StreamBytes

\* reserve: the load, and the refusal if the rest of the budget is too small
ReserveLoad(r) ==
    /\ pc[r] = "sizing"
    /\ Need(r) <= MaxBytes - bytes
    /\ loaded' = [loaded EXCEPT ![r] = bytes]
    /\ pc' = [pc EXCEPT ![r] = "reserving"]
    /\ UNCHANGED <<bytes, reserved, streamed, captured, leases, at, query, answer, gone, response,
                   world, verdict, recorded>>

ReserveRefused(r) ==
    /\ pc[r] = "sizing"
    /\ Need(r) > MaxBytes - bytes
    /\ Fail(r)

\* Faulty variant: the sum is stored without comparing.
SwapsBlindly(r) == TRUE

Swaps(r) == bytes = loaded[r]

\* reserve: the compare-and-swap, which is tried again if it fails
ReserveSwap(r) ==
    /\ pc[r] = "reserving"
    /\ IF Swaps(r)
       THEN /\ bytes' = bytes + Need(r)
            /\ IF reserved[r] = 0
               THEN /\ reserved' = [reserved EXCEPT ![r] = Upload]
                    /\ pc' = [pc EXCEPT ![r] = "upload"]
                    /\ UNCHANGED streamed
               ELSE /\ streamed' = [streamed EXCEPT ![r] = StreamBytes]
                    /\ pc' = [pc EXCEPT ![r] = "routing"]
                    /\ UNCHANGED reserved
       ELSE /\ pc' = [pc EXCEPT ![r] = "sizing"]
            /\ UNCHANGED <<bytes, reserved, streamed>>
    /\ loaded' = [loaded EXCEPT ![r] = 0]
    /\ UNCHANGED <<captured, leases, at, query, answer, gone, response, world, verdict, recorded>>

\* The body is read: only what it occupies stays reserved.
ReadBody(r) ==
    /\ pc[r] = "upload"
    /\ bytes' = bytes + Retained - reserved[r]
    /\ reserved' = [reserved EXCEPT ![r] = Retained]
    /\ pc' = [pc EXCEPT ![r] = IF r \in Streams THEN "sizing" ELSE "routing"]
    /\ UNCHANGED <<loaded, streamed, captured, leases, at, query, answer, gone, response, world,
                   verdict, recorded>>

\* The body cannot be read or is not a valid request.
ReadBodyFails(r) ==
    /\ pc[r] = "upload"
    /\ Fail(r)

\* The client disconnects, or the request's deadline passes.
Cancel(r) ==
    /\ r \in Inside \ gone
    /\ gone' = gone \cup {r}
    /\ UNCHANGED <<budget, leases, pc, at, query, answer, response, world, verdict, recorded>>

-----------------------------------------------------------------------------
(* acquireResponse                                                         *)

AttemptLimit(r) == IF r \in Stateful THEN 1 ELSE GroupAttempts

\* Router.Acquire: eligible excludes what was tried and what is too costly.
Route(r, s) ==
    /\ pc[r] = "routing"
    /\ s \notin tried[r]
    /\ spent[r] + Price[s] <= Budget
    /\ r \notin gone
    /\ at' = [at EXCEPT ![r] = s]
    /\ leases' = [leases EXCEPT ![s] = @ + 1]
    /\ attempts' = [attempts EXCEPT ![r] = @ + 1]
    /\ pc' = [pc EXCEPT ![r] = "calling"]
    /\ UNCHANGED <<budget, tried, spent, answer, gone, response, world, verdict, recorded>>

\* No source is eligible, the queue is full, or the context is done; or the
\* affinity header is too long.
RouteFails(r) ==
    /\ pc[r] = "routing"
    /\ Fail(r)

Answers(r, x) ==
    /\ answer' = [answer EXCEPT ![r] = x]
    /\ pc' = [pc EXCEPT ![r] = "answered"]
    /\ UNCHANGED <<budget, leases, at, query, gone, response, verdict, recorded>>

\* GotConn was never called, the transport is the standard one, and the
\* context is not done: only then was nothing submitted.
TransportError(r, connected) ==
    IF at[r] \in Wire /\ ~connected /\ r \notin gone THEN "before" ELSE "ambiguous"

\* The credential cannot be resolved, or the adapter refuses the request:
\* an error that says nothing about submission.
NotSent(r) ==
    /\ pc[r] = "calling"
    /\ Answers(r, "ambiguous")
    /\ UNCHANGED world

\* The transport fails before it has a connection.
NoConnection(r) ==
    /\ pc[r] = "calling"
    /\ Answers(r, TransportError(r, FALSE))
    /\ UNCHANGED world

\* The request is written; it may reach the provider.
Submit(r) ==
    /\ pc[r] = "calling"
    /\ pc' = [pc EXCEPT ![r] = "submitted"]
    /\ billed' = [billed EXCEPT ![r] = @ + Price[at[r]]]
    /\ UNCHANGED <<budget, leases, at, query, answer, gone, response, begun, verdict,
                   recorded>>

\* The provider begins to generate.
ProviderBegins(r) ==
    /\ pc[r] = "submitted"
    /\ pc' = [pc EXCEPT ![r] = "generating"]
    /\ begun' = [begun EXCEPT ![r] = @ + 1]
    /\ UNCHANGED <<budget, leases, at, query, answer, gone, response, billed, verdict,
                   recorded>>

\* A native API rejects before it generates; others may do so at any time.
ProviderReplies(r, x) ==
    /\ \/ pc[r] = "submitted" /\ x # "ok"
       \/ pc[r] = "generating" /\ ~(x = "rejected" /\ at[r] \in Contract)
    /\ Answers(r, x)
    /\ UNCHANGED world

\* The connection breaks, or the context ends, while the response is awaited.
ConnectionBreaks(r) ==
    /\ pc[r] \in {"submitted", "generating"}
    /\ Answers(r, TransportError(r, TRUE))
    /\ UNCHANGED world

\* Faulty variant: a rejection by any source is replayed.
SafeIfRejected(r) == answer[r] \in {"before", "rejected"}

\* rejectedBeforeGeneration, or a transport error before submission
Safe(r) == answer[r] = "before" \/ (answer[r] = "rejected" /\ at[r] \in Contract)

MayRetry(r) == Safe(r) /\ attempts[r] < AttemptLimit(r) /\ r \notin gone

\* A response proves that the attempt reached the provider.
Cost(r) == IF answer[r] \in Responses THEN Price[at[r]] ELSE 0

LeaseReleased(r) == [leases EXCEPT ![at[r]] = @ - 1]

\* The lease goes back, without an execution result, and the next source
\* is chosen.
Retry(r) ==
    /\ pc[r] = "answered"
    /\ MayRetry(r)
    /\ spent' = [spent EXCEPT ![r] = @ + Cost(r)]
    /\ leases' = LeaseReleased(r)
    /\ tried' = [tried EXCEPT ![r] = @ \cup {at[r]}]
    /\ at' = [at EXCEPT ![r] = NoSource]
    /\ pc' = [pc EXCEPT ![r] = "routing"]
    /\ UNCHANGED <<budget, attempts, answer, gone, response, world, verdict, recorded>>

-----------------------------------------------------------------------------
(* The response                                                            *)

\* An error, a status that is not 2xx, or a response to a streaming request
\* that is no event stream ends the request.
GiveUp(r) ==
    /\ pc[r] = "answered"
    /\ ~MayRetry(r)
    /\ answer[r] # "ok" \/ r \in Streams
    /\ Fail(r)

\* The payload's reservation is given back before a long response is read.
Accept(r) ==
    /\ pc[r] = "answered"
    /\ answer[r] = "ok"
    /\ IF at[r] \in Web THEN UNCHANGED <<bytes, reserved>>
       ELSE /\ bytes' = bytes - reserved[r]
            /\ reserved' = [reserved EXCEPT ![r] = 0]
    /\ pc' = [pc EXCEPT ![r] = "delivering"]
    /\ UNCHANGED <<loaded, streamed, captured, leases, at, query, answer, gone, response, world,
                   verdict, recorded>>

\* The provider sends a frame; the last one says that it is.
ProviderSends(r, last) ==
    /\ pc[r] = "delivering"
    /\ r \notin complete \cup cut
    /\ produced[r] < MaxFrames
    /\ produced' = [produced EXCEPT ![r] = @ + 1]
    /\ complete' = IF last THEN complete \cup {r} ELSE complete
    /\ UNCHANGED <<budget, leases, pc, at, query, answer, gone, passed, cut, world, verdict,
                   recorded>>

\* The connection ends between two frames.
ProviderStops(r) ==
    /\ pc[r] = "delivering"
    /\ r \notin complete \cup cut
    /\ cut' = cut \cup {r}
    /\ UNCHANGED <<budget, leases, pc, at, query, answer, gone, passed, produced, complete, world,
                   verdict, recorded>>

\* A plain body is captured, up to a limit, until there is no room for a
\* part of it: usageCaptureComplete is never set again.
Captures(r) ==
    /\ r \notin Streams
    /\ captured[r] = passed[r] * Chunk
    /\ captured[r] + Chunk <= CaptureLimit
    /\ Chunk <= MaxBytes - bytes

\* A frame or a chunk is passed on.
Deliver(r) ==
    /\ pc[r] = "delivering"
    /\ passed[r] < produced[r]
    /\ passed' = [passed EXCEPT ![r] = @ + 1]
    /\ IF Captures(r)
       THEN /\ captured' = [captured EXCEPT ![r] = @ + Chunk]
            /\ bytes' = bytes + Chunk
       ELSE UNCHANGED <<captured, bytes>>
    /\ UNCHANGED <<loaded, reserved, streamed, leases, pc, at, query, answer, gone, produced,
                   complete, cut, world, verdict, recorded>>

\* The status line of a plain response precedes its body.
Started(r) == r \notin Streams \/ passed[r] > 0

\* Faulty variant: the end of the connection is the end of the stream.
EndsWellAtEOF(r) == TRUE

\* observer.Complete, for a stream; the framing of HTTP, for a plain body
EndsWell(r) == r \in complete

\* Everything the connection had was passed on.  A response that did not
\* end well is aborted if it was started; otherwise the client gets an
\* error.
ResponseEnds(r) ==
    /\ pc[r] = "delivering"
    /\ passed[r] = produced[r]
    /\ r \in complete \cup cut
    /\ Return(r)
    /\ verdict' = [verdict EXCEPT ![r] = IF EndsWell(r) THEN "ok"
                                         ELSE IF Started(r) THEN "aborted" ELSE "error"]

\* A read, a write or the output limit fails before the end.
ResponseBreaks(r) ==
    /\ pc[r] = "delivering"
    /\ Return(r)
    /\ verdict' = [verdict EXCEPT ![r] = IF Started(r) THEN "aborted" ELSE "error"]

-----------------------------------------------------------------------------

Init ==
    /\ bytes = 0
    /\ leases = [s \in Sources |-> 0]
    /\ pc = [r \in Requests |-> "idle"]
    /\ loaded = [r \in Requests |-> 0]
    /\ reserved = [r \in Requests |-> 0]
    /\ streamed = [r \in Requests |-> 0]
    /\ captured = [r \in Requests |-> 0]
    /\ at = [r \in Requests |-> NoSource]
    /\ tried = [r \in Requests |-> {}]
    /\ spent = [r \in Requests |-> 0]
    /\ attempts = [r \in Requests |-> 0]
    /\ answer = [r \in Requests |-> "none"]
    /\ passed = [r \in Requests |-> 0]
    /\ produced = [r \in Requests |-> 0]
    /\ gone = {}
    /\ begun = [r \in Requests |-> 0]
    /\ billed = [r \in Requests |-> 0]
    /\ complete = {} /\ cut = {}
    /\ verdict = [r \in Requests |-> "none"]
    /\ recorded = [r \in Requests |-> 0]

IngressStep(r) ==
    \/ Enter(r) \/ ReserveLoad(r) \/ ReserveRefused(r) \/ ReserveSwap(r)
    \/ ReadBody(r) \/ ReadBodyFails(r) \/ Cancel(r)

AttemptStep(r) ==
    \/ \E s \in Sources : Route(r, s)
    \/ RouteFails(r) \/ NotSent(r) \/ NoConnection(r) \/ Submit(r) \/ ProviderBegins(r)
    \/ \E x \in Responses : ProviderReplies(r, x)
    \/ ConnectionBreaks(r) \/ Retry(r)

ResponseStep(r) ==
    \/ GiveUp(r) \/ Accept(r) \/ Deliver(r) \/ ProviderStops(r)
    \/ \E last \in BOOLEAN : ProviderSends(r, last)
    \/ ResponseEnds(r) \/ ResponseBreaks(r)

Next == \E r \in Requests : IngressStep(r) \/ AttemptStep(r) \/ ResponseStep(r)

Spec == Init /\ [][Next]_vars

-----------------------------------------------------------------------------
(* Properties                                                              *)

(* The state of requests and budgets is well formed: no counter of bytes,  *)
(* leases, costs or attempts falls below zero.                             *)
TypeOK ==
    /\ bytes \in Nat
    /\ leases \in [Sources -> Nat]
    /\ pc \in [Requests -> {"idle", "sizing", "reserving", "upload", "routing", "calling",
                            "submitted", "generating", "answered", "delivering", "done"}]
    /\ loaded \in [Requests -> Nat] /\ reserved \in [Requests -> Nat]
    /\ streamed \in [Requests -> Nat] /\ captured \in [Requests -> Nat]
    /\ at \in [Requests -> Sources \cup {NoSource}]
    /\ tried \in [Requests -> SUBSET Sources]
    /\ spent \in [Requests -> Nat] /\ attempts \in [Requests -> Nat]
    /\ answer \in [Requests -> Errors \cup Responses \cup {"none"}]
    /\ passed \in [Requests -> Nat] /\ produced \in [Requests -> Nat]
    /\ gone \subseteq Requests /\ complete \subseteq Requests /\ cut \subseteq Requests
    /\ begun \in [Requests -> Nat] /\ billed \in [Requests -> Nat]
    /\ verdict \in [Requests -> {"none", "ok", "error", "aborted"}]
    /\ recorded \in [Requests -> Nat]

\* However its connections fail, and whatever sources it is tried at, a
\* request makes at most one provider generate: "A failed generation must
\* never become a duplicate generation" (Client.Do).
NoDuplicateGeneration == \A r \in Requests : begun[r] <= 1

\* The estimates of all attempts that reached a provider, replays
\* included, stay within the budget of the request.
WithinBudget == \A r \in Requests : billed[r] <= Budget

(* Trying again never costs more than the client allowed: neither a second *)
(* generation nor an estimate beyond the budget (acquireResponse).         *)
RetriesAreSafe == NoDuplicateGeneration /\ WithinBudget

\* The byte budget is never exceeded, and s.buffered is at any time what
\* the requests hold.
BytesAccounted ==
    /\ bytes = MapThenSumSet(Holding, Requests)
    /\ bytes <= MaxBytes

\* Only requests inside hold bytes, whatever path they leave by.
BytesReturned == \A r \in Requests \ Inside : Holding(r) = 0

\* A request holds a lease from its grant to its release, on one source at
\* a time, and none once it is over.
LeasesReturned ==
    /\ \A s \in Sources : leases[s] = Cardinality({r \in Requests : at[r] = s})
    /\ \A r \in Requests : pc[r] \in {"idle", "done"} => at[r] = NoSource

(* Bytes and leases come back on every way out of a request, once          *)
(* (reserve, generate and its deferred functions).                         *)
NothingLeaks == TypeOK /\ BytesAccounted /\ BytesReturned /\ LeasesReturned

(* A client that sees a response end cleanly has every frame of it, the    *)
(* last one included: a truncated response is aborted.                     *)
HonestCompletion ==
    \A r \in Requests : verdict[r] = "ok" => r \in complete /\ passed[r] = produced[r]

(* "Every acquired generation lease records a bounded, redacted execution  *)
(* result" (docs/RUNTIME_HEALTH.md).                                       *)
EveryLeaseRecorded == \A r \in Requests : pc[r] = "done" => recorded[r] = attempts[r]
=============================================================================
