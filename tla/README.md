# A TLA+ model of Clash of Tokens

Clash of Tokens is a gateway written in Go: it offers one model-service interface
and forwards every request to one of many sources (APIs, subscriptions, browser
sessions, devices). This directory holds a TLA+ model of the gateway, the TLC runs that
check it on small instances, and TLAPS proofs, for every instance, of every safety
property of the runs but one.

    tlc -workers 2 -config Router.cfg MCRouter   # one run; the others alike
    tlapm RouterProofs.tla                       # the proofs of one component

`PROJECT.json` lists the components, the runs, the source lines behind each
definition, and the hazards the properties are aimed at.

## The system

| Component | State | Operations | Hard because | Must hold |
| --- | --- | --- | --- | --- |
| Router (`internal/routing`) | counters per source, quota domain, account and process; cooldowns, blocks; one FIFO queue per router | `Acquire`, `Release`, `SetEnabled`, `Adopt` | waiters, cancellations, timers and hot updates interleave; leases outlive the router that granted them | limits hold across updates, no lost wake-up, fair order, no stale policy |
| Routing policy (`choose`, pools, preferences) | cursor, virtual finish times, last dispatch | choose, score, compare | a scan that starts anywhere and stops early | the best target, fair shares, never idle while a target is free |
| Events and counters (`events.go`, `output.go`) | ring of events, token and cost counters | `RecordExecution`, `Release` | recorded twice or never; the ring wraps | counted once, oldest first |
| Configuration service (`internal/config/service.go`) | list of versions, journal file | `Apply`, `Rollback`, `OpenService` | crashes between preparing, writing and publishing | what is served or acknowledged is on disk, history only grows |
| Control plane (`internal/api/control.go`) | current generation, reference counts, `changes` | `acquire`, `release`, `prepare` and its commit, `Close` | requests keep using a generation that was replaced | closed exactly once, never in use, never leaked |
| Long operations (`internal/api/jobs.go` and the handlers that commit) | captured version; job table; resources | start, work, commit, cancel, evict | work happens without the lock; cancellation races the commit | a stale result is never committed, the final state is true |
| Login batches (`internal/api/browser_login_batch.go`) | ticket, sites, persisted view | preview, confirm, one commit per site | run in the background for minutes; the process may die | stop when the configuration changes, tell the truth after a crash |
| Vault (`internal/credentials`) | records, tombstones, owners, flights, the encrypted file and its key | put, delete, resolve, refresh, migrate | refreshes run without the lock, writes fail half-way | memory is what is on disk, one exchange, deleted stays deleted |
| Copilot token (`internal/upstream/client.go`) | cached token, channel of the exchange | get | the request that renews may be canceled | one exchange, nobody waits for ever |
| Generation (`internal/api/server.go`, `attempts.go`, `stream.go`, `internal/upstream/client.go`) | ingress slots, byte budget, lease, response | admit, route, submit, retry, deliver | a failed connection does not tell whether the provider generated | never generate twice, stay in budget, never pass a truncated response as complete |
| Wire protocols (`internal/protocol`) | frame buffer, completion observer | `SSEReader.Next`, `Observe` | buffers split lines anywhere; frames come in any order | frames are events, success means complete |
| Web driver (`internal/chatgptweb`) | sessions in memory and on disk, the page | turn, expiry, pruning, reset | a crash around the one click that submits; a person uses the same browser | uncertainty is persisted first, submitted once |
| Provider adapters (`internal/providers`, 18 packages) | conversations of some; sockets, tabs and bodies of one exchange; decoder state | `Do`, `ChangeSession`, the streamed body | failures between calls; each reply format ends its own way | prompt posted once, nothing left open, honest completion |
| Evidence, browser processes, device lease, schema, catalog, tools, interface | small tables, processes, data | | operating system, size | left to tests |

How they interact: every HTTP request pins the current generation (`acquire`) and uses
that generation's server and router. An update validates, builds the next server, writes
the journal and then, in one critical section, calls `Router.Adopt` and makes the new
generation current. The old one is closed by its last user. The vault is shared by all
generations. `changes` serialises everything that changes configuration or references;
token refreshes and traffic do not take it. A generation request takes a lease from the
router, resolves a credential in the vault, submits to an upstream or to an adapter, and
the frames of the answer pass the observer on their way to the client; what it concludes
is recorded with the lease.

## Modules

| Module | Contents |
| --- | --- |
| `Router`, `RouterProofs` | admission control and hot reconfiguration; its proofs |
| `ControlPlane`, `ControlPlaneProofs` | configuration updates, credentials, generations, crashes; proofs |
| `Generation`, `GenerationProofs` | one request from ingress to the end of its response; proofs |
| `Vault`, `VaultSpec`, `VaultProofs` | the vault; what it promises; proofs, of the refinement too |
| `Credentials`, `CredentialsProofs` | composition: two vaults, the migration, the token; proofs |
| &nbsp; `AccountMigration` | the move from the old vault file to provider accounts |
| &nbsp; `CopilotToken` | the shared token |
| `Operations`, `OperationsProofs` | composition: background work; proofs |
| &nbsp; `ManagementJobs` | the table of background operations |
| &nbsp; `LoginBatch` | the scan of a browser's sessions |
| `Traffic`, `TrafficProofs` | composition: the algorithms a request meets; proofs |
| &nbsp; `RoutingPolicy` | the choice of a target |
| &nbsp; `SSEReader`, `StreamObserver` | framing; the verdict on a stream |
| &nbsp; `ExecutionLog`, `EventLog` | events and counters; the log that the ring implements |
| `Providers`, `ProvidersProofs` | composition: the adapters and the browser driver; proofs |
| &nbsp; `WebSession` | the browser driver and its sessions |
| &nbsp; `ProviderSessions` | conversations that adapters keep, and their gates |
| &nbsp; `Exchange` | the calls of one exchange: an interpreter of scripts |
| `ScriptsMajor`, `ScriptsChina`, `ScriptsCoding`, `ScriptsWeb` | the adapters' scripts |
| `Replies`, `ReplyOps`, `RepliesMajor`, `RepliesChina`, `RepliesCoding`, `RepliesWeb` | the decoders of replies |
| `MCRouter`, `MCControlPlane`, `MCGeneration` | instances of one component, in several scenarios |
| `MCCredentials`, `MCOperations`, `MCTraffic`, `MCProviders` | instances of the compositions |

A composition extends one component, makes instances of the others with the names of
variables kept apart, and states what is promised of them. Its MC module and its proofs both
extend it, so what a run checks and what a theorem states is one definition.

The modules meet at these seams. `Router`'s action `Adopt` is the call in the commit that
`ControlPlane` names `Publish`; `Generation`'s action `Route` is a successful
`Router.Acquire`, and its release of a lease is `Router`'s `Release`. `Router` leaves open
which free target is chosen, `RoutingPolicy` says which. `Generation` takes the end of a
response as one fact, `SSEReader` and `StreamObserver` say how it is found.
`ControlPlane` treats the vault as a set of references and an update as the credentials it
binds; `Vault` and `ManagementJobs` look inside. `Exchange` treats the end of an answer as
one step, `Replies` is what happens within it.

An MC module of several components has a variable `part` (or `scenario`): a behaviour is
about one of them, chosen at the start, and the others stay in an initial state. The
components of one such module share no state, so nothing is lost, and their state spaces
add up instead of multiplying.

Definitions named *faulty variant* are never part of a specification. Each one changes a
definition the way a mistake in the code would, and the property named beside it in
`PROJECT.json` is violated when it is put in place.

### Router

A *cell* is a `*state` or `*quota` object, named by its key and by the generation whose
`New` allocated it: `Adopt` reuses registered cells and drops unused ones, and whether two
cells can exist for one key is the question `NoSplitCapacity` asks. `slot` is the registry
in `capacity`; `cells[g]` are the pointers of router `g`; `held[c]` are the pointers of a
lease. Each critical section of `capacity.mu` is one action. A request is `parked` in the
`select` of `Acquire`, `woken` when the select has returned and the lock is not yet taken,
and `leased` until `Release`. `ready` are the waiters with a token in their channel.
Waiters leave through the deferred `removeWaiter` and `signal`, which is part of the
action that makes them leave (`LeaveQueue`).

Which runnable source `choose` takes is left open, so the results hold for every policy.
(Account pools only prefer accounts with a runnable source, so they never make `choose`
return nothing where the model says something is runnable; `RoutingPolicy` checks that as
part of `ChoosesBest`.) The checks of `eligible` that read only the configuration are the
field `permits`. `Runtime` limits are constants: `prepare` pins them to the start-up
configuration. Time is `CooldownEnds`, at any moment. A probe ignores the `enabled` and
`blocked` flags.

### RoutingPolicy, ExecutionLog

`RoutingPolicy` has the scan of `choose` with its cursor, its early stop at a score of
zero, the preferences and the preferred account of each pool, and what `Acquire` and
`Release` change for them. A target runs against the limits of its source, its account, its
quota domain and the process, and a release may cool down the source or the whole domain. A
fraction is an integer: `Scale` times its value. The scan is compared with `Better`, a total
order written down independently of it.

`ExecutionLog` has the ring, the counters and the event of a release. A lease is recorded
explicitly, by the deferred function, by both or by neither, and is `released` after an
execution or `returned` without one (status -1). The sum that a counter must equal is stated
as the number of tokens of first records, each token named by its lease and its number; a
total that is not declared is the sum of the two (`TotalOf`). Whether a cost is known is
modelled, the estimate itself, a sum of floating-point products, is not.

### ControlPlane

A configuration is the set of credentials it refers to; everything else that validation
and compilation look at is `Refuse`. An update takes `lock`, perhaps stores a credential,
and goes through `Prepare`, `Persist`, `Publish` and `Finish`, with `Refuse` and
`PersistFails` as its ways out, the latter discarding the prepared server. Editors bring
the revision they read; operations and batches compare the version they captured under the
lock (`Fresh`). `Crash` loses everything in memory between any two steps, and `Restart`
is `NewControlPlane`. A rename replaces the journal as a whole: `atomicWrite` syncs the
file first. `Read` answers with the current revision and may be repeated. A read-only
preview builds a server and closes it at once and has no action. Replacing the value of a
credential changes its version, as `RefreshToken` does, and is covered by it.

### ManagementJobs, LoginBatch

A job goes from its acceptance under `jobs.mu` through the handler, which works without a
lock and commits under `changes`, to `runManagementJob`'s two reads of the version and the
final state. Cancellation, deadline, `Close` and a panic may come anywhere. The version has
three parts, since `/refresh` is exempt from the change it makes itself. Synchronous long
operations share the resources.

A scan's goroutine walks over the sites: open the browser, visit, create the material,
apply the account, record the site. Each save may fail, the configuration may change in
between, and the process may die anywhere; the history is what the next process loads.

### Vault, AccountMigration, CopilotToken

Each critical section of `Store.mu` is one action. A value is named by the `Put` that stored
it and by how often it was renewed, so that a late renewal can be told from the value it
would overwrite: the caller copies the grant before it gives up the lock (`task[c].grant`),
and what it stores afterwards is that grant's successor, whatever the record holds by then.
Only the comparison of versions keeps an old one out. A save may fail before or after the
key reaches the keychain. `VaultSpec` knows only what each reference names; `Held` maps the
vault to it. `AccountMigration` is `OpenProviderAccounts` over two files and an archive,
interrupted anywhere and begun again. Encryption, and the keychain beyond storing and
finding a key, are external.

### Generation, SSEReader, StreamObserver

`reserve` is two actions, the load and the compare-and-swap, since requests run in
parallel. `answer` is what `Client.Do` returned: a response, an error that is known to be
*before* submission, or an *ambiguous* one. The provider has steps of its own
(`ProviderBegins`, `ProviderReplies`, `ProviderSends`, `ProviderStops`): it may have begun
when the connection breaks. Only native API sources promise that 401, 403 and 429 precede
generation (`Contract`); other sources may answer so after a side effect. Every way out of
`generate` goes through `Return`, its deferred functions. A plain body ends well when HTTP
framing says so; an upstream that delimits its body by closing the connection cannot be
told from a truncated one, and is outside the model. Cancellation may come at any moment.

`SSEReader` takes slices as `bufio.Reader.ReadSlice` returns them (external, by its
documented contract) over bytes LF, CR and any other; after the last byte the body ends or
its connection breaks (`breaks`), which is no end even between two events. `StreamObserver`
takes the frames of one of four protocols in any order; a frame is its kind, its choice and
the usage it declares. How the stream came to its end is kept in `fate`, so that success can
be compared, in both directions, with what happened instead of with the observer's own flags.

### WebSession

A turn of `Driver.Do` goes from the session check through the page's snapshots to the
click and the observation of the answer. The conversation is a path of nodes; a person may
continue it, edit it, or sign in with another account between any two steps, the page may
revise its text, and the process may die. The scripts that run in the page are modelled by
what they answer. The web application shows a conversation only to the account that began
it (`Visible`), as the request of `readTurn` with that account's token relies on: without
it, somebody who signs in with another account for the moment of the click, and back, could
leave that account's turn in a session.

### ProviderSessions, Exchange, Replies

The adapters are 18 packages; what they share is modelled once, and what tells one from
another is data.

`ProviderSessions` is the table of conversations of `china`, `chinanext`, `codingnext` and
`codingmore`, in five kinds that differ in who makes the ids and when they are stored. The
gate is held by the turn, then by the body it returned.

`Exchange` interprets a script per adapter (`Do...` in the `Scripts` modules): its calls in
order, what is opened before the prompt, what a return closes, which answers allow another
post, when a temporary conversation is removed. Every call may be refused, fail, or be
lost after it arrived. Module `Exchange` lists the words. The scripts are a constant of it:
`ScriptsAssumption` states the discipline the adapters were written with (one post, repeated
at once if at all, after every check; what is opened is guarded before a call that may fail;
a conversation is registered for removal before anything else can happen), and TLC evaluates
it on the 88 scripts. It speaks of the text of a script only, and the run executes them too.

`Replies` feeds each decoder every reply of up to three pieces, as its protocol sends them
(pieces or snapshots), with thoughts, blanks, errors, unknown events, several kinds of end
and cuts anywhere. Where the protocol allows it, the event that ends the reply carries text
too (`Flagged`), or the whole answer once more. A decoder is a function from its state and a
frame to its next state, named after the function in the code. A token of the answer is its
position, so a piece that is lost, repeated or cut off by length shows. Decoders that fall
short of the promise are listed by name, and `WholeAnswer` says exactly how far each may:
those that ignore error events (`Deaf`), that take an unknown field for text (`Credulous`),
that do not read the last piece (`LastUnread`), that repeat a final part (`Twice`), and GLM
and Trae on a snapshot that takes text back.

## Runs

| Run | Bounds | States | Shows |
| --- | --- | --- | --- |
| `router` | 3 scenarios; 2 sources on one quota domain, 1 account, in-flight 2. *update*: 3 requests, queue 1, 3 configurations, 2 updates, one source switched. *health*: 2 requests, all statuses, a probe, 1 update. *queue*: 4 requests, queue 3, cooldowns, one source switched | 223k | `TypeOK`, `LeaseAccounting`, `NoSplitCapacity`, `QueueAgreement`, `NoLostWakeup`, `GrantWithinLimits`, `GrantUnderCurrentPolicy`, `SameQueryFIFO`, `HealthSurvivesAdopt` |
| `router_live` | 3 requests, queue 2, cooldowns, with and without the timer | 58k | `NobodyStaysQueued` |
| `control` | 2 scenarios. *durable*: editor, batch of 2 sites, 2 credentials, 3 revisions of which 2 are kept, 1 refresh, 1 crash. *generations*: 2 requests, two at a time of editor, operation and batch, 3 generations | 1.7M | `DurableHistory`, `NoDanglingReference`, `GenerationLifecycle`, `NoStaleCommit` |
| `control_live` | 1 request, editor, batch of 2 sites, 1 crash | 174k | `UpdatesSettle` |
| `generation` | a streaming and a plain request, 3 kinds of source, 2 attempts, 2 frames | 744k | `RetriesAreSafe`, `HonestCompletion`, `NothingLeaks` |
| `credentials` | vault: 2 callers, 1 reference, 4 kinds, 2 values, 2 renewals, 1 crash; accounts: 2 references, 2 owners; migration: 2 references, 3 starts; token: 3 requests, clock to 4 | 188k | `RestartLosesNothing`, `RenewedOnce`, `ImplementsVaultSpec`, `EveryCallReturns`, `AccountsKeepMaterial` |
| `operations` | 4 jobs in a table of 3 with 2 active; 2 jobs with 5 changes; 2 jobs and a synchronous operation with `Close`; a scan of 3 sites, 2 tickets, 1 change, 1 crash | 858k | `JobsExclusive`, `CommitsAreTrue`, `ScansAreTrue`, `WorkEnds` |
| `traffic` | 3 targets, 2 accounts, 2 quota domains, 5 group types, 4 pool strategies, 3 preference lists, 4 grants; up to 9 grants by weight or in turns while all targets are free; bodies to 8 bytes, ended or broken off, with a buffer of 2; 3 frames of 4 protocols; 3 leases with a ring of 2; 5 leases with a ring of 2 | 624k | `ChoosesBest`, `FairShares`, `FramesAreEvents`, `VerdictIsRight`, `RecordsAreTrue`, `RingIsLog` |
| `providers` | 88 scripts; 88 decoders with 3 tokens; 2 keys with room for one session and one change, 5 kinds; 3 turns on one key; browser: 2 keys, 2 accounts, 3 nodes, 2 crashes, changes of account or of a session | 196k | `PromptOnce`, `NothingLeftOpen`, `ReplyIsHonest`, `SessionsAreSeparate`, `SubmittedOnce`, `CompleteIsWhole`, `EveryTurnEnds` |
| `generation_recorded` | one request | | violated: `EveryLeaseRecorded` |
| `vault_revoked` | 2 references, 2 owners, 1 crash | | violated: `RevokedForever` |
| `provider_sessions_parent` | 2 turns, 1 key, 1 expiry | | violated: `ParentOfChat` |

Several of these properties are conjunctions of named parts in the component's module
(`RetriesAreSafe` is `NoDuplicateGeneration` and `WithinBudget`, for example); the MC
module or the component says which.

`Credentials`, `Operations`, `Traffic` and `Providers`, or the component they extend, say so
for the four compositions. Only `ReplyIsHonest` and the liveness properties are stated in MC
modules.

Why the bounds are enough to be interesting. Two updates are what it takes to drop a source
that is in use and to bring it back; three requests are a holder, a waiter and a newcomer,
and the fourth in *queue* lets the middle of a queue leave; one configuration lowers
limits below what is in use. Three revisions with a history of two make the trimming
happen; a batch of two sites has to continue from its own commit. Two attempts at prices
2, 2 and 1 with a budget of 3 make the second attempt depend on what the first one cost;
the byte budget holds one upload and a half, so requests are refused, and one chunk fits
the usage capture. Two callers and two renewals are an owner of a flight, one that joins
it, and the next flight. Four jobs in a table of three make eviction choose. A buffer of
two bytes splits CR from LF; five events turn a ring of two around twice. Three tokens are
a piece, a piece that extends it, and one that a revision replaces. Two faults in the
browser let a person sign in with another account and back within a turn. Two turns on one
session are what it takes to overtake; the third shows that the queue at the gate moves on.
Bounds that cut behaviour off (`MaxGen`, `MaxRevision`, `MaxStamp`, `MaxCrashes`,
`MaxFrames`, `MaxChanges`, ...) stand in guards. Deadlock is checked for the router and for
the violated run of sessions. The others may really stop: the control plane, the jobs and
the batches can be closed for good, and in the rest every request, reply or body of the
instance runs once.

### Findings

`generation_recorded` shows that a lease that is given back for a retry
(`attempts.go:87`) records no execution result, while `docs/RUNTIME_HEALTH.md:3` says
"Every acquired generation lease records a bounded, redacted execution result" and
`docs/TOKEN_ACCOUNTING.md:24` counts retries as separate execution attempts.

`vault_revoked` shows that a deleted reference can be created again after a restart when
the store is that of provider accounts, whose file leaves tombstones out
(`accounts.go:32`); `docs/CREDENTIAL_STORAGE.md:7-9` says "The same ID cannot be recreated
after restart". The vault of one file keeps the promise (`ImplementsVaultSpec`).

`provider_sessions_parent` shows a turn of a Qwen session that posts the parent of an old
chat into a new one: the session is emptied when it is looked up expired, before the turn
waits for the gate, and the turn in flight then stores its child id into it
(`china/client.go:265`, `adapters.go:172`). The comment at `china/client.go:197` says that
turns are serialised so that "concurrent turns cannot reuse a stale parent id".

### Observations

Behaviours the models show that contradict no document.

- A synchronous long operation that commits after `Close` publishes a generation that is
  never closed, because `Close` cancels only jobs and batches.
- A crash between storing a credential and writing the configuration leaves an
  unreferenced credential in the vault.
- A canceled request that was renewing a grant starts the one-minute back-off for everyone;
  a save that fails after the exchange loses the new grant.
- `PutAccount` claims the owner before it stores; the claim stays when storing fails.
- A token renewal that a job's own work triggers makes the job `stale`: only `/refresh` and
  the browser import are exempt.
- A turn in flight can write ids back into a conversation that expired meanwhile (Kimi, GLM,
  Yuanbao), and a converter may do so after its stream was closed.
- A UC reply whose last piece comes in the frame with `end_of_stream` loses that piece, unless
  the frame has `raw_text` (`uc.go:171-181`).
- DeepSeek appends the string value of a patch of any path it does not know to the answer
  (`chinanext/stream.go:314-318`).
- Embedded Notion sends an answer twice that comes in two final parts (`embedded/notion.go:345`).
- GLM and Trae pass a revised snapshot on after, or in part over, the text it replaces. GLM
  sends the reason of an intervention as text and calls the reply complete
  (`china/convert.go:325-334`). Nine decoders ignore error events.
- Tabbit passes a 499 on with a closed body if refreshing its key fails; MiniMax passes a
  refusal on whose context its own deferred `cancel` ends.
- Limits on the size of an answer are reported as unsupported (422) although the prompt was
  taken (`codingfinal`, `codingmore`, `codingnext`). The gateway never retries these
  sources, so nothing is generated twice.

### Fairness

Weak fairness everywhere, except for the gate of a session.

`Router`: a waiter that has returned from the select takes the lock; a lease is released,
since `generate` defers the release and every upstream call has a deadline. A waiter then
leaves the queue if the 250 ms timer fires and cooldowns end (they are capped at 24
hours), and also without the timer, by tokens alone, as long as nothing cools down.
`WaitersLeave` assumes that from some point on nobody switches sources. Nothing is assumed
of clients, who may or may not cancel.

`ControlPlane`: handlers run to their end; operations have a deadline of 60 seconds and
batches one of 20 minutes, so they end; a supervisor restarts the process. Nothing is
assumed of arrivals, refreshes or commits.

`Vault`, `CopilotToken`: a call that can proceed does; an exchange ends by its timeout.
`ManagementJobs`, `LoginBatch`: a goroutine runs, its handler obeys the deadline of its
context, and the process is started again after a crash. `WebSession`: the driver's polls
end by their deadlines (`Abandon`). `ProviderSessions`: an upstream call ends by itself or
by a deadline, and the gateway drains or closes every body; strong fairness of `Lock`,
because a Go channel serves its waiting senders in order.

## Proofs

Each theorem holds for all values of its module's constants: any number of requests,
sources, credentials, jobs, keys, crashes, and any bounds.

| Module | Theorem | Property |
| --- | --- | --- |
| `RouterProofs` | `TypeCorrect` | `TypeOK` |
| | `AccountingCorrect` | `LeaseAccounting` |
| | `NeverSplit` | `NoSplitCapacity` |
| | `QueuesAgree` | `QueueAgreement` |
| | `GrantsWithinLimits` | `GrantWithinLimits` |
| | `GrantsUnderCurrentPolicy` | `GrantUnderCurrentPolicy` |
| | `FirstComeFirstServed` | `SameQueryFIFO` |
| | `HealthIsCarriedOver` | `HealthSurvivesAdopt` |
| | `NoWakeupIsLost` | `NoLostWakeup` |
| `ControlPlaneProofs` | `GenerationsAreClosed` | `GenerationLifecycle` |
| | `ReferencesResolve` | `NoDanglingReference` |
| | `StaleUpdatesAreRefused` | `NoStaleCommit` |
| | `HistoryIsDurable` | `DurableHistory` |
| `GenerationProofs` | `RetryIsSafe` | `RetriesAreSafe` |
| | `CompletionIsHonest` | `HonestCompletion` |
| | `EverythingComesBack` | `NothingLeaks` |
| `VaultProofs` | `StoreIsDurable` | `RestartLosesNothing` |
| | `VaultKeepsItsPromises` | `ImplementsVaultSpec` |
| | `DeletedForGood` | `RevokedForever` |
| | `ExchangedOnce` | `OneExchange`, `NeverReturnsExpired` (in `RenewedOnce`) |
| | `OwnersKeepMaterial` | `OwnerKept` (in `AccountsKeepMaterial`) |
| `CredentialsProofs` | `SecretsAreRenewedOnce` | `RenewedOnce` |
| | `MaterialIsKept` | `AccountsKeepMaterial` |
| `OperationsProofs` | `ResourcesAreExclusive` | `JobsExclusive` |
| | `ReportsAreTrue` | `CommitsAreTrue` |
| | `ScansStayTrue` | `ScansAreTrue` |
| `TrafficProofs` | `BestIsChosen` | `ChoosesBest` |
| | `SharesStayFair` | `FairShares` |
| | `FramesStayWhole` | `FramesAreEvents` |
| | `VerdictStaysRight` | `VerdictIsRight` |
| | `RecordsStayTrue` | `RecordsAreTrue` |
| | `RingImplementsLog` | `RingIsLog` |
| `ProvidersProofs` | `PromptsArePostedOnce` | `PromptOnce` |
| | `NothingStaysOpen` | `NothingLeftOpen` |
| | `SessionsStaySeparate` | `SessionsAreSeparate` |
| | `TurnsSubmittedOnce` | `SubmittedOnce` |
| | `CompleteAnswersAreWhole` | `CompleteIsWhole` |

Assumptions. `Router`, `ControlPlane` and `Generation` state theirs as ASSUMEs: identifiers
of different kinds are disjoint, the sets of clients are finite, limits are positive where
validation says so, a configuration permits only its own sources. The components of the
compositions have several instances, some with different constants, so their assumption is
an operator (`VaultAssumption`, `JobsAssumption`, ...), which is a hypothesis of their
theorems and an ASSUME of the MC module. TLC evaluates all of them. The ones that say more
than types:

- `MaxActive < MaxItems` of the jobs (constants of `jobs.go`), which guarantees a finished job
  to evict;
- `AccountMode = FALSE` in `VaultKeepsItsPromises` and `DeletedForGood`, whose need the run
  `vault_revoked` shows;
- `PolicyAssumption`: an account is of one provider, and limits and weights divide `Scale`, so
  that a fraction of the code is an integer of the model without rounding;
- `ReaderAssumption`: the buffer holds more than a byte (`bufio` has at least 16). With a
  buffer of one, `\r` and `\n` would come as two slices and the blank line be missed;
- `ScriptsAssumption`, the discipline of scripts above: the theorems about exchanges are about
  every table of scripts that keeps it, so an adapter added to the table needs no new proof,
  only TLC's look at its script;
- the sets of turns and keys of adapter sessions are finite, and turns are numbered.

All proofs have one shape: an inductive invariant (`IInv`, or `PolicyInv`, `ReaderInv`,
`GatedInv`... where a module holds several), one step per action, and under it one per part
that the action can disturb. TLC checked each invariant on the run's instance before it was
proved. What the invariants add to the properties, and why:

*Router.* `GrantWithinLimits` speaks of leases, the code compares counters, so the counters
must equal the leases (`LeaseAccounting`), and the counter compared must be the one all
leases of the key use (`NoSplitCapacity`). A release decrements the cells its lease points
to, which must be cells of distinct keys that exist (`HeldByLease`); a grant goes through
the pointers of its router, which must be the registered cells (`CurrentCells`) with the
limits of the configuration (`CurrentLimits`) unless the router is retired, and every
generation but the current one is (`RetiredAreOld`). `Adopt` keeps `NoSplitCapacity`
because it forgets a cell only if its counter is zero, hence by `LeaseAccounting` nobody
holds it. `NoLostWakeup` is inductive on top of that once it is known that a canceled
request is still in its queue (`DoneAreWaiting`): what has to be shown of each action is that
it leaves the first waiter who could run where it was, or that its own `signal` finds the
new one.

*ControlPlane.* The lock identifies the one update under way (`LockInv`); what it prepared
is unused and closed by nobody (`SpareInv`); every generation ever built is current,
retired, prepared or discarded (`BuiltInv`), so none can leak. `BaseInv` carries the check of
an update's base revision to its write, `HistoryInv` says how memory and journal differ
between `Persist` and `Publish` and that revisions increase, and `MadeInv` that a credential
which a failed update removes is not referred to.

*Generation.* `CostInv` splits the budget into what was spent and what the attempt under way
may cost, and says from which places a retry can come: only ones where nothing was
generated. `BytesAccounted` says that `s.buffered` is the sum of what requests hold. The sum
is a fold; that changing one request's part changes the sum by as much is proved by
induction on the size of the set, in the form "a set of naturals without a least element is
empty". Between the load and the compare-and-swap of `reserve`, the need fits on top of the
value that was loaded (`ReserveInv`), whatever the counter is by then.

*Vault.* A caller that found a value expiring either still faces it or the reference has
moved beyond it (`RenewInv`), which is what makes the value it returns a fresh one and its
landing a continuation of the value it began from. The grant of a running exchange is the
record's own as long as the versions agree, and versions only grow (`GrantInv`), so the
comparison at the landing really compares values. `FlightInv` makes the exchange unique,
`RootInv` makes names of values fresh, `OwnerInv` says that the file knows the owner of
everything it holds. The refinement maps each reference to what it names (`Held`); calls,
failed saves and crashes leave it unchanged, and the others are steps of `VaultSpec`.

The vault of provider accounts is the same module in account mode, so
`CredentialsProofs` takes the theorems over by instantiation.

*AccountMigration.* Until the new file exists the old one is untouched and has everything
that is bound; from then on the new file has the latest, and the old one is in place or
archived; what a start holds in memory is what it is about to write (`MigrationInv`). Every
interruption leaves one of these two states.

*CopilotToken.* The request whose channel is in `refreshing` is the one that exchanges, and
who waits, waits for that request or for a channel that is closed (`TokenInv`).

*ManagementJobs.* Users and resources correspond one to one (`HoldInv`); there are at most
`MaxActive` resources, so the running jobs cannot fill the table (a pigeonhole argument), and
eviction never has to take one. That a job was overtaken is compared with versions, so
`VersionTrue` relates the version a job saw last to the current one through a weight that
every change increases.

*LoginBatch.* A scan that is said to run has its goroutine, a ticket in hand is unspent, and
void only if it is expired; what view, file and goroutine call saved is stored, and the
material an apply may discard is bound to no account.

*ExecutionLog.* Where the ring is read and written are remainders modulo its size; two
lemmas about a number that goes around at most once carry the refinement. The counters equal
the numbers of named tokens, and recording a lease first adds tokens no other lease has. The
sequence number equals the number of released executions, which bounds it by the leases.

*WebSession.* Memory is what is on disk except for expired sessions, and a session that is
not in memory has submitted nothing (`StoreInv`). The click comes after the session was stored
dirty (`LateInv`), so no later turn can continue it, and at a position that was never
submitted (`ClickInv`). Later nodes of a conversation were made later (`PathsInv`), so that
finding the submitted turn right after the saved node means that everything up to it is the
gateway's own, and stays so whatever the person adds or edits before the session is saved.

*RoutingPolicy.* `ChoosesBest` is about one scan in one state: from the loop's invariant, by
induction on the number of targets passed, the scan ends with a runnable target that no
earlier one beats, and an early stop only happens at a score that nothing can beat. `Better`
is shown to be total and transitive, layer by layer (preferences, score, distance from the
cursor), so "not beaten" means best, and a best target exists whenever one is runnable. Work
conservation rests on the pools: an account is preferred only if it has a runnable target.
The shares need history: `WeightedInv` says that a target's virtual finish time is its
number of grants times its turn, and that no lead exceeds a turn; `TurnsInv` that leads
within a pool are at most one, and that who leads was used later, which is why the next
grant goes to another.

*SSEReader.* The frames handed out are the parts of the body between cuts, and the cuts are
its blank lines (`CutsInv`); the frame being read is what lies between the last cut and the
reading position, and has no blank line yet (`OpenInv`). A line of which part was read never
has exactly one byte, because such a part filled the buffer: so an empty line is always one
slice, and the end of a longer line, cut off by the buffer, is not taken for one. That a
broken body is never called ended is then a matter of the last slice alone.

*StreamObserver.* While a stream runs, all frames were passed on and none is an end or a
failure, and the observer's table has exactly the choices that began, each with whether it
was finished (`RunInv`); what it counted is what was declared last, and a total is computed
only while none was declared (`CountInv`).

*Exchange.* The four parts of `ExchangeInv` relate the state to the words already passed: a
prompt was posted exactly if a posting word is behind (`PostInv`), what is open and not
guarded was opened after the last guard (`HeldInv`), a known conversation is registered for
removal or the next word does so (`RemoveInv`). The discipline then decides every way out.

*ProviderSessions.* What has to be carried along is who owns what. The object of a key was
made for a turn of that key since its last clear, and the turns of one object have its key
and asked between the same two clears (`OwnerInv`); a chat is held by the turns of one object
only, of the key it was begun for, and not from before the last clear its holder knows
(`ChatInv`); with local ids, nor from before the last expiry (`LocalInv`). There is always a
free object for a new session (a pigeonhole over turns) and every turn begins at most one
chat (`CountInv`), so names are not used twice.

Only model-checked:

- liveness (`NobodyStaysQueued`, `UpdatesSettle`, `EveryCallReturns`, `WorkEnds`, `EveryTurnEnds`):
  the prover handles neither fairness nor ENABLED;
- what the decoders compute (`ReplyIsHonest`): 88 functions of their input, which differ case
  by case and have no common discipline to argue from. The table is finite, and the run reads
  every decoder with every reply within its bounds.

## Plan

Done: all components above, and the proofs of all safety properties but `ReplyIsHonest`.
What could follow:

1. A composition of `Router` and `ControlPlane` at `Publish`, with a generation's router.
2. The request documents of `internal/protocol` and `providers/appdevice`, if their
   control turns out to be worth a model.
3. `ReplyIsHonest` for the families of decoders that share a shape.

## Not modelled

- The translation of requests (`protocol/request.go`, the request builders of the adapters)
  and redaction: functions of one document.
- `providers/appdevice` and the device lease: scripts of taps on a phone behind a lock file
  of the operating system.
- Evidence store, browser processes, browser automation and metadata: I/O behind one mutex,
  without a protocol between actors.
- Configuration schema and validation (its failure is `Refuse`), the catalog, verification
  reports, read-only views, the command line tools and the web interface: no shared control
  state.
- Authentication and origin checks, which return before any state changes.
