--------------------------- MODULE ManagementJobs ---------------------------
(***************************************************************************)
(* The table of background management operations (internal/api/jobs.go)    *)
(* and the resources they share with synchronous long operations           *)
(* (ServeHTTP in control.go).                                              *)
(*                                                                         *)
(* A job captures the operation version, runs its handler without a lock,  *)
(* commits under p.changes if nothing changed meanwhile, and is given its  *)
(* final state under jobs.mu.  In between it may be canceled, time out, or *)
(* be overtaken by other updates.  The version is the configuration's      *)
(* revision, the version of the credential the job may renew, and the rest *)
(* of the vault.                                                           *)
(***************************************************************************)
EXTENDS Naturals, Sequences, FiniteSets, SequencesExt

CONSTANTS
    Jobs,           \* identifiers of jobs, each used once
    Syncs,          \* synchronous long operations
    Resources,
    NoResource,
    Renewing,       \* the jobs with a path .../refresh
    MaxActive,      \* maxManagementActive
    MaxItems,       \* maxManagementJobs
    MaxChanges      \* bound: changes of the version

\* What the instances satisfy
JobsAssumption ==
    /\ Renewing \subseteq Jobs /\ NoResource \notin Resources
    /\ MaxActive \in Nat /\ MaxItems \in Nat
    /\ MaxActive < MaxItems
    /\ MaxChanges \in Nat

VARIABLES
    version,    \* operationVersion()
    resources,  \* jobs.resources
    items,      \* jobs.items
    closed,     \* jobs.closed
    pc,         \* where each job is
    job,        \* what a job holds: resource, captured version, state
    ctx,        \* its context
    reply,      \* status class and committed version of its handler
    read,       \* the version read when the handler had returned
    sync,       \* the resource a synchronous operation holds
    foreign,    \* history: jobs during which somebody else changed the version
    changed     \* history: jobs that committed

vars == <<version, resources, items, closed, pc, job, ctx, reply, read, sync, foreign, changed>>

Versions == [rev : Nat, cred : Nat, rest : Nat]
NoVersion == [rev |-> 0, cred |-> 0, rest |-> 0]
NoReply == [status |-> "none", committed |-> NoVersion, own |-> FALSE]

Running(j) == pc[j] \in {"accepted", "executing", "returned", "checking", "finishing"}
Captured(j) == pc[j] \in {"captured", "accepted", "executing", "returned", "checking"}
Finished(j) == pc[j] = "finished"
Bounded == version.rev + version.cred + version.rest < MaxChanges

\* Everybody but `by' who has captured a version is overtaken.
Overtake(by) == foreign' = foreign \cup {j \in Jobs \ by : Captured(j)}

-----------------------------------------------------------------------------
(* POST /admin/jobs                                                        *)

\* The version and the resource are read together, under p.changes.
Capture(j, r) ==
    /\ pc[j] = "new"
    /\ pc' = [pc EXCEPT ![j] = "captured"]
    /\ job' = [job EXCEPT ![j] = [resource |-> r, captured |-> version, state |-> "none"]]
    /\ UNCHANGED <<version, resources, items, closed, ctx, reply, read, sync, foreign, changed>>

\* Only a finished job makes room.
Evict(s) ==
    IF \E k \in DOMAIN s : ~Running(s[k])
    THEN RemoveAt(s, CHOOSE k \in DOMAIN s :
                        ~Running(s[k]) /\ \A m \in 1..(k - 1) : Running(s[m]))
    ELSE s

\* Faulty variant: the resource is not looked up.
FreeAlways(r) == ~closed /\ Cardinality(resources) < MaxActive

Free(r) == ~closed /\ r \notin resources /\ Cardinality(resources) < MaxActive

\* The job enters the table, under jobs.mu.
Admit(j) ==
    /\ pc[j] = "captured"
    /\ Free(job[j].resource)
    /\ resources' = resources \cup {job[j].resource}
    /\ items' = Append(IF Len(items) >= MaxItems THEN Evict(items) ELSE items, j)
    /\ pc' = [pc EXCEPT ![j] = "accepted"]
    /\ job' = [job EXCEPT ![j].state = "running"]
    /\ UNCHANGED <<version, closed, ctx, reply, read, sync, foreign, changed>>

Reject(j) ==
    /\ pc[j] = "captured"
    /\ ~Free(job[j].resource)
    /\ pc' = [pc EXCEPT ![j] = "rejected"]
    /\ UNCHANGED <<version, resources, items, closed, job, ctx, reply, read, sync, foreign,
                   changed>>

\* DELETE /admin/jobs/{id}, for a job that is in the table
Cancel(j) ==
    /\ \E k \in DOMAIN items : items[k] = j
    /\ Running(j) /\ ctx[j] = "live"
    /\ ctx' = [ctx EXCEPT ![j] = "canceled"]
    /\ UNCHANGED <<version, resources, items, closed, pc, job, reply, read, sync, foreign, changed>>

\* The deadline of 60 seconds passes.
Expire(j) ==
    /\ Running(j) /\ ctx[j] = "live"
    /\ ctx' = [ctx EXCEPT ![j] = "expired"]
    /\ UNCHANGED <<version, resources, items, closed, pc, job, reply, read, sync, foreign, changed>>

\* managementJobs.close
Close ==
    /\ ~closed
    /\ closed' = TRUE
    /\ ctx' = [j \in Jobs |-> IF ctx[j] = "live" /\ Running(j)
                                 /\ \E k \in DOMAIN items : items[k] = j
                              THEN "canceled" ELSE ctx[j]]
    /\ UNCHANGED <<version, resources, items, pc, job, reply, read, sync, foreign, changed>>

-----------------------------------------------------------------------------
(* runManagementJob                                                        *)

\* Faulty variant: an overtaken job returns before its cleanup is deferred.
RunOrVanish(j) ==
    /\ pc[j] = "accepted" /\ version = job[j].captured
    /\ pc' = [pc EXCEPT ![j] = "executing"]
    /\ UNCHANGED <<version, resources, items, closed, job, ctx, reply, read, sync, foreign, changed>>

\* A job that was overtaken before it began does nothing.
Run(j) ==
    /\ pc[j] = "accepted"
    /\ pc' = [pc EXCEPT ![j] = IF version = job[j].captured THEN "executing" ELSE "returned"]
    /\ UNCHANGED <<version, resources, items, closed, job, ctx, reply, read, sync, foreign, changed>>

\* The check in the commit of operationRequest
Fresh(j) == ctx[j] = "live" /\ version = job[j].captured

\* The handler commits, under p.changes, and answers.  If the commit is
\* refused or fails, the handler answers with an error.
Commit(j) ==
    /\ pc[j] = "executing" /\ j \notin Renewing
    /\ \/ /\ Fresh(j) /\ Bounded
          /\ version' = [version EXCEPT !.rev = @ + 1]
          /\ changed' = changed \cup {j}
          /\ Overtake({j})
          /\ reply' = [reply EXCEPT ![j] = [status |-> "ok", committed |-> version',
                                             own |-> FALSE]]
       \/ /\ reply' = [reply EXCEPT ![j].status = "error"]
          /\ UNCHANGED <<version, changed, foreign>>
    /\ pc' = [pc EXCEPT ![j] = "returned"]
    /\ UNCHANGED <<resources, items, closed, job, ctx, read, sync>>

\* A refresh changes the vault by itself and answers with the new version.
Renew(j) ==
    /\ pc[j] = "executing" /\ j \in Renewing /\ Bounded
    /\ version' = [version EXCEPT !.cred = @ + 1]
    /\ Overtake({j})
    /\ reply' = [reply EXCEPT ![j] = [status |-> "ok", committed |-> version',
                                             own |-> FALSE]]
    /\ pc' = [pc EXCEPT ![j] = "returned"]
    /\ UNCHANGED <<resources, items, closed, job, ctx, read, sync, changed>>

\* The handler returns without a commit, panics, or writes too much.
Return(j, status) ==
    /\ pc[j] = "executing"
    /\ reply' = [reply EXCEPT ![j].status = status]
    /\ pc' = [pc EXCEPT ![j] = "returned"]
    /\ UNCHANGED <<version, resources, items, closed, job, ctx, read, sync, foreign, changed>>

\* The deferred function reads the version before it takes jobs.mu.
ReadVersion(j) ==
    /\ pc[j] = "returned"
    /\ read' = [read EXCEPT ![j] = version]
    /\ pc' = [pc EXCEPT ![j] = IF j \in Renewing THEN "checking" ELSE "finishing"]
    /\ UNCHANGED <<version, resources, items, closed, job, ctx, reply, sync, foreign, changed>>

\* ownRefresh: the credential still has the version the refresh answered.
CheckRefresh(j) ==
    /\ pc[j] = "checking"
    /\ reply' = [reply EXCEPT ![j].own = /\ reply[j].status = "ok"
                                        /\ read[j].rev = job[j].captured.rev
                                        /\ version.cred = reply[j].committed.cred]
    /\ pc' = [pc EXCEPT ![j] = "finishing"]
    /\ UNCHANGED <<version, resources, items, closed, job, ctx, read, sync, foreign, changed>>

Committed(j) == j \notin Renewing /\ reply[j].committed # NoVersion /\ reply[j].status = "ok"

\* The version the job ended at
Base(j) == IF Committed(j) THEN reply[j].committed ELSE job[j].captured

\* Faulty variant: a job whose context has ended is canceled.
CanceledAnyway(j) == ctx[j] = "canceled"

WasCanceled(j) == ctx[j] = "canceled" /\ ~Committed(j)

FinalState(j) ==
    CASE reply[j].status = "panic" -> "failed"
      [] ctx[j] = "expired" /\ ~Committed(j) -> "timed_out"
      [] WasCanceled(j) -> "canceled"
      [] read[j] # Base(j) /\ ~reply[j].own -> "stale"
      [] reply[j].status = "error" -> "failed"
      [] OTHER -> "completed"

Freed(j) == {job[j].resource}

\* The rest of it, under jobs.mu
Finish(j) ==
    /\ pc[j] = "finishing"
    /\ resources' = resources \ Freed(j)
    /\ job' = [job EXCEPT ![j].state = FinalState(j)]
    /\ pc' = [pc EXCEPT ![j] = "finished"]
    /\ UNCHANGED <<version, items, closed, ctx, reply, read, sync, foreign, changed>>

-----------------------------------------------------------------------------
(* Synchronous operations and other updates                                *)

SyncBegin(s, r) ==
    /\ sync[s] = NoResource
    /\ ~closed /\ r \notin resources /\ Cardinality(resources) < MaxActive
    /\ resources' = resources \cup {r}
    /\ sync' = [sync EXCEPT ![s] = r]
    /\ UNCHANGED <<version, items, closed, pc, job, ctx, reply, read, foreign, changed>>

SyncEnd(s) ==
    /\ sync[s] # NoResource
    /\ resources' = resources \ {sync[s]}
    /\ sync' = [sync EXCEPT ![s] = NoResource]
    /\ UNCHANGED <<version, items, closed, pc, job, ctx, reply, read, foreign, changed>>

\* An update of the configuration, a change of the credential, or of
\* another one: a renewal that a request's resolution made counts too.
OtherChange(field) ==
    /\ Bounded
    /\ version' = [version EXCEPT ![field] = @ + 1]
    /\ Overtake({})
    /\ UNCHANGED <<resources, items, closed, pc, job, ctx, reply, read, sync, changed>>

-----------------------------------------------------------------------------

Init ==
    /\ version = [rev |-> 1, cred |-> 1, rest |-> 1]
    /\ resources = {} /\ items = <<>> /\ closed = FALSE
    /\ pc = [j \in Jobs |-> "new"]
    /\ job = [j \in Jobs |-> [resource |-> NoResource, captured |-> NoVersion, state |-> "none"]]
    /\ ctx = [j \in Jobs |-> "live"]
    /\ reply = [j \in Jobs |-> NoReply]
    /\ read = [j \in Jobs |-> NoVersion]
    /\ sync = [s \in Syncs |-> NoResource]
    /\ foreign = {} /\ changed = {}

JobStep(j) ==
    \/ \E r \in Resources : Capture(j, r)
    \/ Admit(j) \/ Reject(j) \/ Cancel(j) \/ Expire(j)
    \/ Run(j) \/ Commit(j) \/ Renew(j)
    \/ \E status \in {"ok", "error", "panic"} : Return(j, status)
    \/ ReadVersion(j) \/ CheckRefresh(j) \/ Finish(j)

SyncStep(s) == SyncEnd(s) \/ \E r \in Resources : SyncBegin(s, r)

Next ==
    \/ \E j \in Jobs : JobStep(j)
    \/ \E s \in Syncs : SyncStep(s)
    \/ \E field \in {"rev", "cred", "rest"} : OtherChange(field)
    \/ Close

Spec == Init /\ [][Next]_vars

\* A job's goroutine runs; its handler obeys the deadline.
Proceed(j) ==
    \/ Run(j) \/ Commit(j) \/ ReadVersion(j) \/ CheckRefresh(j) \/ Finish(j)
    \/ \E status \in {"ok", "error", "panic"} : Return(j, status)

FairSpec ==
    /\ Spec
    /\ \A j \in Jobs : WF_vars(Proceed(j))
    /\ \A s \in Syncs : WF_vars(SyncEnd(s))

-----------------------------------------------------------------------------
(* Properties                                                              *)

(* The state is well formed; the table of jobs never outgrows its limit.   *)
TypeOK ==
    /\ version \in Versions
    /\ resources \subseteq Resources
    /\ items \in Seq(Jobs) /\ Len(items) <= MaxItems
    /\ closed \in BOOLEAN
    /\ pc \in [Jobs -> {"new", "captured", "rejected", "accepted", "executing", "returned",
                        "checking", "finishing", "finished"}]
    /\ ctx \in [Jobs -> {"live", "canceled", "expired"}]
    /\ job \in [Jobs -> [resource : Resources \cup {NoResource}, captured : Versions,
                        state : {"none", "running", "failed", "timed_out", "canceled", "stale",
                                 "completed"}]]
    /\ reply \in [Jobs -> [status : {"none", "ok", "error", "panic"}, committed : Versions,
                          own : BOOLEAN]]
    /\ read \in [Jobs -> Versions]
    /\ sync \in [Syncs -> Resources \cup {NoResource}]
    /\ foreign \subseteq Jobs /\ changed \subseteq Jobs

(* A profile, account or device is used by one operation at a time, in the *)
(* background or not, and is free again once the operation is over,        *)
(* whatever way it ended.                                                  *)
ResourceExclusive ==
    LET jobsWith(r) == {j \in Jobs : Running(j) /\ job[j].resource = r}
        syncsWith(r) == {s \in Syncs : sync[s] = r}
    IN \A r \in Resources :
         Cardinality(jobsWith(r)) + Cardinality(syncsWith(r)) = IF r \in resources THEN 1 ELSE 0

(* A running job can be found and canceled until it ends: eviction takes   *)
(* only finished ones.                                                     *)
RunningInTable ==
    \A j \in Jobs : Running(j) => \E k \in DOMAIN items : items[k] = j

(* The table and the resources of startManagementJob and of synchronous    *)
(* operations agree with what runs.                                        *)
JobsExclusive == TypeOK /\ RunningInTable /\ ResourceExclusive

(* The final state tells the truth: a job reported as canceled or timed    *)
(* out has committed nothing, one reported as stale was overtaken by       *)
(* somebody else, and one reported as completed was not.  (A refresh job   *)
(* looks only at the revision and at its own credential.)                  *)
StateTrue(j) ==
    Finished(j) =>
        /\ job[j].state \in {"canceled", "timed_out"} => j \notin changed
        /\ job[j].state = "stale" => j \in foreign
        /\ job[j].state = "completed" /\ j \notin Renewing => j \notin foreign

(* Closing the control plane cancels its jobs: none of them commits later. *)
CommitsBeforeClose == closed => changed' = changed
NoCommitAfterClose == [][CommitsBeforeClose]_vars

(* What runManagementJob reports of a job is what the job did, and Close   *)
(* is the last word.                                                       *)
CommitsAreTrue == [](\A j \in Jobs : StateTrue(j)) /\ NoCommitAfterClose

(* Every job that was accepted ends, and with it its hold on the resource. *)
JobsEnd == \A j \in Jobs : Running(j) ~> Finished(j)
=============================================================================
