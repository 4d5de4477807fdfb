---------------------------- MODULE ControlPlane ----------------------------
(***************************************************************************)
(* Configuration updates, the credentials they bind and the life of server *)
(* generations: internal/config/service.go, internal/api/control.go and    *)
(* the operations of internal/api that commit through them.                *)
(*                                                                         *)
(* Traffic pins the current generation for the time of one HTTP request.   *)
(* Editors change the configuration with the revision they read before.    *)
(* Operations capture a version, work without any lock, and commit under   *)
(* the lock; login batches do so too, once for every session they find,    *)
(* and they pin no generation.  ControlPlane.changes serialises all        *)
(* changes, but an update has several steps that traffic, a token refresh  *)
(* and a crash of the process can come between: store a credential,        *)
(* prepare, write the journal, publish.                                    *)
(*                                                                         *)
(* Abstracted: a configuration is the set of credentials it refers to;     *)
(* what else validation and compilation look at is a prepare that may      *)
(* fail.  A call that is refused before it takes effect (plane closed, bad *)
(* input) leaves the state as it found it and has no action.               *)
(***************************************************************************)
EXTENDS Naturals, Sequences, FiniteSets, SequencesExt

CONSTANTS
    Traffic,        \* HTTP requests that only use the current generation
    Editors,        \* POST /admin/config, rollback and account material
    Operations,     \* long management operations
    Batches,        \* login batches, which run in the background
    None,           \* no lock holder
    Secrets,        \* credential identifiers
    Keep,           \* bound of the history: 50 in the code
    Sites,          \* number of sites a batch visits
    MaxRevision,    \* bound: revisions ever written
    MaxGen,         \* bound: generations built between two starts
    MaxStamp,       \* bound: token refreshes
    MaxCrashes      \* bound: crashes

Actors == Editors \cup Operations \cup Batches
Users == Traffic \cup Actors
Gens == 1..MaxGen
Configs == SUBSET Secrets
Version == [revision : 1..MaxRevision, config : Configs]
Digest == Configs \X (0..MaxStamp)

ASSUME ConstantsAssumption ==
    /\ IsFiniteSet(Users) /\ IsFiniteSet(Secrets)
    /\ Traffic \cap Actors = {}
    /\ Editors \cap Operations = {} /\ Editors \cap Batches = {}
    /\ Operations \cap Batches = {}
    /\ None \notin Actors
    /\ Keep \in Nat \ {0} /\ MaxRevision \in Nat \ {0} /\ MaxGen \in Nat \ {0}
    /\ Sites \in Nat /\ MaxStamp \in Nat /\ MaxCrashes \in Nat

VARIABLES
    \* on disk
    journal,    \* the versions in the .state file; <<>> if there is no file
    live,       \* the credentials in the vault
    spent,      \* the tombstones of deleted credentials
    stamp,      \* changes with every token refresh
    \* in memory: config.Service
    up,         \* the process runs
    versions,   \* Service.versions
    \* in memory: ControlPlane
    lock,       \* the holder of ControlPlane.changes
    closed,     \* ControlPlane.closed
    current,    \* ControlPlane.current
    built,      \* number of generations built since the process started
    config,     \* the configuration each generation was built from
    retired,    \* the generations with generation.retired
    refs,       \* generation.refs
    closes,     \* how often a generation's server was closed
    \* users
    pin,        \* the generation a user has acquired, 0 if none
    pc,         \* progress of editors, operations and batches
    base,       \* the revision an update is based on
    seen,       \* the vault an operation captured
    goal,       \* the configuration an update wants
    made,       \* the credentials an update has stored: none or one
    spare,      \* the generation an update has prepared, 0 if none
    left,       \* the sites a batch has not visited
    \* bounds and history
    crashes,
    acked       \* versions whose update was reported to have succeeded

vault == <<live, spent, stamp>>
plane == <<current, built, config, retired, closes>>
actor == <<pc, base, seen, goal, made, spare, left>>
history == <<crashes, acked>>
vars == <<journal, vault, up, versions, lock, closed, plane, refs, pin, actor, history>>

-----------------------------------------------------------------------------

CurrentRevision == Last(versions).revision
CurrentConfig == Last(versions).config

Initial == <<[revision |-> 1, config |-> {}]>>

\* operationVersion digests the metadata of the credentials that are not revoked.
VaultDigest == <<live, stamp>>

\* The generations whose server release(g) closes.
ClosedBy(g) == {h \in {g} : h \in retired /\ refs[h] = 1}

Closing(S) == closes' = [g \in Gens |-> IF g \in S THEN closes[g] + 1 ELSE closes[g]]

\* ControlPlane.acquire
Acquire(u) ==
    /\ ~closed
    /\ pin' = [pin EXCEPT ![u] = current]
    /\ refs' = [refs EXCEPT ![current] = @ + 1]

\* ControlPlane.release, for a user that has acquired a generation
Release(u) ==
    IF pin[u] = 0 THEN UNCHANGED <<pin, refs, closes>>
    ELSE /\ pin' = [pin EXCEPT ![u] = 0]
         /\ refs' = [refs EXCEPT ![pin[u]] = @ - 1]
         /\ Closing(ClosedBy(pin[u]))

\* An actor that is done has nothing in hand.
Rest(a) ==
    /\ pc' = [pc EXCEPT ![a] = "idle"]
    /\ base' = [base EXCEPT ![a] = 1]
    /\ seen' = [seen EXCEPT ![a] = <<{}, 0>>]
    /\ goal' = [goal EXCEPT ![a] = {}]
    /\ made' = [made EXCEPT ![a] = {}]
    /\ left' = [left EXCEPT ![a] = 0]

-----------------------------------------------------------------------------
(* Traffic                                                                 *)

Arrive(c) ==
    /\ up /\ pin[c] = 0
    /\ Acquire(c)
    /\ UNCHANGED <<journal, vault, up, versions, lock, closed, plane, actor, history>>

Leave(c) ==
    /\ up /\ pin[c] # 0
    /\ Release(c)
    /\ UNCHANGED <<journal, vault, up, versions, lock, closed, current, built, config,
                   retired, actor, history>>

-----------------------------------------------------------------------------
(* The vault.  Tokens are refreshed by traffic, without the lock; the      *)
(* endpoints under /admin/credentials run under the lock from end to end.  *)

RefreshToken ==
    /\ up /\ live # {} /\ stamp < MaxStamp
    /\ stamp' = stamp + 1
    /\ UNCHANGED <<journal, live, spent, up, versions, lock, closed, plane, refs, pin, actor,
                   history>>

\* A deleted identifier is never used again.
PutCredential(k) ==
    /\ up /\ ~closed /\ lock = None
    /\ k \notin live \cup spent
    /\ live' = live \cup {k}
    /\ UNCHANGED <<journal, spent, stamp, up, versions, lock, closed, plane, refs, pin, actor,
                   history>>

\* Faulty variant: the reference check is not serialised with updates.
DeleteCredentialUnlocked(k) ==
    /\ up /\ ~closed
    /\ k \in live \ config[current]
    /\ live' = live \ {k}
    /\ spent' = spent \cup {k}
    /\ UNCHANGED <<journal, stamp, up, versions, lock, closed, plane, refs, pin, actor, history>>

\* Only a credential the current generation does not refer to is deleted.
DeleteCredential(k) ==
    /\ up /\ ~closed /\ lock = None
    /\ k \in live \ config[current]
    /\ live' = live \ {k}
    /\ spent' = spent \cup {k}
    /\ UNCHANGED <<journal, stamp, up, versions, lock, closed, plane, refs, pin, actor, history>>

-----------------------------------------------------------------------------
(* Editors, up to the lock                                                 *)

\* GET /admin/config: the revision the editor will send back.
Read(e) ==
    /\ up /\ ~closed /\ pc[e] \in {"idle", "read"}
    /\ pc' = [pc EXCEPT ![e] = "read"]
    /\ base' = [base EXCEPT ![e] = CurrentRevision]
    /\ UNCHANGED <<journal, vault, up, versions, lock, closed, plane, refs, pin, seen, goal,
                   made, spare, left, history>>

\* The lock is taken, a credential is stored if the update brings one (new
\* has at most one element), and the update goes on to Service.apply.
Begin(a, cf, new) ==
    /\ lock = None
    /\ lock' = a
    /\ pc' = [pc EXCEPT ![a] = "locked"]
    /\ goal' = [goal EXCEPT ![a] = cf]
    /\ made' = [made EXCEPT ![a] = new]
    /\ live' = live \cup new
    /\ UNCHANGED <<journal, spent, stamp, up, versions, closed, plane, seen, spare, history>>

\* POST /admin/config with the revision read before and any configuration.
Edit(e, cf) ==
    /\ up /\ pc[e] = "read"
    /\ Acquire(e)
    /\ Begin(e, cf, {})
    /\ UNCHANGED <<base, left>>

\* Rollback: the configuration is one of the retained versions.
Rollback(e, i) ==
    /\ i \in DOMAIN versions
    /\ Edit(e, versions[i].config)

\* POST /admin/accounts/{id}/material: a new credential is bound, perhaps
\* instead of others, on top of the current configuration.
SetMaterial(e, k, kept) ==
    /\ up /\ pc[e] \in {"idle", "read"}
    /\ k \notin live \cup spent
    /\ kept \subseteq CurrentConfig
    /\ Acquire(e)
    /\ base' = [base EXCEPT ![e] = CurrentRevision]
    /\ Begin(e, kept \cup {k}, {k})
    /\ UNCHANGED left

-----------------------------------------------------------------------------
(* Operations and batches, up to the lock                                  *)

\* operationRequest captures the version and acquire pins a generation
\* while the lock is held.
StartOperation(o) ==
    /\ up /\ lock = None /\ pc[o] = "idle"
    /\ Acquire(o)
    /\ base' = [base EXCEPT ![o] = CurrentRevision]
    /\ seen' = [seen EXCEPT ![o] = VaultDigest]
    /\ left' = [left EXCEPT ![o] = 1]
    /\ pc' = [pc EXCEPT ![o] = "working"]
    /\ UNCHANGED <<journal, vault, up, versions, lock, closed, plane, goal, made, spare, history>>

\* A batch keeps the version its preview was confirmed for.
StartBatch(b) ==
    /\ up /\ lock = None /\ ~closed /\ pc[b] = "idle"
    /\ base' = [base EXCEPT ![b] = CurrentRevision]
    /\ seen' = [seen EXCEPT ![b] = VaultDigest]
    /\ left' = [left EXCEPT ![b] = Sites]
    /\ pc' = [pc EXCEPT ![b] = "working"]
    /\ UNCHANGED <<journal, vault, up, versions, lock, closed, plane, refs, pin, goal, made,
                   spare, history>>

\* Faulty variant: the commit callback only looks at the vault.
FreshVaultOnly(o) == seen[o] = VaultDigest

\* version = p.operationVersion(), compared under the lock.
Fresh(o) == base[o] = CurrentRevision /\ seen[o] = VaultDigest

\* Faulty variant: a site is visited again until it could be saved.
LeftAfterRetrying(o) == left[o]

LeftAfter(o) == left[o] - 1

\* The commit callback, or saveScannedSession: the lock is taken and the
\* version is still current.  A canceled context stops a batch of a closed
\* plane.  The result changes the current configuration, and binds the new
\* credential if there is one.
CommitOperation(o, cf, new) ==
    /\ up /\ pc[o] = "working" /\ left[o] > 0
    /\ o \in Batches => ~closed
    /\ Fresh(o)
    /\ new \cap (live \cup spent) = {}
    /\ new # {} => new \subseteq cf
    /\ cf \subseteq CurrentConfig \cup new
    /\ Begin(o, cf, new)
    /\ left' = [left EXCEPT ![o] = LeftAfter(o)]
    /\ UNCHANGED <<base, refs, pin>>

\* The commit callback of a cookie import: only the vault changes.
CommitImport(o, k) ==
    /\ up /\ lock = None /\ o \in Operations /\ pc[o] = "working"
    /\ Fresh(o)
    /\ k \notin live \cup spent
    /\ live' = live \cup {k}
    /\ Release(o)
    /\ Rest(o)
    /\ UNCHANGED <<journal, spent, stamp, up, versions, lock, closed, current, built, config,
                   retired, spare, history>>

\* The work ends without a commit: stale, canceled, failed, no more sites.
EndOperation(o) ==
    /\ up /\ pc[o] = "working"
    /\ Release(o)
    /\ Rest(o)
    /\ UNCHANGED <<journal, vault, up, versions, lock, closed, current, built, config, retired,
                   spare, history>>

-----------------------------------------------------------------------------
(* Service.apply, under the lock                                           *)

\* The check of preview.  Operations and batches pass the revision they
\* have just read, so it never refuses them.
BasedOnCurrent(a) == a \in Editors => base[a] = CurrentRevision

\* validateCredentialBindings, when the next server is built
BindingsExist(cf) == cf \subseteq live

\* preview finds the expected revision, and prepare builds the next server.
Prepare(a) ==
    /\ up /\ pc[a] = "locked"
    /\ BasedOnCurrent(a)
    /\ BindingsExist(goal[a])
    /\ CurrentRevision < MaxRevision
    /\ built < MaxGen
    /\ built' = built + 1
    /\ config' = [config EXCEPT ![built + 1] = goal[a]]
    /\ spare' = [spare EXCEPT ![a] = built + 1]
    /\ pc' = [pc EXCEPT ![a] = "prepared"]
    /\ UNCHANGED <<journal, vault, up, versions, lock, closed, current, retired, closes, refs,
                   pin, base, seen, goal, made, left, history>>

\* preview or prepare fails.
Refuse(a) ==
    /\ up /\ pc[a] = "locked"
    /\ pc' = [pc EXCEPT ![a] = "refused"]
    /\ UNCHANGED <<journal, vault, up, versions, lock, closed, plane, refs, pin, base, seen,
                   goal, made, spare, left, history>>

NextVersion(a) == [revision |-> CurrentRevision + 1, config |-> goal[a]]

\* The newest n versions of what the history becomes.
Kept(a, n) == LET all == Append(versions, NextVersion(a))
              IN  SubSeq(all, Len(all) - n + 1, Len(all))

\* Faulty variant: the file is left for later.
WriteNothing(a) ==
    /\ pc' = [pc EXCEPT ![a] = "written"]
    /\ UNCHANGED journal

\* atomicWrite replaces the file as a whole.  At most Keep versions are
\* kept, and fewer if they would not fit the size limit of the file.
Write(a) ==
    /\ \E n \in 1..(IF Len(versions) < Keep THEN Len(versions) + 1 ELSE Keep) :
         journal' = Kept(a, n)
    /\ pc' = [pc EXCEPT ![a] = "written"]

Persist(a) ==
    /\ up /\ pc[a] = "prepared"
    /\ Write(a)
    /\ UNCHANGED <<vault, up, versions, lock, closed, plane, refs, pin, base, seen, goal, made,
                   spare, left, history>>

\* The deferred discard of an update that was not persisted.
Discarded(a) == {spare[a]}

PersistFails(a) ==
    /\ up /\ pc[a] = "prepared"
    /\ Closing(Discarded(a))
    /\ spare' = [spare EXCEPT ![a] = 0]
    /\ pc' = [pc EXCEPT ![a] = "refused"]
    /\ UNCHANGED <<journal, vault, up, versions, lock, closed, current, built, config, retired,
                   refs, pin, base, seen, goal, made, left, history>>

\* Faulty variant: the old generation is closed although requests use it.
RetireNow == {current}

\* The commit function closes the old generation if nobody has it.
RetiredIdle == {g \in {current} : refs[g] = 0}

\* s.versions = versions; commit(): retire the old generation, publish.
Publish(a) ==
    /\ up /\ pc[a] = "written"
    /\ versions' = IF journal = <<>> THEN versions ELSE journal
    /\ retired' = retired \cup {current}
    /\ current' = spare[a]
    /\ Closing(RetiredIdle)
    /\ spare' = [spare EXCEPT ![a] = 0]
    /\ pc' = [pc EXCEPT ![a] = "published"]
    /\ UNCHANGED <<journal, vault, up, lock, closed, built, config, refs, pin, base, seen, goal,
                   made, left, history>>

\* An update that failed deletes the credential it stored; that may fail.
Compensate(a) ==
    \/ /\ pc[a] = "refused" /\ made[a] # {}
       /\ live' = live \ made[a]
       /\ spent' = spent \cup made[a]
    \/ UNCHANGED <<live, spent>>

\* The update is over: the handler answers, releases its generation and
\* gives up the lock.
Finish(a) ==
    /\ up /\ a \notin Batches /\ pc[a] \in {"published", "refused"}
    /\ acked' = IF pc[a] = "published"
                THEN acked \cup {[revision |-> CurrentRevision, config |-> goal[a]]}
                ELSE acked
    /\ Compensate(a)
    /\ Release(a)
    /\ Rest(a)
    /\ lock' = None
    /\ UNCHANGED <<journal, stamp, up, versions, closed, current, built, config, retired, spare,
                   crashes>>

\* A batch goes on, from the version it has just produced if it did.
FinishSite(b) ==
    /\ up /\ b \in Batches /\ pc[b] \in {"published", "refused"}
    /\ Compensate(b)
    /\ pc' = [pc EXCEPT ![b] = "working"]
    /\ IF pc[b] = "published"
       THEN /\ base' = [base EXCEPT ![b] = CurrentRevision]
            /\ seen' = [seen EXCEPT ![b] = VaultDigest]
       ELSE UNCHANGED <<base, seen>>
    /\ goal' = [goal EXCEPT ![b] = {}]
    /\ made' = [made EXCEPT ![b] = {}]
    /\ lock' = None
    /\ UNCHANGED <<journal, stamp, up, versions, closed, plane, refs, pin, spare, left, history>>

-----------------------------------------------------------------------------
(* Shutdown, crash and restart                                             *)

\* ControlPlane.Close
Close ==
    /\ up /\ lock = None /\ ~closed
    /\ closed' = TRUE
    /\ retired' = retired \cup {current}
    /\ Closing(RetiredIdle)
    /\ UNCHANGED <<journal, vault, up, versions, lock, current, built, config, refs, pin, actor,
                   history>>

\* Everything but the files and what clients were told is gone.
Crash ==
    /\ up /\ crashes < MaxCrashes
    /\ up' = FALSE
    /\ crashes' = crashes + 1
    /\ versions' = Initial
    /\ lock' = None
    /\ closed' = FALSE
    /\ current' = 1
    /\ built' = 1
    /\ config' = [g \in Gens |-> {}]
    /\ retired' = {}
    /\ refs' = [g \in Gens |-> 0]
    /\ closes' = [g \in Gens |-> 0]
    /\ pin' = [u \in Users |-> 0]
    /\ pc' = [a \in Actors |-> "idle"]
    /\ base' = [a \in Actors |-> 1]
    /\ seen' = [a \in Actors |-> <<{}, 0>>]
    /\ goal' = [a \in Actors |-> {}]
    /\ made' = [a \in Actors |-> {}]
    /\ spare' = [a \in Actors |-> 0]
    /\ left' = [a \in Actors |-> 0]
    /\ UNCHANGED <<journal, vault, acked>>

\* What OpenService finds: the journal, or the seed if there is none.
Recovered == IF journal = <<>> THEN Initial ELSE journal

\* NewControlPlane: the first server is built from the newest version, which
\* fails if its references are dangling.
Restart ==
    /\ ~up
    /\ BindingsExist(Last(Recovered).config)
    /\ up' = TRUE
    /\ versions' = Recovered
    /\ config' = [config EXCEPT ![1] = Last(Recovered).config]
    /\ UNCHANGED <<journal, vault, lock, closed, current, built, retired, closes, refs, pin,
                   actor, history>>

-----------------------------------------------------------------------------

Init ==
    /\ journal = <<>>
    /\ live = {} /\ spent = {} /\ stamp = 0
    /\ up = TRUE
    /\ versions = Initial
    /\ lock = None
    /\ closed = FALSE
    /\ current = 1
    /\ built = 1
    /\ config = [g \in Gens |-> {}]
    /\ retired = {}
    /\ refs = [g \in Gens |-> 0]
    /\ closes = [g \in Gens |-> 0]
    /\ pin = [u \in Users |-> 0]
    /\ pc = [a \in Actors |-> "idle"]
    /\ base = [a \in Actors |-> 1]
    /\ seen = [a \in Actors |-> <<{}, 0>>]
    /\ goal = [a \in Actors |-> {}]
    /\ made = [a \in Actors |-> {}]
    /\ spare = [a \in Actors |-> 0]
    /\ left = [a \in Actors |-> 0]
    /\ crashes = 0
    /\ acked = {}

ApplyStep(a) ==
    \/ Prepare(a) \/ Refuse(a) \/ Persist(a) \/ PersistFails(a) \/ Publish(a)
    \/ Finish(a) \/ FinishSite(a)

EditorStep(e) ==
    \/ Read(e)
    \/ \E cf \in Configs : Edit(e, cf)
    \/ \E i \in 1..Keep : Rollback(e, i)
    \/ \E k \in Secrets, kept \in Configs : SetMaterial(e, k, kept)

OperationStep(o) ==
    \/ o \in Operations /\ StartOperation(o)
    \/ o \in Batches /\ StartBatch(o)
    \/ \E cf \in Configs, new \in {{}} \cup {{k} : k \in Secrets} : CommitOperation(o, cf, new)
    \/ \E k \in Secrets : CommitImport(o, k)
    \/ EndOperation(o)

VaultStep ==
    \/ RefreshToken
    \/ \E k \in Secrets : PutCredential(k) \/ DeleteCredential(k)

Next ==
    \/ \E c \in Traffic : Arrive(c) \/ Leave(c)
    \/ \E e \in Editors : EditorStep(e)
    \/ \E o \in Operations \cup Batches : OperationStep(o)
    \/ \E a \in Actors : ApplyStep(a)
    \/ VaultStep
    \/ Close
    \/ Crash
    \/ Restart

Spec == Init /\ [][Next]_vars

(***************************************************************************)
(* Fairness.  Handlers run to their end: requests have deadlines, and the  *)
(* section under the lock only writes files.  Operations have a deadline   *)
(* of 60 s and batches one of 20 minutes, so they end.  A supervisor       *)
(* restarts the process after a crash.  Nothing is assumed of arrivals.    *)
(***************************************************************************)
Fairness ==
    /\ \A c \in Traffic : WF_vars(Leave(c))
    /\ \A a \in Actors : WF_vars(ApplyStep(a))
    /\ \A o \in Operations \cup Batches : WF_vars(EndOperation(o))
    /\ WF_vars(Restart)

-----------------------------------------------------------------------------
(* Properties                                                              *)

(* The state of updates, generations and the journal is well formed; the   *)
(* list of versions is never empty.                                        *)
TypeOK ==
    /\ journal \in Seq(Version) /\ versions \in Seq(Version) \ {<<>>}
    /\ live \subseteq Secrets /\ spent \subseteq Secrets /\ stamp \in 0..MaxStamp
    /\ up \in BOOLEAN /\ closed \in BOOLEAN
    /\ crashes \in 0..MaxCrashes
    /\ lock \in Actors \cup {None}
    /\ current \in Gens /\ built \in Gens /\ retired \subseteq Gens
    /\ config \in [Gens -> Configs]
    /\ refs \in [Gens -> Nat] /\ closes \in [Gens -> Nat]
    /\ pin \in [Users -> 0..MaxGen] /\ spare \in [Actors -> 0..MaxGen]
    /\ pc \in [Actors -> {"idle", "read", "working", "locked", "prepared", "written",
                          "published", "refused"}]
    /\ base \in [Actors -> 1..MaxRevision]
    /\ seen \in [Actors -> Digest]
    /\ goal \in [Actors -> Configs] /\ made \in [Actors -> SUBSET Secrets]
    /\ left \in [Actors -> Nat]
    /\ acked \subseteq Version

\* A running plane serves the newest version of its history, and it never
\* serves what a restart would not find: the file is written before the
\* update is published.  The file is only ahead while an update is between
\* the two.
PublishedIsDurable ==
    up => /\ config[current] = CurrentConfig
          /\ \/ versions = Recovered
             \/ \E a \in Actors : pc[a] = "written" /\ lock = a
                  /\ Last(Recovered).revision = CurrentRevision + 1

\* An update that was reported to have succeeded is never lost or undone,
\* whatever crashes follow: the file holds it, or only newer versions.
AckedSurvives ==
    \A v \in acked :
        \/ \E i \in DOMAIN Recovered : Recovered[i] = v
        \/ \A i \in DOMAIN Recovered : Recovered[i].revision > v.revision

\* The file only ever gains the next revision and loses its oldest ones:
\* no revision number is reused for another configuration, rollbacks
\* included.
HistoryAppendOnly ==
    [][journal' # journal =>
         /\ Last(journal').revision = Last(Recovered).revision + 1
         /\ \A i \in 1..(Len(journal') - 1) :
              \E j \in DOMAIN Recovered : Recovered[j] = journal'[i]]_vars

(* What is served or acknowledged is what a restart finds, whatever step a *)
(* crash comes after, and the history only grows (Service.apply,           *)
(* atomicWrite, OpenService).                                              *)
DurableHistory == [](PublishedIsDurable /\ AckedSurvives) /\ HistoryAppendOnly

(* Every credential that the newest configuration on disk refers to, and   *)
(* the one being served, is in the vault: "reference checks cannot race    *)
(* new bindings" (ServeHTTP).  A dangling reference would make the next    *)
(* start of the gateway fail.                                              *)
NoDanglingReference ==
    /\ Last(Recovered).config \subseteq live
    /\ up => config[current] \subseteq live

\* A generation counts its users exactly; its server is closed once, after
\* it was retired and its last user left, and no user ever holds a closed
\* one.
ClosedOnce ==
    \A g \in Gens :
        /\ refs[g] = Cardinality({u \in Users : pin[u] = g})
        /\ refs[g] > 0 => closes[g] = 0
        /\ g \in retired => closes[g] = (IF refs[g] = 0 THEN 1 ELSE 0)
        /\ g = current /\ ~closed => closes[g] = 0 /\ g \notin retired

\* Every generation but the current one and one being prepared is closed
\* or still in use: failed updates do not leak the server they prepared.
NoLeakedGeneration ==
    \A g \in 1..built :
        g = current \/ closes[g] = 1 \/ refs[g] > 0 \/ \E a \in Actors : spare[a] = g

(* Generations are closed exactly once, never under a user, and never left *)
(* open by an update that failed (ControlPlane.acquire, release, prepare). *)
GenerationLifecycle == TypeOK /\ ClosedOnce /\ NoLeakedGeneration

(* An update replaces exactly the version its author had seen: an editor   *)
(* with a stale revision, and an operation during whose work another       *)
(* update went through, publish nothing.                                   *)
NoStaleCommit ==
    [][\A a \in Actors :
         (pc[a] = "written" /\ pc'[a] = "published")
           => /\ CurrentRevision = base[a]
              /\ Last(versions').revision = base[a] + 1]_vars

Engaged(a) == pc[a] \notin {"idle", "read"}

\* Every update, operation and batch ends, and gives up the lock.
UpdatesEnd == \A a \in Actors : Engaged(a) ~> ~Engaged(a)

\* A retired generation is closed once the requests that use it have left,
\* unless the process dies before.
RetiredCloses ==
    \A g \in Gens : (g \in retired) ~> (closes[g] = 1 \/ g \notin retired)

(* Every update ends, and with it, once its requests have left, the        *)
(* generation that it replaced (ServeHTTP, release).                       *)
UpdatesSettle == UpdatesEnd /\ RetiredCloses
=============================================================================
