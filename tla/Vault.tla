------------------------------- MODULE Vault -------------------------------
(***************************************************************************)
(* The credential vault (internal/credentials): records behind references, *)
(* resolved by concurrent requests; OAuth grants renewed by one flight per *)
(* reference, without the lock; revoked references; the encrypted file and *)
(* the key in the system's keychain.                                       *)
(*                                                                         *)
(* Each critical section of Store.mu is one action.  A value is named by   *)
(* the Put that stored it (root) and how often it was renewed (turn).      *)
(* Time is two sets: the references whose access token ends within 30      *)
(* seconds, and those whose renewal failed less than a minute ago.         *)
(***************************************************************************)
EXTENDS Naturals, FiniteSets

CONSTANTS
    Ids,            \* cred:// references
    Callers,        \* requests that resolve or refresh
    NoCaller,
    Owners,         \* provider accounts
    AccountMode,    \* the store of OpenProviderAccounts, accountOwners # nil
    Kinds,          \* what Put stores, among Plain, OAuth, Pinned, External
    VersionLimit,   \* 2^64
    MaxStamp,       \* bound: values stored
    MaxTurn,        \* bound: renewals of one value
    MaxCrashes      \* bound: crashes

\* What the instances satisfy
VaultAssumption ==
    /\ IsFiniteSet(Callers) /\ NoCaller \notin Callers
    /\ AccountMode \in BOOLEAN
    /\ Kinds \subseteq {"plain", "oauth", "pinned", "external"}
    /\ VersionLimit \in Nat \ {0, 1}
    /\ MaxStamp \in Nat /\ MaxTurn \in Nat /\ MaxCrashes \in Nat

VARIABLES
    records,    \* s.records
    owners,     \* s.accountOwners
    flights,    \* s.refreshes: the caller that renews, or NoCaller
    backoff,    \* references inside s.refreshBackoff
    due,        \* references whose access token is about to expire
    key,        \* keyEnvelope.id, 0 if nil
    disk,       \* the vault file
    keychain,   \* the keys the system's keychain holds
    stamp,      \* values stored so far
    crashes,
    task,       \* what each caller is doing
    seen,       \* the value that made a resolution renew
    got         \* the value a resolution returned

store == <<records, owners, key, disk, keychain>>
calls == <<task, seen, got>>
vars == <<store, flights, backoff, due, stamp, crashes, calls>>

Absent == [state |-> "absent", kind |-> "none", ver |-> 0, root |-> 0, turn |-> 0]
Tombstone(v) == [Absent EXCEPT !.state = "revoked", !.ver = v]
IsLive(i) == records[i].state = "live"
HasGrant(i) == records[i].kind \in {"oauth", "pinned"}
ValueOf(i) == [root |-> records[i].root, turn |-> records[i].turn]
NoValue == [root |-> 0, turn |-> 0]

\* ver and grant: the record and its value as a call first saw them.
Idle == [pc |-> "idle", id |-> "none", ver |-> 0, grant |-> NoValue, force |-> FALSE,
         ok |-> FALSE]
At(c, p) == [task EXCEPT ![c].pc = p]

-----------------------------------------------------------------------------
(* The file                                                                *)

\* Account bundles hold no tombstones.
Written(recs) == [i \in Ids |-> IF AccountMode /\ recs[i].state = "revoked"
                                THEN Absent ELSE recs[i]]

\* groupAccountRecords: all material belongs to an account.
Owned(recs) == AccountMode => \A i \in Ids : recs[i].state = "live" => owners[i] # {}

OwnersOf(recs) == [i \in Ids |-> IF Written(recs)[i] = Absent THEN {} ELSE owners[i]]

\* keyEnvelope.seal: the first save makes a key and puts it in the keychain.
SealKey == IF key = 0 THEN crashes + 1 ELSE key

KeyStored == keychain \cup {SealKey}

\* save succeeds: the file is replaced as a whole, then the records are.
Save(recs) ==
    /\ Owned(recs)
    /\ records' = recs
    /\ disk' = [recs |-> Written(recs), owners |-> OwnersOf(recs), key |-> SealKey]
    /\ key' = SealKey
    /\ keychain' = KeyStored
    /\ UNCHANGED owners

\* Faulty variant: the records are replaced although the file was not.
SaveFailsLate(recs) ==
    /\ records' = recs
    /\ UNCHANGED <<key, keychain, disk, owners>>

\* save fails: before, or after a key was made.
SaveFails(recs) ==
    /\ \/ UNCHANGED <<key, keychain>>
       \/ Owned(recs) /\ key' = SealKey /\ keychain' = keychain \cup {SealKey}
    /\ UNCHANGED <<records, disk, owners>>

-----------------------------------------------------------------------------
(* Writers                                                                 *)

NextVersion(v) == (v + 1) % VersionLimit

\* putRecord; an imported grant may already be about to expire.
Put(i, kind, expiring) ==
    /\ records[i].state # "revoked"
    /\ NextVersion(records[i].ver) # 0
    /\ stamp < MaxStamp
    /\ stamp' = stamp + 1
    /\ LET recs == [records EXCEPT ![i] = [state |-> "live", kind |-> kind,
                                           ver |-> NextVersion(records[i].ver),
                                           root |-> stamp + 1, turn |-> 0]]
       IN \/ /\ Save(recs)
             /\ due' = IF expiring /\ kind \in {"oauth", "pinned"} THEN due \cup {i}
                                                                 ELSE due \ {i}
             /\ backoff' = backoff \ {i}
          \/ SaveFails(recs) /\ UNCHANGED <<due, backoff>>
    /\ UNCHANGED <<flights, crashes, calls>>

\* Faulty variant: a deleted record leaves nothing behind.
Forgotten(v) == Absent

Revocation(v) == Tombstone(v)

Delete(i) ==
    /\ IsLive(i)
    /\ LET recs == [records EXCEPT ![i] = Revocation(records[i].ver)]
       IN \/ Save(recs) /\ due' = due \ {i}
          \/ SaveFails(recs) /\ UNCHANGED due
    /\ UNCHANGED <<flights, backoff, stamp, crashes, calls>>

MayClaim(o, i) == owners[i] \in {{}, {o}}

\* PutAccount and AdoptAccount: the owner is noted before the value is put,
\* and remains if that fails.
Claim(o, i) ==
    /\ AccountMode
    /\ MayClaim(o, i)
    /\ owners' = [owners EXCEPT ![i] = {o}]
    /\ UNCHANGED <<records, key, disk, keychain, flights, backoff, due, stamp, crashes, calls>>

-----------------------------------------------------------------------------
(* ResolveContext                                                          *)

Begin(c, i, pc, force) ==
    /\ task' = [task EXCEPT ![c] = [pc |-> pc, id |-> i, ver |-> records[i].ver,
                                    grant |-> NoValue, force |-> force, ok |-> FALSE]]
    /\ got' = [got EXCEPT ![c] = NoValue]

\* The call returns an error, or nothing of interest.
ReturnTo(c, value) ==
    /\ task' = [task EXCEPT ![c] = Idle]
    /\ got' = [got EXCEPT ![c] = value]

\* The first critical section; a missing reference is refused at once.
Resolve(c, i) ==
    /\ task[c].pc = "idle"
    /\ IsLive(i)
    /\ LET renew == HasGrant(i) /\ i \in due
       IN /\ Begin(c, i, IF records[i].kind = "external" THEN "external"
                         ELSE IF renew THEN "renewing" ELSE "reading", FALSE)
          /\ seen' = [seen EXCEPT ![c] = IF renew THEN ValueOf(i) ELSE NoValue]
    /\ UNCHANGED <<store, flights, backoff, due, stamp, crashes>>

\* The manager's answer counts only for the record it was asked for.
ExternalAnswers(c, ok) ==
    LET i == task[c].id
    IN /\ task[c].pc = "external"
       /\ ReturnTo(c, IF IsLive(i) /\ records[i].ver = task[c].ver /\ ok
                      THEN ValueOf(i) ELSE NoValue)
       /\ UNCHANGED <<store, flights, backoff, due, stamp, crashes, seen>>

\* The last critical section
ReadValue(c) ==
    LET i == task[c].id
    IN /\ task[c].pc = "reading"
       /\ ReturnTo(c, IF IsLive(i) THEN ValueOf(i) ELSE NoValue)
       /\ UNCHANGED <<store, flights, backoff, due, stamp, crashes, seen>>

-----------------------------------------------------------------------------
(* refreshOAuth                                                            *)

\* RefreshOAuth, at an operator's request
Refresh(c, i) ==
    /\ task[c].pc = "idle"
    /\ Begin(c, i, "renewing", TRUE)
    /\ seen' = [seen EXCEPT ![c] = NoValue]
    /\ UNCHANGED <<store, flights, backoff, due, stamp, crashes>>

\* What follows a renewal that went well
AfterRenewal(c) == IF task[c].force THEN Idle ELSE [task[c] EXCEPT !.pc = "reading"]

\* Faulty variant: every request renews for itself.
FlyAlone(i) == FALSE

InFlight(i) == flights[i] # NoCaller

\* The critical section before the exchange: wait for the flight there is,
\* return at once, or become the flight, which keeps a copy of the grant.
EnterRefresh(c) ==
    LET i == task[c].id
    IN /\ task[c].pc = "renewing"
       /\ \/ /\ ~IsLive(i) \/ ~HasGrant(i)
             /\ task' = [task EXCEPT ![c] = Idle]
             /\ UNCHANGED flights
          \/ /\ IsLive(i) /\ HasGrant(i)
             /\ ~task[c].force /\ i \notin due
             /\ task' = [task EXCEPT ![c] = AfterRenewal(c)]
             /\ UNCHANGED flights
          \/ /\ IsLive(i) /\ HasGrant(i)
             /\ task[c].force \/ i \in due
             /\ IF InFlight(i)
                THEN task' = At(c, "waiting") /\ UNCHANGED flights
                ELSE IF i \in backoff \/ records[i].kind = "pinned"
                THEN task' = [task EXCEPT ![c] = Idle] /\ UNCHANGED flights
                ELSE /\ flights' = [flights EXCEPT ![i] = c]
                     /\ task' = [task EXCEPT ![c].pc = "exchanging",
                                             ![c].ver = records[i].ver,
                                             ![c].grant = ValueOf(i)]
       /\ UNCHANGED <<store, backoff, due, stamp, crashes, seen, got>>

\* close(flight.done): the flight's caller and all who waited go on.
Land(c, ok) ==
    LET i == task[c].id
        after(d) == IF d = c THEN IF ok THEN AfterRenewal(c) ELSE Idle
                    ELSE IF task[d].pc = "waiting" /\ task[d].id = i
                    THEN [task[d] EXCEPT !.pc = "resumed", !.ok = ok] ELSE task[d]
    IN /\ flights' = [flights EXCEPT ![i] = NoCaller]
       /\ task' = [d \in Callers |-> after(d)]

\* Faulty variant: a stale flight is left in the table.
Abandon(c) ==
    /\ task' = [task EXCEPT ![c] = Idle]
    /\ UNCHANGED flights

LandStale(c) == Land(c, FALSE)

\* Faulty variant: any live record will do.
StaleIfGone(c) == ~IsLive(task[c].id)

Stale(c) == LET r == records[task[c].id] IN r.state # "live" \/ r.ver # task[c].ver

\* The critical section after the exchange.  What is stored continues the
\* grant that was exchanged.  A failed exchange, the caller's cancellation
\* included, begins a back-off.  The back-off ends whether or not the new
\* grant could be saved.
FinishRefresh(c, ok) ==
    LET i == task[c].id
        r == records[i]
        old == task[c].grant
        recs == [records EXCEPT ![i] = [r EXCEPT !.ver = NextVersion(r.ver),
                                                 !.root = old.root, !.turn = old.turn + 1]]
    IN /\ task[c].pc = "exchanging"
       /\ \/ Stale(c) /\ LandStale(c) /\ UNCHANGED <<store, due, backoff>>
          \/ /\ ~Stale(c) /\ ~ok
             /\ Land(c, FALSE)
             /\ backoff' = backoff \cup {i}
             /\ UNCHANGED <<store, due>>
          \/ /\ ~Stale(c) /\ ok /\ NextVersion(r.ver) = 0
             /\ Land(c, FALSE) /\ UNCHANGED <<store, due, backoff>>
          \/ /\ ~Stale(c) /\ ok /\ NextVersion(r.ver) # 0
             /\ old.turn < MaxTurn
             /\ backoff' = backoff \ {i}
             /\ \/ Save(recs) /\ Land(c, TRUE) /\ due' = due \ {i}
                \/ SaveFails(recs) /\ Land(c, FALSE) /\ UNCHANGED due
       /\ UNCHANGED <<stamp, crashes, seen, got>>

ResumesWell(c) == task[c].ok

\* A caller that waited sees the flight's result.
Resume(c) ==
    /\ task[c].pc = "resumed"
    /\ task' = [task EXCEPT ![c] = IF ResumesWell(c) THEN AfterRenewal(c) ELSE Idle]
    /\ UNCHANGED <<store, flights, backoff, due, stamp, crashes, seen, got>>

\* The context of a waiting caller ends.
CancelWait(c) ==
    /\ task[c].pc \in {"waiting", "resumed"}
    /\ task' = [task EXCEPT ![c] = Idle]
    /\ UNCHANGED <<store, flights, backoff, due, stamp, crashes, seen, got>>

-----------------------------------------------------------------------------
(* Time and crashes                                                        *)

TokenAges(i) ==
    /\ IsLive(i) /\ HasGrant(i) /\ i \notin due
    /\ due' = due \cup {i}
    /\ UNCHANGED <<store, flights, backoff, stamp, crashes, calls>>

BackoffEnds(i) ==
    /\ i \in backoff
    /\ backoff' = backoff \ {i}
    /\ UNCHANGED <<store, flights, due, stamp, crashes, calls>>

\* The process dies and open or OpenProviderAccounts reads the file.
Crash ==
    /\ crashes < MaxCrashes
    /\ crashes' = crashes + 1
    /\ records' = disk.recs
    /\ owners' = disk.owners
    /\ key' = disk.key
    /\ flights' = [i \in Ids |-> NoCaller]
    /\ backoff' = {}
    /\ task' = [c \in Callers |-> Idle]
    /\ seen' = [c \in Callers |-> NoValue]
    /\ got' = [c \in Callers |-> NoValue]
    /\ UNCHANGED <<disk, keychain, due, stamp>>

-----------------------------------------------------------------------------

Init ==
    /\ records = [i \in Ids |-> Absent]
    /\ owners = [i \in Ids |-> {}]
    /\ flights = [i \in Ids |-> NoCaller]
    /\ backoff = {} /\ due = {}
    /\ key = 0 /\ keychain = {}
    /\ disk = [recs |-> [i \in Ids |-> Absent], owners |-> [i \in Ids |-> {}], key |-> 0]
    /\ stamp = 0 /\ crashes = 0
    /\ task = [c \in Callers |-> Idle]
    /\ seen = [c \in Callers |-> NoValue]
    /\ got = [c \in Callers |-> NoValue]

Write(i) ==
    \/ \E kind \in Kinds, expiring \in BOOLEAN : Put(i, kind, expiring)
    \/ Delete(i)
    \/ \E o \in Owners : Claim(o, i)

Call(c) ==
    \/ \E i \in Ids : Resolve(c, i) \/ Refresh(c, i)
    \/ \E ok \in BOOLEAN : ExternalAnswers(c, ok) \/ FinishRefresh(c, ok)
    \/ ReadValue(c) \/ EnterRefresh(c) \/ Resume(c) \/ CancelWait(c)

Next ==
    \/ \E i \in Ids : Write(i) \/ TokenAges(i) \/ BackoffEnds(i)
    \/ \E c \in Callers : Call(c)
    \/ Crash

Spec == Init /\ [][Next]_vars

\* A call goes on: critical sections are short, and an exchange and a
\* manager's answer have deadlines of 20 seconds.
Proceed(c) ==
    \/ EnterRefresh(c) \/ ReadValue(c) \/ Resume(c)
    \/ \E ok \in BOOLEAN : ExternalAnswers(c, ok) \/ FinishRefresh(c, ok)

FairSpec == Spec /\ \A c \in Callers : WF_vars(Proceed(c))

-----------------------------------------------------------------------------
(* Properties                                                              *)

Record == [state : {"absent", "live", "revoked"},
           kind : {"none", "plain", "oauth", "pinned", "external"},
           ver : 0..(VersionLimit - 1), root : 0..MaxStamp, turn : 0..MaxTurn]
Value == [root : 0..MaxStamp, turn : 0..MaxTurn]

(* The state is well formed; a version never wraps around.                *)
TypeOK ==
    /\ records \in [Ids -> Record]
    /\ owners \in [Ids -> SUBSET Owners]
    /\ flights \in [Ids -> Callers \cup {NoCaller}]
    /\ backoff \subseteq Ids /\ due \subseteq Ids
    /\ key \in Nat /\ keychain \subseteq Nat
    /\ disk \in [recs : [Ids -> Record], owners : [Ids -> SUBSET Owners], key : Nat]
    /\ stamp \in 0..MaxStamp /\ crashes \in 0..MaxCrashes
    /\ task \in [Callers -> [pc : {"idle", "renewing", "exchanging", "waiting", "resumed",
                                   "reading", "external"},
                             id : Ids \cup {"none"}, ver : 0..(VersionLimit - 1),
                             grant : Value, force : BOOLEAN, ok : BOOLEAN]]
    /\ \A c \in Callers : task[c].pc # "idle" => task[c].id \in Ids
    /\ seen \in [Callers -> Value] /\ got \in [Callers -> Value]

(* What requests see is what a restart would find, whichever writes,       *)
(* renewals and deletions failed half-way: save replaces the file before   *)
(* the records.  (Bundles of accounts have no tombstones.)                 *)
MemoryIsDurable == Written(records) = disk.recs

(* The file can always be opened: its key is in the keychain, also after a *)
(* save that made a key and then failed.                                   *)
FileCanBeOpened == disk.key # 0 => disk.key \in keychain

(* Both together: a restart, whenever it comes, finds a file that opens    *)
(* and holds what requests saw (save, keyEnvelope.seal).                   *)
RestartLosesNothing == TypeOK /\ MemoryIsDurable /\ FileCanBeOpened

(* A refresh token is exchanged by one request at a time; providers take a *)
(* second use for theft.  The flight in the table is the one that runs.    *)
OneExchange ==
    \A i \in Ids :
        /\ Cardinality({c \in Callers : task[c].pc = "exchanging" /\ task[c].id = i}) <= 1
        /\ \A c \in Callers : task[c].pc = "exchanging" /\ task[c].id = i => flights[i] = c

(* A resolution that found its access token about to expire returns        *)
(* another value or an error, whoever renewed it and however that ended.   *)
NeverReturnsExpired ==
    \A c \in Callers : got[c] # NoValue => got[c] # seen[c]

(* The material of an account is never taken over by another one while it  *)
(* exists.                                                                 *)
KeepsOwner ==
    \A i \in Ids : IsLive(i) /\ owners[i] # {} => owners'[i] = owners[i]
                                                  \/ records'[i].state # "live"
OwnerKept == [][KeepsOwner]_vars

(* "The same ID cannot be recreated after restart" (docs/CREDENTIAL_STORAGE.md) *)
RevokedForever ==
    [][\A i \in Ids : records[i].state = "revoked" => records'[i].state = "revoked"]_vars

\* The refinement mapping: what a reference names is its record without its
\* kind and version.
Held == [i \in Ids |-> [state |-> records[i].state, root |-> records[i].root,
                        turn |-> records[i].turn]]

\* The vault keeps the promises of VaultSpec, over crashes too.
Abstract == INSTANCE VaultSpec WITH held <- Held

(* Replaced values never come back through a late renewal, deleted         *)
(* references stay deleted, and a renewal continues the value it started   *)
(* from: the vault of one file implements VaultSpec.                       *)
ImplementsVaultSpec == Abstract!Spec

(* Every resolution and refresh returns, also one that waits for a flight  *)
(* whose credential is replaced or deleted meanwhile.                      *)
CallsReturn == \A c \in Callers : task[c].pc # "idle" ~> task[c].pc = "idle"
=============================================================================
