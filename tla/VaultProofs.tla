---------------------------- MODULE VaultProofs ----------------------------
(***************************************************************************)
(* Proofs about Vault: the file and the memory, the owner of material, one *)
(* exchange at a time, no expired value, and the refinement of VaultSpec,  *)
(* for any number of references, callers, values, renewals and crashes.    *)
(***************************************************************************)
EXTENDS Vault, FiniteSetTheorems, TLAPS
-----------------------------------------------------------------------------
(* The inductive invariant                                                 *)

\* The flight in the table is the one that runs.
FlightInv ==
    \A c \in Callers : task[c].pc = "exchanging" => flights[task[c].id] = c

\* Values are named by the Put that stored them.
RootInv ==
    /\ \A i \in Ids : /\ records[i].root <= stamp
                      /\ IsLive(i) => records[i].root > 0
    /\ \A c \in Callers : seen[c].root <= stamp

\* The reference no longer names the value that caller c found expiring.
Beyond(c) ==
    \/ records[task[c].id].root # seen[c].root
    \/ records[task[c].id].turn > seen[c].turn

\* The reference still names the value that caller c found expiring.
Faces(c) == task[c].id \in due /\ ValueOf(task[c].id) = seen[c]

\* A resolution that renews either still faces the expiring value, or that
\* value is gone; it goes on to read only in the second case.
RenewInv ==
    \A c \in Callers : seen[c] # NoValue =>
        /\ seen[c].root > 0
        /\ task[c].pc # "external"
        /\ task[c].pc \in {"renewing", "exchanging", "waiting", "resumed"}
             => Beyond(c) \/ Faces(c)
        /\ task[c].pc = "reading" \/ (task[c].pc = "resumed" /\ task[c].ok)
             => Beyond(c)

\* The reference still names the value that caller c is exchanging, or its
\* record shows that it does not.
Current(c) ==
    LET r == records[task[c].id]
    IN \/ r.state = "revoked"
       \/ r.ver > task[c].ver
       \/ r.ver = task[c].ver /\ ValueOf(task[c].id) = task[c].grant

GrantInv == \A c \in Callers : task[c].pc = "exchanging" => Current(c)

\* The file knows the owner of everything it holds.
OwnerInv ==
    \A i \in Ids :
        IF AccountMode
        THEN IsLive(i) => owners[i] # {} /\ disk.owners[i] = owners[i]
        ELSE owners[i] = {} /\ disk.owners[i] = {}

IInv ==
    /\ TypeOK /\ MemoryIsDurable /\ FileCanBeOpened /\ FlightInv /\ RootInv /\ RenewInv
    /\ GrantInv /\ OwnerInv /\ NeverReturnsExpired
-----------------------------------------------------------------------------
(* Facts                                                                   *)

(* Records the code builds are records.                                    *)
LEMMA RecordFacts ==
  ASSUME VaultAssumption
  PROVE  /\ Absent \in Record /\ NoValue \in Value
         /\ Absent.state = "absent" /\ Absent.root = 0 /\ Absent.turn = 0
         /\ \A v \in 0..(VersionLimit - 1) :
              /\ Tombstone(v) \in Record /\ Tombstone(v).state = "revoked"
              /\ Tombstone(v).root = 0 /\ Tombstone(v).turn = 0
              /\ NextVersion(v) \in 0..(VersionLimit - 1)
         /\ 0 \in 0..(VersionLimit - 1)
<1>1. VersionLimit \in Nat /\ VersionLimit > 1 /\ MaxStamp \in Nat /\ MaxTurn \in Nat
  BY DEF VaultAssumption
<1>2. 0 \in 0..(VersionLimit - 1) /\ 0 \in 0..MaxStamp /\ 0 \in 0..MaxTurn
  BY <1>1
<1>3. /\ Absent \in Record /\ NoValue \in Value
      /\ Absent.state = "absent" /\ Absent.root = 0 /\ Absent.turn = 0
  BY <1>2 DEF Absent, Record, NoValue, Value
<1>4. ASSUME NEW v \in 0..(VersionLimit - 1)
      PROVE  /\ Tombstone(v) \in Record /\ Tombstone(v).state = "revoked"
             /\ Tombstone(v).root = 0 /\ Tombstone(v).turn = 0
  BY <1>2 DEF Tombstone, Absent, Record
<1>5. ASSUME NEW v \in 0..(VersionLimit - 1) PROVE NextVersion(v) \in 0..(VersionLimit - 1)
  <2>1. v + 1 \in Nat
    BY <1>1
  <2> QED
    BY <1>1, <2>1 DEF NextVersion
<1> QED
  BY <1>2, <1>3, <1>4, <1>5

(* A version that does not wrap around grows.                              *)
LEMMA VersionGrows ==
  ASSUME VaultAssumption, NEW v \in 0..(VersionLimit - 1), NextVersion(v) # 0
  PROVE  NextVersion(v) > v
<1>1. VersionLimit \in Nat /\ VersionLimit > 1 /\ v \in Nat /\ v + 1 <= VersionLimit
  BY DEF VaultAssumption
<1>2. CASE v + 1 = VersionLimit
  <2>1. VersionLimit % VersionLimit = 0
    BY <1>1
  <2> QED
    BY <1>2, <2>1 DEF NextVersion
<1>3. CASE v + 1 < VersionLimit
  <2>1. (v + 1) % VersionLimit = v + 1
    BY <1>1, <1>3
  <2> QED
    BY <1>1, <2>1 DEF NextVersion
<1> QED
  BY <1>1, <1>2, <1>3

(* What is written is what was written before, when it is read back.       *)
LEMMA WrittenFacts ==
  ASSUME VaultAssumption, NEW recs \in [Ids -> Record]
  PROVE  /\ Written(recs) \in [Ids -> Record]
         /\ Written(Written(recs)) = Written(recs)
         /\ ~AccountMode => Written(recs) = recs
         /\ \A i \in Ids : /\ (Written(recs)[i].state = "live") <=> (recs[i].state = "live")
                           /\ Written(recs)[i] = recs[i] \/ Written(recs)[i] = Absent
                           /\ recs[i].state = "live"
                                => Written(recs)[i] = recs[i] /\ Written(recs)[i] # Absent
<1>1. Absent \in Record /\ Absent.state = "absent"
  BY RecordFacts
<1>2. Written(recs) \in [Ids -> Record]
  BY <1>1 DEF Written
<1>3. \A i \in Ids : Written(recs)[i] = IF AccountMode /\ recs[i].state = "revoked"
                                        THEN Absent ELSE recs[i]
  BY DEF Written
<1>4. Written(Written(recs)) = Written(recs)
  BY <1>1, <1>3 DEF Written
<1>5. ~AccountMode => Written(recs) = recs
  BY DEF Written
<1> QED
  BY <1>1, <1>2, <1>3, <1>4, <1>5

(* A save that succeeds keeps file, memory and owners together.            *)
LEMMA SaveKeeps ==
  ASSUME VaultAssumption, IInv, NEW recs \in [Ids -> Record], Save(recs)
  PROVE  /\ records' = recs /\ owners' = owners
         /\ key' \in Nat /\ keychain' \subseteq Nat
         /\ disk' \in [recs : [Ids -> Record], owners : [Ids -> SUBSET Owners], key : Nat]
         /\ MemoryIsDurable' /\ FileCanBeOpened' /\ OwnerInv'
<1> USE DEF IInv
<1>1. /\ Owned(recs) /\ records' = recs /\ owners' = owners
      /\ disk' = [recs |-> Written(recs), owners |-> OwnersOf(recs), key |-> SealKey]
      /\ key' = SealKey /\ keychain' = keychain \cup {SealKey}
  BY DEF Save, KeyStored
<1>2. SealKey \in Nat
  BY DEF SealKey, TypeOK, VaultAssumption
<1>3. Written(recs) \in [Ids -> Record]
  BY WrittenFacts
<1>4. OwnersOf(recs) \in [Ids -> SUBSET Owners]
  BY DEF OwnersOf, TypeOK
<1>5. disk' \in [recs : [Ids -> Record], owners : [Ids -> SUBSET Owners], key : Nat]
  BY <1>1, <1>2, <1>3, <1>4
<1>6. MemoryIsDurable'
  BY <1>1 DEF MemoryIsDurable, Written
<1>7. FileCanBeOpened'
  BY <1>1 DEF FileCanBeOpened
<1>8. OwnerInv'
  <2>1. SUFFICES ASSUME NEW i \in Ids
                 PROVE  IF AccountMode
                        THEN IsLive(i)' => owners[i] # {} /\ disk'.owners[i] = owners[i]
                        ELSE owners[i] = {} /\ disk'.owners[i] = {}
    BY <1>1 DEF OwnerInv
  <2>2. disk'.owners[i] = IF Written(recs)[i] = Absent THEN {} ELSE owners[i]
    BY <1>1 DEF OwnersOf
  <2>3. CASE AccountMode
    <3>1. recs[i].state = "live" => owners[i] # {} /\ Written(recs)[i] # Absent
      BY <1>1, <2>3, WrittenFacts DEF Owned
    <3> QED
      BY <1>1, <2>2, <2>3, <3>1 DEF IsLive
  <2>4. CASE ~AccountMode
    BY <2>2, <2>4 DEF OwnerInv
  <2> QED
    BY <2>3, <2>4
<1> QED
  BY <1>1, <1>2, <1>5, <1>6, <1>7, <1>8 DEF TypeOK

(* A save that fails changes at most the keychain.                         *)
LEMMA SaveFailsKeeps ==
  ASSUME VaultAssumption, IInv, NEW recs, SaveFails(recs)
  PROVE  /\ UNCHANGED <<records, owners, disk>>
         /\ key' \in Nat /\ keychain' \subseteq Nat
         /\ MemoryIsDurable' /\ FileCanBeOpened' /\ OwnerInv'
<1> USE DEF IInv
<1>1. UNCHANGED <<records, owners, disk>>
  BY DEF SaveFails
<1>2. key' \in Nat /\ keychain' \subseteq Nat /\ keychain \subseteq keychain'
  <2>1. SealKey \in Nat
    BY DEF SealKey, TypeOK, VaultAssumption
  <2> QED
    BY <2>1 DEF SaveFails, TypeOK
<1>3. MemoryIsDurable' /\ FileCanBeOpened' /\ OwnerInv'
  BY <1>1, <1>2 DEF MemoryIsDurable, Written, FileCanBeOpened, OwnerInv, IsLive
<1> QED
  BY <1>1, <1>2, <1>3

(* A step that does not touch the store.                                   *)
LEMMA SameStore ==
  ASSUME IInv, UNCHANGED store
  PROVE  /\ UNCHANGED <<records, owners, key, disk, keychain>>
         /\ MemoryIsDurable' /\ FileCanBeOpened' /\ OwnerInv'
<1>1. UNCHANGED <<records, owners, key, disk, keychain>>
  BY DEF store
<1> QED
  BY <1>1 DEF IInv, MemoryIsDurable, Written, FileCanBeOpened, OwnerInv, IsLive

\* A value that a write leaves: the old one, the same renewed, a new one, or
\* none.
MovesOn(i) ==
    \/ records'[i].root = records[i].root /\ records'[i].turn >= records[i].turn
    \/ records'[i].root = 0
    \/ records'[i].root = stamp + 1

(* An expiring value that is gone does not come back.                      *)
LEMMA StaysBeyond ==
  ASSUME VaultAssumption, IInv, \A i \in Ids : MovesOn(i), records' \in [Ids -> Record],
         NEW c \in Callers, task[c].pc # "idle", task'[c].id = task[c].id, seen' = seen,
         seen[c] # NoValue, Beyond(c)
  PROVE  Beyond(c)'
<1> DEFINE i == task[c].id
<1>1. i \in Ids
  BY DEF IInv, TypeOK
<1>2. /\ records[i].root \in Nat /\ records[i].turn \in Nat
      /\ records'[i].root \in Nat /\ records'[i].turn \in Nat
      /\ seen[c].root \in Nat /\ seen[c].turn \in Nat /\ stamp \in Nat
  BY <1>1 DEF IInv, TypeOK, Record, Value, VaultAssumption
<1>3. seen[c].root > 0 /\ seen[c].root <= stamp
  BY DEF IInv, RenewInv, RootInv
<1>4. MovesOn(i) /\ (records[i].root # seen[c].root \/ records[i].turn > seen[c].turn)
      /\ records[i].root <= stamp
  BY <1>1 DEF Beyond, IInv, RootInv
<1>5. records'[i].root # seen[c].root \/ records'[i].turn > seen[c].turn
  BY <1>2, <1>3, <1>4 DEF MovesOn
<1> QED
  BY <1>5 DEF Beyond
-----------------------------------------------------------------------------
(* Steps                                                                   *)

(* An empty vault satisfies the invariant.                                 *)
LEMMA InitInv ==
  ASSUME VaultAssumption, Init
  PROVE  IInv
<1> USE DEF Init
<1>1. TypeOK
  <2>1. Absent \in Record /\ NoValue \in Value /\ 0 \in 0..(VersionLimit - 1)
    BY RecordFacts
  <2>2. records \in [Ids -> Record] /\ owners \in [Ids -> SUBSET Owners]
        /\ flights \in [Ids -> Callers \cup {NoCaller}]
    BY <2>1
  <2>3. disk \in [recs : [Ids -> Record], owners : [Ids -> SUBSET Owners], key : Nat]
    BY <2>1
  <2>4. seen \in [Callers -> Value] /\ got \in [Callers -> Value]
    BY <2>1
  <2>5. /\ task \in [Callers -> [pc : {"idle", "renewing", "exchanging", "waiting", "resumed",
                                       "reading", "external"},
                                 id : Ids \cup {"none"}, ver : 0..(VersionLimit - 1),
                                 grant : Value, force : BOOLEAN, ok : BOOLEAN]]
        /\ \A c \in Callers : task[c].pc = "idle"
    BY <2>1 DEF Idle
  <2>6. stamp \in 0..MaxStamp /\ crashes \in 0..MaxCrashes
    BY DEF VaultAssumption
  <2> QED
    BY <2>2, <2>3, <2>4, <2>5, <2>6 DEF TypeOK
<1>2. \A i \in Ids : records[i].state = "absent" /\ records[i].root = 0
  BY RecordFacts
<1>3. MemoryIsDurable /\ FileCanBeOpened
  BY <1>2 DEF MemoryIsDurable, FileCanBeOpened, Written
<1>4. OwnerInv
  BY <1>2 DEF OwnerInv, IsLive
<1>5. RootInv
  BY <1>2 DEF RootInv, IsLive, NoValue
<1>6. FlightInv /\ RenewInv /\ GrantInv /\ NeverReturnsExpired
  BY DEF FlightInv, RenewInv, GrantInv, NeverReturnsExpired, Idle
<1> QED
  BY <1>1, <1>3, <1>4, <1>5, <1>6 DEF IInv

(* A writer that replaces or deletes record i leaves callers alone.        *)
LEMMA WriterKeeps ==
  ASSUME VaultAssumption, IInv, NEW i \in Ids, NEW r \in Record,
         UNCHANGED <<flights, crashes, task, seen, got>>,
         records' = records \/ records' = [records EXCEPT ![i] = r],
         records[i].state # "revoked",
         stamp' \in {stamp, stamp + 1}, stamp' \in 0..MaxStamp,
         r.root = 0 \/ (r.root = stamp' /\ stamp' = stamp + 1),
         r.state = "live" => r.root > 0,
         r.state = "revoked" \/ r.ver > records[i].ver,
         records' = records => due \subseteq due',
         \A j \in due : j # i => j \in due'
  PROVE  FlightInv' /\ RootInv' /\ RenewInv' /\ GrantInv' /\ NeverReturnsExpired'
<1> USE DEF IInv
<1>1. FlightInv' /\ NeverReturnsExpired'
  BY DEF FlightInv, NeverReturnsExpired
<1>2. records' \in [Ids -> Record] /\ stamp \in Nat /\ stamp' \in Nat /\ stamp <= stamp'
  BY DEF TypeOK, VaultAssumption
<1>3. \A j \in Ids : records'[j] = records[j] \/ (j = i /\ records'[j] = r)
  BY DEF TypeOK
<1>4. \A j \in Ids : /\ records[j].root \in Nat /\ records[j].turn \in Nat
                     /\ records[j].root <= stamp
  BY <1>2 DEF TypeOK, RootInv, Record, VaultAssumption
<1>5. RootInv'
  <2>1. ASSUME NEW j \in Ids
        PROVE  records'[j].root <= stamp' /\ (IsLive(j)' => records'[j].root > 0)
    <3>1. CASE records'[j] = records[j]
      BY <1>2, <1>4, <3>1 DEF RootInv, IsLive
    <3>2. CASE records'[j] = r
      BY <1>2, <3>2 DEF IsLive
    <3> QED
      BY <1>3, <3>1, <3>2
  <2>2. \A c \in Callers : seen[c].root \in Nat
    BY DEF TypeOK, Value, VaultAssumption
  <2> QED
    BY <1>2, <2>1, <2>2 DEF RootInv
<1>6. \A j \in Ids : MovesOn(j)
  BY <1>3, <1>4 DEF MovesOn
<1>7. RenewInv'
  <2>1. SUFFICES ASSUME NEW c \in Callers, seen[c] # NoValue
                 PROVE  /\ seen[c].root > 0
                        /\ task[c].pc # "external"
                        /\ task[c].pc \in {"renewing", "exchanging", "waiting", "resumed"}
                             => \/ Beyond(c)'
                                \/ task[c].id \in due' /\ ValueOf(task[c].id)' = seen[c]
                        /\ task[c].pc = "reading" \/ (task[c].pc = "resumed" /\ task[c].ok)
                             => Beyond(c)'
    BY DEF RenewInv, Faces
  <2>2. task[c].pc # "idle" /\ Beyond(c) => Beyond(c)'
    BY <1>2, <1>6, <2>1, StaysBeyond
  <2>3. ASSUME task[c].pc # "idle", task[c].id \in due, ValueOf(task[c].id) = seen[c]
        PROVE  Beyond(c)' \/ (task[c].id \in due' /\ ValueOf(task[c].id)' = seen[c])
    <3>1. task[c].id \in Ids
      BY <2>3 DEF TypeOK
    <3>2. CASE task[c].id # i \/ records' = records
      BY <1>3, <2>3, <3>1, <3>2 DEF ValueOf
    <3>3. CASE task[c].id = i /\ records' # records
      <4>1. records'[i] = r
        BY <3>3 DEF TypeOK
      <4>2. seen[c].root > 0 /\ seen[c].root <= stamp /\ seen[c].root \in Nat
        BY <2>1 DEF RenewInv, RootInv, TypeOK, Value, VaultAssumption
      <4>3. r.root # seen[c].root
        BY <1>2, <4>2
      <4> QED
        BY <3>3, <4>1, <4>3 DEF Beyond
    <3> QED
      BY <3>2, <3>3
  <2> QED
    BY <2>1, <2>2, <2>3 DEF RenewInv, Faces
<1>8. GrantInv'
  <2>1. SUFFICES ASSUME NEW c \in Callers, task[c].pc = "exchanging"
                 PROVE  Current(c)'
    BY DEF GrantInv
  <2>2. Current(c) /\ task[c].id \in Ids
    BY <2>1 DEF GrantInv, TypeOK
  <2>3. CASE records'[task[c].id] = records[task[c].id]
    BY <2>2, <2>3 DEF Current, ValueOf
  <2>4. CASE task[c].id = i /\ records'[i] = r
    <3>1. r.ver \in Nat /\ records[i].ver \in Nat /\ task[c].ver \in Nat
      BY DEF TypeOK, Record, VaultAssumption
    <3>2. records[i].ver >= task[c].ver
      BY <2>2, <2>4, <3>1 DEF Current
    <3> QED
      BY <2>4, <3>1, <3>2 DEF Current
  <2> QED
    BY <1>3, <2>2, <2>3, <2>4
<1> QED
  BY <1>1, <1>5, <1>7, <1>8

(* putRecord and Delete.                                                   *)
LEMMA PutStep ==
  ASSUME VaultAssumption, IInv, NEW i \in Ids, NEW kind \in Kinds, NEW expiring \in BOOLEAN,
         Put(i, kind, expiring)
  PROVE  IInv'
<1> DEFINE r == [state |-> "live", kind |-> kind, ver |-> NextVersion(records[i].ver),
                 root |-> stamp + 1, turn |-> 0]
           recs == [records EXCEPT ![i] = r]
<1>1. /\ stamp < MaxStamp /\ stamp' = stamp + 1
      /\ UNCHANGED <<flights, crashes, task, seen, got>>
  BY DEF Put, calls
<1>2. /\ stamp \in Nat /\ stamp + 1 \in 0..MaxStamp /\ 0 \in 0..MaxTurn
      /\ kind \in {"none", "plain", "oauth", "pinned", "external"}
      /\ records[i].ver \in 0..(VersionLimit - 1)
  BY <1>1 DEF IInv, TypeOK, Record, VaultAssumption
<1>3. r \in Record /\ r.root = stamp + 1 /\ r.state = "live" /\ stamp + 1 > 0
  <2>1. NextVersion(records[i].ver) \in 0..(VersionLimit - 1)
    BY <1>2, RecordFacts
  <2> QED
    BY <1>2, <2>1 DEF Record
<1>4. recs \in [Ids -> Record]
  BY <1>3 DEF IInv, TypeOK
<1>5. /\ \/ /\ Save(recs)
            /\ due' = due \cup {i} \/ due' = due \ {i}
            /\ backoff' = backoff \ {i}
         \/ SaveFails(recs) /\ UNCHANGED <<due, backoff>>
  BY DEF Put
<1> HIDE DEF r
<1>6. /\ records' = records \/ records' = [records EXCEPT ![i] = r]
      /\ records' \in [Ids -> Record] /\ owners' = owners
      /\ key' \in Nat /\ keychain' \subseteq Nat
      /\ disk' \in [recs : [Ids -> Record], owners : [Ids -> SUBSET Owners], key : Nat]
      /\ MemoryIsDurable' /\ FileCanBeOpened' /\ OwnerInv'
  <2>1. CASE Save(recs)
    BY <1>4, <2>1, SaveKeeps
  <2>2. CASE SaveFails(recs)
    <3>1. disk' = disk /\ records' = records /\ owners' = owners
      BY <2>2, SaveFailsKeeps
    <3> QED
      BY <2>2, <3>1, SaveFailsKeeps DEF IInv, TypeOK
  <2> QED
    BY <1>5, <2>1, <2>2
<1>7. /\ due' \subseteq Ids /\ backoff' \subseteq Ids /\ \A j \in due : j # i => j \in due'
  BY <1>5 DEF IInv, TypeOK
<1>8. records' = records => due \subseteq due'
  <2>1. records[i] # r
    BY <1>2, <1>3 DEF IInv, RootInv
  <2>2. Save(recs) => records' # records
    <3>1. recs[i] = r
      BY DEF IInv, TypeOK
    <3> QED
      BY <2>1, <3>1 DEF Save
  <2> QED
    BY <1>5, <2>2
<1>9. TypeOK'
  BY <1>1, <1>2, <1>6, <1>7 DEF IInv, TypeOK
<1>10. FlightInv' /\ RootInv' /\ RenewInv' /\ GrantInv' /\ NeverReturnsExpired'
  <2>1. records[i].state # "revoked" /\ r.ver > records[i].ver
    BY <1>2, VersionGrows DEF r, Put
  <2> QED
    BY <1>1, <1>2, <1>3, <1>6, <1>7, <1>8, <2>1, WriterKeeps
<1> QED
  BY <1>6, <1>9, <1>10 DEF IInv

(* Delete leaves a tombstone.                                              *)
LEMMA DeleteStep ==
  ASSUME VaultAssumption, IInv, NEW i \in Ids, Delete(i)
  PROVE  IInv'
<1> DEFINE r == Tombstone(records[i].ver)
           recs == [records EXCEPT ![i] = r]
<1>1. IsLive(i) /\ UNCHANGED <<flights, backoff, stamp, crashes, task, seen, got>>
  BY DEF Delete, calls
<1>2. records[i].ver \in 0..(VersionLimit - 1) /\ stamp \in 0..MaxStamp
  BY DEF IInv, TypeOK, Record
<1>3. r \in Record /\ r.root = 0 /\ r.state = "revoked"
  BY <1>2, RecordFacts
<1>4. recs \in [Ids -> Record]
  BY <1>3 DEF IInv, TypeOK
<1>5. \/ Save(recs) /\ due' = due \ {i}
      \/ SaveFails(recs) /\ due' = due
  BY DEF Delete, Revocation
<1> HIDE DEF r
<1>6. /\ records' = records \/ records' = [records EXCEPT ![i] = r]
      /\ records' \in [Ids -> Record] /\ owners' = owners
      /\ key' \in Nat /\ keychain' \subseteq Nat
      /\ disk' \in [recs : [Ids -> Record], owners : [Ids -> SUBSET Owners], key : Nat]
      /\ MemoryIsDurable' /\ FileCanBeOpened' /\ OwnerInv'
  <2>1. CASE Save(recs)
    BY <1>4, <2>1, SaveKeeps
  <2>2. CASE SaveFails(recs)
    <3>1. disk' = disk /\ records' = records /\ owners' = owners
      BY <2>2, SaveFailsKeeps
    <3> QED
      BY <2>2, <3>1, SaveFailsKeeps DEF IInv, TypeOK
  <2> QED
    BY <1>5, <2>1, <2>2
<1>7. /\ due' \subseteq Ids /\ \A j \in due : j # i => j \in due'
  BY <1>5 DEF IInv, TypeOK
<1>8. records' = records => due \subseteq due'
  <2>1. records[i] # r
    BY <1>1, <1>3 DEF IsLive
  <2>2. Save(recs) => records' # records
    <3>1. recs[i] = r
      BY DEF IInv, TypeOK
    <3> QED
      BY <2>1, <3>1 DEF Save
  <2> QED
    BY <1>5, <2>2
<1>9. TypeOK'
  BY <1>1, <1>2, <1>6, <1>7 DEF IInv, TypeOK
<1>10. FlightInv' /\ RootInv' /\ RenewInv' /\ GrantInv' /\ NeverReturnsExpired'
  <2>1. stamp' \in {stamp, stamp + 1} /\ stamp' \in 0..MaxStamp
    BY <1>1, <1>2
  <2>2. /\ r.root = 0 \/ (r.root = stamp' /\ stamp' = stamp + 1)
        /\ r.state = "live" => r.root > 0
        /\ r.state = "revoked" /\ records[i].state # "revoked"
    BY <1>1, <1>3 DEF IsLive
  <2>3. UNCHANGED <<flights, crashes, task, seen, got>>
    BY <1>1
  <2>4. r \in Record /\ (records' = records \/ records' = [records EXCEPT ![i] = r])
    BY <1>3, <1>6
  <2> QED
    BY <1>7, <1>8, <2>1, <2>2, <2>3, <2>4, WriterKeeps
<1> QED
  BY <1>6, <1>9, <1>10 DEF IInv

\* The type of what a caller is doing.
Task == [pc : {"idle", "renewing", "exchanging", "waiting", "resumed", "reading", "external"},
         id : Ids \cup {"none"}, ver : 0..(VersionLimit - 1), grant : Value,
         force : BOOLEAN, ok : BOOLEAN]

(* A caller that is idle has nothing in hand.                              *)
LEMMA IdleFacts ==
  ASSUME VaultAssumption
  PROVE  Idle \in Task /\ Idle.pc = "idle"
BY RecordFacts DEF Idle, Task

(* A step of one caller that leaves the store, due and the values found    *)
(* expiring alone.                                                         *)
LEMMA CallerStep ==
  ASSUME VaultAssumption, IInv, UNCHANGED <<store, backoff, due, stamp, crashes, seen, got>>,
         NEW c \in Callers, NEW t \in Task, task' = [task EXCEPT ![c] = t],
         t.pc # "idle" => t.id \in Ids,
         flights' \in [Ids -> Callers \cup {NoCaller}],
         \A d \in Callers \ {c} : task[d].pc = "exchanging"
                                    => flights'[task[d].id] = flights[task[d].id],
         t.pc = "exchanging" => /\ flights'[t.id] = c
                                /\ t.ver = records[t.id].ver /\ t.grant = ValueOf(t.id),
         seen[c] # NoValue /\ t.pc # "idle" =>
           /\ t.id = task[c].id /\ t.pc # "external"
           /\ t.pc \in {"renewing", "exchanging", "waiting", "resumed"}
                => task[c].pc \in {"renewing", "exchanging", "waiting", "resumed"}
           /\ t.pc = "reading" \/ (t.pc = "resumed" /\ t.ok) => Beyond(c)
  PROVE  IInv'
<1> USE DEF IInv
<1>1. UNCHANGED <<records, owners, key, disk, keychain, backoff, due, stamp, crashes, seen, got>>
  BY DEF store
<1>2. task'[c] = t /\ \A d \in Callers \ {c} : task'[d] = task[d]
  BY DEF TypeOK
<1>3. TypeOK'
  <2>1. task' \in [Callers -> Task]
    BY DEF TypeOK, Task
  <2>2. \A d \in Callers : task'[d].pc # "idle" => task'[d].id \in Ids
    BY <1>2 DEF TypeOK
  <2> QED
    BY <1>1, <2>1, <2>2 DEF TypeOK, Task
<1>4. MemoryIsDurable' /\ FileCanBeOpened' /\ OwnerInv'
  BY SameStore
<1>5. FlightInv'
  BY <1>2 DEF FlightInv
<1>6. RootInv' /\ NeverReturnsExpired'
  BY <1>1 DEF RootInv, NeverReturnsExpired, IsLive
<1>7. RenewInv'
  <2>1. ASSUME NEW d \in Callers, task'[d].id = task[d].id
        PROVE  /\ Beyond(d)' <=> Beyond(d)
               /\ ValueOf(task[d].id)' = ValueOf(task[d].id)
    BY <1>1, <2>1 DEF Beyond, ValueOf
  <2>2. SUFFICES ASSUME NEW d \in Callers, seen[d] # NoValue
                 PROVE  /\ seen[d].root > 0
                        /\ task'[d].pc # "external"
                        /\ task'[d].pc \in {"renewing", "exchanging", "waiting", "resumed"}
                             => \/ Beyond(d)'
                                \/ task'[d].id \in due' /\ ValueOf(task[d].id)' = seen[d]
                                   /\ task'[d].id = task[d].id
                        /\ task'[d].pc = "reading" \/ (task'[d].pc = "resumed" /\ task'[d].ok)
                             => Beyond(d)'
    BY <1>1 DEF RenewInv, Faces, ValueOf
  <2>3. CASE d = c
    BY <1>1, <1>2, <2>1, <2>2, <2>3 DEF RenewInv, Faces
  <2>4. CASE d # c
    BY <1>1, <1>2, <2>1, <2>2, <2>4 DEF RenewInv, Faces
  <2> QED
    BY <2>3, <2>4
<1>8. GrantInv'
  <2>1. SUFFICES ASSUME NEW d \in Callers, task'[d].pc = "exchanging"
                 PROVE  Current(d)'
    BY DEF GrantInv
  <2>2. CASE d = c
    BY <1>1, <1>2, <2>1, <2>2 DEF Current, ValueOf
  <2>3. CASE d # c
    BY <1>1, <1>2, <2>1, <2>3 DEF GrantInv, Current, ValueOf
  <2> QED
    BY <2>2, <2>3
<1> QED
  BY <1>3, <1>4, <1>5, <1>6, <1>7, <1>8

(* A call begins: nothing was returned yet, and the value found expiring   *)
(* is remembered.                                                          *)
LEMMA BeginStep ==
  ASSUME VaultAssumption, IInv, NEW c \in Callers, NEW i \in Ids,
         UNCHANGED <<store, flights, backoff, due, stamp, crashes>>,
         NEW p \in {"renewing", "reading", "external"}, NEW f \in BOOLEAN, Begin(c, i, p, f),
         NEW v \in Value, seen' = [seen EXCEPT ![c] = v],
         v # NoValue => p = "renewing" /\ IsLive(i) /\ i \in due /\ v = ValueOf(i)
  PROVE  IInv'
<1> USE DEF IInv
<1> DEFINE t == [pc |-> p, id |-> i, ver |-> records[i].ver, grant |-> NoValue, force |-> f,
                 ok |-> FALSE]
<1>1. /\ task' = [task EXCEPT ![c] = t] /\ got' = [got EXCEPT ![c] = NoValue]
      /\ UNCHANGED <<records, owners, key, disk, keychain, flights, backoff, due, stamp, crashes>>
  BY DEF Begin, store
<1>2. t \in Task /\ t.pc = p /\ t.id = i /\ t.ok = FALSE
  BY RecordFacts DEF Task, TypeOK, Record
<1> HIDE DEF t
<1>3. /\ task'[c] = t /\ got'[c] = NoValue /\ seen'[c] = v
      /\ \A d \in Callers \ {c} : /\ task'[d] = task[d] /\ got'[d] = got[d]
                                  /\ seen'[d] = seen[d]
  BY <1>1 DEF TypeOK
<1>4. TypeOK'
  <2>1. NoValue \in Value
    BY RecordFacts
  <2>2. task' \in [Callers -> Task]
    BY <1>1, <1>2 DEF TypeOK, Task
  <2>3. got' \in [Callers -> Value] /\ seen' \in [Callers -> Value]
    BY <1>1, <2>1 DEF TypeOK
  <2>4. \A d \in Callers : task'[d].pc # "idle" => task'[d].id \in Ids
    BY <1>2, <1>3 DEF TypeOK
  <2> QED
    BY <1>1, <2>2, <2>3, <2>4 DEF TypeOK, Task
<1>5. MemoryIsDurable' /\ FileCanBeOpened' /\ OwnerInv'
  BY SameStore
<1>6. FlightInv' /\ NeverReturnsExpired'
  BY <1>1, <1>2, <1>3 DEF FlightInv, NeverReturnsExpired
<1>7. v.root <= stamp /\ (v # NoValue => v.root > 0)
  <2>1. CASE v = NoValue
    BY <2>1 DEF NoValue, TypeOK, VaultAssumption
  <2>2. CASE v # NoValue
    <3>1. v.root = records[i].root
      BY <2>2 DEF ValueOf
    <3> QED
      BY <2>2, <3>1 DEF RootInv
  <2> QED
    BY <2>1, <2>2
<1>8. RootInv'
  BY <1>1, <1>3, <1>7 DEF RootInv, IsLive
<1>9. RenewInv'
  <2>1. ASSUME NEW d \in Callers, d # c
        PROVE  (Beyond(d)' <=> Beyond(d)) /\ (Faces(d)' <=> Faces(d))
    BY <1>1, <1>3, <2>1 DEF Beyond, Faces, ValueOf
  <2>2. v # NoValue => Faces(c)'
    BY <1>1, <1>2, <1>3 DEF Faces, ValueOf
  <2>3. SUFFICES ASSUME NEW d \in Callers, seen'[d] # NoValue
                 PROVE  /\ seen'[d].root > 0
                        /\ task'[d].pc # "external"
                        /\ task'[d].pc \in {"renewing", "exchanging", "waiting", "resumed"}
                             => Beyond(d)' \/ Faces(d)'
                        /\ task'[d].pc = "reading" \/ (task'[d].pc = "resumed" /\ task'[d].ok)
                             => Beyond(d)'
    BY DEF RenewInv
  <2>4. CASE d = c
    BY <1>1, <1>2, <1>3, <1>7, <2>2, <2>3, <2>4
  <2>5. CASE d # c
    BY <1>1, <1>3, <2>1, <2>3, <2>5 DEF RenewInv
  <2> QED
    BY <2>4, <2>5
<1>10. GrantInv'
  BY <1>1, <1>2, <1>3 DEF GrantInv, Current, ValueOf
<1> QED
  BY <1>4, <1>5, <1>6, <1>8, <1>9, <1>10

(* ResolveContext and RefreshOAuth begin.                                  *)
LEMMA StartSteps ==
  ASSUME VaultAssumption, IInv, NEW c \in Callers, NEW i \in Ids, Resolve(c, i) \/ Refresh(c, i)
  PROVE  IInv'
<1>1. CASE Refresh(c, i)
  <2>1. NoValue \in Value
    BY RecordFacts
  <2> QED
    BY <1>1, <2>1, BeginStep DEF Refresh
<1>2. CASE Resolve(c, i)
  <2> DEFINE renew == HasGrant(i) /\ i \in due
             p == IF records[i].kind = "external" THEN "external"
                  ELSE IF renew THEN "renewing" ELSE "reading"
             v == IF renew THEN ValueOf(i) ELSE NoValue
  <2>1. /\ UNCHANGED <<store, flights, backoff, due, stamp, crashes>>
        /\ Begin(c, i, p, FALSE) /\ seen' = [seen EXCEPT ![c] = v] /\ IsLive(i)
    BY <1>2 DEF Resolve
  <2>2. v \in Value
    <3>1. NoValue \in Value
      BY RecordFacts
    <3>2. ValueOf(i) \in Value
      BY DEF ValueOf, Value, IInv, TypeOK, Record
    <3> QED
      BY <3>1, <3>2
  <2>3. p \in {"renewing", "reading", "external"}
    OBVIOUS
  <2>4. v # NoValue => p = "renewing" /\ i \in due /\ v = ValueOf(i)
    BY DEF HasGrant
  <2> HIDE DEF p, v
  <2> QED
    BY <2>1, <2>2, <2>3, <2>4, BeginStep
<1> QED
  BY <1>1, <1>2
(* A call returns a value that is not the one it found expiring.           *)
LEMMA ReturnStep ==
  ASSUME VaultAssumption, IInv, NEW c \in Callers, NEW v \in Value, ReturnTo(c, v),
         UNCHANGED <<store, flights, backoff, due, stamp, crashes, seen>>,
         v # NoValue => v # seen[c]
  PROVE  IInv'
<1> USE DEF IInv
<1>1. /\ task' = [task EXCEPT ![c] = Idle] /\ got' = [got EXCEPT ![c] = v]
      /\ UNCHANGED <<records, owners, key, disk, keychain, flights, backoff, due, stamp,
                     crashes, seen>>
  BY DEF ReturnTo, store
<1>2. Idle \in Task /\ Idle.pc = "idle"
  BY IdleFacts
<1>3. /\ task'[c] = Idle /\ got'[c] = v
      /\ \A d \in Callers \ {c} : task'[d] = task[d] /\ got'[d] = got[d]
  BY <1>1 DEF TypeOK
<1>4. TypeOK'
  <2>1. task' \in [Callers -> Task] /\ got' \in [Callers -> Value]
    BY <1>1, <1>2 DEF TypeOK, Task
  <2>2. \A d \in Callers : task'[d].pc # "idle" => task'[d].id \in Ids
    BY <1>2, <1>3 DEF TypeOK
  <2> QED
    BY <1>1, <2>1, <2>2 DEF TypeOK, Task
<1>5. MemoryIsDurable' /\ FileCanBeOpened' /\ OwnerInv'
  BY SameStore
<1>6. FlightInv' /\ NeverReturnsExpired' /\ RootInv'
  BY <1>1, <1>2, <1>3 DEF FlightInv, NeverReturnsExpired, RootInv, IsLive
<1>7. RenewInv'
  <2>1. \A d \in Callers \ {c} : (Beyond(d)' <=> Beyond(d)) /\ (Faces(d)' <=> Faces(d))
    BY <1>1, <1>3 DEF Beyond, Faces, ValueOf
  <2> QED
    BY <1>1, <1>2, <1>3, <2>1 DEF RenewInv
<1>8. GrantInv'
  BY <1>1, <1>2, <1>3 DEF GrantInv, Current, ValueOf
<1> QED
  BY <1>4, <1>5, <1>6, <1>7, <1>8

(* ResolveContext returns.                                                 *)
LEMMA ReturnSteps ==
  ASSUME VaultAssumption, IInv, NEW c \in Callers, NEW ok \in BOOLEAN,
         ExternalAnswers(c, ok) \/ ReadValue(c)
  PROVE  IInv'
<1> DEFINE i == task[c].id
<1>1. NoValue \in Value
  BY RecordFacts
<1>2. i \in Ids /\ task[c].pc \in {"external", "reading"}
  BY DEF ExternalAnswers, ReadValue, IInv, TypeOK
<1>3. ValueOf(i) \in Value
  BY <1>2 DEF ValueOf, Value, IInv, TypeOK, Record
<1>4. UNCHANGED <<store, flights, backoff, due, stamp, crashes, seen>>
  BY DEF ExternalAnswers, ReadValue
<1>5. PICK v \in {NoValue, ValueOf(i)} : ReturnTo(c, v)
  BY DEF ExternalAnswers, ReadValue
<1>6. ValueOf(i) # NoValue => ValueOf(i) # seen[c]
  <2>1. CASE seen[c] = NoValue
    BY <2>1
  <2>2. CASE seen[c] # NoValue
    <3>1. Beyond(c)
      BY <1>2, <2>2 DEF IInv, RenewInv
    <3>2. /\ records[i].turn \in Nat /\ seen[c].turn \in Nat
          /\ ValueOf(i).root = records[i].root /\ ValueOf(i).turn = records[i].turn
      BY <1>2 DEF IInv, TypeOK, Record, Value, ValueOf, VaultAssumption
    <3> QED
      BY <3>1, <3>2 DEF Beyond
  <2> QED
    BY <2>1, <2>2
<1> QED
  BY <1>1, <1>3, <1>4, <1>5, <1>6, ReturnStep

(* The critical section before the exchange.                               *)
LEMMA EnterStep ==
  ASSUME VaultAssumption, IInv, NEW c \in Callers, EnterRefresh(c)
  PROVE  IInv'
<1> USE DEF IInv
<1> DEFINE i == task[c].id
<1>1. /\ task[c].pc = "renewing" /\ i \in Ids /\ task[c] \in Task
      /\ UNCHANGED <<store, backoff, due, stamp, crashes, seen, got>>
  BY DEF EnterRefresh, TypeOK, Task
<1>2. Idle \in Task /\ Idle.pc = "idle"
  BY IdleFacts
<1>3. flights \in [Ids -> Callers \cup {NoCaller}]
  BY DEF TypeOK
<1>4. CASE task' = [task EXCEPT ![c] = Idle] /\ flights' = flights
  BY <1>1, <1>2, <1>3, <1>4, CallerStep
<1>5. CASE /\ ~task[c].force /\ i \notin due /\ flights' = flights
           /\ task' = [task EXCEPT ![c] = [task[c] EXCEPT !.pc = "reading"]]
  <2> DEFINE t == [task[c] EXCEPT !.pc = "reading"]
  <2>1. t \in Task /\ t.pc = "reading" /\ t.id = i
    BY <1>1 DEF Task
  <2> HIDE DEF t
  <2>2. seen[c] # NoValue => Beyond(c)
    BY <1>1, <1>5 DEF RenewInv, Faces
  <2> QED
    BY <1>1, <1>3, <1>5, <2>1, <2>2, CallerStep DEF t
<1>6. CASE task' = At(c, "waiting") /\ flights' = flights
  <2> DEFINE t == [task[c] EXCEPT !.pc = "waiting"]
  <2>1. t \in Task /\ t.pc = "waiting" /\ t.id = i /\ task' = [task EXCEPT ![c] = t]
    BY <1>1, <1>6 DEF Task, At
  <2> HIDE DEF t
  <2> QED
    BY <1>1, <1>3, <1>6, <2>1, CallerStep
<1>7. CASE /\ ~InFlight(i) /\ flights' = [flights EXCEPT ![i] = c]
           /\ task' = [task EXCEPT ![c].pc = "exchanging", ![c].ver = records[i].ver,
                                 ![c].grant = ValueOf(i)]
  <2> DEFINE t == [task[c] EXCEPT !.pc = "exchanging", !.ver = records[i].ver,
                                  !.grant = ValueOf(i)]
  <2>1. records[i].ver \in 0..(VersionLimit - 1) /\ ValueOf(i) \in Value
    BY <1>1 DEF TypeOK, Record, ValueOf, Value
  <2>2. /\ t \in Task /\ t.pc = "exchanging" /\ t.id = i /\ task' = [task EXCEPT ![c] = t]
        /\ t.ver = records[i].ver /\ t.grant = ValueOf(i)
    BY <1>1, <1>7, <2>1 DEF Task
  <2> HIDE DEF t
  <2>3. /\ flights' \in [Ids -> Callers \cup {NoCaller}] /\ flights'[i] = c
        /\ \A j \in Ids \ {i} : flights'[j] = flights[j]
    BY <1>1, <1>3, <1>7
  <2>4. \A d \in Callers \ {c} : task[d].pc = "exchanging" => task[d].id \in Ids \ {i}
    BY <1>7 DEF TypeOK, FlightInv, InFlight, VaultAssumption
  <2>5. \A d \in Callers \ {c} : task[d].pc = "exchanging"
                                   => flights'[task[d].id] = flights[task[d].id]
    BY <2>3, <2>4
  <2> QED
    BY <1>1, <2>2, <2>3, <2>5, CallerStep
<1>8. \/ task' = [task EXCEPT ![c] = Idle] /\ flights' = flights
      \/ /\ ~task[c].force /\ i \notin due /\ flights' = flights
         /\ task' = [task EXCEPT ![c] = [task[c] EXCEPT !.pc = "reading"]]
      \/ task' = At(c, "waiting") /\ flights' = flights
      \/ /\ ~InFlight(i) /\ flights' = [flights EXCEPT ![i] = c]
         /\ task' = [task EXCEPT ![c].pc = "exchanging", ![c].ver = records[i].ver,
                                 ![c].grant = ValueOf(i)]
  BY DEF EnterRefresh, AfterRenewal
<1> QED
  BY <1>4, <1>5, <1>6, <1>7, <1>8

(* A caller that waited goes on, or gives up.                              *)
LEMMA ResumeSteps ==
  ASSUME VaultAssumption, IInv, NEW c \in Callers, Resume(c) \/ CancelWait(c)
  PROVE  IInv'
<1> USE DEF IInv
<1>1. /\ task[c].id \in Ids /\ task[c] \in Task
      /\ UNCHANGED <<store, flights, backoff, due, stamp, crashes, seen, got>>
  BY DEF Resume, CancelWait, TypeOK, Task
<1>2. Idle \in Task /\ Idle.pc = "idle" /\ flights' \in [Ids -> Callers \cup {NoCaller}]
  BY <1>1, IdleFacts DEF TypeOK
<1>3. CASE task' = [task EXCEPT ![c] = Idle]
  BY <1>1, <1>2, <1>3, CallerStep
<1>4. CASE /\ task[c].pc = "resumed" /\ task[c].ok
           /\ task' = [task EXCEPT ![c] = [task[c] EXCEPT !.pc = "reading"]]
  <2> DEFINE t == [task[c] EXCEPT !.pc = "reading"]
  <2>1. t \in Task /\ t.pc = "reading" /\ t.id = task[c].id
    BY <1>1 DEF Task
  <2>2. seen[c] # NoValue => Beyond(c)
    BY <1>4 DEF RenewInv
  <2> HIDE DEF t
  <2> QED
    BY <1>1, <1>2, <1>4, <2>1, <2>2, CallerStep DEF t
<1> QED
  BY <1>3, <1>4 DEF Resume, CancelWait, ResumesWell, AfterRenewal
(* The flight lands: its caller and those who waited find the value that   *)
(* was expiring renewed, or learn that the renewal failed.                 *)
LEMMA LandStep ==
  ASSUME VaultAssumption, IInv, NEW c \in Callers, task[c].pc = "exchanging",
         NEW ok \in BOOLEAN, Land(c, ok), UNCHANGED <<stamp, crashes, seen, got>>,
         records' \in [Ids -> Record], owners' = owners, key' \in Nat, keychain' \subseteq Nat,
         disk' \in [recs : [Ids -> Record], owners : [Ids -> SUBSET Owners], key : Nat],
         backoff' \subseteq Ids, MemoryIsDurable', FileCanBeOpened', OwnerInv',
         due' = IF ok THEN due \ {task[c].id} ELSE due,
         \A j \in Ids \ {task[c].id} : records'[j] = records[j],
         ~ok => records' = records,
         ok => /\ records'[task[c].id].state = records[task[c].id].state
               /\ records'[task[c].id].root = records[task[c].id].root
               /\ records'[task[c].id].turn = records[task[c].id].turn + 1
  PROVE  IInv'
<1> USE DEF IInv
<1> DEFINE i == task[c].id
<1>1. i \in Ids /\ task \in [Callers -> Task]
  BY DEF TypeOK, Task
<1>2. flights' = [flights EXCEPT ![i] = NoCaller]
  BY DEF Land
<1>3. \A d \in Callers :
        task'[d] = IF d = c THEN IF ok THEN AfterRenewal(c) ELSE Idle
                   ELSE IF task[d].pc = "waiting" /\ task[d].id = i
                   THEN [task[d] EXCEPT !.pc = "resumed", !.ok = ok] ELSE task[d]
  BY DEF Land
<1>4. Idle \in Task /\ Idle.pc = "idle"
  BY IdleFacts
<1>5. /\ AfterRenewal(c) \in Task
      /\ AfterRenewal(c).pc = "idle" \/ (AfterRenewal(c).pc = "reading" /\ AfterRenewal(c).id = i)
  BY <1>1, <1>4 DEF AfterRenewal, Task
<1>6. ASSUME NEW d \in Callers
      PROVE  /\ task'[d] \in Task
             /\ \/ task'[d].pc = "idle"
                \/ /\ task'[d].id = task[d].id /\ task[d].pc # "idle"
                   /\ \/ d # c /\ task'[d] = task[d]
                      \/ d = c /\ ok /\ task'[d].pc = "reading"
                      \/ /\ d # c /\ task[d].pc = "waiting" /\ task[d].id = i
                         /\ task'[d].pc = "resumed" /\ task'[d].ok = ok
  <2>1. task[d] \in Task
    BY <1>1
  <2>2. CASE d = c
    BY <1>3, <1>4, <1>5, <2>2
  <2>3. CASE d # c /\ task[d].pc = "waiting" /\ task[d].id = i
    <3>1. task'[d] = [task[d] EXCEPT !.pc = "resumed", !.ok = ok]
      BY <1>3, <2>3
    <3> QED
      BY <2>1, <2>3, <3>1 DEF Task
  <2>4. CASE d # c /\ ~(task[d].pc = "waiting" /\ task[d].id = i)
    BY <1>3, <2>1, <2>4
  <2> QED
    BY <2>2, <2>3, <2>4
<1>7. TypeOK'
  <2>1. task' \in [Callers -> Task]
    <3>1. task' = [d \in Callers |-> task'[d]]
      BY DEF Land
    <3> QED
      BY <1>6, <3>1
  <2>2. \A d \in Callers : task'[d].pc # "idle" => task'[d].id \in Ids
    BY <1>6 DEF TypeOK
  <2>3. flights' \in [Ids -> Callers \cup {NoCaller}]
    BY <1>2 DEF TypeOK
  <2>4. due' \subseteq Ids
    BY DEF TypeOK
  <2> QED
    BY <2>1, <2>2, <2>3, <2>4 DEF TypeOK, Task
<1>8. FlightInv'
  <2>1. SUFFICES ASSUME NEW d \in Callers, task'[d].pc = "exchanging"
                 PROVE  flights'[task'[d].id] = d
    BY DEF FlightInv
  <2>2. d # c /\ task'[d] = task[d]
    BY <1>6, <2>1
  <2>3. flights[task[d].id] = d /\ flights[i] = c /\ task[d].id \in Ids
    BY <2>1, <2>2 DEF FlightInv, TypeOK
  <2> QED
    BY <1>2, <2>2, <2>3 DEF TypeOK
<1>9. \A j \in Ids : /\ records[j].root \in Nat /\ records[j].turn \in Nat
                     /\ records'[j].state = records[j].state
                     /\ records'[j].root = records[j].root
                     /\ records'[j].turn >= records[j].turn
  <2>1. \A j \in Ids : records[j].root \in Nat /\ records[j].turn \in Nat
    BY DEF TypeOK, Record, VaultAssumption
  <2> QED
    BY <2>1
<1>10. RootInv' /\ NeverReturnsExpired'
  BY <1>9 DEF RootInv, IsLive, NeverReturnsExpired
<1>11. RenewInv'
  <2>1. \A j \in Ids : MovesOn(j)
    BY <1>9 DEF MovesOn
  <2>2. SUFFICES ASSUME NEW d \in Callers, seen[d] # NoValue, task'[d].pc # "idle"
                 PROVE  /\ task'[d].pc # "external"
                        /\ task'[d].pc \in {"renewing", "exchanging", "waiting", "resumed"}
                             => Beyond(d)' \/ Faces(d)'
                        /\ task'[d].pc = "reading" \/ (task'[d].pc = "resumed" /\ task'[d].ok)
                             => Beyond(d)'
    BY DEF RenewInv
  <2>3. task'[d].id = task[d].id /\ task[d].pc # "idle" /\ task[d].id \in Ids
    BY <1>6, <2>2 DEF TypeOK
  <2>4. Beyond(d) => Beyond(d)'
    BY <2>1, <2>2, <2>3, StaysBeyond
  <2>5. ASSUME ok, task[d].id = i, Faces(d)
        PROVE  Beyond(d)'
    <3>1. seen[d].turn = records[i].turn
      BY <2>5 DEF Faces, ValueOf
    <3>2. records'[i].turn > seen[d].turn
      BY <1>1, <1>9, <2>5, <3>1
    <3> QED
      BY <2>3, <2>5, <3>2 DEF Beyond
  <2>6. ~ok \/ task[d].id # i => (Faces(d) => Faces(d)')
    BY <2>3 DEF Faces, ValueOf
  <2>7. task[d].pc \in {"renewing", "exchanging", "waiting", "resumed"} => Beyond(d) \/ Faces(d)
    BY <2>2 DEF RenewInv
  <2>8. CASE d # c /\ task'[d] = task[d]
    BY <2>2, <2>4, <2>5, <2>6, <2>7, <2>8 DEF RenewInv
  <2>9. CASE d = c /\ ok /\ task'[d].pc = "reading"
    BY <2>4, <2>5, <2>7, <2>9
  <2>10. CASE /\ task[d].pc = "waiting" /\ task[d].id = i
              /\ task'[d].pc = "resumed" /\ task'[d].ok = ok
    BY <2>4, <2>5, <2>6, <2>7, <2>10
  <2> QED
    BY <1>6, <2>2, <2>8, <2>9, <2>10
<1>12. GrantInv'
  <2>1. SUFFICES ASSUME NEW d \in Callers, task'[d].pc = "exchanging"
                 PROVE  Current(d)'
    BY DEF GrantInv
  <2>2. d # c /\ task'[d] = task[d]
    BY <1>6, <2>1
  <2>3. flights[task[d].id] = d /\ flights[i] = c /\ task[d].id \in Ids
    BY <2>1, <2>2 DEF FlightInv, TypeOK
  <2>4. records'[task[d].id] = records[task[d].id]
    BY <2>2, <2>3
  <2>5. Current(d)
    BY <2>1, <2>2 DEF GrantInv
  <2> QED
    BY <2>2, <2>4, <2>5 DEF Current, ValueOf
<1> QED
  BY <1>7, <1>8, <1>10, <1>11, <1>12

(* A record that is not stale holds the value that was exchanged.          *)
LEMMA ExchangedValue ==
  ASSUME VaultAssumption, IInv, NEW c \in Callers, task[c].pc = "exchanging", ~Stale(c)
  PROVE  /\ records[task[c].id].root = task[c].grant.root
         /\ records[task[c].id].turn = task[c].grant.turn
         /\ records[task[c].id].state = "live"
<1> DEFINE i == task[c].id
<1>1. /\ i \in Ids /\ records[i].ver \in Nat
      /\ records[i].ver = task[c].ver /\ records[i].state = "live"
  BY DEF IInv, TypeOK, Record, Stale, VaultAssumption
<1>2. ValueOf(i) = task[c].grant
  BY <1>1 DEF IInv, GrantInv, Current
<1> QED
  BY <1>1, <1>2 DEF ValueOf

(* The critical section after the exchange.                                *)
LEMMA FinishStep ==
  ASSUME VaultAssumption, IInv, NEW c \in Callers, NEW ok \in BOOLEAN, FinishRefresh(c, ok)
  PROVE  IInv'
<1> USE DEF IInv
<1> DEFINE i == task[c].id
           r == records[i]
           old == task[c].grant
           s == [r EXCEPT !.ver = NextVersion(r.ver), !.root = old.root, !.turn = old.turn + 1]
           recs == [records EXCEPT ![i] = s]
<1>1. task[c].pc = "exchanging" /\ i \in Ids /\ UNCHANGED <<stamp, crashes, seen, got>>
  BY DEF FinishRefresh, TypeOK
<1>2. CASE /\ UNCHANGED <<store, due>> /\ Land(c, FALSE)
           /\ backoff' = backoff \/ backoff' = backoff \cup {i}
  <2>1. /\ UNCHANGED <<records, owners, key, disk, keychain>>
        /\ MemoryIsDurable' /\ FileCanBeOpened' /\ OwnerInv'
    BY <1>2, SameStore
  <2>2. /\ records' \in [Ids -> Record] /\ key' \in Nat /\ keychain' \subseteq Nat
        /\ disk' \in [recs : [Ids -> Record], owners : [Ids -> SUBSET Owners], key : Nat]
        /\ backoff' \subseteq Ids
    BY <1>1, <1>2, <2>1 DEF TypeOK
  <2> QED
    BY <1>1, <1>2, <2>1, <2>2, LandStep
<1>3. CASE SaveFails(recs) /\ Land(c, FALSE) /\ due' = due /\ backoff' = backoff \ {i}
  <2>1. /\ UNCHANGED <<records, owners, disk>> /\ key' \in Nat /\ keychain' \subseteq Nat
        /\ MemoryIsDurable' /\ FileCanBeOpened' /\ OwnerInv'
    BY <1>3, SaveFailsKeeps
  <2>2. /\ records' \in [Ids -> Record] /\ backoff' \subseteq Ids
        /\ disk' \in [recs : [Ids -> Record], owners : [Ids -> SUBSET Owners], key : Nat]
    BY <1>1, <1>3, <2>1 DEF TypeOK
  <2> QED
    BY <1>1, <1>3, <2>1, <2>2, LandStep
<1>4. CASE /\ ~Stale(c) /\ old.turn < MaxTurn /\ Save(recs) /\ Land(c, TRUE)
           /\ due' = due \ {i} /\ backoff' = backoff \ {i}
  <2>1. r \in Record /\ r.root = old.root /\ r.turn = old.turn
    BY <1>1, <1>4, ExchangedValue DEF TypeOK
  <2>2. NextVersion(r.ver) \in 0..(VersionLimit - 1) /\ r.turn + 1 \in 0..MaxTurn
    BY <1>4, <2>1, RecordFacts DEF Record, VaultAssumption
  <2>3. s \in Record /\ s.state = r.state /\ s.root = r.root /\ s.turn = r.turn + 1
    BY <2>1, <2>2 DEF Record
  <2> HIDE DEF s
  <2>4. recs \in [Ids -> Record] /\ recs[i] = s /\ \A j \in Ids \ {i} : recs[j] = records[j]
    BY <1>1, <2>3 DEF TypeOK
  <2>5. /\ records' = recs /\ owners' = owners /\ key' \in Nat /\ keychain' \subseteq Nat
        /\ disk' \in [recs : [Ids -> Record], owners : [Ids -> SUBSET Owners], key : Nat]
        /\ MemoryIsDurable' /\ FileCanBeOpened' /\ OwnerInv'
    BY <1>4, <2>4, SaveKeeps
  <2>6. backoff' \subseteq Ids
    BY <1>4 DEF TypeOK
  <2> HIDE DEF recs
  <2> QED
    BY <1>1, <1>4, <2>3, <2>4, <2>5, <2>6, LandStep
<1> QED
  BY <1>2, <1>3, <1>4 DEF FinishRefresh, LandStale

(* PutAccount and AdoptAccount note the owner first.                       *)
LEMMA ClaimStep ==
  ASSUME VaultAssumption, IInv, NEW i \in Ids, NEW o \in Owners, Claim(o, i)
  PROVE  IInv'
<1> USE DEF IInv
<1>1. /\ AccountMode /\ owners[i] \in {{}, {o}} /\ owners' = [owners EXCEPT ![i] = {o}]
      /\ UNCHANGED <<records, key, disk, keychain, flights, backoff, due, stamp, crashes,
                     task, seen, got>>
  BY DEF Claim, MayClaim, calls
<1>2. TypeOK'
  <2>1. owners' \in [Ids -> SUBSET Owners]
    BY <1>1 DEF TypeOK
  <2> QED
    BY <1>1, <2>1 DEF TypeOK
<1>3. OwnerInv'
  BY <1>1 DEF OwnerInv, IsLive, TypeOK
<1>4. MemoryIsDurable' /\ FileCanBeOpened' /\ FlightInv' /\ RootInv' /\ NeverReturnsExpired'
  BY <1>1 DEF MemoryIsDurable, Written, FileCanBeOpened, FlightInv, RootInv, IsLive,
              NeverReturnsExpired
<1>5. RenewInv' /\ GrantInv'
  BY <1>1 DEF RenewInv, Beyond, Faces, GrantInv, Current, ValueOf
<1> QED
  BY <1>2, <1>3, <1>4, <1>5

(* Time passes.                                                            *)
LEMMA TimeSteps ==
  ASSUME VaultAssumption, IInv, NEW i \in Ids,
         TokenAges(i) \/ BackoffEnds(i) \/ UNCHANGED vars
  PROVE  IInv'
<1> USE DEF IInv
<1>1. /\ UNCHANGED <<store, flights, stamp, crashes, task, seen, got>>
      /\ due \subseteq due' /\ due' \subseteq Ids /\ backoff' \subseteq Ids
  BY DEF TokenAges, BackoffEnds, vars, calls, TypeOK
<1>2. /\ UNCHANGED <<records, owners, key, disk, keychain>>
      /\ MemoryIsDurable' /\ FileCanBeOpened' /\ OwnerInv'
  BY <1>1, SameStore
<1>3. TypeOK'
  BY <1>1, <1>2 DEF TypeOK
<1>4. FlightInv' /\ RootInv' /\ NeverReturnsExpired'
  BY <1>1, <1>2 DEF FlightInv, RootInv, IsLive, NeverReturnsExpired
<1>5. RenewInv' /\ GrantInv'
  BY <1>1, <1>2 DEF RenewInv, Beyond, Faces, GrantInv, Current, ValueOf
<1> QED
  BY <1>2, <1>3, <1>4, <1>5

(* The process dies and reads the file.                                    *)
LEMMA CrashStep ==
  ASSUME VaultAssumption, IInv, Crash
  PROVE  IInv'
<1> USE DEF IInv
<1>1. /\ crashes < MaxCrashes /\ crashes' = crashes + 1 /\ records' = disk.recs
      /\ owners' = disk.owners /\ key' = disk.key
      /\ flights' = [i \in Ids |-> NoCaller] /\ backoff' = {}
      /\ task' = [c \in Callers |-> Idle] /\ seen' = [c \in Callers |-> NoValue]
      /\ got' = [c \in Callers |-> NoValue] /\ UNCHANGED <<disk, keychain, due, stamp>>
  BY DEF Crash
<1>2. records \in [Ids -> Record] /\ records' = Written(records)
  BY <1>1 DEF TypeOK, MemoryIsDurable
<1>3. /\ Written(Written(records)) = Written(records)
      /\ \A i \in Ids : /\ (records'[i].state = "live") <=> (records[i].state = "live")
                        /\ records'[i] = records[i] \/ records'[i] = Absent
  BY <1>2, WrittenFacts
<1>4. TypeOK'
  <2>1. Idle \in Task /\ Idle.pc = "idle" /\ NoValue \in Value
    BY IdleFacts, RecordFacts
  <2>2. /\ task' \in [Callers -> Task] /\ seen' \in [Callers -> Value]
        /\ got' \in [Callers -> Value] /\ \A c \in Callers : task'[c].pc = "idle"
    BY <1>1, <2>1
  <2>3. crashes' \in 0..MaxCrashes
    BY <1>1 DEF TypeOK, VaultAssumption
  <2>4. /\ records' \in [Ids -> Record] /\ owners' \in [Ids -> SUBSET Owners]
        /\ key' \in Nat /\ flights' \in [Ids -> Callers \cup {NoCaller}]
    BY <1>1 DEF TypeOK
  <2> QED
    BY <1>1, <2>2, <2>3, <2>4 DEF TypeOK, Task
<1>5. MemoryIsDurable'
  <2>1. Written(records)' = Written(records')
    BY DEF Written
  <2> QED
    BY <1>1, <1>2, <1>3, <2>1 DEF MemoryIsDurable
<1>6. FileCanBeOpened' /\ OwnerInv'
  BY <1>1, <1>3 DEF FileCanBeOpened, OwnerInv, IsLive
<1>7. RootInv'
  <2>1. Absent.root = 0 /\ NoValue.root = 0 /\ stamp \in Nat
    BY RecordFacts DEF NoValue, TypeOK, VaultAssumption
  <2>2. \A i \in Ids : records[i].root <= stamp /\ (IsLive(i) => records[i].root > 0)
    BY DEF RootInv
  <2>3. Absent.state # "live"
    BY RecordFacts
  <2> QED
    BY <1>1, <1>3, <2>1, <2>2, <2>3 DEF RootInv, IsLive
<1>8. FlightInv' /\ RenewInv' /\ GrantInv' /\ NeverReturnsExpired'
  BY <1>1, IdleFacts DEF FlightInv, RenewInv, GrantInv, NeverReturnsExpired
<1> QED
  BY <1>4, <1>5, <1>6, <1>7, <1>8
(* Every step keeps the invariant.                                         *)
LEMMA NextInv ==
  ASSUME VaultAssumption
  PROVE  IInv /\ [Next]_vars => IInv'
<1> SUFFICES ASSUME IInv, [Next]_vars PROVE IInv'
  OBVIOUS
<1>1. ASSUME NEW i \in Ids, Write(i) PROVE IInv'
  <2>1. ASSUME NEW kind \in Kinds, NEW expiring \in BOOLEAN, Put(i, kind, expiring) PROVE IInv'
    BY <2>1, PutStep
  <2>2. ASSUME Delete(i) PROVE IInv'
    BY <2>2, DeleteStep
  <2>3. ASSUME NEW o \in Owners, Claim(o, i) PROVE IInv'
    BY <2>3, ClaimStep
  <2> QED
    BY <1>1, <2>1, <2>2, <2>3 DEF Write
<1>2. ASSUME NEW c \in Callers, Call(c) PROVE IInv'
  <2>1. ASSUME NEW i \in Ids, Resolve(c, i) \/ Refresh(c, i) PROVE IInv'
    BY <2>1, StartSteps
  <2>2. ASSUME NEW ok \in BOOLEAN, ExternalAnswers(c, ok) \/ ReadValue(c) PROVE IInv'
    BY <2>2, ReturnSteps
  <2>3. ASSUME NEW ok \in BOOLEAN, FinishRefresh(c, ok) PROVE IInv'
    BY <2>3, FinishStep
  <2>4. ASSUME EnterRefresh(c) PROVE IInv'
    BY <2>4, EnterStep
  <2>5. ASSUME Resume(c) \/ CancelWait(c) PROVE IInv'
    BY <2>5, ResumeSteps
  <2> QED
    BY <1>2, <2>1, <2>2, <2>3, <2>4, <2>5 DEF Call
<1>3. ASSUME NEW i \in Ids, TokenAges(i) \/ BackoffEnds(i) PROVE IInv'
  BY <1>3, TimeSteps
<1>4. ASSUME Crash PROVE IInv'
  BY <1>4, CrashStep
<1>5. ASSUME UNCHANGED vars PROVE IInv'
  <2>1. /\ UNCHANGED <<records, owners, key, disk, keychain, flights, backoff, due, stamp,
                       crashes, task, seen, got>>
    BY <1>5 DEF vars, store, calls
  <2>2. TypeOK' /\ MemoryIsDurable' /\ FileCanBeOpened' /\ OwnerInv'
    BY <2>1 DEF IInv, TypeOK, MemoryIsDurable, Written, FileCanBeOpened, OwnerInv, IsLive
  <2>3. FlightInv' /\ RootInv' /\ NeverReturnsExpired'
    BY <2>1 DEF IInv, FlightInv, RootInv, IsLive, NeverReturnsExpired
  <2>4. RenewInv' /\ GrantInv'
    BY <2>1 DEF IInv, RenewInv, Beyond, Faces, GrantInv, Current, ValueOf
  <2> QED
    BY <2>2, <2>3, <2>4 DEF IInv
<1> QED
  BY <1>1, <1>2, <1>3, <1>4, <1>5 DEF Next

(* The invariant holds always.                                             *)
LEMMA Invariance ==
  ASSUME VaultAssumption
  PROVE  Spec => []IInv
<1>1. Init => IInv
  BY InitInv
<1>2. IInv /\ [Next]_vars => IInv'
  BY NextInv
<1> QED
  BY <1>1, <1>2, PTL DEF Spec
-----------------------------------------------------------------------------
(* Theorems                                                                *)

(* What requests see is what a restart would find, and the file can always *)
(* be opened, whichever saves failed half-way (save, keyEnvelope.seal).    *)
THEOREM StoreIsDurable ==
  ASSUME VaultAssumption
  PROVE  Spec => []RestartLosesNothing
<1>1. IInv => RestartLosesNothing
  BY DEF IInv, RestartLosesNothing
<1> QED
  BY <1>1, Invariance, PTL

(* A grant is exchanged by one request at a time, however many resolve the *)
(* reference, and nobody is given the value that was found expiring        *)
(* (refreshOAuth, ResolveContext).                                         *)
THEOREM ExchangedOnce ==
  ASSUME VaultAssumption
  PROVE  Spec => [](OneExchange /\ NeverReturnsExpired)
<1>1. ASSUME IInv PROVE OneExchange
  <2>1. SUFFICES ASSUME NEW i \in Ids
                 PROVE  /\ Cardinality({c \in Callers : task[c].pc = "exchanging"
                                                        /\ task[c].id = i}) <= 1
                        /\ \A c \in Callers : task[c].pc = "exchanging" /\ task[c].id = i
                                                => flights[i] = c
    BY DEF OneExchange
  <2> DEFINE S == {c \in Callers : task[c].pc = "exchanging" /\ task[c].id = i}
  <2>2. \A c \in S : c = flights[i]
    BY <1>1 DEF IInv, FlightInv
  <2>3. S \subseteq {flights[i]}
    BY <2>2
  <2>4. IsFiniteSet({flights[i]}) /\ Cardinality({flights[i]}) = 1
    BY FS_Singleton
  <2>5. IsFiniteSet(S) /\ Cardinality(S) <= 1
    BY <2>3, <2>4, FS_Subset
  <2> QED
    BY <2>2, <2>5
<1>2. IInv => OneExchange /\ NeverReturnsExpired
  BY <1>1 DEF IInv
<1> QED
  BY <1>2, Invariance, PTL

(* The material of an account is never taken over by another one while it  *)
(* exists, over crashes too (PutAccount, AdoptAccount, groupAccountRecords). *)
THEOREM OwnersKeepMaterial ==
  ASSUME VaultAssumption
  PROVE  Spec => OwnerKept
<1>1. ASSUME IInv, Next PROVE KeepsOwner
  <2>1. ASSUME owners' = owners PROVE KeepsOwner
    BY <2>1 DEF KeepsOwner
  <2>2. ASSUME NEW i \in Ids, NEW o \in Owners, Claim(o, i) PROVE KeepsOwner
    BY <1>1, <2>2 DEF Claim, MayClaim, KeepsOwner, IInv, TypeOK
  <2>3. ASSUME Crash PROVE KeepsOwner
    BY <1>1, <2>3 DEF Crash, KeepsOwner, IInv, OwnerInv
  <2>4. ASSUME NEW i \in Ids, Write(i) PROVE KeepsOwner
    <3>1. ASSUME NEW kind \in Kinds, NEW expiring \in BOOLEAN, Put(i, kind, expiring)
          PROVE  owners' = owners
      BY <3>1 DEF Put, Save, SaveFails
    <3>2. Delete(i) => owners' = owners
      BY DEF Delete, Save, SaveFails
    <3> QED
      BY <2>1, <2>2, <2>4, <3>1, <3>2 DEF Write
  <2>5. ASSUME NEW i \in Ids, TokenAges(i) \/ BackoffEnds(i) PROVE KeepsOwner
    BY <2>1, <2>5 DEF TokenAges, BackoffEnds, store
  <2>6. ASSUME NEW c \in Callers, Call(c) PROVE KeepsOwner
    <3>1. ASSUME NEW ok \in BOOLEAN, FinishRefresh(c, ok) PROVE owners' = owners
      BY <3>1 DEF FinishRefresh, store, Save, SaveFails
    <3>2. ASSUME NEW ok \in BOOLEAN, ExternalAnswers(c, ok) PROVE owners' = owners
      BY <3>2 DEF ExternalAnswers, store
    <3>3. ASSUME NEW i \in Ids, Resolve(c, i) \/ Refresh(c, i) PROVE owners' = owners
      BY <3>3 DEF Resolve, Refresh, store
    <3>4. ReadValue(c) \/ EnterRefresh(c) \/ Resume(c) \/ CancelWait(c) => owners' = owners
      BY DEF ReadValue, EnterRefresh, Resume, CancelWait, store
    <3> QED
      BY <2>1, <2>6, <3>1, <3>2, <3>3, <3>4 DEF Call
  <2> QED
    BY <1>1, <2>3, <2>4, <2>5, <2>6 DEF Next
<1>2. IInv /\ [Next]_vars => [KeepsOwner]_vars
  BY <1>1
<1> QED
  BY <1>2, Invariance, PTL DEF Spec, OwnerKept
-----------------------------------------------------------------------------
(* Refinement                                                              *)

(* Steps that leave the records alone do not show.                         *)
LEMMA NotSeen ==
  ASSUME records' = records
  PROVE  Held' = Held
BY DEF Held

(* A reference names what its record holds.                                *)
LEMMA HeldFacts ==
  \A i \in Ids : /\ Held[i].state = records[i].state
                 /\ Held[i].root = records[i].root
                 /\ Held[i].turn = records[i].turn
BY DEF Held

(* A record that replaces another shows as the reference's new value.      *)
LEMMA HeldNext ==
  ASSUME VaultAssumption, IInv, NEW i \in Ids, NEW r, records' = [records EXCEPT ![i] = r]
  PROVE  Held' = [Held EXCEPT ![i] = [state |-> r.state, root |-> r.root, turn |-> r.turn]]
<1>1. records'[i] = r /\ \A j \in Ids \ {i} : records'[j] = records[j]
  BY DEF IInv, TypeOK
<1> QED
  BY <1>1 DEF Held

(* With one file, every step of the vault is a step of VaultSpec or is not *)
(* seen; a crash is never seen.                                            *)
LEMMA StepRefines ==
  ASSUME VaultAssumption, AccountMode = FALSE, IInv, Next
  PROVE  Abstract!Next \/ Held' = Held
<1> USE DEF IInv
<1>1. ASSUME NEW i \in Ids, NEW kind \in Kinds, NEW expiring \in BOOLEAN,
             Put(i, kind, expiring)
      PROVE  Abstract!Place(i) \/ Held' = Held
  <2> DEFINE r == [state |-> "live", kind |-> kind, ver |-> NextVersion(records[i].ver),
                   root |-> stamp + 1, turn |-> 0]
             recs == [records EXCEPT ![i] = r]
  <2>1. records[i].state # "revoked" /\ stamp < MaxStamp /\ (Save(recs) \/ SaveFails(recs))
    BY <1>1 DEF Put
  <2>2. r.state = "live" /\ r.root = stamp + 1 /\ r.turn = 0
    OBVIOUS
  <2> HIDE DEF r
  <2>3. CASE SaveFails(recs)
    BY <2>3, NotSeen DEF SaveFails
  <2>4. CASE Save(recs)
    <3>1. records' = [records EXCEPT ![i] = r]
      BY <2>4 DEF Save
    <3>2. Held' = [Held EXCEPT ![i] = Abstract!Live(stamp + 1, 0)]
      BY <2>2, <3>1, HeldNext DEF Abstract!Live
    <3>3. stamp \in Nat /\ stamp + 1 \in 1..MaxStamp
      BY <2>1 DEF TypeOK, VaultAssumption
    <3>4. \A j \in Ids : stamp + 1 > Held[j].root
      <4>1. \A j \in Ids : Held[j].root = records[j].root /\ records[j].root \in Nat
                           /\ records[j].root <= stamp
        BY HeldFacts DEF TypeOK, Record, RootInv, VaultAssumption
      <4> QED
        BY <3>3, <4>1
    <3>5. Held[i].state # "revoked"
      BY <2>1, HeldFacts
    <3> QED
      BY <3>2, <3>3, <3>4, <3>5 DEF Abstract!Place
  <2> QED
    BY <2>1, <2>3, <2>4
<1>2. ASSUME NEW i \in Ids, Delete(i)
      PROVE  Abstract!Revoke(i) \/ Held' = Held
  <2> DEFINE r == Tombstone(records[i].ver)
             recs == [records EXCEPT ![i] = r]
  <2>1. records[i].state = "live" /\ (Save(recs) \/ SaveFails(recs))
    BY <1>2 DEF Delete, Revocation, IsLive
  <2>2. r.state = "revoked" /\ r.root = 0 /\ r.turn = 0
    BY RecordFacts DEF TypeOK, Record
  <2> HIDE DEF r
  <2>3. CASE SaveFails(recs)
    BY <2>3, NotSeen DEF SaveFails
  <2>4. CASE Save(recs)
    <3>1. records' = [records EXCEPT ![i] = r]
      BY <2>4 DEF Save
    <3>2. Held' = [Held EXCEPT ![i] = Abstract!Revoked]
      BY <2>2, <3>1, HeldNext DEF Abstract!Revoked
    <3> QED
      BY <2>1, <3>2, HeldFacts DEF Abstract!Revoke
  <2> QED
    BY <2>1, <2>3, <2>4
<1>3. ASSUME NEW c \in Callers, NEW ok \in BOOLEAN, FinishRefresh(c, ok)
      PROVE  (\E i \in Ids : Abstract!Renew(i)) \/ Held' = Held
  <2> DEFINE i == task[c].id
             old == task[c].grant
             s == [records[i] EXCEPT !.ver = NextVersion(records[i].ver),
                                     !.root = old.root, !.turn = old.turn + 1]
             recs == [records EXCEPT ![i] = s]
  <2>1. task[c].pc = "exchanging" /\ i \in Ids /\ records[i] \in Record
    BY <1>3 DEF FinishRefresh, TypeOK
  <2>2. \/ UNCHANGED store \/ SaveFails(recs)
        \/ Save(recs) /\ ~Stale(c) /\ old.turn < MaxTurn
    BY <1>3 DEF FinishRefresh
  <2>3. s.state = records[i].state /\ s.root = old.root /\ s.turn = old.turn + 1
    BY <2>1 DEF Record
  <2> HIDE DEF s
  <2>4. CASE UNCHANGED store \/ SaveFails(recs)
    BY <2>4, NotSeen DEF store, SaveFails
  <2>5. CASE Save(recs) /\ ~Stale(c) /\ old.turn < MaxTurn
    <3>1. /\ records' = [records EXCEPT ![i] = s] /\ records[i].state = "live"
          /\ records[i].root = old.root /\ records[i].turn = old.turn
      BY <2>1, <2>5, ExchangedValue DEF Save
    <3>2. /\ Held[i].root = records[i].root /\ Held[i].turn = records[i].turn
          /\ Held[i].state = "live"
      BY <2>1, <3>1, HeldFacts
    <3>3. Held' = [Held EXCEPT ![i] = [state |-> s.state, root |-> s.root, turn |-> s.turn]]
      BY <2>1, <3>1, HeldNext
    <3>4. Held' = [Held EXCEPT ![i] = Abstract!Live(Held[i].root, Held[i].turn + 1)]
      BY <2>3, <3>1, <3>2, <3>3 DEF Abstract!Live
    <3>5. Abstract!Renew(i)
      BY <2>5, <3>1, <3>2, <3>4 DEF Abstract!Renew
    <3> QED
      BY <2>1, <3>5
  <2> QED
    BY <2>2, <2>4, <2>5
<1>4. ASSUME Crash PROVE Held' = Held
  <2>1. records' = Written(records)
    BY <1>4 DEF Crash, MemoryIsDurable
  <2>2. records' = records
    BY <2>1, WrittenFacts DEF TypeOK
  <2> QED
    BY <2>2, NotSeen
<1>5. ASSUME NEW i \in Ids, NEW o \in Owners, Claim(o, i) PROVE Held' = Held
  BY <1>5 DEF Claim
<1>6. ASSUME NEW i \in Ids, TokenAges(i) \/ BackoffEnds(i) PROVE Held' = Held
  BY <1>6, NotSeen DEF TokenAges, BackoffEnds, store
<1>7. ASSUME NEW c \in Callers, NEW ok \in BOOLEAN, ExternalAnswers(c, ok) PROVE Held' = Held
  BY <1>7, NotSeen DEF ExternalAnswers, store
<1>8. ASSUME NEW c \in Callers, NEW i \in Ids, Resolve(c, i) \/ Refresh(c, i)
      PROVE  Held' = Held
  BY <1>8, NotSeen DEF Resolve, Refresh, store
<1>9. ASSUME NEW c \in Callers, ReadValue(c) \/ EnterRefresh(c) \/ Resume(c) \/ CancelWait(c)
      PROVE  Held' = Held
  BY <1>9, NotSeen DEF ReadValue, EnterRefresh, Resume, CancelWait, store
<1>10. ASSUME NEW c \in Callers, Call(c) PROVE Abstract!Next \/ Held' = Held
  BY <1>3, <1>7, <1>8, <1>9, <1>10 DEF Call, Abstract!Next
<1>11. ASSUME NEW i \in Ids, Write(i) PROVE Abstract!Next \/ Held' = Held
  BY <1>1, <1>2, <1>5, <1>11 DEF Write, Abstract!Next
<1> QED
  BY <1>4, <1>6, <1>10, <1>11 DEF Next

(* The vault of one file implements VaultSpec: replaced values never come  *)
(* back through a late renewal, deleted references stay deleted, a renewal *)
(* continues the value it started from, and crashes are never seen.        *)
THEOREM VaultKeepsItsPromises ==
  ASSUME VaultAssumption, AccountMode = FALSE
  PROVE  Spec => ImplementsVaultSpec
<1>1. Init => Abstract!Init
  BY DEF Init, Abstract!Init, Abstract!None, Held, Absent
<1>2. IInv /\ [Next]_vars => [Abstract!Next]_Held
  <2>1. ASSUME UNCHANGED vars PROVE Held' = Held
    BY <2>1, NotSeen DEF vars, store
  <2> QED
    BY <2>1, StepRefines
<1> QED
  BY <1>1, <1>2, Invariance, PTL DEF Spec, ImplementsVaultSpec, Abstract!Spec

(* "The same ID cannot be recreated after restart": a reference of the     *)
(* vault of one file that was deleted stays deleted (Delete, putRecord).   *)
THEOREM DeletedForGood ==
  ASSUME VaultAssumption, AccountMode = FALSE
  PROVE  Spec => RevokedForever
<1> DEFINE Stays == \A i \in Ids : records[i].state = "revoked" => records'[i].state = "revoked"
<1>1. ASSUME IInv, Next PROVE Stays
  <2>1. \A i \in Ids : Held[i].state = records[i].state /\ Held'[i].state = records'[i].state
    BY DEF Held
  <2>2. CASE Held' = Held
    BY <2>1, <2>2
  <2>3. CASE Abstract!Next
    <3>1. PICK i \in Ids : Abstract!Place(i) \/ Abstract!Renew(i) \/ Abstract!Revoke(i)
      BY <2>3 DEF Abstract!Next
    <3>2. Held[i].state # "revoked" /\ \E v : Held' = [Held EXCEPT ![i] = v]
      BY <3>1 DEF Abstract!Place, Abstract!Renew, Abstract!Revoke
    <3>3. \A j \in Ids \ {i} : Held'[j] = Held[j]
      BY <3>2 DEF Held
    <3> QED
      BY <2>1, <3>2, <3>3
  <2> QED
    BY <1>1, <2>2, <2>3, StepRefines
<1>2. IInv /\ [Next]_vars => [Stays]_vars
  BY <1>1
<1> QED
  BY <1>2, Invariance, PTL DEF Spec, RevokedForever

=============================================================================
