------------------------- MODULE CredentialsProofs -------------------------
(***************************************************************************)
(* Proofs about everything that keeps secrets, for any number of           *)
(* references, requests, accounts, starts and crashes: the vaults by the   *)
(* theorems of VaultProofs, the migration and the Copilot token by their   *)
(* own inductive invariants.                                               *)
(***************************************************************************)
EXTENDS Credentials, VaultProofs
-----------------------------------------------------------------------------
(* The Copilot token                                                       *)

\* The request whose channel is in refreshing is the one that exchanges;
\* who waits, waits for it or for a channel that is closed.
TokenInv ==
    /\ now \in Nat /\ expires \in Nat
    /\ refreshing \in Requests \cup {Copilot!None}
    /\ place \in [Requests -> {"idle", "again", "waiting", "exchanging", "returned", "failed"}]
    /\ waitsFor \in [Requests -> Requests \cup {Copilot!None}]
    /\ lifetime \in [Requests -> Nat]
    /\ \A r \in Requests : place[r] = "exchanging" <=> refreshing = r
    /\ \A r \in Requests : place[r] = "waiting" =>
         /\ waitsFor[r] \in Requests
         /\ waitsFor[r] \in closed \/ place[waitsFor[r]] = "exchanging"

(* Every step of the token keeps its invariant and takes a current token.  *)
LEMMA TokenStep ==
  ASSUME Copilot!TokenAssumption, TokenInv, Copilot!Next
  PROVE  TokenInv' /\ Copilot!TakesCurrent
<1> USE DEF Copilot!TokenAssumption
<1>1. ASSUME NEW r \in Requests, Copilot!Look(r) PROVE TokenInv' /\ Copilot!TakesCurrent
  <2>1. CASE Copilot!Current
    <3>1. /\ expires \in Nat /\ now < expires /\ place[r] \in {"idle", "again"}
          /\ lifetime' = [lifetime EXCEPT ![r] = expires]
          /\ place' = [place EXCEPT ![r] = "returned"]
          /\ UNCHANGED <<refreshing, waitsFor, now, expires, closed, canceled>>
      BY <1>1, <2>1 DEF Copilot!Look, Copilot!Current, Copilot!To, TokenInv
    <3> QED
      BY <3>1 DEF TokenInv, Copilot!TakesCurrent
  <2>2. CASE ~Copilot!Current /\ ~Copilot!Unowned
    <3>1. /\ refreshing \in Requests /\ place[refreshing] = "exchanging"
          /\ place[r] \in {"idle", "again"}
          /\ waitsFor' = [waitsFor EXCEPT ![r] = refreshing]
          /\ place' = [place EXCEPT ![r] = "waiting"]
          /\ UNCHANGED <<refreshing, lifetime, now, expires, closed, canceled>>
      BY <1>1, <2>2 DEF Copilot!Look, Copilot!Unowned, Copilot!To, TokenInv
    <3> QED
      BY <3>1 DEF TokenInv, Copilot!TakesCurrent
  <2>3. CASE ~Copilot!Current /\ Copilot!Unowned
    <3>1. /\ refreshing = Copilot!None /\ refreshing' = r
          /\ place[r] \in {"idle", "again"} /\ place' = [place EXCEPT ![r] = "exchanging"]
          /\ UNCHANGED <<waitsFor, lifetime, now, expires, closed, canceled>>
      BY <1>1, <2>3 DEF Copilot!Look, Copilot!Unowned, Copilot!To
    <3> QED
      BY <3>1 DEF TokenInv, Copilot!TakesCurrent
  <2> QED
    BY <2>1, <2>2, <2>3
<1>2. ASSUME NEW r \in Requests, Copilot!Wake(r) PROVE TokenInv' /\ Copilot!TakesCurrent
  <2>1. /\ place[r] = "waiting"
        /\ place' = [place EXCEPT ![r] = "again"] \/ place' = [place EXCEPT ![r] = "failed"]
        /\ UNCHANGED <<now, expires, refreshing, closed, waitsFor, lifetime, canceled>>
    BY <1>2 DEF Copilot!Wake, Copilot!To
  <2> QED
    BY <2>1 DEF TokenInv, Copilot!TakesCurrent
<1>3. ASSUME NEW r \in Requests, Copilot!Exchanged(r) PROVE TokenInv' /\ Copilot!TakesCurrent
  <2>1. /\ place[r] = "exchanging" /\ refreshing = r
        /\ closed' = closed \cup {r} /\ refreshing' = Copilot!None
        /\ UNCHANGED <<now, waitsFor, canceled>>
    BY <1>3 DEF Copilot!Exchanged, Copilot!Announce, TokenInv
  <2>2. CASE place' = [place EXCEPT ![r] = "failed"] /\ UNCHANGED <<expires, lifetime>>
    BY <2>1, <2>2 DEF TokenInv, Copilot!TakesCurrent
  <2>3. ASSUME NEW life \in 1..2, expires' = now + life,
               lifetime' = [lifetime EXCEPT ![r] = now + life],
               place' = [place EXCEPT ![r] = "returned"]
        PROVE  TokenInv' /\ Copilot!TakesCurrent
    BY <2>1, <2>3 DEF TokenInv, Copilot!TakesCurrent
  <2> QED
    BY <1>3, <2>2, <2>3 DEF Copilot!Exchanged, Copilot!To
<1>4. ASSUME NEW r \in Requests, Copilot!Cancel(r) PROVE TokenInv' /\ Copilot!TakesCurrent
  BY <1>4 DEF Copilot!Cancel, TokenInv, Copilot!TakesCurrent
<1>5. CASE Copilot!Tick
  BY <1>5 DEF Copilot!Tick, TokenInv, Copilot!TakesCurrent
<1> QED
  BY <1>1, <1>2, <1>3, <1>4, <1>5 DEF Copilot!Next

(* At most one exchange runs, for one request is in refreshing.            *)
LEMMA TokenExchanges ==
  ASSUME TokenInv
  PROVE  Copilot!OneExchangeAtATime
BY DEF Copilot!OneExchangeAtATime, TokenInv

(* The token is exchanged by one request at a time, and taken in its time. *)
LEMMA TokenIsShared ==
  ASSUME Copilot!TokenAssumption
  PROVE  Copilot!Spec => []Copilot!OneExchangeAtATime /\ Copilot!NeverStale
<1>1. Copilot!Init => TokenInv
  BY DEF Copilot!Init, TokenInv, Copilot!TokenAssumption
<1>2. TokenInv /\ [Copilot!Next]_(Copilot!vars)
        => TokenInv' /\ [Copilot!TakesCurrent]_(Copilot!vars)
  <2>1. ASSUME TokenInv, UNCHANGED Copilot!vars PROVE TokenInv'
    BY <2>1 DEF TokenInv, Copilot!vars
  <2> QED
    BY <2>1, TokenStep
<1>3. TokenInv => Copilot!OneExchangeAtATime
  BY TokenExchanges
<1> QED
  BY <1>1, <1>2, <1>3, PTL DEF Copilot!Spec, Copilot!NeverStale
-----------------------------------------------------------------------------
(* The migration                                                           *)

Material == [Refs -> Nat]

\* Until the new file exists, the old one is untouched and has all that the
\* configuration refers to; from then on the new file has the latest.  What
\* a start holds in memory is, before it serves, what it is about to write.
MigrationInv ==
    /\ phase \in {"down", "opened", "written", "verified", "serving"}
    /\ original \in Material /\ newest \in Material /\ opened \in Material
    /\ bound \subseteq Migration!Has(newest)
    /\ accounts = Missing =>
         /\ newest = Migration!Only(original, bound) /\ bound \subseteq Migration!Has(original)
         /\ legacy = original \/ (legacy = Missing /\ original = Migration!Empty)
    /\ accounts # Missing => accounts = newest
    /\ legacy \in {original, Missing}
    /\ original # Migration!Empty => legacy = original \/ original \in backups
    /\ phase = "opened" => accounts = Missing /\ opened = original
    /\ phase = "written" => accounts = Migration!Only(opened, bound) /\ accounts # Missing
    /\ phase \in {"verified", "serving"} => opened = accounts /\ accounts # Missing

(* What part of the material keeps                                         *)
LEMMA OnlyFacts ==
  ASSUME NEW m \in Material, NEW refs \in SUBSET Refs
  PROVE  /\ Migration!Only(m, refs) \in Material
         /\ refs \subseteq Migration!Has(m)
              => refs \subseteq Migration!Has(Migration!Only(m, refs))
BY DEF Migration!Only, Migration!Has, Material

(* Every step of the migration, and of the store it serves, keeps it.      *)
LEMMA MigrationStep ==
  ASSUME Migration!MigrationAssumption, MigrationInv, Migration!Next
  PROVE  MigrationInv'
<1>1. /\ Missing \notin Material /\ Migration!Empty \in Material
      /\ bound \in SUBSET Refs /\ original # Missing
  BY DEF Migration!MigrationAssumption, Material, Migration!Empty, MigrationInv, Migration!Has
<1>2. CASE Migration!Start
  <2>1. CASE accounts # Missing
    <3>1. /\ phase' = "serving" /\ opened' = accounts
          /\ UNCHANGED <<original, bound, legacy, accounts, backups, newest>>
      BY <1>2, <2>1 DEF Migration!Start, Migration!Migrated, Migration!files
    <3> QED
      BY <1>1, <2>1, <3>1 DEF MigrationInv, Migration!Has, Migration!Only
  <2>2. CASE accounts = Missing
    <3>1. UNCHANGED <<original, bound, legacy, accounts, backups, newest>>
      BY <1>2 DEF Migration!Start, Migration!files
    <3>2. (IF legacy = Missing THEN Migration!Empty ELSE legacy) = original
      BY <1>1, <2>2 DEF MigrationInv
    <3>3. phase' = "opened" /\ opened' = original
      BY <1>2, <2>2, <3>2 DEF Migration!Start, Migration!Migrated, MigrationInv
    <3> QED
      BY <1>1, <2>2, <3>1, <3>3 DEF MigrationInv, Migration!Has, Migration!Only
  <2> QED
    BY <2>1, <2>2
<1>3. CASE Migration!WriteAccounts
  <2>1. /\ phase = "opened" /\ accounts = Missing /\ opened = original
        /\ UNCHANGED <<original, bound, legacy, backups, opened, newest>>
    BY <1>3 DEF Migration!WriteAccounts, MigrationInv
  <2>2. Migration!Only(opened, bound) = newest /\ newest # Missing
    BY <1>1, <2>1 DEF MigrationInv
  <2>3. CASE phase' = "written" /\ accounts' = Migration!Only(opened, bound)
    <3>1. /\ accounts' = newest /\ accounts' # Missing
          /\ Migration!Only(opened, bound)' = Migration!Only(opened, bound)
      BY <2>1, <2>2, <2>3
    <3> QED
      BY <1>1, <2>1, <2>2, <2>3, <3>1 DEF MigrationInv, Migration!Has
  <2>4. CASE phase' = "down" /\ UNCHANGED accounts
    BY <2>1, <2>4 DEF MigrationInv, Migration!Has, Migration!Only
  <2> QED
    BY <1>3, <2>3, <2>4 DEF Migration!WriteAccounts
<1>4. CASE Migration!Verify
  <2>1. /\ phase = "written" /\ accounts = newest /\ accounts # Missing
        /\ phase' = "verified" /\ opened' = accounts
        /\ UNCHANGED <<original, bound, legacy, accounts, backups, newest>>
    BY <1>4 DEF Migration!Verify, Migration!ReadBack, MigrationInv, Migration!files
  <2> QED
    BY <2>1 DEF MigrationInv, Migration!Has, Migration!Only
<1>5. CASE Migration!Archive
  <2>1. /\ phase = "verified" /\ accounts # Missing /\ opened = accounts
        /\ UNCHANGED <<original, bound, accounts, opened, newest>>
    BY <1>5 DEF Migration!Archive, MigrationInv
  <2>2. CASE phase' = "serving" /\ legacy' = Missing /\ backups' = backups \cup Migration!Copy
    <3>1. original # Migration!Empty => original \in backups'
      BY <1>1, <2>2 DEF Migration!Copy, MigrationInv
    <3> QED
      BY <2>1, <2>2, <3>1 DEF MigrationInv, Migration!Has
  <2>3. CASE phase' = "down" /\ UNCHANGED <<legacy, backups>>
    BY <2>1, <2>3 DEF MigrationInv, Migration!Has
  <2> QED
    BY <1>5, <2>2, <2>3 DEF Migration!Archive
<1>6. CASE Migration!Stop
  BY <1>1, <1>6 DEF Migration!Stop, Migration!files, MigrationInv, Migration!Has, Migration!Only
<1>7. ASSUME NEW r \in Refs, Migration!PutMaterial(r) PROVE MigrationInv'
  <2>1. /\ phase = "serving" /\ opened = newest /\ accounts # Missing /\ phase' = phase
        /\ opened' = [newest EXCEPT ![r] = newest[r] + 1]
        /\ newest' = opened' /\ accounts' = opened' /\ bound' = bound \cup {r}
        /\ UNCHANGED <<original, legacy, backups>>
    BY <1>7 DEF Migration!PutMaterial, MigrationInv
  <2>2. opened' \in Material /\ opened' # Missing
    BY <1>1, <2>1 DEF MigrationInv, Material
  <2>3. bound' \subseteq Migration!Has(newest')
    BY <2>1 DEF MigrationInv, Material, Migration!Has
  <2>4. bound' \subseteq Migration!Has(newest)'
    BY <2>3 DEF Migration!Has
  <2> QED
    BY <2>1, <2>2, <2>4 DEF MigrationInv
<1>8. ASSUME NEW r \in Refs, Migration!DeleteMaterial(r) PROVE MigrationInv'
  <2>1. /\ phase = "serving" /\ opened = newest /\ accounts # Missing /\ phase' = phase
        /\ opened' = [newest EXCEPT ![r] = 0]
        /\ newest' = opened' /\ accounts' = opened' /\ bound' = bound \ {r}
        /\ UNCHANGED <<original, legacy, backups>>
    BY <1>8 DEF Migration!DeleteMaterial, MigrationInv
  <2>2. opened' \in Material /\ opened' # Missing
    BY <1>1, <2>1 DEF MigrationInv, Material
  <2>3. bound' \subseteq Migration!Has(newest')
    BY <2>1 DEF MigrationInv, Material, Migration!Has
  <2>4. bound' \subseteq Migration!Has(newest)'
    BY <2>3 DEF Migration!Has
  <2> QED
    BY <2>1, <2>2, <2>4 DEF MigrationInv
<1> QED
  BY <1>2, <1>3, <1>4, <1>5, <1>6, <1>7, <1>8 DEF Migration!Next

(* The migration loses nothing, wherever its starts were interrupted.      *)
LEMMA NothingIsLost ==
  ASSUME Migration!MigrationAssumption
  PROVE  Migration!Spec => [](Migration!LatestServed /\ Migration!RecoveryCopyKept)
<1>1. Migration!Init => MigrationInv
  <2> SUFFICES ASSUME Migration!Init PROVE MigrationInv
    OBVIOUS
  <2>1. /\ original \in Material /\ Migration!Empty \in Material /\ bound \in SUBSET Refs
        /\ bound \subseteq Migration!Has(original)
    BY DEF Migration!Init, Material, Migration!Empty, Migration!Has
  <2>2. newest \in Material /\ bound \subseteq Migration!Has(newest)
    BY <2>1, OnlyFacts DEF Migration!Init
  <2> QED
    BY <2>1, <2>2 DEF Migration!Init, MigrationInv
<1>2. MigrationInv /\ [Migration!Next]_(Migration!vars) => MigrationInv'
  <2>1. ASSUME MigrationInv, UNCHANGED Migration!vars PROVE MigrationInv'
    BY <2>1 DEF MigrationInv, Migration!vars, Migration!files, Migration!Has, Migration!Only
  <2> QED
    BY <2>1, MigrationStep
<1>3. MigrationInv => Migration!LatestServed /\ Migration!RecoveryCopyKept
  BY DEF MigrationInv, Migration!LatestServed, Migration!RecoveryCopyKept
<1> QED
  BY <1>1, <1>2, <1>3, PTL DEF Migration!Spec
-----------------------------------------------------------------------------
(* Theorems                                                                *)

AccountProofs == INSTANCE VaultProofs WITH
    Ids <- AccountIds, Callers <- AccountCallers, Owners <- AccountOwners, AccountMode <- TRUE,
    Kinds <- AccountKinds, MaxTurn <- AccountTurns,
    records <- accRecords, owners <- accOwners, flights <- accFlights, backoff <- accBackoff,
    due <- accDue, key <- accKey, disk <- accDisk, keychain <- accKeychain, stamp <- accStamp,
    crashes <- accCrashes, task <- accTask, seen <- accSeen, got <- accGot

(* A secret is renewed by one request at a time and nobody is left waiting *)
(* for a renewal that does not run; who found a token expiring gets        *)
(* another one (ResolveContext, refreshOAuth, copilotToken.get).           *)
THEOREM SecretsAreRenewedOnce ==
  ASSUME VaultAssumption, Copilot!TokenAssumption
  PROVE  Spec /\ Copilot!Spec => RenewedOnce
<1>1. [Copilot!TakesCurrent]_(Copilot!vars) => [Copilot!TakesCurrent]_copilot
  BY DEF Copilot!vars, copilot
<1> QED
  BY <1>1, ExchangedOnce, TokenIsShared, PTL DEF RenewedOnce, Copilot!NeverStale

(* An account keeps its material, over the migration from the old vault,   *)
(* over crashes and failed writes, and against other accounts              *)
(* (OpenProviderAccounts, save, PutAccount, AdoptAccount).                 *)
THEOREM MaterialIsKept ==
  ASSUME Accounts!VaultAssumption, Migration!MigrationAssumption
  PROVE  Accounts!Spec /\ Migration!Spec => AccountsKeepMaterial
<1>1. Accounts!VaultAssumption <=> AccountProofs!VaultAssumption
  BY DEF Accounts!VaultAssumption, AccountProofs!VaultAssumption, Accounts!IsFiniteSet,
         AccountProofs!IsFiniteSet
<1>2. Accounts!Init <=> AccountProofs!Init
  BY DEF Accounts!Init, AccountProofs!Init, Accounts!vars, AccountProofs!vars,
         Accounts!store, AccountProofs!store, Accounts!calls, AccountProofs!calls,
         Accounts!Absent, AccountProofs!Absent, Accounts!Idle, AccountProofs!Idle,
         Accounts!NoValue, AccountProofs!NoValue
<1>3. Accounts!Next <=> AccountProofs!Next
  BY DEF Accounts!store, AccountProofs!store, Accounts!calls, AccountProofs!calls,
         Accounts!Absent, AccountProofs!Absent, Accounts!Tombstone, AccountProofs!Tombstone,
         Accounts!IsLive, AccountProofs!IsLive, Accounts!HasGrant, AccountProofs!HasGrant,
         Accounts!ValueOf, AccountProofs!ValueOf, Accounts!NoValue, AccountProofs!NoValue,
         Accounts!Idle, AccountProofs!Idle, Accounts!At, AccountProofs!At, Accounts!Written,
         AccountProofs!Written, Accounts!Owned, AccountProofs!Owned, Accounts!OwnersOf,
         AccountProofs!OwnersOf, Accounts!SealKey, AccountProofs!SealKey,
         Accounts!KeyStored, AccountProofs!KeyStored, Accounts!Save, AccountProofs!Save,
         Accounts!SaveFails, AccountProofs!SaveFails, Accounts!NextVersion,
         AccountProofs!NextVersion, Accounts!Put, AccountProofs!Put, Accounts!Revocation,
         AccountProofs!Revocation, Accounts!Delete, AccountProofs!Delete, Accounts!MayClaim,
         AccountProofs!MayClaim, Accounts!Claim, AccountProofs!Claim, Accounts!Begin,
         AccountProofs!Begin, Accounts!ReturnTo, AccountProofs!ReturnTo, Accounts!Resolve,
         AccountProofs!Resolve, Accounts!ExternalAnswers, AccountProofs!ExternalAnswers,
         Accounts!ReadValue, AccountProofs!ReadValue, Accounts!Refresh,
         AccountProofs!Refresh, Accounts!AfterRenewal, AccountProofs!AfterRenewal,
         Accounts!InFlight, AccountProofs!InFlight, Accounts!EnterRefresh,
         AccountProofs!EnterRefresh, Accounts!Land, AccountProofs!Land, Accounts!LandStale,
         AccountProofs!LandStale, Accounts!Stale, AccountProofs!Stale,
         Accounts!FinishRefresh, AccountProofs!FinishRefresh, Accounts!ResumesWell,
         AccountProofs!ResumesWell, Accounts!Resume, AccountProofs!Resume,
         Accounts!CancelWait, AccountProofs!CancelWait, Accounts!TokenAges,
         AccountProofs!TokenAges, Accounts!BackoffEnds, AccountProofs!BackoffEnds,
         Accounts!Crash, AccountProofs!Crash, Accounts!Write, AccountProofs!Write,
         Accounts!Call, AccountProofs!Call, Accounts!Next, AccountProofs!Next
<1>4. Accounts!RestartLosesNothing <=> AccountProofs!RestartLosesNothing
  BY DEF Accounts!RestartLosesNothing, AccountProofs!RestartLosesNothing, Accounts!TypeOK,
         AccountProofs!TypeOK, Accounts!MemoryIsDurable, AccountProofs!MemoryIsDurable,
         Accounts!FileCanBeOpened, AccountProofs!FileCanBeOpened, Accounts!Record,
         AccountProofs!Record, Accounts!Value, AccountProofs!Value, Accounts!Written,
         AccountProofs!Written, Accounts!Absent, AccountProofs!Absent
<1>5. AccountProofs!Spec => []AccountProofs!RestartLosesNothing
  BY <1>1, AccountProofs!StoreIsDurable
<1>6. AccountProofs!Spec => AccountProofs!OwnerKept
  BY <1>1, AccountProofs!OwnersKeepMaterial
<1>7. [AccountProofs!KeepsOwner]_(AccountProofs!vars) => [Accounts!KeepsOwner]_accountVault
  BY DEF Accounts!KeepsOwner, AccountProofs!KeepsOwner, Accounts!IsLive,
         AccountProofs!IsLive, Accounts!vars, AccountProofs!vars, Accounts!store,
         AccountProofs!store, Accounts!calls, AccountProofs!calls, accountVault
<1>8. [Accounts!Next]_(Accounts!vars) => [AccountProofs!Next]_(AccountProofs!vars)
  BY <1>3
     DEF Accounts!vars, AccountProofs!vars, Accounts!store, AccountProofs!store,
         Accounts!calls, AccountProofs!calls
<1>9. Accounts!Spec => AccountProofs!Spec
  BY <1>2, <1>8, PTL DEF Accounts!Spec, AccountProofs!Spec
<1>10. Accounts!Spec => []Accounts!RestartLosesNothing
  BY <1>4, <1>5, <1>9, PTL
<1>11. Accounts!Spec => [][Accounts!KeepsOwner]_accountVault
  BY <1>6, <1>7, <1>9, PTL DEF AccountProofs!OwnerKept
<1> QED
  BY <1>10, <1>11, NothingIsLost, PTL DEF AccountsKeepMaterial
=============================================================================
