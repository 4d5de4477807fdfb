---------------------------- MODULE Credentials ----------------------------
(***************************************************************************)
(* Everything that keeps secrets: the vault of one file (Vault), the vault *)
(* of provider accounts (Vault again, in account mode), the migration      *)
(* between them at start-up (AccountMigration), and the Copilot token made *)
(* from a secret (CopilotToken).  They share no state; what is promised of *)
(* them together is stated here.                                           *)
(***************************************************************************)
EXTENDS Vault

CONSTANTS
    AccountIds, AccountCallers, AccountOwners, AccountKinds, AccountTurns,
    Refs, Missing, MaxStarts, MaxVersion,
    Requests, MaxTime

VARIABLES
    accRecords, accOwners, accFlights, accBackoff, accDue, accKey, accDisk, accKeychain,
    accStamp, accCrashes, accTask, accSeen, accGot,
    phase, original, bound, legacy, accounts, backups, opened, newest, starts,
    now, expires, refreshing, closed, place, waitsFor, lifetime, canceled

Accounts == INSTANCE Vault WITH
    Ids <- AccountIds, Callers <- AccountCallers, Owners <- AccountOwners, AccountMode <- TRUE,
    Kinds <- AccountKinds, MaxTurn <- AccountTurns,
    records <- accRecords, owners <- accOwners, flights <- accFlights, backoff <- accBackoff,
    due <- accDue, key <- accKey, disk <- accDisk, keychain <- accKeychain, stamp <- accStamp,
    crashes <- accCrashes, task <- accTask, seen <- accSeen, got <- accGot

Migration == INSTANCE AccountMigration WITH pc <- phase, records <- opened

Copilot == INSTANCE CopilotToken WITH pc <- place, got <- lifetime

accountVault == <<accRecords, accOwners, accFlights, accBackoff, accDue, accKey, accDisk,
                  accKeychain, accStamp, accCrashes, accTask, accSeen, accGot>>
migration == <<phase, original, bound, legacy, accounts, backups, opened, newest, starts>>
copilot == <<now, expires, refreshing, closed, place, waitsFor, lifetime, canceled>>

-----------------------------------------------------------------------------
(* Properties                                                              *)

(* A grant is exchanged by one request at a time, and requests wait only   *)
(* for an exchange that runs or has announced its end.  Who found a token  *)
(* about to expire returns another one or an error, whoever renewed it     *)
(* (Resolve, Refresh, copilotToken.get).                                   *)
RenewedOnce ==
    /\ [](OneExchange /\ NeverReturnsExpired)
    /\ []Copilot!OneExchangeAtATime
    /\ [][Copilot!TakesCurrent]_copilot

(* An account keeps its material: whenever the process serves, the store   *)
(* has the latest of all bound references, wherever earlier starts were    *)
(* interrupted, and the old vault survives as a whole, in place or         *)
(* archived (OpenProviderAccounts); what the accounts' file holds is what  *)
(* requests see, whichever writes failed half-way (save); and no other     *)
(* account takes material over while it exists (PutAccount).               *)
AccountsKeepMaterial ==
    /\ [](Migration!LatestServed /\ Migration!RecoveryCopyKept /\ Accounts!RestartLosesNothing)
    /\ [][Accounts!KeepsOwner]_accountVault
=============================================================================
