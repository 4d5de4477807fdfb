--------------------------- MODULE MCCredentials ---------------------------
(***************************************************************************)
(* Everything that keeps secrets, for TLC: the vault of one file, the      *)
(* vault of provider accounts, the migration between them, and the Copilot *)
(* token made from a secret.  They share no state, so one run explores     *)
(* them side by side: part says which one a behaviour is about, and the    *)
(* others stay in an initial state.  The vault of one file is Vault        *)
(* itself, with one reference and two callers.                             *)
(***************************************************************************)
EXTENDS Credentials

VARIABLE part

ASSUME CredentialsAssumption ==
    /\ VaultAssumption /\ Accounts!VaultAssumption
    /\ Migration!MigrationAssumption /\ Copilot!TokenAssumption

all == <<part, vars, accountVault, migration, copilot>>

-----------------------------------------------------------------------------

MCInit ==
    /\ part \in {"store", "accounts", "migration", "copilot"}
    /\ Init /\ Accounts!Init /\ Migration!Init /\ Copilot!Init
    /\ part # "migration" => original = Migration!Empty /\ legacy = Missing

Step ==
    \/ part = "store" /\ Next /\ UNCHANGED <<accountVault, migration, copilot>>
    \/ part = "accounts" /\ Accounts!Next /\ UNCHANGED <<vars, migration, copilot>>
    \/ part = "migration" /\ Migration!Next /\ UNCHANGED <<vars, accountVault, copilot>>
    \/ part = "copilot" /\ Copilot!Next /\ UNCHANGED <<vars, accountVault, migration>>

MCNext == Step /\ UNCHANGED part

\* The fairness of the components
Fairness ==
    /\ \A c \in Callers :
         WF_all(part = "store" /\ Proceed(c) /\ UNCHANGED <<part, accountVault, migration, copilot>>)
    /\ \A q \in Requests :
         WF_all(/\ part = "copilot" /\ Copilot!Proceed(q)
                /\ UNCHANGED <<part, vars, accountVault, migration>>)

MCSpec == MCInit /\ [][MCNext]_all /\ Fairness

-----------------------------------------------------------------------------
(* Properties: RestartLosesNothing and ImplementsVaultSpec of Vault,       *)
(* RenewedOnce and AccountsKeepMaterial of Credentials, and                *)

(* Every resolution and refresh returns, also one that waits for a flight  *)
(* whose credential is replaced or deleted (Refresh); and so does every    *)
(* request for the Copilot token, although any exchange may fail and any   *)
(* owner may be canceled (copilotToken.get).                               *)
EveryCallReturns == CallsReturn /\ (part = "copilot" => Copilot!RequestsEnd)
=============================================================================
