-------------------------- MODULE AccountMigration --------------------------
(***************************************************************************)
(* OpenProviderAccounts (internal/credentials/accounts.go): the start-up   *)
(* step that moves the material accounts refer to from the old vault file  *)
(* to the file of provider accounts, and archives the old one.  It reads   *)
(* and writes two files and can be interrupted anywhere; the next start    *)
(* decides by what it finds.  A file says which version of the material it *)
(* has for each reference; 0 is none.                                      *)
(***************************************************************************)
EXTENDS Naturals

CONSTANTS
    Refs,           \* references
    Missing,        \* no such file
    MaxStarts,      \* bound: starts of the process
    MaxVersion      \* bound: versions of the material of a reference

\* What the instances satisfy
MigrationAssumption ==
    MaxStarts \in Nat /\ MaxVersion \in Nat /\ Missing \notin [Refs -> Nat]

VARIABLES
    pc,         \* where OpenProviderAccounts is
    original,   \* what the old vault held before the first start
    bound,      \* what the configuration refers to
    legacy,     \* credentials.vault
    accounts,   \* provider-accounts.enc
    backups,    \* archived copies of credentials.vault
    records,    \* the records of the open store
    newest,     \* history: the version stored last, 0 once it was newest
    starts

files == <<legacy, accounts, backups>>
vars == <<pc, original, bound, files, records, newest, starts>>

Empty == [r \in Refs |-> 0]
Has(material) == {r \in Refs : material[r] # 0}
Only(material, refs) == [r \in Refs |-> IF r \in refs THEN material[r] ELSE 0]

-----------------------------------------------------------------------------

\* The new file is read if it exists; only otherwise is there a migration.
Migrated == accounts # Missing

Start ==
    /\ pc = "down" /\ starts < MaxStarts
    /\ starts' = starts + 1
    /\ IF Migrated
       THEN pc' = "serving" /\ records' = accounts
       ELSE LET old == IF legacy = Missing THEN Empty ELSE legacy
            IN IF bound \subseteq Has(old)
               THEN pc' = "opened" /\ records' = old
               ELSE pc' = "down" /\ UNCHANGED records      \* missing legacy material
    /\ UNCHANGED <<original, bound, files, newest>>

\* save(kept)
WriteAccounts ==
    /\ pc = "opened"
    /\ \/ pc' = "written" /\ accounts' = Only(records, bound)
       \/ pc' = "down" /\ UNCHANGED accounts
    /\ UNCHANGED <<original, bound, legacy, backups, records, newest, starts>>

\* Faulty variant: the store of the old file is served.
Imported == records

\* What is served from then on is what was read back.
ReadBack == accounts

\* The new file is read back and compared.
Verify ==
    /\ pc = "written"
    /\ pc' = IF accounts = Only(records, bound) THEN "verified" ELSE "down"
    /\ records' = ReadBack
    /\ UNCHANGED <<original, bound, files, newest, starts>>

Copy == IF legacy = Missing THEN {} ELSE {legacy}

\* The old file is renamed; if that fails the process does not start.
Archive ==
    /\ pc = "verified"
    /\ \/ /\ pc' = "serving"
          /\ legacy' = Missing
          /\ backups' = backups \cup Copy
       \/ /\ legacy # Missing
          /\ pc' = "down"
          /\ UNCHANGED <<legacy, backups>>
    /\ UNCHANGED <<original, bound, accounts, records, newest, starts>>

\* The process ends, or dies, at any moment.
Stop ==
    /\ pc # "down"
    /\ pc' = "down"
    /\ records' = Empty
    /\ UNCHANGED <<original, bound, files, newest, starts>>

-----------------------------------------------------------------------------
(* The served store                                                        *)

PutMaterial(r) ==
    /\ pc = "serving" /\ records[r] < MaxVersion
    /\ records' = [records EXCEPT ![r] = newest[r] + 1]
    /\ newest' = records'
    /\ accounts' = records'
    /\ bound' = bound \cup {r}
    /\ UNCHANGED <<pc, original, legacy, backups, starts>>

\* A reference is deleted once nothing refers to it.
DeleteMaterial(r) ==
    /\ pc = "serving" /\ records[r] # 0
    /\ records' = [records EXCEPT ![r] = 0]
    /\ newest' = records'
    /\ accounts' = records'
    /\ bound' = bound \ {r}
    /\ UNCHANGED <<pc, original, legacy, backups, starts>>

-----------------------------------------------------------------------------

Init ==
    /\ pc = "down"
    /\ original \in [Refs -> {0, 1}]
    /\ bound \in SUBSET Has(original)
    /\ legacy \in {original} \cup (IF original = Empty THEN {Missing} ELSE {})
    /\ accounts = Missing
    /\ backups = {} /\ records = Empty /\ newest = Only(original, bound) /\ starts = 0

Next ==
    \/ Start \/ WriteAccounts \/ Verify \/ Archive \/ Stop
    \/ \E r \in Refs : PutMaterial(r) \/ DeleteMaterial(r)

Spec == Init /\ [][Next]_vars

-----------------------------------------------------------------------------
(* Properties                                                              *)

(* Whenever the process serves, the store has the latest version of all    *)
(* the material the configuration refers to, and nothing that was deleted, *)
(* wherever earlier starts were interrupted and although the old file may  *)
(* still be there.                                                         *)
LatestServed == pc = "serving" => records = newest /\ bound \subseteq Has(records)

(* The old vault survives as a whole, in place or as an archived copy:     *)
(* unmatched legacy imports are never lost.                                *)
RecoveryCopyKept == original # Empty => legacy = original \/ original \in backups
=============================================================================
