----------------------------- MODULE Operations -----------------------------
(***************************************************************************)
(* The background operations of the control plane: the table of jobs       *)
(* (ManagementJobs) and beside it the scan of a browser's sessions         *)
(* (LoginBatch).  They meet only in the configuration's version, which     *)
(* each lets others change at any time.                                    *)
(***************************************************************************)
EXTENDS ManagementJobs

CONSTANTS LastSite, Unsupported, BrowserMode, MaxTickets, MaxForeign, MaxCrashes

VARIABLES
    view, ticket, valid, approved, stopped, disk, revision, bound, vault, made, place, live,
    canceled, expected, site, found, terminal, stored, tickets, changes, crashes, started, void

Scan == INSTANCE LoginBatch WITH
    MaxChanges <- MaxForeign, pc <- place, closed <- stopped

scan == <<view, ticket, valid, approved, stopped, disk, revision, bound, vault, made, place, live,
          canceled, expected, site, found, terminal, stored, tickets, changes, crashes, started,
          void>>

(* A scan is said to run exactly while one goroutine runs it, and started  *)
(* by one confirmation.  What the history on disk says was saved has been  *)
(* stored, and an account that a scan stored refers to material that is in *)
(* the vault, whatever fails and whenever the process dies (confirm,       *)
(* runLoginBatch, saveScannedSession, load).                               *)
ScansAreTrue == Scan!ScansAreTrue
=============================================================================
