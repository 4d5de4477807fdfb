----------------------------- MODULE LoginBatch -----------------------------
(***************************************************************************)
(* The scan of an existing browser's sessions                              *)
(* (internal/api/browser_login_batch.go, login_scan_store.go): a preview   *)
(* hands out a ticket, a confirmation starts one goroutine that visits     *)
(* site after site, stores what it finds, and keeps a history on disk.     *)
(*                                                                         *)
(* Each critical section of loginBatchQueue.mu is one action; so is the    *)
(* commit of a site under p.changes.  The process may die anywhere.        *)
(***************************************************************************)
EXTENDS Naturals

CONSTANTS
    LastSite,       \* the number of sites
    Unsupported,    \* sites without a collector
    BrowserMode,    \* sites whose account is the browser profile: no material
    MaxTickets,     \* bound: previews
    MaxChanges,     \* bound: configuration changes by others
    MaxCrashes      \* bound: crashes

\* What the instances satisfy
BatchAssumption ==
    /\ LastSite \in Nat
    /\ Unsupported \subseteq 1..LastSite /\ BrowserMode \subseteq 1..LastSite
    /\ MaxTickets \in Nat /\ MaxChanges \in Nat /\ MaxCrashes \in Nat

VARIABLES
    view,       \* q.view: state of the scan and of its sites
    ticket,     \* q.ticket, 0 if empty
    valid,      \* the ticket is not older than five minutes
    approved,   \* q.version
    closed,     \* q.closed
    disk,       \* the history file
    revision,   \* the revision of the configuration
    bound,      \* the material each scanned account refers to, 0 without account
    vault,      \* the material in the vault
    made,       \* material created so far
    pc,         \* where the goroutine is
    live,       \* goroutines that run a scan
    canceled,   \* its context is done
    expected,   \* the version the goroutine expects
    site,       \* the site it is at
    found,      \* what it found there
    terminal,   \* how it will say it ended
    stored,     \* sites whose account was stored, in this scan
    tickets, changes, crashes,      \* previews, foreign changes, crashes so far
    started,    \* history: tickets that started a scan
    void        \* history: tickets that were canceled or replaced, expired or lost

Sites == 1..LastSite

queue == <<view, ticket, valid, approved, closed>>
worker == <<pc, live, canceled, expected, site, found, terminal, stored>>
ledger == <<tickets, changes, crashes, started, void>>
store == <<revision, bound, vault, made>>
vars == <<queue, disk, store, worker, ledger>>

\* operationVersion(): the revision and what the vault lists
version == <<revision, vault>>

Open == {"queued", "running"}
Fresh == [i \in Sites |-> IF i \in Unsupported THEN "unsupported" ELSE "queued"]
Closing(sites) == [i \in Sites |-> IF sites[i] \in Open THEN "not_attempted" ELSE sites[i]]

\* q.save: it works or it fails.
SaveHistory(v, ok) == disk' = IF ok THEN v ELSE disk

-----------------------------------------------------------------------------
(* Requests                                                                *)

NotRunning == view.state # "running"

Preview ==
    /\ pc # "down" /\ ~closed /\ NotRunning /\ tickets < MaxTickets
    /\ tickets' = tickets + 1
    /\ ticket' = tickets'
    /\ valid' = TRUE
    /\ approved' = version
    /\ view' = [state |-> "preview", sites |-> Fresh]
    /\ void' = IF ticket = 0 THEN void ELSE void \cup {ticket}
    /\ UNCHANGED <<closed, disk, store, worker, changes, crashes, started>>

TicketSpent == 0

\* The confirmation: the ticket is spent before the history is saved, and
\* without a history no scan is started.
Confirm(t, ok) ==
    /\ pc # "down" /\ ~closed /\ NotRunning
    /\ t # 0 /\ t = ticket /\ valid /\ approved = version
    /\ ticket' = TicketSpent
    /\ started' = started \cup {t}
    /\ SaveHistory([view EXCEPT !.state = "running"], ok)
    /\ IF ok
       THEN /\ view' = [view EXCEPT !.state = "running"]
            /\ pc' = "begin" /\ live' = live + 1 /\ canceled' = FALSE
            /\ expected' = approved /\ site' = 1 /\ found' = "nothing"
            /\ terminal' = "completed" /\ stored' = {}
       ELSE /\ view' = [view EXCEPT !.state = "history_failed"]
            /\ UNCHANGED worker
    /\ UNCHANGED <<valid, approved, closed, store, tickets, changes, crashes, void>>

\* A cancellation voids the ticket and ends the context of the goroutine.
CancelScan ==
    /\ pc # "down" /\ ~closed
    /\ ticket # 0 \/ (live > 0 /\ ~canceled)
    /\ ticket' = 0
    /\ void' = IF ticket = 0 THEN void ELSE void \cup {ticket}
    /\ canceled' = (canceled \/ live > 0)
    /\ UNCHANGED <<view, valid, approved, closed, disk, store, pc, live, expected, site, found,
                   terminal, stored, tickets, changes, crashes, started>>

TicketExpires ==
    /\ ticket # 0 /\ valid
    /\ valid' = FALSE
    /\ void' = void \cup {ticket}
    /\ UNCHANGED <<view, ticket, approved, closed, disk, store, worker, tickets, changes, crashes,
                   started>>

\* The deadline of 20 minutes passes.
ScanExpires ==
    /\ live > 0 /\ ~canceled
    /\ canceled' = TRUE
    /\ UNCHANGED <<queue, disk, store, pc, live, expected, site, found, terminal, stored, ledger>>

CloseQueue ==
    /\ pc # "down" /\ ~closed
    /\ closed' = TRUE
    /\ canceled' = (canceled \/ live > 0)
    /\ UNCHANGED <<view, ticket, valid, approved, disk, store, pc, live, expected, site, found,
                   terminal, stored, ledger>>

OtherChange ==
    /\ pc \notin {"down", "applying"} /\ changes < MaxChanges
    /\ changes' = changes + 1
    /\ revision' = revision + 1
    /\ UNCHANGED <<queue, disk, bound, vault, made, worker, tickets, crashes, started, void>>

-----------------------------------------------------------------------------
(* The goroutine                                                           *)

Goes(p) == pc' = p /\ UNCHANGED <<live, canceled, expected>>

\* The browser is opened, unless the context has ended.
OpenBrowser(ok) ==
    /\ pc = "begin"
    /\ Goes(IF canceled \/ ~ok THEN "ending" ELSE "loop")
    /\ terminal' = IF ~canceled /\ ~ok THEN "connection_failed" ELSE terminal
    /\ UNCHANGED <<queue, disk, store, site, found, stored, ledger>>

\* The head of the loop
NextSite ==
    /\ pc = "loop"
    /\ IF site \notin Sites \/ canceled
       THEN Goes("ending") /\ UNCHANGED <<view, site, terminal>>
       ELSE IF expected # version
       THEN /\ Goes("ending") /\ terminal' = "configuration_changed"
            /\ UNCHANGED <<view, site>>
       ELSE IF site \in Unsupported
       THEN Goes("loop") /\ site' = site + 1 /\ UNCHANGED <<view, terminal>>
       ELSE /\ Goes("visiting")
            /\ view' = [view EXCEPT !.sites[site] = "running"]
            /\ UNCHANGED <<site, terminal>>
    /\ UNCHANGED <<ticket, valid, approved, closed, disk, store, found, stored, ledger>>

\* The page is visited: it has a session to store, or not.
Visit(result) ==
    /\ pc = "visiting"
    /\ IF result = "session"
       THEN Goes(IF canceled THEN "ending" ELSE "storing") /\ UNCHANGED found
       ELSE Goes("recording") /\ found' = result
    /\ UNCHANGED <<queue, disk, store, site, terminal, stored, ledger>>

\* Faulty variant: the result is noted before the account is stored.
StoredEvenIfStale == "saved"

StoreFailed == "save_failed"

\* saveScannedSession, under p.changes: first the material ...
CreateMaterial(ok) ==
    /\ pc = "storing"
    /\ IF ok /\ ~canceled /\ expected = version
       THEN /\ made' = IF site \in BrowserMode THEN made ELSE made + 1
            /\ vault' = IF site \in BrowserMode THEN vault ELSE vault \cup {made'}
            /\ pc' = "applying"
            /\ UNCHANGED found
       ELSE /\ found' = StoreFailed
            /\ pc' = "recording"
            /\ UNCHANGED <<made, vault>>
    /\ UNCHANGED <<queue, disk, revision, bound, live, canceled, expected, site, terminal,
                   stored, ledger>>

Discard(applied) == ~applied

\* ... then the account that refers to it.  Its own commit is what the
\* goroutine expects from then on; if it fails the material is deleted, and
\* whether that works is not looked at.
ApplyAccount(ok, deleted) ==
    /\ pc = "applying"
    /\ vault' = IF Discard(ok) /\ deleted /\ site \notin BrowserMode THEN vault \ {made} ELSE vault
    /\ IF ok
       THEN /\ revision' = revision + 1
            /\ bound' = [bound EXCEPT ![site] = IF site \in BrowserMode THEN @ ELSE made]
            /\ stored' = stored \cup {site}
            /\ expected' = <<revision', vault'>>
            /\ found' = "saved"
       ELSE /\ found' = StoreFailed
            /\ UNCHANGED <<revision, bound, stored, expected>>
    /\ pc' = "recording"
    /\ UNCHANGED <<queue, disk, made, live, canceled, site, terminal, ledger>>

\* The site's result is noted and the history saved; the scan does not go
\* on without one.
RecordSite(ok) ==
    /\ pc = "recording"
    /\ view' = [view EXCEPT !.sites[site] = found]
    /\ SaveHistory(view', ok)
    /\ IF ok THEN Goes("loop") /\ site' = site + 1 /\ UNCHANGED terminal
             ELSE Goes("ending") /\ terminal' = "history_failed" /\ UNCHANGED site
    /\ UNCHANGED <<ticket, valid, approved, closed, store, found, stored, ledger>>

Ended(v) == [state |-> IF canceled THEN "canceled" ELSE terminal, sites |-> Closing(v.sites)]

\* The deferred function; a panic also ends here.
EndScan(ok) ==
    /\ pc = "ending"
    /\ view' = Ended(view)
    /\ SaveHistory(view', ok)
    /\ pc' = "idle" /\ live' = live - 1
    /\ canceled' = FALSE
    /\ UNCHANGED <<ticket, valid, approved, closed, store, expected, site, found, terminal,
                   stored, ledger>>

Panic ==
    /\ pc \in {"loop", "visiting", "recording"}
    /\ Goes("ending")
    /\ terminal' = "failed"
    /\ UNCHANGED <<queue, disk, store, site, found, stored, ledger>>

-----------------------------------------------------------------------------
(* Crashes                                                                 *)

Crash ==
    /\ pc # "down" /\ crashes < MaxCrashes
    /\ crashes' = crashes + 1
    /\ pc' = "down" /\ live' = 0 /\ canceled' = FALSE
    /\ view' = [state |-> "none", sites |-> Fresh]
    /\ ticket' = 0 /\ valid' = FALSE
    /\ void' = IF ticket = 0 THEN void ELSE void \cup {ticket}
    /\ UNCHANGED <<approved, closed, disk, store, expected, site, found, terminal, stored,
                   tickets, changes, started>>

\* A scan that ran when the process died was interrupted.
Loaded(v) ==
    IF v.state = "running" THEN [state |-> "interrupted", sites |-> Closing(v.sites)] ELSE v

\* load; the process does not start if the corrected history cannot be saved.
Restart ==
    /\ pc = "down"
    /\ view' = Loaded(disk)
    /\ disk' = Loaded(disk)
    /\ pc' = "idle" /\ closed' = FALSE
    /\ UNCHANGED <<ticket, valid, approved, store, live, canceled, expected, site, found,
                   terminal, stored, ledger>>

-----------------------------------------------------------------------------

Init ==
    /\ view = [state |-> "none", sites |-> Fresh]
    /\ ticket = 0 /\ valid = FALSE /\ approved = <<0, {}>> /\ closed = FALSE
    /\ disk = view
    /\ revision = 1 /\ bound = [i \in Sites |-> 0] /\ vault = {} /\ made = 0
    /\ pc = "idle" /\ live = 0 /\ canceled = FALSE /\ expected = <<0, {}>> /\ site = 1
    /\ found = "nothing" /\ terminal = "completed" /\ stored = {}
    /\ tickets = 0 /\ changes = 0 /\ crashes = 0 /\ started = {} /\ void = {}

ScanStep ==
    \/ NextSite
    \/ \E ok \in BOOLEAN : OpenBrowser(ok) \/ CreateMaterial(ok) \/ RecordSite(ok) \/ EndScan(ok)
    \/ \E ok, deleted \in BOOLEAN : ApplyAccount(ok, deleted)
    \/ \E result \in {"session", "no_session", "site_unavailable"} : Visit(result)

Next ==
    \/ Preview \/ CancelScan \/ TicketExpires \/ ScanExpires \/ CloseQueue \/ OtherChange
    \/ \E t \in 1..MaxTickets, ok \in BOOLEAN : Confirm(t, ok)
    \/ ScanStep \/ Panic \/ Crash \/ Restart

Spec == Init /\ [][Next]_vars

\* The goroutine runs, every visit has a deadline, and the process is
\* started again.
FairSpec == Spec /\ WF_vars(ScanStep) /\ WF_vars(Restart)

-----------------------------------------------------------------------------
(* Properties                                                              *)

Terminals == {"completed", "connection_failed", "configuration_changed", "history_failed", "failed"}
Results == {"nothing", "no_session", "site_unavailable", "save_failed", "saved"}
View == [state : Terminals \cup {"none", "preview", "running", "canceled", "interrupted"},
         sites : [Sites -> Results \cup {"unsupported", "queued", "running", "not_attempted"}]]
Version == Nat \X SUBSET Nat

(* The state is well formed.                                               *)
TypeOK ==
    /\ view \in View /\ disk \in View
    /\ tickets \in Nat /\ ticket \in 0..tickets /\ started \subseteq 1..tickets
    /\ void \subseteq 1..tickets /\ changes \in Nat /\ crashes \in Nat
    /\ valid \in BOOLEAN /\ closed \in BOOLEAN /\ canceled \in BOOLEAN
    /\ approved \in Version /\ expected \in Version
    /\ revision \in Nat /\ bound \in [Sites -> Nat] /\ vault \subseteq Nat /\ made \in Nat
    /\ pc \in {"idle", "begin", "loop", "visiting", "storing", "applying", "recording", "ending",
               "down"}
    /\ live \in Nat /\ site \in 1..(LastSite + 1) /\ stored \subseteq Sites
    /\ found \in Results /\ terminal \in Terminals

(* A scan is said to run exactly while one goroutine runs it: not after a  *)
(* crash, and never two of them at once.                                   *)
RunningIsReal ==
    /\ live <= 1
    /\ view.state = "running" <=> live = 1

(* What the history on disk says was saved has been stored as an account,  *)
(* whatever failed or changed in between.                                  *)
HistoryIsTrue == \A i \in Sites : disk.sites[i] = "saved" => i \in stored

(* An account that a scan stored refers to material that is in the vault,  *)
(* whatever fails and whenever the process dies.                           *)
MaterialKept == \A i \in Sites : bound[i] # 0 => bound[i] \in vault

(* A confirmation starts at most one scan, and none after it was canceled, *)
(* replaced by another preview, lost in a crash, or too late.              *)
TicketUsedOnce ==
    /\ started \cap void = {}
    /\ ticket \notin started

(* A scan that is said to run runs, once and for one confirmation; the     *)
(* history and the accounts it leaves are true (confirm, runLoginBatch,    *)
(* saveScannedSession, load).                                              *)
ScansAreTrue == TypeOK /\ RunningIsReal /\ TicketUsedOnce /\ HistoryIsTrue /\ MaterialKept

(* A scan comes to an end: by its last site, a cancellation, its deadline, *)
(* or a crash.                                                             *)
ScansEnd == view.state = "running" ~> view.state # "running"
=============================================================================
