----------------------------- MODULE WebSession -----------------------------
(***************************************************************************)
(* The ChatGPT web driver and its sessions (internal/chatgptweb/driver.go, *)
(* session.go, page.go, and internal/api/sessions.go): a turn is typed     *)
(* into a page of a real browser and read back from the conversation.      *)
(*                                                                         *)
(* The browser belongs to a person, who may add turns to a conversation,   *)
(* edit one, or sign in with another account at any time.  The gateway's   *)
(* process may die between any two steps.  The source has one lease, so    *)
(* one turn runs at a time and an administrator changes sessions only      *)
(* between turns.                                                          *)
(*                                                                         *)
(* Abstracted: a prompt and its answer are one node of a conversation; an  *)
(* answer's text is as many copies of its revision's number as it is long; *)
(* the history a client sends is how many finished turns it holds.         *)
(***************************************************************************)
EXTENDS Naturals, FiniteSets, Sequences, SequencesExt

CONSTANTS
    Keys,           \* values of X-COT-Session
    Accounts,       \* accounts the browser may be signed in with
    NoSession,
    MaxSessions,    \* Browser.MaxSessions
    MaxNodes,       \* bound: turns in all conversations
    MaxText,        \* bound: length of an answer
    MaxFaults       \* bound: crashes, switches of account, expiries, changes by an administrator

\* Session: conv and last are 0 until they are known.
Sessions == [account: Accounts, conv: 0..MaxNodes, last: 0..MaxNodes, turns: 0..MaxNodes,
             dirty: BOOLEAN, expired: BOOLEAN]

\* What the instances satisfy
WebAssumption ==
    /\ IsFiniteSet(Keys) /\ IsFiniteSet(Accounts)
    /\ NoSession \notin Keys /\ NoSession \notin Sessions
    /\ MaxSessions \in Nat /\ MaxNodes \in Nat /\ MaxText \in Nat \ {0} /\ MaxFaults \in Nat

VARIABLES
    items,      \* sessionStore.items
    disk,       \* the state file
    paths,      \* each conversation's nodes, from the root to current_node
    author,     \* the account that each node was submitted with
    account,    \* who is signed in
    pc,         \* where the turn is
    job,        \* the local variables of Do
    answer,     \* the answer upstream: [rev, len, done]
    made,       \* nodes so far
    faults,
    mine,       \* history: nodes the gateway submitted
    clicked,    \* history: turns submitted in each session, by position
    verdict     \* history: what the client of the last turn was told

web == <<paths, author, account, answer, made>>
history == <<mine, clicked, verdict>>
vars == <<items, disk, web, pc, job, faults, history>>

Nodes == 1..MaxNodes
Conversations == Nodes      \* a conversation is named after its first node
Idle == [key |-> NoSession]

Session(who) == [account |-> who, conv |-> 0, last |-> 0, turns |-> 0, dirty |-> FALSE,
                 expired |-> FALSE]
Kept(store) == {k \in Keys : store[k] # NoSession}

\* A conversation is shown to the account that began it, and to no other.
Visible(c) == author[c] = account

NoAnswer == [rev |-> 0, len |-> 0, done |-> FALSE]
Text(a) == [i \in 1..a.len |-> a.rev]

-----------------------------------------------------------------------------
(* The session store                                                       *)

\* sessionStore.put: a failed save leaves the old entry in memory.
Put(k, s, ok) ==
    /\ items' = IF ok THEN [items EXCEPT ![k] = s] ELSE items
    /\ disk' = IF ok THEN items' ELSE disk

HasRoom(k) == items[k] # NoSession \/ Cardinality(Kept(items)) < MaxSessions

\* sessionStore.get forgets expired entries, in memory only.
Pruned == [k \in Keys |-> IF items[k] = NoSession \/ items[k].expired THEN NoSession ELSE items[k]]

-----------------------------------------------------------------------------
(* Do                                                                      *)

\* Every early return closes the tab and returns the lease.
Reject(what) ==
    /\ pc' = "idle" /\ job' = Idle
    /\ verdict' = what

Failure == Reject([state |-> "error"])

\* The session is clean, and the client's history is the session's.
MayContinue(s, sees) == ~s.dirty /\ s.conv # 0 /\ s.last # 0 /\ s.turns = sees

\* Up to the connection to the browser.  A session that is not known can
\* only be started, with a single message.
Begin(k, sees) ==
    /\ pc = "idle" /\ made < MaxNodes
    /\ items' = Pruned
    /\ LET s == Pruned[k]
       IN IF (s # NoSession /\ ~MayContinue(s, sees)) \/ (s = NoSession /\ sees # 0)
          THEN Failure
          ELSE /\ pc' = "setup"
               /\ job' = [key |-> k, exists |-> s # NoSession, s |-> s, account |-> account,
                          node |-> 0, sent |-> <<>>]
               /\ UNCHANGED verdict
    /\ clicked' = [x \in Keys |->
                    IF items[x] # NoSession /\ items[x].expired THEN [p \in 0..MaxNodes |-> 0] ELSE clicked[x]]
    /\ UNCHANGED <<disk, web, faults, mine>>

\* The page is opened and inspected: who is signed in, and is there a draft?
Inspect(ok) ==
    /\ pc = "setup"
    /\ IF ~ok \/ (job.exists /\ job.s.account # account)
       THEN Failure
       ELSE /\ pc' = IF job.exists THEN "before" ELSE "typing"
            /\ job' = [job EXCEPT !.account = account,
                                  !.s = IF job.exists THEN job.s ELSE Session(account)]
            /\ UNCHANGED verdict
    /\ UNCHANGED <<items, disk, web, faults, mine, clicked>>

\* readTurn asks first who is signed in.
SameAccount == account = job.account

UnchangedSince(path) == path # <<>> /\ Last(path) = job.s.last

\* The conversation must end with the node that the session saved.
ReadBefore(ok) ==
    /\ pc = "before"
    /\ IF ok /\ SameAccount /\ Visible(job.s.conv) /\ UnchangedSince(paths[job.s.conv])
       THEN pc' = "typing" /\ UNCHANGED <<job, verdict>>
       ELSE Failure
    /\ UNCHANGED <<items, disk, web, faults, mine, clicked>>

\* The prompt is typed, read back, and the button becomes ready.
Type(ok) ==
    /\ pc = "typing"
    /\ IF ok THEN pc' = "marking" /\ UNCHANGED <<job, verdict>> ELSE Failure
    /\ UNCHANGED <<items, disk, web, faults, mine, clicked>>

\* Faulty variant: the uncertainty is not stored before the click.
LeaveClean(s) == s

Uncertain(s) == [s EXCEPT !.dirty = TRUE]

MarkDirty(ok) ==
    /\ pc = "marking"
    /\ Put(job.key, Uncertain(job.s), ok /\ HasRoom(job.key))
    /\ IF ok /\ HasRoom(job.key)
       THEN /\ pc' = "clicking"
            /\ job' = [job EXCEPT !.s = Uncertain(job.s)]
            /\ UNCHANGED verdict
       ELSE Failure
    /\ UNCHANGED <<web, faults, mine, clicked>>

\* The one click.  Whether it had an effect is not what the answer of the
\* page says: a lost answer may follow a submission.
Click(effect, ok) ==
    /\ pc = "clicking"
    /\ IF effect
       THEN /\ made < MaxNodes /\ (job.exists => Visible(job.s.conv))
            /\ made' = made + 1
            /\ paths' = LET c == IF job.exists THEN job.s.conv ELSE made'
                        IN [paths EXCEPT ![c] = Append(@, made')]
            /\ answer' = NoAnswer
            /\ mine' = mine \cup {made'}
            /\ author' = [author EXCEPT ![made'] = account]
            /\ clicked' = [clicked EXCEPT ![job.key][job.s.turns] = @ + 1]
       ELSE UNCHANGED <<made, paths, author, answer, mine, clicked>>
    /\ IF ok
       THEN /\ pc' = "submitted"
            /\ job' = [job EXCEPT !.node = IF effect THEN made' ELSE 0]
            /\ UNCHANGED verdict
       ELSE Failure
    /\ UNCHANGED <<items, disk, account, faults>>

\* Ten seconds for the composer to become empty.
ObserveSubmission(ok) ==
    /\ pc = "submitted"
    /\ IF ok /\ job.node # 0 THEN pc' = "observing" /\ UNCHANGED <<job, verdict>> ELSE Failure
    /\ UNCHANGED <<items, disk, web, faults, mine, clicked>>

-----------------------------------------------------------------------------
(* observe                                                                 *)

\* The conversation of the turn, once the page shows it
Conv == IF job.s.conv # 0 THEN job.s.conv ELSE job.node

\* readTurn: from current_node back to the saved node there is exactly one
\* turn, the submitted one.
OnlyThisTurn(path) ==
    /\ job.s.last = 0 \/ Contains(path, job.s.last)
    /\ LET from == IF job.s.last = 0 THEN 0 ELSE CHOOSE i \in DOMAIN path : path[i] = job.s.last
       IN SubSeq(path, from + 1, Len(path)) = <<job.node>>

Reads == SameAccount /\ Visible(Conv) /\ OnlyThisTurn(paths[Conv])

\* Faulty variant: a revised answer is passed on from where it was.
Longer(sent, text) == Len(text) >= Len(sent)

\* The text may only grow.
MayAppend(sent, text) == IsPrefix(sent, text)

\* The first poll that finds the conversation of a new session stores it.
FindConversation(ok) ==
    /\ pc = "observing" /\ job.s.conv = 0
    /\ LET s == [job.s EXCEPT !.conv = Conv]
           stores == ok /\ Reads /\ HasRoom(job.key)
       IN /\ Put(job.key, s, stores)
          /\ IF stores
             THEN job' = [job EXCEPT !.s = s] /\ UNCHANGED <<pc, verdict>>
             ELSE Failure
    /\ UNCHANGED <<web, faults, mine, clicked>>

\* A poll: it fails, finds nothing yet, or finds some text and passes on
\* what is new; a complete answer goes to finish.
Poll(ok) ==
    /\ pc = "observing" /\ job.s.conv # 0
    /\ IF ~ok \/ ~Reads \/ ~MayAppend(job.sent, Text(answer))
       THEN Failure
       ELSE /\ job' = [job EXCEPT !.sent = @ \o SubSeq(Text(answer), Len(@) + 1, answer.len)]
            /\ pc' = IF answer.done /\ answer.len > 0 THEN "finishing" ELSE "observing"
            /\ job' # job \/ pc' # pc
            /\ UNCHANGED verdict
    /\ UNCHANGED <<items, disk, web, faults, mine, clicked>>

\* The request's deadline, or a client that has gone
Abandon ==
    /\ pc \in {"observing", "finishing"}
    /\ Failure
    /\ UNCHANGED <<items, disk, web, faults, mine, clicked>>

\* finish: the session is clean again, at its new last node.  The client of
\* a stream has had the text already; the end is told only after the save.
Finish(ok) ==
    /\ pc = "finishing"
    /\ LET s == [job.s EXCEPT !.dirty = FALSE, !.last = job.node, !.turns = @ + 1]
       IN Put(job.key, s, ok /\ HasRoom(job.key))
    /\ IF ok /\ HasRoom(job.key)
       THEN Reject([state |-> "complete", node |-> job.node, conv |-> Conv, text |-> job.sent])
       ELSE Failure
    /\ UNCHANGED <<web, faults, mine, clicked>>

-----------------------------------------------------------------------------
(* The web application and the person at the browser                       *)

\* The answer to the last submitted turn grows, is revised, or is done.
Answer ==
    /\ made # 0 /\ ~answer.done
    /\ \/ answer.len < MaxText /\ answer' = [answer EXCEPT !.len = @ + 1]
       \/ answer.rev = 0 /\ answer.len > 0 /\ answer' = [answer EXCEPT !.rev = 1]
       \/ answer.len > 0 /\ answer' = [answer EXCEPT !.done = TRUE]
    /\ UNCHANGED <<items, disk, paths, author, account, made, pc, job, faults, history>>

\* A turn is added to a conversation outside the gateway, or replaces its
\* last one.
Outside(c, edit) ==
    /\ made < MaxNodes /\ paths[c] # <<>> /\ Visible(c)
    /\ made' = made + 1
    /\ paths' = [paths EXCEPT ![c] = Append(IF edit THEN Front(@) ELSE @, made')]
    /\ author' = [author EXCEPT ![made'] = account]
    /\ UNCHANGED <<items, disk, account, answer, pc, job, faults, history>>

SignIn(a) ==
    /\ faults < MaxFaults /\ a # account
    /\ faults' = faults + 1 /\ account' = a
    /\ UNCHANGED <<items, disk, paths, author, answer, made, pc, job, history>>

-----------------------------------------------------------------------------
(* Administration, time and crashes                                        *)

\* The time to live of a session passes.
Expires(k) ==
    /\ pc = "idle" /\ faults < MaxFaults
    /\ items[k] # NoSession /\ ~items[k].expired
    /\ faults' = faults + 1
    /\ items' = [items EXCEPT ![k].expired = TRUE]
    /\ disk' = [disk EXCEPT ![k].expired = TRUE]
    /\ UNCHANGED <<web, pc, job, history>>

\* ChangeSession "expire": under the lease, and saved with all of items
ExpireSession(k) ==
    /\ pc = "idle" /\ faults < MaxFaults
    /\ items[k] # NoSession
    /\ faults' = faults + 1
    /\ items' = [items EXCEPT ![k].expired = TRUE]
    /\ disk' = items'
    /\ UNCHANGED <<web, pc, job, history>>

\* ChangeSession "clear"
Clear(k) ==
    /\ pc = "idle" /\ faults < MaxFaults /\ items[k] # NoSession
    /\ faults' = faults + 1
    /\ items' = [items EXCEPT ![k] = NoSession]
    /\ disk' = items'
    /\ clicked' = [clicked EXCEPT ![k] = [p \in 0..MaxNodes |-> 0]]
    /\ UNCHANGED <<web, pc, job, mine, verdict>>

\* The process dies, or a new configuration gets a new driver between turns;
\* newStore reads the file.
Restart ==
    /\ faults < MaxFaults
    /\ faults' = faults + 1
    /\ items' = disk
    /\ Failure
    /\ UNCHANGED <<disk, web, mine, clicked>>

-----------------------------------------------------------------------------

Init ==
    /\ items = [k \in Keys |-> NoSession] /\ disk = items
    /\ paths = [c \in Conversations |-> <<>>]
    /\ account \in Accounts
    /\ pc = "idle" /\ job = Idle /\ answer = NoAnswer /\ made = 0 /\ faults = 0
    /\ mine = {} /\ author = [n \in Nodes |-> account]     \* no node is made yet
    /\ clicked = [k \in Keys |-> [p \in 0..MaxNodes |-> 0]]
    /\ verdict = [state |-> "none"]

Step ==
    \/ \E ok \in BOOLEAN :
         \/ Inspect(ok) \/ ReadBefore(ok) \/ Type(ok) \/ MarkDirty(ok)
         \/ ObserveSubmission(ok) \/ FindConversation(ok) \/ Poll(ok) \/ Finish(ok)
         \/ \E effect \in BOOLEAN : Click(effect, ok)

Next ==
    \/ \E k \in Keys, sees \in 0..MaxNodes : Begin(k, sees)
    \/ Step \/ Abandon \/ Answer \/ Restart
    \/ \E c \in Conversations, edit \in BOOLEAN : Outside(c, edit)
    \/ \E a \in Accounts : SignIn(a)
    \/ \E k \in Keys : Clear(k) \/ Expires(k) \/ ExpireSession(k)

Spec == Init /\ [][Next]_vars

\* Every call of the page has a deadline, and so has the request.
FairSpec == Spec /\ WF_vars(Step) /\ WF_vars(Abandon)

-----------------------------------------------------------------------------
(* Properties                                                              *)

Jobs == [key: Keys, exists: BOOLEAN, s: Sessions \cup {NoSession}, account: Accounts,
         node: 0..MaxNodes, sent: Seq({0, 1})]

(* The state is well formed; whatever way a turn ends, no request is left  *)
(* in the driver and its locals are gone.                                  *)
TypeOK ==
    /\ items \in [Keys -> Sessions \cup {NoSession}] /\ disk \in [Keys -> Sessions \cup {NoSession}]
    /\ paths \in [Conversations -> Seq(Nodes)] /\ author \in [Nodes -> Accounts]
    /\ account \in Accounts
    /\ pc \in {"idle", "setup", "before", "typing", "marking", "clicking", "submitted",
               "observing", "finishing"}
    /\ job \in IF pc = "idle" THEN {Idle} ELSE Jobs
    /\ answer \in [rev: {0, 1}, len: 0..MaxText, done: BOOLEAN]
    /\ made \in 0..MaxNodes /\ faults \in 0..MaxFaults
    /\ mine \subseteq Nodes /\ clicked \in [Keys -> [0..MaxNodes -> Nat]]
    /\ verdict.state \in {"none", "error", "complete"}

(* A session that is not marked dirty, in memory or on disk, has nothing   *)
(* uncertain in it: every turn that the gateway submitted is one that it   *)
(* has seen finished, whenever the process died.                           *)
CleanIsSettled ==
    \A store \in {items, disk} : \A k \in Kept(store) :
        ~store[k].dirty /\ ~store[k].expired
            => \A p \in 0..MaxNodes : clicked[k][p] = IF p < store[k].turns THEN 1 ELSE 0

(* However often a client repeats a turn of a session, it is submitted at  *)
(* most once: after an error, a lost answer, or a crash.                   *)
NoTurnTwice == \A k \in Keys, p \in 0..MaxNodes : clicked[k][p] <= 1

(* Both together: a repeated turn is not a second one, and a session that  *)
(* may be continued has nothing uncertain in it.                           *)
SubmittedOnce == TypeOK /\ CleanIsSettled /\ NoTurnTwice

(* A complete answer belongs to a conversation that holds the gateway's    *)
(* own turns and nobody else's: neither an outside turn nor an edited one. *)
HistoryIsShared ==
    \A k \in Kept(disk) :
        LET s == disk[k]
            path == paths[s.conv]
        IN ~s.dirty /\ s.conv # 0 /\ Contains(path, s.last)
            => \A i \in DOMAIN path : path[i] <= s.last => path[i] \in mine

(* The turns of a clean session were all submitted with its own account.   *)
AccountBound ==
    \A k \in Kept(disk) :
        ~disk[k].dirty /\ disk[k].last # 0 => author[disk[k].last] = disk[k].account

\* The step that calls an answer complete
TellsWhole ==
    verdict' # verdict /\ verdict'.state = "complete" =>
        answer.done /\ verdict'.text = Text(answer) /\ verdict'.node \in mine

(* An answer is called complete only if the text the client was given is   *)
(* the whole of what the page shows, never a mixture of two revisions; and *)
(* its conversation is the gateway's own, with the session's own account.  *)
CompleteIsWhole == [](HistoryIsShared /\ AccountBound) /\ [][TellsWhole]_vars

(* A turn ends, so that the source's only lease is returned.               *)
TurnsEnd == pc # "idle" ~> pc = "idle"
=============================================================================
