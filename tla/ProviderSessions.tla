-------------------------- MODULE ProviderSessions --------------------------
(***************************************************************************)
(* The conversations a provider adapter keeps for its callers.  A request  *)
(* names a session with X-COT-Session; the adapter looks the session up,   *)
(* waits for its gate (providerutil.Gate), continues the conversation the  *)
(* session points at and holds the gate until the response has been read   *)
(* or closed.  The operator may expire a session or clear it at any time.  *)
(* The packages china, chinanext, codingnext and codingmore share this     *)
(* structure; they differ in who chooses the ids and when they are kept:   *)
(*                                                                         *)
(*   local   Zed, Amazon Q, Augment: session() makes the id up             *)
(*   made    Yuanbao: a chat is created before the prompt is posted        *)
(*   child   Qwen: a chat is created; the parent is a child id made here   *)
(*           and kept as soon as the post has been answered                *)
(*   parent  Z.ai: a chat is created; the parent comes with the stream     *)
(*   told    Kimi and GLM: the ids come with the stream                    *)
(*                                                                         *)
(* Only streamed responses are followed: an answer that is not streamed is *)
(* read inside Do, under the gate, and ends as a drained stream does.      *)
(***************************************************************************)
EXTENDS Naturals, FiniteSets, Sequences

CONSTANTS Turns,        \* calls of Do, 1..n; a turn's number is its message id
          Keys,         \* values of X-COT-Session
          Private,      \* the absent header
          Adapters,     \* a subset of the kinds above
          MaxSessions,  \* maxSessions of the client
          MaxChanges    \* bound: administrative changes of a behaviour

\* What the instances satisfy
SessionsAssumption ==
  /\ IsFiniteSet(Turns) /\ Turns \subseteq Nat \ {0}
  /\ IsFiniteSet(Keys) /\ Private \notin Keys
  /\ MaxSessions \in Nat /\ MaxChanges \in Nat

None == 0
\* Every turn makes at most one session and begins at most one chat.
Objects == Turns
MaxChats == Cardinality(Turns)

VARIABLES
  adapter,   \* the kind of adapter this client serves
  table,     \* Client.sessions: key -> session object
  session,   \* the objects: chat id, parent id, expired
  gate,      \* Gate: object -> its token is taken
  turn,      \* the calls
  chats,     \* the chats begun so far: when, as <<key, clears, expires>>
  changed    \* what the operator did to a key: <<clears, expires>>

vars == <<adapter, table, session, gate, turn, chats, changed>>

EmptyEntry == [chat |-> None, parent |-> None, expired |-> FALSE]
NoTurn == [pc |-> "idle", key |-> Private, obj |-> None, at |-> <<0, 0>>,
           chat |-> None, parent |-> None, released |-> FALSE]

PCs == {"idle", "wait", "create", "post", "stream", "ended", "loose", "over"}

Known == {k \in Keys : table[k] # None}

Times == Nat \X Nat     \* clears and expiries so far
Entries == [chat : 0..MaxChats, parent : Turns \cup {None}, expired : BOOLEAN]
Calls == [pc : PCs, key : Keys \cup {Private}, obj : Objects \cup {None}, at : Times,
          chat : 0..MaxChats, parent : Turns \cup {None}, released : BOOLEAN]

\* The shape of the state; a client keeps at most MaxSessions sessions.
TypeOK ==
  /\ adapter \in Adapters
  /\ table \in [Keys -> Objects \cup {None}]
  /\ session \in [Objects -> Entries]
  /\ Cardinality(Known) <= MaxSessions
  /\ gate \in [Objects -> BOOLEAN]
  /\ turn \in [Turns -> Calls]
  /\ chats \in Seq([key : Keys \cup {Private}, at : Times])
  /\ changed \in [Keys -> Times]

Init ==
  /\ adapter \in Adapters
  /\ table = [k \in Keys |-> None]
  /\ session = [o \in Objects |-> EmptyEntry]
  /\ gate = [o \in Objects |-> FALSE]
  /\ turn = [t \in Turns |-> NoTurn]
  /\ chats = <<>>
  /\ changed = [k \in Keys |-> <<0, 0>>]

-----------------------------------------------------------------------------
(***************************************************************************)
(* session(): the lookup, under Client.mu, before the gate is waited for.  *)
(***************************************************************************)
Unused == CHOOSE o \in Objects : /\ \A t \in Turns : turn[t].obj # o
                                 /\ \A k \in Keys : table[k] # o

NextChat == Len(chats) + 1
Now(k) == IF k = Private THEN <<0, 0>> ELSE changed[k]
Begun(k) == Append(chats, [key |-> k, at |-> Now(k)])

\* A new session has an id of its own where the ids are local.
NewSession ==
  [EmptyEntry EXCEPT !.chat = IF adapter = "local" THEN NextChat ELSE None]

\* An expired session is emptied, or given another local id, and is usable
\* again at once: a turn that still holds the gate is not waited for.
Renewed(s) == IF s.expired THEN NewSession ELSE s

\* The session of a key; without the header it is private to the call.
Lookup(k) == IF k = Private THEN None ELSE table[k]

\* No session is evicted: at the limit a new key is refused.
Full(k) == /\ k # Private /\ table[k] = None
           /\ Cardinality(Known) >= MaxSessions

\* Turns are numbered in the order in which they look their session up.
Arrives(t) == /\ turn[t].pc = "idle"
              /\ \A u \in Turns : u < t => turn[u].pc # "idle"

Refuse(t, k) ==
  /\ Arrives(t) /\ Full(k)
  /\ turn' = [turn EXCEPT ![t].pc = "over", ![t].key = k]
  /\ UNCHANGED <<adapter, table, session, gate, chats, changed>>

Ask(t, k) ==
  LET found == Lookup(k)
      o == IF found = None THEN Unused ELSE found
      s == IF found = None THEN NewSession ELSE Renewed(session[o])
  IN /\ Arrives(t) /\ ~Full(k)
     /\ turn' = [turn EXCEPT ![t].pc = "wait", ![t].key = k, ![t].obj = o,
                             ![t].at = Now(k)]
     /\ session' = [session EXCEPT ![o] = s]
     /\ table' = IF k = Private THEN table ELSE [table EXCEPT ![k] = o]
     /\ chats' = IF s.chat = NextChat THEN Begun(k) ELSE chats
     /\ UNCHANGED <<adapter, gate, changed>>

-----------------------------------------------------------------------------
(***************************************************************************)
(* ChangeSession, for the operator.                                        *)
(***************************************************************************)
MayChange(k) == /\ table[k] # None
                /\ \A x \in Keys : changed[x][1] + changed[x][2] < MaxChanges

\* The key is forgotten; turns under way keep the object they hold.
Forgotten(k) == [table EXCEPT ![k] = None]

ClearSession(k) ==
  /\ MayChange(k)
  /\ table' = Forgotten(k)
  /\ changed' = [changed EXCEPT ![k] = <<@[1] + 1, @[2]>>]
  /\ UNCHANGED <<adapter, session, gate, turn, chats>>

ExpireSession(k) ==
  /\ MayChange(k)
  /\ session' = [session EXCEPT ![table[k]].expired = TRUE]
  /\ changed' = [changed EXCEPT ![k] = <<@[1], @[2] + 1>>]
  /\ UNCHANGED <<adapter, table, gate, turn, chats>>

-----------------------------------------------------------------------------
(***************************************************************************)
(* The turn itself.                                                        *)
(***************************************************************************)
S(t) == session[turn[t].obj]

\* Gate.Lock, then the ids are read together under session.mu.  Where chats
\* are created and the session has none, one is created first.
Creates == adapter \in {"made", "child", "parent"}

Lock(t) ==
  /\ turn[t].pc = "wait" /\ ~gate[turn[t].obj]
  /\ gate' = [gate EXCEPT ![turn[t].obj] = TRUE]
  /\ turn' = [turn EXCEPT ![t].pc = IF Creates /\ S(t).chat = None
                                    THEN "create" ELSE "post",
                          ![t].chat = S(t).chat, ![t].parent = S(t).parent]
  /\ UNCHANGED <<adapter, table, session, chats, changed>>

\* The caller goes away while it waits for the gate.
LeaveQueue(t) ==
  /\ turn[t].pc = "wait"
  /\ turn' = [turn EXCEPT ![t].pc = "over"]
  /\ UNCHANGED <<adapter, table, session, gate, chats, changed>>

\* A chat was created at the provider.  Qwen and Z.ai keep an id that came
\* meanwhile; the parent Qwen posts is the one it read before.
Created(t) ==
  LET adopts == adapter # "made" /\ S(t).chat # None
      chat == IF adopts THEN S(t).chat ELSE NextChat
      parent == CASE adapter # "parent" -> turn[t].parent
                  [] adopts -> S(t).parent
                  [] OTHER -> None
  IN /\ turn[t].pc = "create"
     /\ chats' = Begun(turn[t].key)
     /\ turn' = [turn EXCEPT ![t].pc = "post", ![t].chat = chat,
                             ![t].parent = parent]
     /\ session' = [session EXCEPT ![turn[t].obj].chat = chat,
                                   ![turn[t].obj].parent =
                                     IF adapter = "parent" THEN parent ELSE @]
     /\ UNCHANGED <<adapter, table, gate, changed>>

\* Faulty variant: every end of the body releases the gate once more.
ReleaseEach(t) == [gate EXCEPT ![turn[t].obj] = FALSE]

\* sessionResponseBody.unlock: the gate is released once, by the first read
\* that fails or by Close.
Release(t) == IF turn[t].released THEN gate
              ELSE [gate EXCEPT ![turn[t].obj] = FALSE]

\* Faulty variant: an answer other than 2xx is returned with the gate held.
KeepOnRefusal(t) == IF turn[t].pc = "post" THEN gate ELSE Release(t)

\* Do's deferred unlock, on every return without a stream.
ReleaseOnReturn(t) == Release(t)

End(t, pc) == turn' = [turn EXCEPT ![t].pc = pc, ![t].released = TRUE]

\* Creation or the post fails, or the caller goes away meanwhile.
Fail(t) ==
  /\ turn[t].pc \in {"create", "post"}
  /\ End(t, "over")
  /\ gate' = ReleaseOnReturn(t)
  /\ UNCHANGED <<adapter, table, session, chats, changed>>

\* The post was answered: Qwen keeps its child id whatever the status is.
Answered(t) ==
  session' = IF adapter = "child"
             THEN [session EXCEPT ![turn[t].obj].parent = t]
             ELSE session

Refused(t) ==
  /\ turn[t].pc = "post"
  /\ Answered(t)
  /\ End(t, "over")
  /\ gate' = ReleaseOnReturn(t)
  /\ UNCHANGED <<adapter, table, chats, changed>>

Accepted(t) ==
  /\ turn[t].pc = "post"
  /\ Answered(t)
  /\ turn' = [turn EXCEPT ![t].pc = "stream"]
  /\ UNCHANGED <<adapter, table, gate, chats, changed>>

\* Events of the stream carry the ids: the converter's goroutine stores them,
\* which it may still do when the body has been closed ("loose").
ToldChat(t) ==
  LET fresh == turn[t].chat = None
      chat == IF fresh THEN NextChat ELSE turn[t].chat
  IN /\ turn[t].pc \in {"stream", "loose"} /\ adapter = "told"
     /\ session' = [session EXCEPT ![turn[t].obj].chat = chat]
     /\ turn' = [turn EXCEPT ![t].chat = chat]
     /\ chats' = IF fresh THEN Begun(turn[t].key) ELSE chats
     /\ UNCHANGED <<adapter, table, gate, changed>>

ToldParent(t) ==
  /\ turn[t].pc \in {"stream", "loose"} /\ adapter \in {"told", "parent"}
  /\ session' = [session EXCEPT ![turn[t].obj].parent = t]
  /\ UNCHANGED <<adapter, table, gate, turn, chats, changed>>

\* The converter has ended; the reader meets the end or the error.
Drained(t) ==
  /\ turn[t].pc = "stream"
  /\ End(t, "ended")
  /\ gate' = Release(t)
  /\ UNCHANGED <<adapter, table, session, chats, changed>>

\* Close: after the end, or before it with the converter still running.
CloseBody(t) ==
  /\ turn[t].pc \in {"ended", "stream"}
  /\ End(t, IF turn[t].pc = "ended" THEN "over" ELSE "loose")
  /\ gate' = Release(t)
  /\ UNCHANGED <<adapter, table, session, chats, changed>>

\* The abandoned converter meets the closed pipe or the ended context.
ConverterEnds(t) ==
  /\ turn[t].pc = "loose"
  /\ turn' = [turn EXCEPT ![t].pc = "over"]
  /\ UNCHANGED <<adapter, table, session, gate, chats, changed>>

Step(t) == \/ Created(t) \/ Fail(t) \/ Refused(t) \/ Accepted(t)
           \/ Drained(t) \/ CloseBody(t) \/ ConverterEnds(t)

Finished == (\A t \in Turns : turn[t].pc = "over") /\ UNCHANGED vars

Next ==
  \/ \E t \in Turns :
       \/ \E k \in Keys \cup {Private} : Refuse(t, k) \/ Ask(t, k)
       \/ Lock(t) \/ LeaveQueue(t) \/ ToldChat(t) \/ ToldParent(t)
       \/ Step(t)
  \/ \E k \in Keys : ClearSession(k) \/ ExpireSession(k)
  \/ Finished

Spec == Init /\ [][Next]_vars

\* An upstream call ends, by itself or by the header timeout and the request
\* deadline; the gateway drains or closes every body; a channel serves its
\* senders in order, so a waiting turn that can lock again and again does.
Fairness == \A t \in Turns : /\ WF_vars(Step(t))
                             /\ SF_vars(Lock(t))

FairSpec == Spec /\ Fairness

-----------------------------------------------------------------------------
Talking(t) == turn[t].pc \in {"create", "post", "stream"}

\* A session has one turn at a time between the lock and the end of its
\* response, however a response is ended: read to its end and closed, closed
\* early, refused or failed.
OneTurnAtATime ==
  \A t, u \in Turns :
    t # u /\ Talking(t) /\ Talking(u) => turn[t].obj # turn[u].obj

\* A conversation stays with the caller's key it was begun for, and a turn
\* without a key has one of its own.  After a clear no later request of the
\* key finds it again, although the turns under way still write their ids.
ConversationOfKey ==
  \A t \in Turns : turn[t].chat # None =>
    LET c == chats[turn[t].chat]
    IN /\ c.key = turn[t].key
       /\ c.key = Private =>
            \A u \in Turns \ {t} : turn[u].chat # turn[t].chat
       /\ turn[t].pc # "idle" => c.at[1] >= turn[t].at[1]

\* Where session() makes the ids, a request that comes after an expiry never
\* continues a conversation begun before it.
ExpiredIsLeft ==
  adapter = "local" =>
    \A t \in Turns : turn[t].chat # None =>
      chats[turn[t].chat].at[2] >= turn[t].at[2]

\* The parent a turn is posted under is a message of the chat it is posted
\* to (the comment in china's Do: turns cannot reuse a stale parent id).
ParentOfChat ==
  \A t \in Turns :
    turn[t].pc = "post" /\ turn[t].parent # None =>
      turn[turn[t].parent].chat = turn[t].chat

\* A turn that was asked for ends, whatever happened to the ones before it.
TurnsEnd == \A t \in Turns : turn[t].pc # "idle" ~> turn[t].pc = "over"
=============================================================================
