----------------------------- MODULE Providers -----------------------------
(***************************************************************************)
(* The provider adapters: the exchange an adapter makes for one call of Do *)
(* (Exchange), the sessions of the adapters that keep conversations        *)
(* (ProviderSessions) and the sessions of the browser driver (WebSession). *)
(* They meet only in what they hand over and share no state; the sessions  *)
(* of both kinds have the same keys and the same limit.                    *)
(***************************************************************************)
EXTENDS WebSession

CONSTANTS
    Scripts,        \* what every adapter does in an exchange
    Turns,          \* calls of the adapters that keep conversations
    Private,        \* the absent session header
    Kinds,          \* how such an adapter keeps its ids
    MaxChanges      \* bound: changes of a session by the operator

VARIABLES
    adapter, word, out, prompts, chat, cleanup, removed, held, guard,
    kind, table, session, gate, turn, chats, changed

exchange == <<adapter, word, out, prompts, chat, cleanup, removed, held, guard>>
sessions == <<kind, table, session, gate, turn, chats, changed>>

Call == INSTANCE Exchange WITH pc <- word, made <- chat

Gated == INSTANCE ProviderSessions WITH Adapters <- Kinds, adapter <- kind

\* What the instances satisfy
ProvidersAssumption ==
    Call!ScriptsAssumption /\ Gated!SessionsAssumption /\ WebAssumption

-----------------------------------------------------------------------------
(* Properties: SubmittedOnce and CompleteIsWhole of WebSession, and        *)

(* A prompt is posted again only after one the upstream turned away, and   *)
(* an answer belongs to the last of them; a request that is refused as     *)
(* unsupported is refused before anything of it was posted, limits on an   *)
(* answer's length excepted (every adapter's Do, ErrUnsupported).          *)
PromptOnce == Call!PromptOnce /\ Call!UnsupportedIsEarly

(* However an exchange ends, no socket, browser tab, child process, body,  *)
(* session gate or temporary conversation stays behind (every adapter's Do *)
(* and the stream it hands over).                                          *)
NothingLeftOpen == Call!NothingLeftOpen /\ Call!ConversationsRemoved

(* A session has one turn at a time between the lock and the end of its    *)
(* response (Gate, sessionResponseBody.unlock).  A conversation stays with *)
(* the key it was begun for, no later request finds it after a clear, nor, *)
(* where session() makes the ids, after an expiry (ChangeSession).         *)
SessionsAreSeparate ==
    /\ Gated!TypeOK /\ Gated!OneTurnAtATime
    /\ Gated!ConversationOfKey /\ Gated!ExpiredIsLeft
=============================================================================
