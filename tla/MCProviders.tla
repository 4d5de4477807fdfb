---------------------------- MODULE MCProviders ----------------------------
(***************************************************************************)
(* The provider adapters, for TLC, with the decoding of their replies. The *)
(* components share no state, so one run explores them side by side: part  *)
(* says which of them a behaviour is about, and the others stay in an      *)
(* initial state. The sessions that adapters keep are explored twice: two  *)
(* turns with a key each, which the operator changes once, for every kind  *)
(* of adapter ("keyed"), and three turns for one key ("queued").  There    *)
(* are two keys, two accounts and room for one session.                    *)
(***************************************************************************)
EXTENDS Providers, TLC, ScriptsMajor, ScriptsChina, ScriptsCoding, ScriptsWeb

CONSTANTS k1, k2, a1, a2

AllScripts == MajorScripts @@ ChinaScripts @@ CodingScripts @@ WebScripts

VARIABLES part, decoder, dec, told, ended, erred, revised, final, voice, tidy, sent

Decoding == INSTANCE Replies WITH MaxTokens <- 3, adapter <- decoder

ASSUME InstanceAssumption == ProvidersAssumption

reply == <<decoder, dec, told, ended, erred, revised, final, voice, tidy, sent>>
all == <<part, exchange, reply, sessions, vars>>

-----------------------------------------------------------------------------

MCInit ==
    /\ part \in {"exchange", "reply", "keyed", "queued", "web"}
    /\ Call!Init /\ (part # "exchange" => adapter = "reka")
    /\ Decoding!Init /\ (part # "reply" => decoder = "reka")
    /\ Gated!Init /\ (part = "queued" => kind \in {"local", "child"})
    /\ part \notin {"keyed", "queued"} => kind = "local"
    /\ Init /\ account = a1      \* the accounts are alike

\* What the two explorations of the sessions leave out
Keyed == turn'[3].pc = "idle"
Queued == changed' = changed /\ \A t \in Turns : turn'[t].key # k2

MCStep ==
    \/ part = "exchange" /\ Call!Next /\ UNCHANGED <<reply, sessions, vars>>
    \/ part = "reply" /\ Decoding!Next /\ UNCHANGED <<exchange, sessions, vars>>
    \/ part = "keyed" /\ Gated!Next /\ Keyed /\ UNCHANGED <<exchange, reply, vars>>
    \/ part = "queued" /\ Gated!Next /\ Queued /\ UNCHANGED <<exchange, reply, vars>>
    \/ part = "web" /\ Next /\ UNCHANGED <<exchange, reply, sessions>>

MCNext == MCStep /\ UNCHANGED part

\* The fairness of the components
Fairness ==
    /\ \A t \in Turns :
         /\ WF_all(part = "queued" /\ Gated!Step(t) /\ UNCHANGED <<part, exchange, reply, vars>>)
         /\ SF_all(part = "queued" /\ Gated!Lock(t) /\ UNCHANGED <<part, exchange, reply, vars>>)
    /\ WF_all(part = "web" /\ Step /\ UNCHANGED <<part, exchange, reply, sessions>>)
    /\ WF_all(part = "web" /\ Abandon /\ UNCHANGED <<part, exchange, reply, sessions>>)

MCSpec == MCInit /\ [][MCNext]_all /\ Fairness

-----------------------------------------------------------------------------
(* Properties: those of Providers and WebSession, and                      *)

(* A reply is called complete only if the upstream said that it was, and   *)
(* then the client has exactly the answer that was told: no piece twice,   *)
(* none missing, none made up.  A reply that keeps to its protocol is      *)
(* accepted, however it is cut into pieces (every decoder).                *)
ReplyIsHonest ==
    /\ Decoding!HonestEnd /\ Decoding!WholeAnswer
    /\ Decoding!OnlyTold /\ Decoding!GoodReplyAccepted

(* A turn that was asked for ends, whatever happened to the ones before it *)
(* (Gate.Lock, Do's deferred unlock); and so does a turn in the browser,   *)
(* so that the source's only lease is returned (Driver.Do).                *)
EveryTurnEnds ==
    /\ \A t \in Turns :
         part = "queued" /\ turn[t].pc # "idle" ~> part = "queued" /\ turn[t].pc = "over"
    /\ TurnsEnd
=============================================================================
