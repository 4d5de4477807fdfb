--------------------------- MODULE ScriptsCoding ---------------------------
(***************************************************************************)
(* What the adapters of internal/providers/coding, codingmore, codingnext  *)
(* and codingfinal do in an exchange; the words are those of module        *)
(* Exchange.                                                               *)
(***************************************************************************)
EXTENDS Sequences

-----------------------------------------------------------------------------
(* coding                                                                  *)

CodingDo(script) == <<"check">> \o script

DoAntigravity == <<"check", "sendpass", "stream">>
DoIFlow == <<"check", "sendpass", "stream">>
DoKiro == <<"check", "sendpass", "stream">>

-----------------------------------------------------------------------------
(* codingmore                                                              *)

CodingMoreDo == <<"check", "lock", "sendpass", "stream">>
DoAugment == <<"check", "check", "lock", "sendpass", "guarded", "limit", "stream">>

\* The child process speaks ACP: initialize, session/new, session/prompt.
StartDevin == <<"check", "open", "guarded">>
RunDevinTurn == StartDevin \o <<"fetch", "create", "submit", "limit", "collect">>
DoDevin == <<"check">> \o RunDevinTurn

-----------------------------------------------------------------------------
(* codingnext: one turn of a session at a time                             *)

CodingNextDo(script) == <<"check", "lock">> \o script \o <<"guarded", "limit", "stream">>

\* A run that cannot be started is done without, and only a validated
\* completion ends it.
DecodeFreebuffSession == <<"fetch">>
DecodeFreebuffRunID == <<"start">>
FinishFreebuff == <<"removeok">>
DoFreebuff == DecodeFreebuffSession \o DecodeFreebuffRunID \o FinishFreebuff \o <<"sendpass">>
DoCodeBuddy == <<"sendpass">>
DoZedHosted == <<"check", "sendpass">>

-----------------------------------------------------------------------------
(* codingfinal: Do reads the whole answer, or hands it to a body that does *)

CodingFinalDo(script) == <<"check", "lock">> \o script \o <<"guarded", "limit", "stream">>

DoCursor == <<"check", "sendpass">>
DoQoder == <<"sendpass">>
DoV0 == <<"check", "sendpass">>
DoWarp == <<"check", "sendpass">>
DoWindsurf == <<"ask", "check", "sendpass">>

\* The session is created with the prompt in it; its events are another call.
DoTrae == <<"check", "submitpass", "limit", "replypass">>

\* The prompt goes to the standard input of a child process, which is killed
\* when it does not read it in time or the turn takes too long.
DoQoderCLI == <<"check", "open", "guarded", "submit", "collect">>

\* The child process must say hello, acknowledge and initialize in time.
StartZcode == <<"check", "open", "guarded", "fetch", "fetch">>
\* The workspace of the turn is removed and the session closed on the way out.
RunZcodeTurn ==
    <<"check", "open", "guarded">> \o StartZcode
    \o <<"fetch", "check", "create", "fetch", "submit", "limit">>
DoZCode == <<"check">> \o RunZcodeTurn

-----------------------------------------------------------------------------
CodingScripts ==
  [ antigravity |-> CodingDo(DoAntigravity), iFlow |-> CodingDo(DoIFlow),
    kiro |-> CodingDo(DoKiro), amazonQ |-> CodingMoreDo, augment |-> DoAugment,
    devin |-> DoDevin, freebuff |-> CodingNextDo(DoFreebuff),
    codeBuddy |-> CodingNextDo(DoCodeBuddy), zed |-> CodingNextDo(DoZedHosted),
    cursor |-> CodingFinalDo(DoCursor), qoder |-> CodingFinalDo(DoQoder),
    qoderCLI |-> <<"check", "lock">> \o DoQoderCLI, v0 |-> CodingFinalDo(DoV0),
    warp |-> CodingFinalDo(DoWarp), windsurf |-> CodingFinalDo(DoWindsurf),
    trae |-> CodingFinalDo(DoTrae), zcode |-> CodingFinalDo(DoZCode) ]
=============================================================================
