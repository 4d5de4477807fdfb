---------------------------- MODULE ScriptsMajor ----------------------------
(***************************************************************************)
(* What the adapters of internal/providers/majorweb do in an exchange; the *)
(* words are those of module Exchange. A streamed answer is read by the    *)
(* client, or by Do itself when the client asked for no stream.            *)
(***************************************************************************)
EXTENDS Sequences

\* Do: a closed client, an unknown adapter, a session header an adapter does
\* not keep and a missing credential end the exchange at once.
MajorDo(script) == <<"check">> \o script

\* The response is read to its end under a deferred close.
Buffered == <<"send", "guarded", "collect">>

-----------------------------------------------------------------------------
(* One post                                                                *)

DoMerlin == <<"check">> \o Buffered
DoSider == <<"check">> \o Buffered
DoArena == <<"check">> \o Buffered
DoMeta == <<"check">> \o Buffered
DoMonica == <<"check">> \o Buffered
DoYou == <<"check">> \o Buffered
DoT3 == <<"check">> \o Buffered
DoPerplexity == <<"check", "sendpass", "guarded", "collect">>
DoGenspark == <<"check", "sendpass", "stream">>
DoZenmux == <<"check", "send", "stream">>
DoGrokResponses == <<"check", "sendpass", "stream">>

\* consoleDPoPRequest: a token is minted for every attempt, and there is a
\* second attempt only after a 401.
MintConsoleDPoP == <<"fetch">>
ConsoleDPoPRequest == MintConsoleDPoP \o <<"sendpass", "resend">>
DoGrokConsole == <<"check">> \o ConsoleDPoPRequest \o <<"stream">>

-----------------------------------------------------------------------------
(* Calls before the post                                                   *)

\* The session exchange is cached until the upstream answers 401 or 403.
AdaptaToken == <<"token">>
DoAdapta == <<"check">> \o AdaptaToken \o <<"sendpass", "stream">>

\* The account's session, then its subscription.
DoBlackbox == <<"check", "fetch", "fetch">> \o Buffered

ClaudeOrganization == <<"fetch">>
ClaudeCreateConversation == <<"createpass">>
DoClaude ==
    <<"check">> \o ClaudeOrganization \o ClaudeCreateConversation \o <<"sendpass", "stream">>

DoConol == <<"check", "create", "fetch", "fetch", "submit", "reply", "guarded", "collect">>
DoHuggingChat == <<"check", "create", "fetch", "sendpass", "stream">>
DoHyperAgent == <<"check", "createpass", "ask", "sendpass", "stream">>

\* The model must be in the account's catalog.
DoInnerAI == <<"check", "ask", "check", "sendpass", "stream">>
DoRaycast == <<"check", "fetch", "check">> \o Buffered

DoPi == <<"check", "createpass", "sendpass", "stream">>
DoReka == <<"check", "sendpass", "stream">>
DoTinyCMS == <<"check", "fetch">> \o Buffered

-----------------------------------------------------------------------------
(* Sockets                                                                 *)

\* A challenge that comes before any text has the prompt sent again with its
\* solution, at most twice.
DoCopilotWeb ==
    <<"check", "createpass", "open", "guarded", "submit", "resubmit", "resubmit", "collect">>

\* The prompt is sent when the stream is first read.
DoGrokWeb == <<"check", "open", "stream", "submit">>

PoeQuery == <<"fetch">>
DoPoe ==
    <<"check", "fetch">> \o PoeQuery \o <<"open", "guarded", "open", "guarded">> \o PoeQuery
    \o <<"submit", "collect">>

DoUC == <<"check", "fetch", "open", "guarded", "submit", "collect">>

-----------------------------------------------------------------------------
(* Browser tabs: the page is loaded, the capture installed, the button     *)
(* pressed and the captured answer polled                                  *)

DoDuck == <<"check", "open", "guarded", "fetch", "fetch", "fetch", "submit", "collect">>
\* The model is chosen in the page and may be missing there.
DoEaseMate == <<"check", "open", "guarded", "fetch", "check", "fetch", "fetch", "submit", "collect">>
\* A draft in the composer is left alone.
DoGeminiWeb == <<"check", "open", "guarded", "fetch", "check", "fetch", "submit", "collect">>
DoGigaChatWeb ==
    <<"check", "open", "guarded", "fetch", "check", "fetch", "fetch", "submit", "collect">>

-----------------------------------------------------------------------------
MajorScripts ==
  [ merlin |-> MajorDo(DoMerlin), sider |-> MajorDo(DoSider), arena |-> MajorDo(DoArena),
    meta |-> MajorDo(DoMeta), monica |-> MajorDo(DoMonica), you |-> MajorDo(DoYou),
    t3 |-> MajorDo(DoT3), perplexity |-> MajorDo(DoPerplexity),
    genspark |-> MajorDo(DoGenspark), zenmux |-> MajorDo(DoZenmux),
    grokBuild |-> MajorDo(DoGrokResponses), grokConsole |-> MajorDo(DoGrokConsole),
    adapta |-> MajorDo(DoAdapta), blackbox |-> MajorDo(DoBlackbox),
    claude |-> MajorDo(DoClaude), conol |-> MajorDo(DoConol),
    huggingChat |-> MajorDo(DoHuggingChat), hyperAgent |-> MajorDo(DoHyperAgent),
    innerAI |-> MajorDo(DoInnerAI), raycast |-> MajorDo(DoRaycast), pi |-> MajorDo(DoPi),
    reka |-> MajorDo(DoReka), tinyCMS |-> MajorDo(DoTinyCMS),
    copilotWeb |-> MajorDo(DoCopilotWeb), grokWeb |-> MajorDo(DoGrokWeb),
    poe |-> MajorDo(DoPoe), uc |-> MajorDo(DoUC), duck |-> MajorDo(DoDuck),
    easeMate |-> MajorDo(DoEaseMate), geminiWeb |-> MajorDo(DoGeminiWeb),
    gigaChat |-> MajorDo(DoGigaChatWeb) ]
=============================================================================
