----------------------------- MODULE ScriptsWeb -----------------------------
(***************************************************************************)
(* What the adapters of internal/providers/embedded, enterpriseweb,        *)
(* webnext, businessweb and playground do in an exchange; the words are    *)
(* those of module Exchange.                                               *)
(***************************************************************************)
EXTENDS Sequences

-----------------------------------------------------------------------------
(* embedded                                                                *)

EmbeddedDo(script) == <<"check">> \o script

FanzhaCreateSession == <<"create">>
DoFanzha == <<"check">> \o FanzhaCreateSession \o <<"sendpass", "stream">>

\* The second call opens the page of the new session.
TabbitSession == <<"create", "fetch">>
\* A 499 means the signing key is stale: it is renewed and the request signed
\* and sent once more.
TabbitChat == <<"sendpass", "resend">>
\* 404 and 405 mean that the deployment only has the older endpoint.
TabbitChatV1 == <<"resend", "resend">>
DoTabbit ==
    <<"check">> \o TabbitSession \o TabbitChat \o TabbitChatV1 \o <<"guarded", "fetch", "stream">>

DoNotion == <<"check", "createpass", "sendpass", "stream">>
\* The message is posted, then its answer is asked for.
DoWordPress == <<"check", "submitpass", "replypass", "guarded", "fetch", "stream">>

-----------------------------------------------------------------------------
(* enterpriseweb                                                           *)

EnterpriseDo(script) == <<"check">> \o script

\* The response must be an event stream.
DoMaxAI == <<"check", "sendpass", "guarded", "fetch", "stream">>
DoNotionEnterprise == <<"check", "sendpass", "stream">>
OperaAccessToken == <<"token">>
DoOperaAria == <<"check">> \o OperaAccessToken \o <<"sendpass", "guarded", "fetch", "stream">>

\* The query is in the address of the page.
GoogleAIModeText == <<"open", "guarded", "fetch", "submit", "try", "try", "collect">>
DoGoogleAIMode == <<"check">> \o GoogleAIModeText

-----------------------------------------------------------------------------
(* webnext                                                                 *)

WebnextDo(script) == <<"check">> \o script

FlowithPreauthorize == <<"fetch">>
DoFlowith == FlowithPreauthorize \o <<"sendpass", "stream">>
DoLiaoBots == <<"sendpass", "stream">>

\* The dial closes the socket itself when the handshake fails.
DialLangFast == <<"open", "guarded", "fetch">>
\* The answer comes over the socket once the run is started.
DoLangFast == <<"check">> \o DialLangFast \o <<"submitpass", "stream">>

-----------------------------------------------------------------------------
(* businessweb and playground                                              *)

BusinessDo(script) == <<"check">> \o script

DoGeminiBusiness == <<"check", "send", "guarded", "collect">>
DoAIStudioPlayground == <<"check", "send", "guarded", "collect">>

AIStudioBuildStartup == <<"fetch">>
AIStudioBuildPreviewFrame == <<"fetch">>
AIStudioBuildFetch ==
    <<"open", "guarded", "fetch", "fetch">> \o AIStudioBuildStartup
    \o AIStudioBuildPreviewFrame \o <<"submit", "collect">>
DoAIStudioBuild == <<"check">> \o AIStudioBuildFetch

\* The SignalR handshake comes before the invocation.
DoCopilotM365 == <<"check", "open", "guarded", "fetch", "submit", "collect">>

\* start_thread posts the prompt and may hold the answer already.
PromptGQL == <<"submit">>
PollPromptQLThread == <<"collect">>
DoPromptQL == <<"check">> \o PromptGQL \o PollPromptQLThread

\* The page is opened, and its socket sends the request.
StartBrowserAt == <<"open", "guarded", "fetch", "fetch", "submit">>
PlaygroundDo == <<"check">> \o StartBrowserAt \o <<"stream">>

-----------------------------------------------------------------------------
WebScripts ==
  [ fanzha |-> EmbeddedDo(DoFanzha), tabbit |-> EmbeddedDo(DoTabbit),
    notionEmbedded |-> EmbeddedDo(DoNotion), wordPress |-> EmbeddedDo(DoWordPress),
    maxAI |-> EnterpriseDo(DoMaxAI), notion |-> EnterpriseDo(DoNotionEnterprise),
    opera |-> EnterpriseDo(DoOperaAria), googleAIMode |-> EnterpriseDo(DoGoogleAIMode),
    flowith |-> WebnextDo(DoFlowith), liaoBots |-> WebnextDo(DoLiaoBots),
    langFast |-> WebnextDo(DoLangFast), geminiBusiness |-> BusinessDo(DoGeminiBusiness),
    aiStudio |-> BusinessDo(DoAIStudioPlayground), aiStudioBuild |-> BusinessDo(DoAIStudioBuild),
    m365 |-> BusinessDo(DoCopilotM365), promptQL |-> BusinessDo(DoPromptQL),
    playground |-> PlaygroundDo ]
=============================================================================
