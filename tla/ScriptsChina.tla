---------------------------- MODULE ScriptsChina ----------------------------
(***************************************************************************)
(* What the adapters of internal/providers/china, chinanext, chinamore,    *)
(* chinaremaining, chinafinal, chinaapps and webhttp do in an exchange;    *)
(* the words are those of module Exchange.                                 *)
(***************************************************************************)
EXTENDS Sequences

-----------------------------------------------------------------------------
(* china: the gate of the named session is held until the answer is read   *)

ChinaDo(script) == <<"check", "lock">> \o script \o <<"stream">>

DoKimi == <<"sendpass">>
QwenCreateChat == <<"maycreate">>
DoQwen == QwenCreateChat \o <<"sendpass">>
GLMToken == <<"token">>
DoGLM == GLMToken \o <<"sendpass">>
ZAICreateChat == <<"maycreate">>
DoZAI == ZAICreateChat \o <<"sendpass">>

-----------------------------------------------------------------------------
(* chinanext                                                               *)

ChinaNextDo(script) == <<"check", "lock">> \o script \o <<"stream">>

DoDola == <<"sendpass">>
CreateYuanbaoConversation == <<"maycreate">>
DoYuanbao == CreateYuanbaoConversation \o <<"sendpass">>
DeepSeekAccessToken == <<"token">>
CreateDeepSeekSession == <<"maycreate">>
DeepSeekChallenge == <<"fetch">>
DoDeepSeek == DeepSeekAccessToken \o CreateDeepSeekSession \o DeepSeekChallenge \o <<"sendpass">>

\* The tab is opened under a gate of its own; the page is loaded, the model
\* chosen (it may be missing), the capture installed and the draft filled in.
SetDoubaoCookies == <<"fetch">>
DoubaoSelectModel == <<"check">>
DoubaoCapture == <<"collect">>
DoDoubao ==
    <<"check", "lock", "open", "guarded", "fetch">> \o SetDoubaoCookies \o <<"fetch">>
    \o DoubaoSelectModel \o <<"fetch", "fetch", "submit">> \o DoubaoCapture

-----------------------------------------------------------------------------
(* chinamore: one turn of the account at a time                            *)

ChinaMoreDo(script) == <<"check", "lock">> \o script \o <<"stream">>

DoMimo == <<"fetch", "sendpass">>
MiniDeviceInfo == <<"token">>
DoMiniMax == <<"check">> \o MiniDeviceInfo \o <<"submitpass">>
StepAccessToken == <<"token">>
RemoveStepConversation == <<"removeok">>
DoStep == <<"check">> \o StepAccessToken \o <<"create">> \o RemoveStepConversation \o <<"sendpass">>

-----------------------------------------------------------------------------
(* chinaremaining: a temporary conversation for every turn                 *)

ChinaRemainingDo(script) == <<"check", "lock">> \o script \o <<"stream">>

CreateEmohaaConversation == <<"create">>
DeleteEmohaaConversation == <<"remove">>
DoEmohaa == CreateEmohaaConversation \o DeleteEmohaaConversation \o <<"sendpass">>

CreateSparkConversation == <<"create">>
DeleteSparkConversation == <<"remove">>
DoSpark == CreateSparkConversation \o DeleteSparkConversation \o <<"sendpass">>

AcquireMetaToken == <<"fetch">>
CreateMetasoConversation == <<"create">>
DoMetaso == <<"check">> \o AcquireMetaToken \o CreateMetasoConversation \o <<"sendpass">>
\* The search runs in a browser context of its own, which the body closes.
MetasoBrowserStream ==
    <<"check">> \o AcquireMetaToken \o CreateMetasoConversation
    \o <<"open", "guarded", "fetch", "fetch", "submit">>

\* The request that warms the account up may fail.
DoQwenCN == <<"check", "try", "sendpass">>

-----------------------------------------------------------------------------
(* chinafinal, chinaapps and webhttp                                       *)

ChinaFinalDo == <<"check", "lock", "sendpass", "stream">>
DoIMA == <<"check", "createpass", "sendpass", "guarded", "collect">>
\* The first poll carries the question; the others name the chat it began,
\* and without its name the exchange fails rather than ask again.
DoWeRead == <<"check", "submitpass", "replypass", "guarded", "collect">>

WebhttpDo == <<"check", "sendpass", "stream">>
DoToolbaz == <<"check", "sendpass", "guarded", "collect">>
DoPhindAI == <<"check", "ask", "sendpass", "guarded", "collect">>
DoWhiteRabbit == <<"check", "sendpass", "stream">>

-----------------------------------------------------------------------------
ChinaScripts ==
  [ kimi |-> ChinaDo(DoKimi), qwen |-> ChinaDo(DoQwen), glm |-> ChinaDo(DoGLM),
    zai |-> ChinaDo(DoZAI), dola |-> ChinaNextDo(DoDola), yuanbao |-> ChinaNextDo(DoYuanbao),
    deepSeek |-> ChinaNextDo(DoDeepSeek), doubao |-> DoDoubao, mimo |-> ChinaMoreDo(DoMimo),
    miniMax |-> ChinaMoreDo(DoMiniMax), step |-> ChinaMoreDo(DoStep),
    emohaa |-> ChinaRemainingDo(DoEmohaa), spark |-> ChinaRemainingDo(DoSpark),
    metaso |-> ChinaRemainingDo(DoMetaso), metasoTab |-> ChinaRemainingDo(MetasoBrowserStream),
    qwenCN |-> ChinaRemainingDo(DoQwenCN), tencent |-> ChinaFinalDo, ima |-> DoIMA,
    weRead |-> DoWeRead, webhttp |-> WebhttpDo, toolbaz |-> DoToolbaz, phindAI |-> DoPhindAI,
    whiteRabbit |-> DoWhiteRabbit ]
=============================================================================
