------------------------------ MODULE Replies ------------------------------
(***************************************************************************)
(* One reply of one provider, read by the decoder of its adapter. The      *)
(* upstream tells an answer token by token (a token is its position), in   *)
(* pieces or in snapshots as its protocol does, with everything else it    *)
(* may send in between, and may fail, stop or be cut off at any point.     *)
(***************************************************************************)
EXTENDS Naturals, RepliesChina, RepliesCoding, RepliesMajor, RepliesWeb

CONSTANT MaxTokens      \* how much an upstream tells at most

China == {"venice", "aifreeforever", "gptanon", "producttext", "qwen", "glm", "zai", "kimi",
          "doubao", "doubao-eof", "yuanbao", "deepseek", "mimo", "step", "minimax-stream",
          "minimax", "qwencn-stream", "qwencn", "metaso", "spark", "ima", "weread", "tencent"}
Coding == {"antigravity", "iflow-chat", "iflow-messages", "kiro", "augment", "amazonq",
           "openai-json", "openai-copy", "zed", "zed-gemini", "openai-collect", "qoder",
           "cursor", "trae", "warp", "windsurf"}
Major == {"adapta", "claude", "genspark", "responses", "responses-chat", "responses-json",
          "grok-web", "huggingchat", "hyperagent", "innerai", "zenmux", "pi", "reka", "merlin",
          "easemate", "you", "sider", "arena", "blackbox", "conol", "copilot-web", "duck",
          "gemini-web", "gigachat", "meta", "monica", "perplexity", "poe", "raycast", "t3",
          "tinycms", "uc"}
Web == {"fanzha", "tabbit", "notion", "wordpress", "maxai", "opera", "notion-web", "liaobots",
        "flowith", "langfast", "gemini-business", "aistudio-playground", "aistudio-build",
        "m365", "promptql", "playground", "devin"}
Adapters == China \cup Coding \cup Major \cup Web

DecodeChina(a, s, f) ==
    CASE a = "venice" -> WebhttpChunks(s, f)
      [] a = "aifreeforever" -> Aifreeforever(s, f)
      [] a = "gptanon" -> Gptanon(s, f)
      [] a = "producttext" -> PlainText(s, f)
      [] a = "qwen" -> ConsumeQwen(s, f)
      [] a = "glm" -> ConsumeGLM(s, f)
      [] a = "zai" -> ConsumeZAI(s, f)
      [] a = "kimi" -> ConsumeKimi(s, f)
      [] a = "doubao" -> ConsumeDoubao(s, f, FALSE)
      [] a = "doubao-eof" -> ConsumeDoubao(s, f, TRUE)
      [] a = "yuanbao" -> ConsumeYuanbao(s, f)
      [] a = "deepseek" -> ConsumeDeepSeek(s, f)
      [] a = "mimo" -> ConvertMimo(s, f)
      [] a = "step" -> ConvertStep(s, f)
      [] a \in {"minimax", "minimax-stream"} -> PollMiniMax(s, f, a = "minimax-stream")
      [] a \in {"qwencn", "qwencn-stream"} -> QwenCNText(s, f, a = "qwencn-stream")
      [] a = "metaso" -> MetasoText(s, f)
      [] a = "spark" -> SparkText(s, f)
      [] a = "ima" -> DecodeIMA(s, f)
      [] a = "weread" -> PollWeRead(s, f)
      [] a = "tencent" -> WalkTencent(s, f)

DecodeCoding(a, s, f) ==
    CASE a = "antigravity" -> AntigravityStream(s, f)
      [] a = "iflow-chat" -> IFlowChatStream(s, f)
      [] a = "iflow-messages" -> IFlowMessagesStream(s, f)
      [] a = "kiro" -> KiroStream(s, f)
      [] a = "augment" -> AugmentStream(s, f)
      [] a = "amazonq" -> AmazonQStream(s, f)
      [] a = "openai-json" -> StreamToOpenAIJSON(s, f)
      [] a = "openai-copy" -> CopyValidatedOpenAISSE(s, f)
      [] a \in {"zed", "zed-gemini"} -> ConvertZedStream(s, f, a = "zed-gemini")
      [] a = "openai-collect" -> CollectOpenAISSE(s, f)
      [] a = "qoder" -> WholeOrSSE(s, f)
      [] a = "cursor" -> CursorFramesToSSE(s, f)
      [] a = "trae" -> TraeToSSE(s, f)
      [] a = "warp" -> WarpToSSE(s, f)
      [] a = "windsurf" -> WindsurfToSSE(s, f)

DecodeMajor(a, s, f) ==
    CASE a = "adapta" -> AdaptaEvent(s, f)
      [] a = "claude" -> ClaudeEvent(s, f)
      [] a = "genspark" -> GensparkEvent(s, f)
      [] a = "responses" -> ValidatedResponses(s, f)
      [] a = "responses-chat" -> ResponsesEvent(s, f)
      [] a = "responses-json" -> AggregateResponses(s, f)
      [] a = "grok-web" -> GrokWebNext(s, f)
      [] a = "huggingchat" -> HuggingChatStream(s, f)
      [] a = "hyperagent" -> HyperAgentEvent(s, f)
      [] a = "innerai" -> InnerAIEvent(s, f)
      [] a = "zenmux" -> ZenmuxNext(s, f)
      [] a = "pi" -> PiLine(s, f)
      [] a = "reka" -> RekaLine(s, f)
      [] a = "merlin" -> ReadMerlin(s, f)
      [] a = "easemate" -> EaseAnswer(s, f)
      [] a = "you" -> ReadYou(s, f)
      [] a = "sider" -> ReadSider(s, f)
      [] a = "arena" -> ReadArena(s, f)
      [] a = "blackbox" -> BlackboxText(s, f)
      [] a = "conol" -> CollectConol(s, f)
      [] a = "copilot-web" -> CopilotWebEvent(s, f)
      [] a = "duck" -> ReadDuck(s, f)
      [] a = "gemini-web" -> ParseGeminiStream(s, f)
      [] a = "gigachat" -> ParseGigaChat(s, f)
      [] a = "meta" -> ReadMeta(s, f)
      [] a = "monica" -> ReadMonica(s, f)
      [] a = "perplexity" -> PerplexityEvent(s, f)
      [] a = "poe" -> PoeAnswerFrame(s, f)
      [] a = "raycast" -> ReadRaycast(s, f)
      [] a = "t3" -> ReadT3(s, f)
      [] a = "tinycms" -> TinyResponse(s, f)
      [] a = "uc" -> ReadUCTurn(s, f)

DecodeWeb(a, s, f) ==
    CASE a = "fanzha" -> FanzhaEvent(s, f)
      [] a = "tabbit" -> TabbitEvent(s, f)
      [] a = "notion" -> NotionPart(s, f)
      [] a = "wordpress" -> WordPressEvent(s, f)
      [] a = "maxai" -> ParseMaxAI(s, f)
      [] a = "opera" -> ParseOpera(s, f)
      [] a = "notion-web" -> ParseNotionText(s, f)
      [] a = "liaobots" -> ParseLiaoBots(s, f)
      [] a = "flowith" -> ParseFlowith(s, f)
      [] a = "langfast" -> LangFastConsume(s, f)
      [] a = "gemini-business" -> ParseGeminiBusiness(s, f)
      [] a = "aistudio-playground" -> ParseMakerSuite(s, f)
      [] a = "aistudio-build" -> ParseAIStudioBuild(s, f)
      [] a = "m365" -> M365Frame(s, f)
      [] a = "promptql" -> PollPromptQL(s, f)
      [] a = "playground" -> PlaygroundConsume(s, f)
      [] a = "devin" -> DevinMessage(s, f)

Decode(a, s, f) ==
    CASE a \in China -> DecodeChina(a, s, f)
      [] a \in Coding -> DecodeCoding(a, s, f)
      [] a \in Major -> DecodeMajor(a, s, f)
      [] a \in Web -> DecodeWeb(a, s, f)

-----------------------------------------------------------------------------
(* The upstreams                                                           *)

\* The answer comes as snapshots of all of it.
Snapshots == {"glm", "minimax-stream", "minimax", "qwencn-stream", "qwencn", "weread", "trae",
              "reka", "gemini-web", "meta", "perplexity", "poe", "langfast", "gemini-business",
              "promptql"}
\* The protocol has no terminal event: a clean end of the body is the end.
EofEnds == {"producttext", "doubao-eof", "metaso", "kiro", "pi", "reka", "merlin", "easemate",
            "you", "blackbox", "gemini-web", "notion", "maxai", "opera", "notion-web",
            "liaobots", "flowith", "gemini-business"}
\* An event may carry text and end the reply.
Flagged == {"venice", "qwen", "glm", "kimi", "yuanbao", "mimo", "step", "minimax",
            "minimax-stream", "weread", "tencent", "antigravity", "iflow-chat",
            "iflow-messages", "kiro", "augment", "amazonq", "openai-json", "openai-copy", "zed",
            "zed-gemini", "openai-collect", "qoder", "cursor", "warp", "windsurf", "meta",
            "monica", "poe", "raycast", "t3", "tinycms", "uc", "perplexity", "wordpress",
            "langfast", "aistudio-playground", "aistudio-build", "promptql"}
\* A final event that carries the whole answer, whether it ends the reply, and
\* whether it may correct the pieces.
WholeEnds == {"gptanon", "qoder", "genspark", "gigachat", "perplexity", "uc", "devin"}
HasWhole == WholeEnds \cup {"conol", "notion", "notion-web"}
Correcting == {"gptanon", "gigachat", "perplexity", "uc", "conol"}
\* Events that put the whole answer in place of the pieces, or repeat it.
Replacing == {"copilot-web", "m365"}
Repeating == {"responses-chat", "responses-json"}
\* Decoders that look at no error event.
Deaf == {"qwen", "glm", "yuanbao", "deepseek", "iflow-chat", "iflow-messages", "genspark",
         "fanzha", "liaobots"}
\* Decoders that take the text of an event they do not know for the answer's,
\* that do not read the piece that comes with the end, and that send an answer
\* twice if it comes in two final parts.
Credulous == {"deepseek"}
LastUnread == {"uc"}
Twice == {"notion"}

\* What a well-behaved upstream sends after the pieces.
Closing(a) ==
    CASE a \in {"venice", "tencent", "tinycms", "playground", "windsurf"} -> <<"end", "done">>
      [] a \in {"ima", "antigravity", "amazonq", "responses-json", "openai-collect",
                "aistudio-playground", "aistudio-build"} -> <<"end", "eof">>
      [] a = "zenmux" -> <<"info", "end">>
      [] a \in {"minimax", "minimax-stream", "weread", "meta", "poe"} -> <<"last">>
      [] a \in EofEnds -> <<"eof">>
      [] a \in {"gptanon", "genspark", "devin"} -> <<"whole">>
      [] a = "gigachat" -> <<"whole", "eof">>
      [] a = "conol" -> <<"whole", "done">>
      [] a \in {"qwencn", "qwencn-stream", "spark", "iflow-messages", "iflow-chat", "openai-json",
                "openai-copy", "qoder", "sider", "duck", "adapta", "fanzha", "mimo"} -> <<"done">>
      [] OTHER -> <<"end">>

VARIABLES adapter, dec, told, ended, erred, revised, final, voice, tidy, sent

vars == <<adapter, dec, told, ended, erred, revised, final, voice, tidy, sent>>

NextToken == Len(told) + 1
Foreign == MaxTokens + 2      \* text that is no part of the answer
Frame(kind, text, end) == [kind |-> kind, text |-> text, end |-> end]
Extended == IF Len(told) < MaxTokens THEN {told, Append(told, NextToken)} ELSE {told}

\* The pieces, or the snapshots, an upstream may send next.
Revision == {<<MaxTokens + 1>>}
Answers == [kind : {"answer"},
            text : IF adapter \in Snapshots THEN Extended \cup Revision
                   ELSE {SubSeq(t, Len(told) + 1, Len(t)) : t \in Extended},
            end : IF adapter \in Flagged THEN BOOLEAN ELSE {FALSE}]
Everything == IF told = <<>> THEN {<<1>>} ELSE {told}
Wholes == CASE adapter \in HasWhole ->
                 [kind : {"whole"},
                  text : Everything \cup (IF adapter \in Correcting THEN Revision ELSE {}),
                  end : IF adapter = "devin" THEN BOOLEAN ELSE {TRUE}]     \* its stop reason
            [] adapter \in Replacing ->
                 [kind : {"replace"}, text : Extended \cup Revision,
                  end : IF adapter = "m365" THEN BOOLEAN ELSE {FALSE}]
            [] adapter \in Repeating ->
                 [kind : {"replace"}, text : Everything, end : {FALSE}]
            [] OTHER -> {}
\* What only some upstreams send: text for the channel named last (0 stands for
\* reasoning) and text of a field that is not the answer's; the reason for an
\* intervention; the end flag alone.
Others == CASE adapter = "deepseek" -> {Frame("more", IF voice THEN <<NextToken>> ELSE <<0>>, FALSE),
                                        Frame("strange", <<Foreign>>, FALSE)}
            [] adapter = "glm" -> {Frame("error", <<Foreign>>, FALSE)}
            [] adapter = "step" -> {Frame("blank", <<>>, TRUE)}
            [] OTHER -> {}
Controls == [kind : {"thought", "end", "done", "error", "tool", "info", "strange", "changed",
                     "blank", "garbled", "eof", "broken"}, text : {<<>>}, end : {FALSE}]

\* What the upstream has told once it has sent f.
Told(f) == CASE f.kind \in {"whole", "replace"} -> f.text
             [] f.kind = "answer" -> IF adapter \in Snapshots THEN f.text ELSE told \o f.text
             [] f.kind = "more" -> IF voice THEN told \o f.text ELSE told
             [] f.kind = "error" -> told \o f.text
             [] OTHER -> told

\* Flowith's lines have no structure; Genspark sends its result at once; a
\* Qoder reply is a JSON body or a stream; Notion may go on after a final part.
Possible(f) == /\ adapter = "flowith" => f.kind \in {"answer", "blank", "eof", "broken"}
               /\ adapter = "genspark" => f.kind # "answer"
               /\ adapter = "qoder" /\ f.kind = "whole" => dec = Start
               /\ f.kind = "answer" =>
                    final # "again" /\ (final = "whole" => adapter \in Twice)
               /\ f.kind = "whole" => final # "again" /\ (final = "whole" => adapter \in Twice)
               /\ revised => IsPrefix(told, Told(f))      \* text is taken back once
               /\ Len(told) = MaxTokens => f.kind # "more"
               /\ f.kind = "strange" /\ f.text # <<>> => Foreign \notin ToSet(dec.text)

Ends(f) == \/ f.kind \in {"end", "done"}
           \/ f.kind \in {"answer", "replace", "blank"} /\ f.end
           \/ f.kind = "whole" /\ f.end /\ adapter \in WholeEnds
           \/ f.kind = "eof" /\ adapter \in EofEnds
           \/ f.kind = "error" /\ adapter = "glm"      \* an intervention, with its reason

\* Whether f is the next thing a well-behaved upstream sends: pieces of the
\* answer (after what opens the reply), then what closes it.
ClosingKind(f) == IF f.kind = "answer" /\ f.end THEN "last" ELSE f.kind
Proper(f) == \/ f.kind = "answer" /\ ~f.end /\ f.text # <<>> /\ sent = 0 /\ IsPrefix(told, Told(f))
             \/ sent < Len(Closing(adapter)) /\ Closing(adapter)[sent + 1] = ClosingKind(f)
                /\ (told # <<>> \/ f.kind = "whole") /\ (f.kind = "answer" => Told(f) = told)
                /\ (f.kind = "whole" => f.end /\ IsPrefix(told, f.text))
             \/ f.kind = "info" /\ adapter = "gigachat" /\ ~dec.seen
Opened == adapter = "gigachat" => dec.seen

Init == /\ adapter \in Adapters
        /\ dec = Start /\ told = <<>> /\ voice = TRUE
        /\ ended = FALSE /\ erred = FALSE /\ revised = FALSE /\ final = "no"
        /\ tidy = TRUE /\ sent = 0

\* The upstream sends a frame and the decoder reads it.
Read(f) == /\ dec.out = "reading"
           /\ Possible(f)
           /\ dec' = Decode(adapter, dec, f)
           /\ told' = Told(f)
           /\ ended' = (ended \/ Ends(f))
           /\ erred' = (erred \/ f.kind = "error")
           /\ revised' = (revised \/ ~IsPrefix(told, Told(f)))
           /\ final' = CASE f.kind = "whole" /\ final = "whole" -> "again"
                         [] f.kind = "whole" -> "whole"
                         [] f.kind = "answer" /\ f.end -> "piece"
                         [] OTHER -> final
           /\ voice' = IF f.kind \in {"answer", "thought"} THEN f.kind = "answer" ELSE voice
           /\ tidy' = (tidy /\ Proper(f) /\ (Opened \/ f.kind = "info"))
           /\ sent' = IF tidy' /\ ~(f.kind = "answer" /\ ~f.end)
                         /\ ~(adapter = "gigachat" /\ f.kind = "info")
                      THEN sent + 1 ELSE sent
           /\ UNCHANGED adapter

Next == \E f \in Answers \cup Wholes \cup Others \cup Controls : Read(f)

Spec == Init /\ [][Next]_vars

-----------------------------------------------------------------------------
(* Properties                                                              *)

\* A reply is called complete only if the upstream said that it was: a body
\* that breaks off, or that reports an error, is never a success (decoders
\* that do not look at error events excepted).
HonestEnd == dec.out = "ok" => ended /\ (~erred \/ adapter \in Deaf)

\* The client of a complete reply gets exactly the answer the upstream told:
\* no piece twice, none missing, no reasoning and no text that was taken back.
\* Where a decoder falls short of that, the property says how far: text of an
\* unknown field, a last piece that came with the end, a repeated final part,
\* and, for a snapshot that takes text back, the old text before it (GLM) or
\* in its place (Trae).
Given == IF adapter \in Credulous THEN SelectSeq(dec.text, LAMBDA t : t # Foreign) ELSE dec.text
Repeated == adapter \in Twice /\ final = "again" /\ dec.text = told \o told
WholeAnswer ==
    dec.out = "ok" => \/ Given = told
                      \/ Repeated
                      \/ adapter \in LastUnread /\ final = "piece" /\ dec.text = Front(told)
                      \/ adapter = "glm" /\ revised /\ IsSuffix(told, dec.text)
                      \/ adapter = "trae" /\ revised /\ Len(dec.text) >= Len(told)

\* Nothing is passed on that the upstream did not tell.
OnlyTold == IsPrefix(Given, told) \/ Repeated \/ revised

\* A reply that keeps to its protocol is accepted, however it is cut into
\* pieces.
GoodReplyAccepted ==
    tidy /\ sent = Len(Closing(adapter)) => dec.out \in {"ok", "cut"}
=============================================================================
