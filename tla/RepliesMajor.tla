---------------------------- MODULE RepliesMajor ----------------------------
(***************************************************************************)
(* Decoders of internal/providers/majorweb. Most of them buffer the reply: *)
(* nothing reaches the client before the decoder has its verdict.          *)
(***************************************************************************)
EXTENDS ReplyOps

Broken == {"broken", "garbled", "error"}

\* newProviderStreamBody: the parser sees what the SSE decoder yields, and a
\* body that ends before the parser is done is truncated.
ProviderStream(s, f, next) ==
    CASE f.kind \in {"eof", "broken"} -> Fail(s)
      [] f.kind = "blank" -> s
      [] OTHER -> next

\* Text ends the reply if the frame says so, provided there is some.
EmitUntil(s, f) == LET t == Emit(s, f.text) IN IF f.end THEN FinishIf(t, HasText(t)) ELSE t

-----------------------------------------------------------------------------
(* Streamed replies                                                        *)

AdaptaEvent(s, f) == ProviderStream(s, f,
    CASE f.kind \in {"done", "end"} -> Finish(s)
      [] f.kind \in Broken -> Fail(s)
      [] f.kind = "answer" -> Emit(s, f.text)
      [] OTHER -> s)

ClaudeEvent(s, f) == ProviderStream(s, f,
    CASE f.kind \in {"done", "end"} -> Finish(s)
      [] f.kind \in Broken -> Fail(s)
      [] f.kind = "answer" -> Emit(s, f.text)
      [] OTHER -> s)

\* The result is one event, and an error has no event of its own.
GensparkEvent(s, f) == ProviderStream(s, f,
    CASE f.kind = "done" -> Finish(s)
      [] f.kind = "garbled" -> Fail(s)
      [] f.kind = "whole" -> IF f.text = <<>> THEN s ELSE Finish(Emit(s, f.text))
      [] OTHER -> s)

\* newValidatedResponsesStreamBody passes the events of the Responses API on.
ValidatedResponses(s, f) == ProviderStream(s, f,
    CASE f.kind = "end" -> Finish(s)
      [] f.kind \in Broken \cup {"done"} -> Fail(s)
      [] f.kind = "answer" -> Emit(s, f.text)
      [] OTHER -> s)

\* responsesEventWithIdentity: the text of output_text.done is used only if
\* no delta was.
ResponsesEvent(s, f) == ProviderStream(s, f,
    CASE f.kind \in {"done", "end"} -> Finish(s)
      [] f.kind \in Broken -> Fail(s)
      [] f.kind = "answer" -> Emit(s, f.text)
      [] f.kind = "replace" /\ ~HasText(s) -> Emit(s, f.text)
      [] OTHER -> s)

\* aggregateResponsesSSE reads on until the body ends.
AggregateResponses(s, f) ==
    CASE f.kind = "eof" -> FinishIf(s, s.reason)
      [] f.kind \in {"done", "end"} -> Reason(s)
      [] f.kind \in Broken -> Fail(s)
      [] f.kind = "answer" -> Emit(s, f.text)
      [] f.kind = "replace" /\ ~HasText(s) -> Emit(s, f.text)
      [] OTHER -> s

\* grokWebStream.next: a message that is not JSON is passed over, one of
\* another session is not.
GrokWebNext(s, f) ==
    CASE f.kind = "end" -> Finish(s)
      [] f.kind \in {"eof", "broken", "error", "changed"} -> Fail(s)
      [] f.kind = "answer" -> Emit(s, f.text)
      [] OTHER -> s

HuggingChatStream(s, f) == ProviderStream(s, f,
    CASE f.kind = "end" -> FinishIf(s, HasText(s))
      [] f.kind \in Broken \cup {"tool"} -> Fail(s)
      [] f.kind = "answer" -> Emit(s, f.text)
      [] OTHER -> s)

HyperAgentEvent(s, f) == ProviderStream(s, f,
    CASE f.kind \in {"done", "end"} -> FinishIf(s, HasText(s))
      [] f.kind \in Broken \cup {"changed"} -> Fail(s)
      [] f.kind = "answer" -> Emit(s, f.text)
      [] OTHER -> s)

\* The sentinel of Inner.ai does not end the reply, end_stream does.
InnerAIEvent(s, f) == ProviderStream(s, f,
    CASE f.kind = "end" -> FinishIf(s, HasText(s))
      [] f.kind \in Broken -> Fail(s)
      [] f.kind = "answer" -> Emit(s, f.text)
      [] OTHER -> s)

\* message_stop counts only after a stop reason.
ZenmuxNext(s, f) == ProviderStream(s, f,
    CASE f.kind = "end" -> IF s.reason THEN Finish(s) ELSE Fail(s)
      [] f.kind = "info" -> Reason(s)
      [] f.kind \in Broken \cup {"tool", "done"} -> Fail(s)
      [] f.kind = "answer" -> Emit(s, f.text)
      [] OTHER -> s)

\* textLineStream: the lines have no terminator, the body ends the reply.
TextLineStream(s, f, next) ==
    CASE f.kind = "eof" -> FinishIf(s, HasText(s))
      [] f.kind = "blank" -> s
      [] f.kind \in Broken \cup {"done"} -> Fail(s)
      [] OTHER -> next

PiLine(s, f) == TextLineStream(s, f, IF f.kind = "answer" THEN Emit(s, f.text) ELSE s)

\* Faulty variant: what a snapshot adds is computed from its length alone.
RekaByLength(s, f) == IF f.kind = "answer" THEN Emit(s, Rest(s, f.text)) ELSE s

\* Reka sends the whole answer again and may not change what was passed on.
RekaText(s, f) == IF f.kind = "answer" THEN Grow(s, f.text) ELSE s

RekaLine(s, f) == TextLineStream(s, f, RekaText(s, f))

-----------------------------------------------------------------------------
(* Buffered replies                                                        *)

\* readMerlin: a clean end of the body is as good as the sentinel.
ReadMerlin(s, f) ==
    CASE f.kind \in {"done", "eof"} -> FinishIf(s, HasText(s))
      [] f.kind \in Broken -> Fail(s)
      [] f.kind = "answer" -> Emit(s, f.text)
      [] OTHER -> s

\* easeAnswer
EaseAnswer(s, f) ==
    CASE f.kind \in {"done", "eof"} -> FinishIf(s, HasText(s))
      [] f.kind \in Broken -> Fail(s)
      [] f.kind = "answer" -> Emit(s, f.text)
      [] OTHER -> s

\* readYou: an error or a quota notice in the text ends it.
ReadYou(s, f) ==
    CASE f.kind \in {"done", "eof"} -> FinishIf(s, HasText(s))
      [] f.kind \in Broken -> Fail(s)
      [] f.kind = "answer" -> Emit(s, f.text)
      [] OTHER -> s

\* readSider: an event of another model, or of no known type, is refused.
ReadSider(s, f) ==
    CASE f.kind = "done" -> FinishIf(s, HasText(s))
      [] f.kind = "answer" -> Emit(s, f.text)
      [] f.kind \in {"thought", "info"} -> s
      [] OTHER -> Fail(s)

\* readArena shows participant A only.
ReadArena(s, f) ==
    CASE f.kind = "end" -> FinishIf(s, HasText(s))
      [] f.kind = "answer" -> Emit(s, f.text)
      [] f.kind \in {"thought", "info", "blank", "changed"} -> s
      [] OTHER -> Fail(s)

\* doBlackbox reads a text to its end and looks for refusals in it.
BlackboxText(s, f) ==
    CASE f.kind = "eof" -> FinishIf(s, HasText(s))
      [] f.kind = "answer" -> Emit(s, f.text)
      [] OTHER -> Fail(s)

\* collectConol prefers a whole answer to the deltas; what is not JSON is
\* passed over.
CollectConol(s, f) ==
    CASE f.kind \in {"done", "end"} ->
           LET t == IF s.full = <<>> THEN s ELSE Replace(s, s.full) IN FinishIf(t, HasText(t))
      [] f.kind \in {"eof", "broken", "error"} -> Fail(s)
      [] f.kind = "answer" -> Emit(s, f.text)
      [] f.kind = "whole" -> [s EXCEPT !.full = f.text]
      [] OTHER -> s

\* The loop of doCopilotWeb, without its challenges.
CopilotWebEvent(s, f) ==
    CASE f.kind = "end" -> FinishIf(s, HasText(s))
      [] f.kind = "answer" -> Emit(s, f.text)
      [] f.kind = "replace" -> Replace(s, f.text)
      [] f.kind \in Broken \cup {"eof", "tool"} -> Fail(s)
      [] OTHER -> s

ReadDuck(s, f) ==
    CASE f.kind = "done" -> FinishIf(s, HasText(s))
      [] f.kind \in Broken \cup {"eof"} -> Fail(s)
      [] f.kind = "answer" -> Emit(s, f.text)
      [] OTHER -> s

\* parseGeminiFrames and parseGeminiStreamResponse keep the last snapshot.
ParseGeminiStream(s, f) ==
    CASE f.kind = "eof" -> FinishIf(s, HasText(s))
      [] f.kind = "answer" -> Replace(s, f.text)
      [] f.kind = "info" -> s
      [] OTHER -> Fail(s)

\* parseGigaChatStreamResponse: ACCEPTED, deltas, READY with the whole answer.
ParseGigaChat(s, f) ==
    CASE f.kind = "eof" -> FinishIf(s, s.reason)
      [] s.reason \/ f.kind \in Broken \cup {"strange", "changed", "blank"} -> Fail(s)
      [] f.kind = "info" -> IF s.seen THEN Fail(s) ELSE Seen(s)
      [] f.kind = "answer" -> IF s.seen THEN Emit(s, f.text) ELSE Fail(s)
      [] f.kind = "whole" /\ s.seen /\ f.text # <<>> -> Reason(Replace(s, f.text))
      [] OTHER -> Fail(s)

\* readMeta: snapshots may be revised, only the terminal one is used.
ReadMeta(s, f) ==
    CASE f.kind = "answer" ->
           IF f.end THEN FinishIf(Replace(s, f.text), f.text # <<>>) ELSE s
      [] f.kind \in {"info", "blank"} -> s
      [] OTHER -> Fail(s)

ReadMonica(s, f) ==
    CASE f.kind \in {"done", "end"} -> FinishIf(s, HasText(s))
      [] f.kind = "answer" -> EmitUntil(s, f)
      [] f.kind \in Broken \cup {"eof"} -> Fail(s)
      [] OTHER -> s

\* The loop of doPerplexity: blocks are materialized or patched, also by the
\* event that ends the reply, which may carry the text itself. The decoder
\* yields events without data (emptyEvents), and those are not JSON.
PerplexityEvent(s, f) ==
    CASE f.kind \in {"done", "end"} -> FinishIf(s, HasText(s))
      [] f.kind = "whole" -> FinishIf(Replace(s, f.text), f.text # <<>>)
      [] f.kind = "answer" -> LET t == Replace(s, f.text)
                              IN IF f.end THEN FinishIf(t, HasText(t)) ELSE t
      [] f.kind \in Broken \cup {"eof", "changed", "blank"} -> Fail(s)
      [] OTHER -> s

\* poeAnswerFrame: only the completed message of this chat is an answer.
PoeAnswerFrame(s, f) ==
    CASE f.kind = "answer" ->
           IF f.end THEN FinishIf(Replace(s, f.text), f.text # <<>>) ELSE s
      [] f.kind \in Broken \cup {"eof"} -> Fail(s)
      [] OTHER -> s

ReadRaycast(s, f) ==
    CASE f.kind \in {"done", "end"} -> FinishIf(s, HasText(s))
      [] f.kind = "answer" -> EmitUntil(s, f)
      [] f.kind \in Broken \cup {"eof", "strange"} -> Fail(s)
      [] OTHER -> s

\* t3Text and readT3
ReadT3(s, f) ==
    CASE f.kind \in {"done", "end"} -> FinishIf(s, HasText(s))
      [] f.kind = "answer" -> EmitUntil(s, f)
      [] f.kind \in Broken \cup {"eof"} -> Fail(s)
      [] OTHER -> s

\* tinyResponse: one choice, a finish reason, then the sentinel.
TinyResponse(s, f) ==
    CASE f.kind = "done" -> FinishIf(s, s.reason /\ HasText(s))
      [] f.kind \in {"answer", "end"} /\ s.reason -> Fail(s)
      [] f.kind = "answer" -> LET t == Emit(s, f.text) IN IF f.end THEN Reason(t) ELSE t
      [] f.kind = "end" -> Reason(s)
      [] f.kind \in Broken \cup {"eof", "tool"} -> Fail(s)
      [] OTHER -> s

\* readUCTurn: the last frame ends the turn with the whole answer, if it
\* carries it (raw_text), or else with the pieces before it: a piece of its
\* own is not read.
ReadUCTurn(s, f) ==
    CASE f.kind = "end" -> FinishIf(s, HasText(s))
      [] f.kind = "whole" -> LET t == IF f.text = <<>> THEN s ELSE Replace(s, f.text)
                             IN FinishIf(t, HasText(t))
      [] f.kind = "answer" -> IF f.end THEN FinishIf(s, HasText(s)) ELSE Emit(s, f.text)
      [] f.kind \in Broken \cup {"eof", "done"} -> Fail(s)
      [] OTHER -> s
=============================================================================
