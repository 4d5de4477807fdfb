---------------------------- MODULE RepliesChina ----------------------------
(***************************************************************************)
(* Decoders of the Chinese web adapters (internal/providers/china,         *)
(* chinanext, chinamore, chinaremaining, chinaapps, chinafinal) and of the *)
(* website adapters of internal/providers/webhttp.                         *)
(***************************************************************************)
EXTENDS ReplyOps

-----------------------------------------------------------------------------
(* webhttp                                                                 *)

\* The loop of decode: sentinel, end of body, errors, then the adapter's own.
WebhttpFrame(s, f, next) ==
    CASE f.kind = "eof" -> FinishIf(s, s.reason)
      [] f.kind = "blank" -> s
      [] f.kind = "done" -> FinishIf(s, s.seen)
      [] f.kind \in {"broken", "garbled", "error"} -> Fail(s)
      [] OTHER -> next

\* Chat completion chunks (venice-web, inkeep).
WebhttpChunks(s, f) == WebhttpFrame(s, f,
    CASE f.kind = "answer" /\ s.reason -> Fail(s)
      [] f.kind = "answer" -> LET t == Seen(Emit(s, f.text)) IN IF f.end THEN Reason(t) ELSE t
      [] f.kind = "end" -> Reason(Seen(s))
      [] f.kind = "tool" -> Fail(s)
      [] OTHER -> s)

Aifreeforever(s, f) == WebhttpFrame(s, f,
    CASE f.kind = "answer" -> Seen(Emit(s, f.text))
      [] f.kind = "end" -> FinishIf(s, s.seen)
      [] f.kind = "info" -> s
      [] OTHER -> Fail(s))

\* complete carries the whole answer, which may only extend the tokens.
Gptanon(s, f) == WebhttpFrame(s, f,
    CASE f.kind = "answer" -> Seen(Emit(s, f.text))
      [] f.kind = "whole" -> LET t == Grow(s, f.text) IN IF t.out = "error" THEN t ELSE Finish(t)
      [] f.kind = "end" -> FinishIf(s, s.seen)
      [] f.kind = "info" -> s
      [] OTHER -> Fail(s))

\* readPlainText: no terminator, a clean end of a body that is not empty.
PlainText(s, f) ==
    CASE f.kind = "answer" -> Emit(s, f.text)
      [] f.kind = "eof" -> FinishIf(s, HasText(s))
      [] OTHER -> Fail(s)

-----------------------------------------------------------------------------
(* china                                                                   *)

\* parseSSE
ChinaSSE(s, f, next) ==
    CASE f.kind \in {"eof", "broken", "garbled"} -> Fail(s)
      [] f.kind = "blank" -> s
      [] f.kind = "done" -> Finish(s)
      [] OTHER -> next

\* Errors of this upstream have no field the decoder looks at.
ConsumeQwen(s, f) == ChinaSSE(s, f,
    CASE f.kind = "answer" -> EmitEnd(s, f)
      [] f.kind = "end" -> Finish(s)
      [] OTHER -> s)

\* A snapshot that does not extend the last one is sent again in full.
GLMText(s, f) ==
    IF IsPrefix(s.full, f.text)
    THEN Emit(s, SubSeq(f.text, Len(s.full) + 1, Len(f.text)))
    ELSE Emit(s, f.text)

\* The parts of a GLM message, joined. An intervention, the service's own
\* error, ends the answer with the reason it gives.
ConsumeGLM(s, f) == ChinaSSE(s, f,
    CASE f.kind = "answer" ->
           LET t == [GLMText(s, f) EXCEPT !.full = f.text] IN IF f.end THEN Finish(t) ELSE t
      [] f.kind \in {"end", "error"} -> Finish(Emit(s, f.text))
      [] OTHER -> s)

ConsumeZAI(s, f) == ChinaSSE(s, f,
    CASE f.kind = "error" -> Fail(s)
      [] f.kind = "answer" -> Emit(s, f.text)
      [] f.kind = "end" -> Finish(s)
      [] OTHER -> s)

\* parseKimi reads length-prefixed frames: a sentinel would not be JSON.
ParseKimi(s, f) ==
    CASE f.kind \in {"eof", "broken", "garbled", "done"} -> Fail(s)
      [] OTHER -> s

ConsumeKimi(s, f) ==
    CASE f.kind = "error" -> Fail(s)
      [] f.kind = "answer" -> EmitEnd(s, f)
      [] f.kind = "end" -> Finish(s)
      [] OTHER -> ParseKimi(s, f)

-----------------------------------------------------------------------------
(* chinanext                                                               *)

\* parseSSE: a Doubao answer may end with the body.
NextSSE(s, f, eofEnds, next) ==
    CASE f.kind = "eof" -> FinishIf(s, eofEnds /\ HasText(s))
      [] f.kind \in {"broken", "garbled"} -> Fail(s)
      [] f.kind = "blank" -> s
      [] f.kind = "done" -> Finish(s)
      [] OTHER -> next

ConsumeDoubao(s, f, eofEnds) == NextSSE(s, f, eofEnds,
    CASE f.kind = "error" -> Fail(s)
      [] f.kind = "end" -> Finish(s)
      [] f.kind = "answer" -> Emit(s, f.text)
      [] OTHER -> s)

\* A stop reason in an event of type text is not looked at.
ConsumeYuanbao(s, f) == NextSSE(s, f, FALSE,
    CASE f.kind = "answer" -> Emit(s, f.text)
      [] f.kind = "end" -> Finish(s)
      [] OTHER -> s)

\* Fragments name their channel, later text follows the last fragment: the
\* string of a patch at any path but the status's, one the decoder does not
\* know ("strange") included.
ConsumeDeepFragment(s, f) ==
    IF f.kind = "thought" THEN Think(s, TRUE) ELSE Emit(Think(s, FALSE), f.text)

ConsumeDeepSeek(s, f) == NextSSE(s, f, FALSE,
    CASE f.kind \in {"thought", "answer"} -> ConsumeDeepFragment(s, f)
      [] f.kind \in {"more", "strange"} -> IF s.think THEN s ELSE Emit(s, f.text)
      [] f.kind = "end" -> Finish(s)
      [] OTHER -> s)

-----------------------------------------------------------------------------
(* chinamore                                                               *)

ConsumeMimo(s, f) ==
    CASE f.kind = "error" -> Fail(s)
      [] f.kind = "answer" -> EmitEnd(s, f)
      [] f.kind = "end" -> Finish(s)
      [] OTHER -> s

\* convertMimo
ConvertMimo(s, f) ==
    CASE f.kind \in {"eof", "broken", "garbled"} -> Fail(s)
      [] f.kind = "done" -> Finish(s)
      [] f.kind = "blank" -> s
      [] OTHER -> ConsumeMimo(s, f)

ConsumeStep(s, f) ==
    CASE f.kind = "error" -> Fail(s)
      [] f.kind = "answer" -> Emit(Seen(s), f.text)
      [] OTHER -> Seen(s)

\* convertStep: the frame flag or a done event ends the reply, if any event
\* was read.
ConvertStep(s, f) ==
    CASE f.kind \in {"eof", "broken", "garbled", "done"} -> Fail(s)
      [] f.kind = "end" -> Finish(Seen(s))
      [] f.kind = "blank" -> IF f.end THEN FinishIf(s, s.seen) ELSE s
      [] OTHER -> LET t == ConsumeStep(s, f)
                  IN IF f.end /\ t.out = "reading" THEN Finish(t) ELSE t

\* pollMiniMaxToWithMessageID: each poll is a snapshot; eof is the last poll.
\* A stream cannot take text back, a buffered answer can. A poll without the
\* message is tried again, also one that says the chat is finished.
PollMiniMax(s, f, stream) ==
    CASE f.kind = "answer" ->
           LET t == IF stream THEN Grow(s, f.text) ELSE Replace(s, f.text)
           IN IF t.out = "error" \/ ~f.end THEN t ELSE Finish(t)
      [] f.kind \in {"end", "info", "strange", "thought", "tool"} -> s
      [] OTHER -> Fail(s)

-----------------------------------------------------------------------------
(* chinaremaining                                                          *)

\* decodeUpstream: the end needs text; a clean end of a Metaso body counts.
DecodeUpstream(s, f, eofEnds, next) ==
    CASE f.kind = "eof" -> FinishIf(s, eofEnds /\ HasText(s))
      [] f.kind = "broken" -> Fail(s)
      [] f.kind = "blank" -> s
      [] f.kind = "done" -> FinishIf(s, HasText(s))
      [] OTHER -> next

\* sourceEventText for each adapter
QwenCNText(s, f, stream) == DecodeUpstream(s, f, FALSE,
    CASE f.kind = "answer" -> IF stream THEN Grow(s, f.text) ELSE Replace(s, f.text)
      [] f.kind = "thought" -> s
      [] OTHER -> Fail(s))

MetasoText(s, f) == DecodeUpstream(s, f, TRUE,
    CASE f.kind = "answer" -> Emit(s, f.text)
      [] f.kind \in {"garbled", "error"} -> Fail(s)
      [] OTHER -> s)

\* Spark: base64 text events and <sid> events.
SparkText(s, f) == DecodeUpstream(s, f, FALSE,
    CASE f.kind = "answer" -> Emit(s, f.text)
      [] f.kind = "info" -> s
      [] OTHER -> Fail(s))

-----------------------------------------------------------------------------
(* chinaapps and chinafinal                                                *)

\* decodeIMA: COMPLETED, then nothing but the close event ("done") and the end
\* of the body.
DecodeIMA(s, f) ==
    CASE f.kind = "eof" -> FinishIf(s, s.reason /\ HasText(s))
      [] f.kind = "end" -> Reason(s)
      [] f.kind = "blank" -> s
      [] f.kind = "done" -> IF s.reason THEN s ELSE Fail(s)
      [] f.kind \in {"broken", "garbled", "error"} \/ s.reason -> Fail(s)
      [] f.kind = "answer" -> Emit(s, f.text)
      [] OTHER -> s

\* doWeRead polls snapshots and keeps the last one that is not empty.
PollWeRead(s, f) ==
    CASE f.kind = "answer" ->
           LET t == IF f.text = <<>> THEN s ELSE Replace(s, f.text)
           IN IF f.end THEN FinishIf(t, HasText(t)) ELSE t
      [] f.kind = "end" -> FinishIf(s, HasText(s))
      [] f.kind \in {"info", "strange", "thought", "tool"} -> s
      [] OTHER -> Fail(s)

\* decodeCompletion: a chunk with nothing but text, or a refusal.
DecodeCompletion(s, f) ==
    CASE f.kind = "answer" -> LET t == Emit(s, f.text) IN IF f.end THEN Reason(t) ELSE t
      [] f.kind = "end" -> Reason(s)
      [] f.kind \in {"thought", "info"} -> s
      [] OTHER -> Fail(s)

\* walkTencentSSE wants a finish reason and the sentinel.
WalkTencent(s, f) ==
    CASE f.kind = "blank" -> s
      [] f.kind = "done" -> FinishIf(s, s.reason)
      [] OTHER -> DecodeCompletion(s, f)
=============================================================================
