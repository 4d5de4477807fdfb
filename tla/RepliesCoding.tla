---------------------------- MODULE RepliesCoding ----------------------------
(***************************************************************************)
(* Decoders of the coding-agent adapters (internal/providers/coding,       *)
(* codingmore, codingnext, codingfinal). The verdict "cut" is a body that  *)
(* ends without a terminal event and without an error: the gateway's       *)
(* observer then calls the stream incomplete.                              *)
(***************************************************************************)
EXTENDS ReplyOps

Cut(s) == [s EXCEPT !.out = "cut"]
\* Text that may carry the finish reason, after which reading goes on.
EmitReason(s, f) == LET t == Seen(Emit(s, f.text)) IN IF f.end THEN Reason(t) ELSE t

-----------------------------------------------------------------------------
(* coding                                                                  *)

\* antigravityStream: every candidate must have finished at the end of the
\* body, or the prompt was blocked ("end" too); a sentinel is enough once a
\* candidate was seen.
AntigravityStream(s, f) ==
    CASE f.kind = "answer" -> EmitReason(s, f)
      [] f.kind = "end" -> Reason(Seen(s))
      [] f.kind = "done" -> FinishIf(s, s.seen)
      [] f.kind = "eof" -> FinishIf(s, s.reason)
      [] f.kind \in {"broken", "garbled", "error"} -> Fail(s)
      [] f.kind \in {"thought", "tool"} -> Seen(s)
      [] OTHER -> s

\* iFlowChatStream writes the chunks it reads again and never a sentinel.
IFlowChatStream(s, f) ==
    CASE f.kind = "answer" -> Emit(s, f.text)
      [] f.kind \in {"done", "eof"} -> Cut(s)
      [] f.kind \in {"broken", "garbled"} -> Fail(s)
      [] OTHER -> s

\* iFlowMessagesStream closes the message at the sentinel.
IFlowMessagesStream(s, f) ==
    CASE f.kind = "answer" -> Emit(s, f.text)
      [] f.kind = "done" -> Finish(s)
      [] f.kind = "eof" -> Cut(s)
      [] f.kind \in {"broken", "garbled"} -> Fail(s)
      [] OTHER -> s

\* decodeKiroEvent: any event without an error counts, known or not.
DecodeKiroEvent(s, f) ==
    CASE f.kind = "answer" -> EmitReason(s, f)
      [] f.kind = "end" -> Reason(Seen(s))
      [] f.kind \in {"garbled", "error", "tool", "done"} -> Fail(s)
      [] OTHER -> Seen(s)

\* kiroStream: the AWS event stream has no terminator of its own.
KiroStream(s, f) ==
    CASE f.kind = "eof" -> FinishIf(s, s.seen)
      [] f.kind = "broken" -> Fail(s)
      [] OTHER -> DecodeKiroEvent(s, f)

-----------------------------------------------------------------------------
(* codingmore                                                              *)

\* nextAugmentLine and augmentStream
AugmentStream(s, f) ==
    CASE f.kind = "answer" -> EmitEnd(s, f)
      [] f.kind = "end" -> Finish(s)
      [] f.kind \in {"info", "blank"} -> s
      [] OTHER -> Fail(s)

\* decodeAmazonQEvent
DecodeAmazonQEvent(s, f) ==
    CASE f.kind = "answer" -> EmitReason(s, f)
      [] f.kind = "end" -> Reason(s)
      [] f.kind \in {"garbled", "error", "strange", "tool", "done"} -> Fail(s)
      [] OTHER -> s

\* amazonQStream
AmazonQStream(s, f) ==
    CASE f.kind = "eof" -> FinishIf(s, s.reason)
      [] f.kind = "broken" -> Fail(s)
      [] OTHER -> DecodeAmazonQEvent(s, f)

-----------------------------------------------------------------------------
(* codingnext                                                              *)

\* streamToOpenAIJSON
StreamToOpenAIJSON(s, f) ==
    CASE f.kind = "done" -> FinishIf(s, s.seen)
      [] f.kind \in {"answer", "end"} -> EmitReason(s, f)
      [] f.kind \in {"thought", "tool", "changed"} -> Seen(s)
      [] f.kind \in {"eof", "broken", "garbled", "error"} -> Fail(s)
      [] OTHER -> s

\* copyValidatedOpenAISSE passes any JSON event on.
CopyValidatedOpenAISSE(s, f) ==
    CASE f.kind = "done" -> FinishIf(s, s.seen)
      [] f.kind \in {"answer", "end"} -> EmitReason(s, f)
      [] f.kind = "blank" -> s
      [] f.kind \in {"eof", "broken", "garbled", "error"} -> Fail(s)
      [] OTHER -> Seen(s)

\* zedStatus and zedEventToChunk: the finish reason of a choice ends the
\* reply, that of a Gemini candidate is only noted.
ZedEvent(s, f, gemini) ==
    CASE f.kind = "answer" -> LET t == EmitSeen(s, f)
                              IN IF f.end /\ ~gemini THEN FinishIf(t, t.seen) ELSE t
      [] f.kind \in {"thought", "tool"} -> Seen(s)
      [] f.kind \in {"garbled", "error", "strange"} -> Fail(s)
      [] OTHER -> s

\* convertZedStream
ConvertZedStream(s, f, gemini) ==
    CASE f.kind \in {"end", "done"} -> FinishIf(s, s.seen)
      [] f.kind \in {"eof", "broken"} -> Fail(s)
      [] OTHER -> ZedEvent(s, f, gemini)

-----------------------------------------------------------------------------
(* codingfinal                                                             *)

\* collectOpenAISSE
CollectOpenAISSE(s, f) ==
    CASE f.kind = "done" -> FinishIf(s, s.seen)
      [] f.kind = "eof" -> FinishIf(s, s.seen /\ s.reason)
      [] f.kind = "answer" -> EmitReason(s, f)
      [] f.kind = "end" -> Reason(Seen(s))
      [] f.kind \in {"thought", "tool"} -> Seen(s)
      [] f.kind \in {"broken", "garbled", "error"} -> Fail(s)
      [] OTHER -> s

\* qoderToJSON, v0ToJSON: a JSON body is an answer of its own.
WholeOrSSE(s, f) == IF f.kind = "whole" THEN Finish(Emit(s, f.text)) ELSE CollectOpenAISSE(s, f)

\* cursorFramesToSSE: the end-stream frame, or the turn's end in a message,
\* with the last text or without.
CursorFramesToSSE(s, f) ==
    CASE f.kind \in {"end", "done"} -> FinishIf(s, s.seen)
      [] f.kind = "answer" -> LET t == EmitSeen(s, f)
                              IN IF f.end THEN FinishIf(t, t.seen) ELSE t
      [] f.kind = "thought" -> Seen(s)
      [] f.kind \in {"eof", "broken", "garbled", "error"} -> Fail(s)
      [] OTHER -> s

\* traeToSSE sends what a snapshot has beyond the length it has sent.
TraeToSSE(s, f) ==
    CASE f.kind = "end" -> FinishIf(s, HasText(s))
      [] f.kind = "answer" -> IF Len(f.text) > Len(s.text) THEN Emit(s, Rest(s, f.text)) ELSE s
      [] f.kind \in {"eof", "broken", "garbled", "error", "done"} -> Fail(s)
      [] OTHER -> s

\* warpActionMessage and decodeWarpFinished, inside warpToSSE
WarpToSSE(s, f) ==
    CASE f.kind = "end" -> FinishIf(s, s.seen)
      [] f.kind = "answer" -> LET t == EmitSeen(s, f)
                              IN IF f.end THEN FinishIf(t, t.seen) ELSE t
      [] f.kind = "thought" -> Seen(s)
      [] f.kind \in {"eof", "broken", "garbled", "error", "tool"} -> Fail(s)
      [] OTHER -> s

\* windsurfToSSE: only the end-of-stream frame ends the reply.
WindsurfToSSE(s, f) ==
    CASE f.kind = "done" -> FinishIf(s, s.seen)
      [] f.kind = "end" -> Reason(s)
      [] f.kind = "answer" -> EmitSeen(s, f)
      [] f.kind \in {"thought", "tool"} -> Seen(s)
      [] f.kind \in {"eof", "broken", "garbled", "error"} -> Fail(s)
      [] OTHER -> s
=============================================================================
