----------------------------- MODULE RepliesWeb -----------------------------
(***************************************************************************)
(* Decoders of internal/providers/embedded, enterpriseweb, webnext,        *)
(* businessweb and playground, and of the Devin command line runtime.      *)
(***************************************************************************)
EXTENDS ReplyOps

Unusable == {"broken", "garbled", "error"}

-----------------------------------------------------------------------------
(* embedded                                                                *)

\* newStreamBody: a body that ends before its parser is done is truncated.
EmbeddedStream(s, f, next) ==
    CASE f.kind \in {"eof", "broken"} -> Fail(s)
      [] f.kind = "blank" -> s
      [] OTHER -> next

\* An error has no event of its own.
FanzhaEvent(s, f) == EmbeddedStream(s, f,
    CASE f.kind = "done" -> Finish(s)
      [] f.kind = "garbled" -> Fail(s)
      [] f.kind = "answer" -> Emit(s, f.text)
      [] OTHER -> s)

TabbitEvent(s, f) == EmbeddedStream(s, f,
    CASE f.kind \in {"done", "end"} -> Finish(s)
      [] f.kind \in Unusable -> Fail(s)
      [] f.kind = "answer" -> Emit(s, f.text)
      [] OTHER -> s)

\* The final parts give the answer so far, and each is sent unless a piece
\* was streamed before it.
NotionPart(s, f) ==
    CASE f.kind = "eof" -> FinishIf(s, HasText(s))
      [] f.kind \in Unusable \cup {"done"} -> Fail(s)
      [] f.kind = "answer" -> EmitSeen(s, f)
      [] f.kind = "whole" /\ ~s.seen -> Emit(s, f.text)
      [] OTHER -> s

WordPressEvent(s, f) == EmbeddedStream(s, f,
    CASE f.kind \in {"done", "end"} -> Finish(s)
      [] f.kind \in Unusable -> Fail(s)
      [] f.kind = "answer" -> EmitEnd(s, f)
      [] OTHER -> s)

-----------------------------------------------------------------------------
(* enterpriseweb and webnext: convertedBody and collectResponse both       *)
(* refuse an answer without text.                                          *)

Converted(s) == FinishIf(s, HasText(s))

\* An event that is not JSON is passed over; the body may end without [DONE].
ParseMaxAI(s, f) ==
    CASE f.kind \in {"done", "eof"} -> Converted(s)
      [] f.kind \in {"error", "broken"} -> Fail(s)
      [] f.kind = "answer" -> Emit(s, f.text)
      [] OTHER -> s

\* The object of a thinking_status event is passed over.
ParseOpera(s, f) ==
    CASE f.kind \in {"done", "eof"} -> Converted(s)
      [] f.kind \in {"error", "broken"} -> Fail(s)
      [] f.kind = "answer" -> Emit(s, f.text)
      [] OTHER -> s

\* parseNotionText reads the whole body and keeps the longest account of the
\* answer it found, the record map before the patches. full is what the
\* patches added up to.
LongestAccount(s, t) == IF Len(t) > Len(s.text) THEN Replace(s, t) ELSE s
ParseNotionText(s, f) ==
    CASE f.kind = "eof" -> FinishIf(s, HasText(s) /\ ~s.reason)
      [] f.kind = "broken" -> Fail(s)
      [] f.kind = "error" -> Reason(s)
      [] f.kind = "answer" -> LET all == s.full \o f.text
                              IN LongestAccount([s EXCEPT !.full = all], all)
      [] f.kind = "whole" -> LongestAccount(s, f.text)
      [] OTHER -> s

ParseLiaoBots(s, f) ==
    CASE f.kind = "eof" -> Converted(s)
      [] f.kind = "broken" -> Fail(s)
      [] f.kind = "answer" -> Emit(s, f.text)
      [] OTHER -> s

\* Every line is the answer: nothing in the body says that it went wrong.
ParseFlowith(s, f) ==
    CASE f.kind = "eof" -> Converted(s)
      [] f.kind = "broken" -> Fail(s)
      [] OTHER -> Emit(s, f.text)

\* consume: snapshots; completion_finished is the end frame.
LangFastConsume(s, f) ==
    CASE f.kind \in Unusable \cup {"eof"} -> Fail(s)
      [] f.kind = "end" -> FinishIf(s, HasText(s))
      [] f.kind = "answer" -> IF f.text = <<>> /\ ~f.end THEN s
                              ELSE IF f.text = <<>> THEN FinishIf(s, HasText(s))
                              ELSE LET t == Grow(s, f.text)
                                   IN IF t.out = "reading" /\ f.end THEN Finish(t) ELSE t
      [] OTHER -> s

-----------------------------------------------------------------------------
(* businessweb: buffered                                                   *)

\* The last snapshot of a wrb.fr row is the answer.
ParseGeminiBusiness(s, f) ==
    CASE f.kind = "eof" -> FinishIf(s, HasText(s))
      [] f.kind \in Unusable \cup {"done"} -> Fail(s)
      [] f.kind = "answer" -> IF f.text = <<>> THEN s ELSE Replace(s, f.text)
      [] OTHER -> s

\* parseMakerSuiteTextStrict: nothing may follow the finish frame, and seen
\* says that it came.
ParseMakerSuite(s, f) ==
    CASE f.kind = "eof" -> FinishIf(s, s.seen /\ HasText(s))
      [] f.kind \in Unusable \cup {"strange", "blank", "done"} -> Fail(s)
      [] s.seen -> Fail(s)
      [] f.kind = "answer" -> IF f.end THEN Seen(Emit(s, f.text)) ELSE Emit(s, f.text)
      [] f.kind = "end" -> Seen(s)
      [] OTHER -> s

\* parseAIStudioBuildSSE: the same, with [DONE] and empty data passed over.
ParseAIStudioBuild(s, f) ==
    CASE f.kind \in {"blank", "done"} -> s
      [] OTHER -> ParseMakerSuite(s, f)

\* The loop of doCopilotM365: pieces are appended at the cursor, a snapshot
\* ("replace") takes the place of what was written, also one in the completion
\* of the invocation; a frame of another invocation is passed over.
M365Frame(s, f) ==
    CASE f.kind \in Unusable \cup {"eof"} -> Fail(s)
      [] f.kind = "answer" -> Emit(s, f.text)
      [] f.kind = "replace" -> LET t == IF f.text = <<>> THEN s ELSE Replace(s, f.text)
                               IN IF f.end THEN FinishIf(t, HasText(t)) ELSE t
      [] f.kind = "end" -> FinishIf(s, HasText(s))
      [] OTHER -> s

\* pollPromptQL: the last text of the thread, once a terminal event was seen.
PollPromptQL(s, f) ==
    LET t == IF f.text = <<>> THEN s ELSE Replace(s, f.text)
        u == IF f.kind = "end" \/ f.end THEN Seen(t) ELSE t
    IN CASE f.kind \in Unusable \cup {"eof"} -> Fail(s)
         [] f.kind \in {"answer", "whole", "end"} -> IF u.seen /\ HasText(u) THEN Finish(u) ELSE u
         [] OTHER -> s

-----------------------------------------------------------------------------
(* playground and Devin                                                    *)

\* consume: the finish event only names the reason; done ends the turn.
PlaygroundConsume(s, f) ==
    CASE f.kind \in Unusable \cup {"eof", "strange", "tool", "blank"} -> Fail(s)
      [] f.kind = "done" -> FinishIf(s, s.reason)
      [] f.kind = "end" -> Reason(s)
      [] f.kind \in {"answer", "thought"} -> IF s.reason THEN Fail(s)
                                             ELSE IF f.kind = "answer" THEN Emit(s, f.text) ELSE s
      [] OTHER -> s

\* runDevinTurn: the result of the prompt call ("whole") carries text that is
\* used if none was streamed, and ends the turn with its stop reason.
DevinMessage(s, f) ==
    CASE f.kind \in {"eof", "broken", "error", "changed"} -> Fail(s)
      [] f.kind = "answer" -> Emit(s, f.text)
      [] f.kind = "end" -> FinishIf(s, HasText(s))
      [] f.kind = "whole" -> LET t == IF HasText(s) THEN s ELSE Emit(s, f.text)
                             IN FinishIf(t, f.end /\ HasText(t))
      [] OTHER -> s
=============================================================================
