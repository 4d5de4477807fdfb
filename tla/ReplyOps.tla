------------------------------ MODULE ReplyOps ------------------------------
(***************************************************************************)
(* What the decoders of the provider adapters have in common. A decoder    *)
(* reads the frames of one upstream reply and turns them into the client's *)
(* answer. A frame is what a decoder can tell apart about an event:        *)
(*                                                                         *)
(*   answer   a piece of the answer (or the whole answer so far, where the *)
(*            upstream sends snapshots), with the end marker if end is set *)
(*   thought  private reasoning          more     text of the last channel *)
(*   whole    the final event, with the complete answer                    *)
(*   replace  the complete answer so far, in place of what was said        *)
(*   end      the final event, without text                                *)
(*   done     the [DONE] sentinel        error    an error event           *)
(*   tool     a tool call                info     a known event, no text   *)
(*   strange  an event the protocol does not name                          *)
(*   changed  an event of another message or conversation                  *)
(*   blank    an event without data      garbled  data that is not JSON    *)
(*   eof      a clean end of the body    broken   a transport error        *)
(***************************************************************************)
EXTENDS Sequences, SequencesExt

\* A decoder's state: its verdict so far, the text it has passed on, and the
\* flags decoders keep.
Start == [out |-> "reading", text |-> <<>>, seen |-> FALSE, reason |-> FALSE, think |-> FALSE,
          full |-> <<>>]

Fail(s) == [s EXCEPT !.out = "error"]
Finish(s) == [s EXCEPT !.out = "ok"]
FinishIf(s, fine) == IF fine THEN Finish(s) ELSE Fail(s)
Seen(s) == [s EXCEPT !.seen = TRUE]
Reason(s) == [s EXCEPT !.reason = TRUE]
Think(s, yes) == [s EXCEPT !.think = yes]
Emit(s, t) == [s EXCEPT !.text = @ \o t]
Replace(s, t) == [s EXCEPT !.text = t]
HasText(s) == s.text # <<>>
Rest(s, t) == SubSeq(t, Len(s.text) + 1, Len(t))

\* A snapshot may only extend what was passed on.
Grow(s, t) == IF IsPrefix(s.text, t) THEN Emit(s, Rest(s, t)) ELSE Fail(s)
\* Text is passed on, and the reply ends if the frame says so.
EmitEnd(s, f) == IF f.end THEN Finish(Emit(s, f.text)) ELSE Emit(s, f.text)
\* Text is passed on, and only text that is not empty counts as seen.
EmitSeen(s, f) == LET t == Emit(s, f.text) IN IF f.text = <<>> THEN t ELSE Seen(t)
=============================================================================
