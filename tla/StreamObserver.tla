--------------------------- MODULE StreamObserver ---------------------------
(***************************************************************************)
(* What the gateway makes of a stream of frames: CompletionObserver        *)
(* (internal/protocol/execution.go) within streamResponse                  *)
(* (internal/api/stream.go).  Module Generation takes the end of a         *)
(* response as a single fact; here it is what the observer concludes from  *)
(* the frames of each protocol, in whatever order a provider sends them.   *)
(***************************************************************************)
EXTENDS Integers, Sequences, FiniteSets, FiniteSetsExt

CONSTANTS
    Protocols,
    Indices,        \* indices of the choices, or candidates, of a response
    Invalid,        \* an index below 0 or above 1024
    Tokens,         \* token counts that are declared
    MaxFrames       \* bound: frames of a response

\* What the instances satisfy
ObserverAssumption ==
    /\ Protocols \subseteq {"chat", "messages", "responses", "gemini"}
    /\ IsFiniteSet(Indices) /\ Tokens \subseteq Nat /\ MaxFrames \in Nat

VARIABLES
    protocol,
    observer,   \* the CompletionObserver
    sent,       \* frames that were written to the client
    result,     \* the ExecutionResult, once streamResponse has returned
    frames,     \* history: all frames that arrived
    fate        \* history: what became of the connections, "open", "eof",
                \* "broken" (the provider's, or the limit) or "gone" (the client)

vars == <<protocol, observer, sent, result, frames, fate>>

None == -1          \* not declared
Nothing == [in |-> None, out |-> None, total |-> None]
Running == [state |-> "running"]

\* A frame is an event, the choice it belongs to, and the usage it declares.
Frame(kind, choice, usage) == [kind |-> kind, choice |-> choice, usage |-> usage]
Bare == {"comment", "error_event", "invalid_json", "error_field", "failed", "done", "stop", "blocked"}
Declared ==
    {[in |-> i, out |-> o, total |-> None] : i, o \in Tokens \cup {None}}
        \cup {[in |-> None, out |-> None, total |-> t] : t \in Tokens}
Frames ==
    {Frame(k, Invalid, Nothing) : k \in Bare}
        \cup {Frame(k, c, Nothing) : k \in {"text", "finish"}, c \in Indices \cup {Invalid}}
        \cup {Frame("usage", Invalid, u) : u \in Declared \ {Nothing}}

-----------------------------------------------------------------------------
(* The observer                                                            *)

Refuses(o, why) == [o EXCEPT !.error = why]

\* Faulty variant: one finished choice completes the response.
SomeFinished(choices) == \E c \in DOMAIN choices : choices[c]

AllFinished(choices) == \A c \in DOMAIN choices : choices[c]

\* CompletionObserver.choice
Choice(o, c, finished) ==
    LET known == DOMAIN o.choices
        next == [x \in known \cup {c} |->
                   (x \in known /\ o.choices[x]) \/ (x = c /\ finished)]
    IN IF c = Invalid THEN Refuses(o, "invalid_choice_index")
       ELSE [o EXCEPT !.choices = next, !.complete = AllFinished(next)]

Ends(o) == [o EXCEPT !.complete = TRUE, !.terminal = TRUE]
Shows(o) == [o EXCEPT !.output = TRUE]

\* A total that no frame declares is computed when both parts are known.
SumIfKnown(o, in, out) == IF in # None /\ out # None THEN in + out ELSE o.usage.total

\* mergeUsage: what is declared later replaces what was; a total is only
\* computed while none was declared.
MergeUsage(o, u) ==
    LET in == IF u.in = None THEN o.usage.in ELSE u.in
        out == IF u.out = None THEN o.usage.out ELSE u.out
        declared == o.totalSeen \/ u.total # None
    IN IF u = Nothing THEN o
       ELSE [o EXCEPT !.usage = [in |-> in, out |-> out,
                                 total |-> IF u.total # None THEN u.total
                                           ELSE IF declared THEN o.usage.total
                                           ELSE SumIfKnown(o, in, out)],
                      !.totalSeen = declared]

Done(o) == IF protocol = "chat" THEN Ends(o) ELSE Refuses(o, "unexpected_completion_marker")

Failed(o) == Refuses(o, "upstream_incomplete")

\* CompletionObserver.Observe
Observe(o, f) ==
    LET u == MergeUsage(o, f.usage)
    IN CASE f.kind = "comment" -> o
         [] f.kind = "error_event" -> Refuses(o, "upstream_error")
         [] f.kind = "invalid_json" -> Refuses(o, "invalid_sse_json")
         [] f.kind = "error_field" -> Refuses(o, "upstream_error")
         [] f.kind = "done" -> Done(o)
         [] f.kind = "failed" -> Failed(u)
         [] f.kind = "stop" -> IF protocol \in {"messages", "responses"} THEN Ends(u) ELSE u
         [] f.kind = "blocked" -> IF protocol = "gemini" THEN Refuses(u, "upstream_blocked") ELSE u
         [] f.kind \in {"text", "finish"} ->
              IF protocol \in {"chat", "gemini"}
              THEN LET c == Choice(u, f.choice, f.kind = "finish")
                   IN IF f.kind = "text" THEN Shows(c) ELSE c
              ELSE IF f.kind = "text" THEN Shows(u) ELSE u
         [] OTHER -> u

-----------------------------------------------------------------------------
(* streamResponse                                                          *)

Returns(error, transport, canceled, o) ==
    result' = [state |-> "returned", error |-> error, transport |-> transport,
               complete |-> transport /\ o.complete, canceled |-> canceled, usage |-> o.usage]

\* ExecutionResult.Successful
Successful(r) == r.state = "returned" /\ r.transport /\ r.complete /\ r.error = "" /\ ~r.canceled

\* A frame is observed before it is written, and one that is an error is not
\* written at all; writing may fail.
Arrive(f, written) ==
    /\ result = Running /\ Len(frames) < MaxFrames
    /\ frames' = Append(frames, f)
    /\ observer' = Observe(observer, f)
    /\ IF observer'.error # ""
       THEN Returns(observer'.error, FALSE, FALSE, observer') /\ UNCHANGED <<sent, fate>>
       ELSE /\ sent' = Append(sent, f)
            /\ fate' = IF written THEN fate ELSE "gone"
            /\ IF ~written THEN Returns("", FALSE, TRUE, observer')
               ELSE IF observer'.terminal THEN Returns("", TRUE, FALSE, observer')
               ELSE UNCHANGED result
    /\ UNCHANGED protocol

\* The body ends: there must have been an end of the response.
MissingCompletion(o) == IF o.complete THEN "" ELSE "missing_completion"

Eof ==
    /\ result = Running
    /\ Returns(MissingCompletion(observer), TRUE, FALSE,
               [observer EXCEPT !.complete = MissingCompletion(observer) = ""])
    /\ fate' = "eof"
    /\ UNCHANGED <<protocol, observer, sent, frames>>

\* The body breaks off, or the output is too large.
BreakOff(why) ==
    /\ result = Running
    /\ \E gone \in BOOLEAN : Returns(why, FALSE, gone /\ why = "truncated_stream", observer)
    /\ fate' = "broken"
    /\ UNCHANGED <<protocol, observer, sent, frames>>

Init ==
    /\ protocol \in Protocols
    /\ observer = [complete |-> FALSE, terminal |-> FALSE, output |-> FALSE, error |-> "",
                   choices |-> <<>>, usage |-> Nothing, totalSeen |-> FALSE]
    /\ sent = <<>> /\ frames = <<>> /\ result = Running /\ fate = "open"

Next ==
    \/ \E f \in Frames, written \in BOOLEAN : Arrive(f, written)
    \/ Eof
    \/ \E why \in {"truncated_stream", "output_limit"} : BreakOff(why)

Spec == Init /\ [][Next]_vars

-----------------------------------------------------------------------------
(* Properties                                                              *)

\* Frames that report a failure, in the terms of the protocol
Fails(f) ==
    \/ f.kind \in {"error_event", "invalid_json", "error_field", "failed"}
    \/ f.kind = "blocked" /\ protocol = "gemini"
    \/ f.kind = "done" /\ protocol # "chat"
    \/ /\ f.kind \in {"text", "finish"} /\ f.choice = Invalid
       /\ protocol \in {"chat", "gemini"}
Reported == \E i \in DOMAIN frames : Fails(frames[i])

\* The protocol's own end; the stream of Gemini has none.
IsMarker(f) ==
    \/ protocol = "chat" /\ f.kind = "done"
    \/ protocol \in {"messages", "responses"} /\ f.kind = "stop"
Marked == \E i \in DOMAIN frames : IsMarker(frames[i])

Finished(c) == \E i \in DOMAIN frames : frames[i].kind = "finish" /\ frames[i].choice = c
Begun(c) == \E i \in DOMAIN frames : frames[i].kind \in {"text", "finish"} /\ frames[i].choice = c
AllChoicesFinished ==
    /\ protocol \in {"chat", "gemini"}
    /\ \E c \in Indices : Begun(c)
    /\ \A c \in Indices : Begun(c) => Finished(c)

(* An execution counts as successful if and only if the protocol's own end *)
(* has arrived, or the body ended after every choice that began had been   *)
(* finished, while no failure was reported and neither connection was      *)
(* lost, in whatever order the frames came; and then the client has every  *)
(* frame.                                                                  *)
SuccessIsExact ==
    /\ result.state = "returned" =>
         (Successful(result) <=> /\ ~Reported /\ fate \notin {"broken", "gone"}
                                 /\ Marked \/ (fate = "eof" /\ AllChoicesFinished))
    /\ Successful(result) => sent = frames

\* The last value that was declared for a field, or None
LastDeclared(field) ==
    LET at == {i \in DOMAIN frames : frames[i].usage[field] # None}
    IN IF at = {} THEN None ELSE frames[Max(at)].usage[field]

(* The tokens that are recorded are the ones the provider has declared,    *)
(* the latest of each kind; a sum stands in only for a total that was      *)
(* never declared, and nothing is recorded that was not.                   *)
UsageIsDeclared ==
    result.state = "returned" =>
        /\ result.usage.in = LastDeclared("in") /\ result.usage.out = LastDeclared("out")
        /\ LastDeclared("total") # None => result.usage.total = LastDeclared("total")
        /\ LastDeclared("total") = None =>
             result.usage.total = IF None \in {result.usage.in, result.usage.out} THEN None
                                  ELSE result.usage.in + result.usage.out
=============================================================================
