----------------------------- MODULE SSEReader -----------------------------
(***************************************************************************)
(* Framing of server-sent events: SSEReader.Next and SSEData               *)
(* (internal/protocol/sse.go).  The reader takes what bufio.Reader's       *)
(* ReadSlice returns: a line, or as much of a long line as the buffer      *)
(* holds, or the rest of the body.  A frame ends with an empty line, which *)
(* is LF or CR LF.                                                         *)
(*                                                                         *)
(* A byte is LF, CR or any other; every body up to a length is tried, and  *)
(* after any of its bytes the body may end (io.EOF) or break off (any      *)
(* other error of the connection).                                         *)
(***************************************************************************)
EXTENDS Integers, Sequences, FiniteSetsExt

CONSTANTS
    Buffer,     \* size of the bufio.Reader
    Limit,      \* bytes of a frame at most
    MaxBody     \* bound: bytes of a body

\* What the instances satisfy
ReaderAssumption == Buffer \in Nat /\ Buffer > 1 /\ Limit \in Nat /\ MaxBody \in Nat

VARIABLES
    body,       \* what arrives from the provider
    breaks,     \* after it comes an error of the connection, not io.EOF
    at,         \* bytes that were read
    frame,      \* s.frame
    lineBytes,  \* bytes of the current line
    out,        \* frames that Next has returned
    end,        \* how the last Next ended: "open", "eof", "truncated", "limit"
    cuts        \* history: where in the body each of the frames ended

vars == <<body, breaks, at, frame, lineBytes, out, end, cuts>>

Bytes == {"lf", "cr", "x"}
Bodies == UNION {[1..n -> Bytes] : n \in 0..MaxBody}

-----------------------------------------------------------------------------

\* ReadSlice, by the documented contract of bufio: up to the next LF, a
\* buffer's worth of bytes, or what is left.
ReadSlice ==
    LET rest == SubSeq(body, at + 1, Len(body))
        lfs == {i \in DOMAIN rest : rest[i] = "lf"}
        line == IF lfs = {} THEN Len(rest) ELSE Min(lfs)
    IN [slice |-> SubSeq(rest, 1, IF line > Buffer THEN Buffer ELSE line),
        full |-> line > Buffer \/ (lfs = {} /\ line = Buffer),
        ends |-> lfs = {} /\ line < Buffer]

\* Faulty variant: a lone newline ends the frame, whatever came before it.
LoneNewline(line, bytes) == Len(line) <= 2

\* A line of which a part was read before is not empty, even if the last
\* part is just the newline.
EmptyLine(line, bytes) == bytes = 1 \/ (bytes = 2 /\ Len(line) = 2 /\ line[1] = "cr")

TooLong(bytes) == Len(bytes) > Limit

AtEnd(rest) == IF ~breaks /\ rest = <<>> THEN "eof" ELSE "truncated"

\* One turn of the loop in Next; a frame that is returned is handed out at
\* once and the next call begins.
Read ==
    /\ end = "open"
    /\ LET r == ReadSlice
           grown == frame \o r.slice
           bytes == lineBytes + Len(r.slice)
       IN /\ at' = at + Len(r.slice)
          /\ IF TooLong(grown)
             THEN end' = "limit" /\ UNCHANGED <<frame, lineBytes, out, cuts>>
             ELSE IF r.full
             THEN frame' = grown /\ lineBytes' = bytes /\ UNCHANGED <<out, end, cuts>>
             ELSE IF r.ends
             THEN end' = AtEnd(grown) /\ UNCHANGED <<frame, lineBytes, out, cuts>>
             ELSE IF EmptyLine(r.slice, bytes)
             THEN /\ out' = Append(out, grown) /\ cuts' = Append(cuts, at')
                  /\ frame' = <<>> /\ lineBytes' = 0 /\ UNCHANGED end
             ELSE frame' = grown /\ lineBytes' = 0 /\ UNCHANGED <<out, end, cuts>>
    /\ UNCHANGED <<body, breaks>>

Init ==
    /\ body \in Bodies /\ breaks \in BOOLEAN
    /\ at = 0 /\ frame = <<>> /\ lineBytes = 0 /\ out = <<>> /\ end = "open" /\ cuts = <<>>

Spec == Init /\ [][Read]_vars

-----------------------------------------------------------------------------
(* Properties                                                              *)

\* The positions after which a frame ends, by what an event stream is: an
\* empty line is a line end right after a line end, or at the beginning.
LineEnds == {0} \cup {i \in DOMAIN body : body[i] = "lf"}
Blank(i) ==
    /\ i \in LineEnds \ {0}
    /\ i - 1 \in LineEnds \/ (i > 1 /\ body[i - 1] = "cr" /\ i - 2 \in LineEnds)

\* Where frame k begins
Begin(k) == IF k = 1 THEN 0 ELSE cuts[k - 1]

\* Where the frame begins that is being read
Cut == Begin(Len(cuts) + 1)

(* The frames are the events of the stream, each one whole, in order and   *)
(* without a byte lost, wherever the buffer's boundaries fall: they follow *)
(* each other from the beginning of the body, and the places where they    *)
(* end are the blank lines, none of them passed over.                      *)
FramesAreEvents ==
    /\ Len(out) = Len(cuts)
    /\ \A k \in 1..Len(out) : Begin(k) < cuts[k] /\ out[k] = SubSeq(body, Begin(k) + 1, cuts[k])
    /\ \A i \in 1..Cut : Blank(i) <=> \E k \in 1..Len(cuts) : cuts[k] = i
    /\ end \in {"eof", "truncated"} => \A i \in 1..Len(body) : Blank(i) => i <= Cut

(* A body that stops within an event, or because its connection broke, is  *)
(* never taken for one that ended, and one that ended is never called      *)
(* truncated.                                                              *)
EndIsHonest ==
    /\ end = "eof" => Cut = Len(body) /\ ~breaks
    /\ end = "truncated" => Cut < Len(body) \/ breaks

(* No frame is longer than the limit, and the limit stops nothing shorter: *)
(* the event it stopped goes on beyond as many bytes.                      *)
WithinLimit ==
    /\ \A k \in 1..Len(out) : Len(out[k]) <= Limit
    /\ end = "limit" => /\ Cut + Limit < Len(body)
                        /\ \A i \in (Cut + 1)..(Cut + Limit) : ~Blank(i)
=============================================================================
