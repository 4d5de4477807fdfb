------------------------------ MODULE EventLog ------------------------------
(***************************************************************************)
(* What the event history promises (docs/EXECUTION_EVENTS.md): the latest  *)
(* executions, oldest first, each once.                                    *)
(***************************************************************************)
EXTENDS Naturals, Sequences

CONSTANTS Events, Size

VARIABLE recent

Latest(s) == IF Len(s) > Size THEN SubSeq(s, Len(s) - Size + 1, Len(s)) ELSE s

Init == recent = <<>>

Add(e) == recent' = Latest(Append(recent, e))

Next == \E e \in Events : Add(e)

Spec == Init /\ [][Next]_recent
=============================================================================
