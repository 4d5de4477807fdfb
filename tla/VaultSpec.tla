----------------------------- MODULE VaultSpec -----------------------------
(***************************************************************************)
(* What the credential vault promises: each reference names one credential *)
(* that may be replaced or renewed, and stays revoked once it was deleted. *)
(* A renewal continues the value it was made from; it never brings a       *)
(* replaced value back.                                                    *)
(***************************************************************************)
EXTENDS Naturals

CONSTANTS Ids, MaxStamp, MaxTurn

VARIABLE held       \* what each reference names

None == [state |-> "absent", root |-> 0, turn |-> 0]
Revoked == [state |-> "revoked", root |-> 0, turn |-> 0]
Live(root, turn) == [state |-> "live", root |-> root, turn |-> turn]

\* A value that was never stored before replaces what the reference names.
Place(i) ==
    /\ held[i].state # "revoked"
    /\ \E root \in 1..MaxStamp :
         /\ \A j \in Ids : root > held[j].root
         /\ held' = [held EXCEPT ![i] = Live(root, 0)]

\* The grant is exchanged for the next one.
Renew(i) ==
    /\ held[i].state = "live"
    /\ held[i].turn < MaxTurn
    /\ held' = [held EXCEPT ![i] = Live(@.root, @.turn + 1)]

Revoke(i) ==
    /\ held[i].state = "live"
    /\ held' = [held EXCEPT ![i] = Revoked]

Init == held = [i \in Ids |-> None]

Next == \E i \in Ids : Place(i) \/ Renew(i) \/ Revoke(i)

Spec == Init /\ [][Next]_held
=============================================================================
