---------------------------- MODULE MCOperations ----------------------------
(***************************************************************************)
(* Background operations of the control plane, for TLC: the table of jobs  *)
(* and the scan of a browser's sessions, side by side.  part says which    *)
(* situation a behaviour is about; the component it is not about stays in  *)
(* its initial state.                                                      *)
(***************************************************************************)
EXTENDS Operations

CONSTANTS r1, r2, s1

VARIABLE part

ASSUME OperationsAssumption == JobsAssumption /\ Scan!BatchAssumption

all == <<part, vars, scan>>

-----------------------------------------------------------------------------
(* Situations                                                              *)

Changes == version'.rev + version'.cred + version'.rest
Alone == sync' = sync
TwoJobs == \A j \in 3..4 : pc'[j] = "new"
NoPanic == \A j \in Jobs : reply'[j].status # "panic"

\* Four jobs for two slots and a table of three: only the order of arrivals
\* and ends matters, so jobs arrive by number, and nobody cancels them.
InTable ==
    /\ Alone /\ NoPanic /\ Changes <= 3
    /\ \A j \in 2..4 : pc'[j] # "new" => pc'[j - 1] # "new"
    /\ ctx' = ctx /\ closed' = closed

\* Two jobs, of which the second renews a credential, and changes of the
\* version.  What overtakes a job is not the other's resource, nor Close.
Overtaken ==
    /\ Alone /\ NoPanic /\ TwoJobs
    /\ closed' = closed
    /\ job'[1].resource # r2 /\ job'[2].resource # r1

\* Two jobs beside a synchronous operation on one resource
Shared ==
    /\ TwoJobs /\ Changes <= 4
    /\ sync'[s1] # r2 /\ \A j \in Jobs : job'[j].resource # r2

MCInit ==
    /\ part \in {"table", "overtaken", "shared", "scan"}
    /\ Init /\ Scan!Init

MCNext ==
    /\ \/ part = "table" /\ Next /\ InTable /\ UNCHANGED scan
       \/ part = "overtaken" /\ Next /\ Overtaken /\ UNCHANGED scan
       \/ part = "shared" /\ Next /\ Shared /\ UNCHANGED scan
       \/ part = "scan" /\ Scan!Next /\ UNCHANGED vars
    /\ UNCHANGED part

\* The fairness of the components
Fairness ==
    /\ \A j \in 1..2 :
         WF_all(part = "shared" /\ Proceed(j) /\ Shared /\ UNCHANGED <<part, scan>>)
    /\ WF_all(part = "shared" /\ SyncEnd(s1) /\ Shared /\ UNCHANGED <<part, scan>>)
    /\ WF_all(part = "scan" /\ Scan!ScanStep /\ UNCHANGED <<part, vars>>)
    /\ WF_all(part = "scan" /\ Scan!Restart /\ UNCHANGED <<part, vars>>)

MCSpec == MCInit /\ [][MCNext]_all /\ Fairness

-----------------------------------------------------------------------------
(* Properties: JobsExclusive and CommitsAreTrue of ManagementJobs,         *)
(* ScansAreTrue of Operations, and                                         *)

(* Every accepted job ends, and with it its hold on the resource           *)
(* (runManagementJob); a scan ends by its last site, a cancellation, its   *)
(* deadline, or a crash (runLoginBatch).                                   *)
WorkEnds ==
    /\ \A j \in 1..2 : part = "shared" /\ Running(j) ~> part = "shared" /\ Finished(j)
    /\ Scan!ScansEnd
=============================================================================
