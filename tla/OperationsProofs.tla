-------------------------- MODULE OperationsProofs --------------------------
(***************************************************************************)
(* Proofs about the background operations.  The table of jobs: for any     *)
(* number of jobs, synchronous operations, resources and changes of the    *)
(* version, a resource has one user, running jobs stay in the table,       *)
(* reports are true, and nothing is committed after Close.  The scan: for  *)
(* any number of sites, previews, changes by others and crashes, a scan    *)
(* that is said to run runs, once, for one confirmation; its history and   *)
(* the accounts it leaves are true.                                        *)
(***************************************************************************)
EXTENDS Operations, FiniteSetTheorems, SequenceTheorems, WellFoundedInduction, TLAPS
-----------------------------------------------------------------------------
(* The table of jobs: the inductive invariant                              *)

\* A job that never entered the table
Outside(j) == pc[j] \in {"new", "captured", "rejected"}

\* The table holds every running job, and no job twice.
TableInv ==
    /\ \A k \in DOMAIN items : ~Outside(items[k])
    /\ \A k, m \in DOMAIN items : items[k] = items[m] => k = m
    /\ RunningInTable

\* A resource in the set has a user.
Used(r) == \/ \E j \in Jobs : Running(j) /\ job[j].resource = r
           \/ \E s \in Syncs : sync[s] = r

\* Users and resources correspond one to one.
HoldInv ==
    /\ IsFiniteSet(resources) /\ Cardinality(resources) <= MaxActive
    /\ \A j \in Jobs : pc[j] # "new" => job[j].resource \in Resources
    /\ \A j \in Jobs : Running(j) => job[j].resource \in resources
    /\ \A s \in Syncs : sync[s] # NoResource => sync[s] \in resources
    /\ \A i, j \in Jobs : Running(i) /\ Running(j) /\ job[i].resource = job[j].resource => i = j
    /\ \A s, t \in Syncs : sync[s] # NoResource /\ sync[s] = sync[t] => s = t
    /\ \A j \in Jobs, s \in Syncs : Running(j) => job[j].resource # sync[s]
    /\ \A r \in resources : Used(r)

\* Close has ended the context of everything that still runs.
CloseInv == closed => \A j \in Jobs : Running(j) => ctx[j] # "live"

Weight(v) == v.rev + v.cred + v.rest

\* The version a job has seen last: its own commit, or what it captured
Track(j) == IF reply[j].committed # NoVersion THEN reply[j].committed ELSE job[j].captured

\* A handler answers once, and only a commit has a version.
ReplyTrue(j) ==
    /\ pc[j] \in {"new", "captured", "rejected", "accepted", "executing"} => reply[j] = NoReply
    /\ reply[j].committed # NoVersion => reply[j].status = "ok"
    /\ reply[j].own => j \in Renewing
    /\ j \in changed => j \notin Renewing /\ reply[j].committed # NoVersion
    /\ pc[j] = "checking" => j \in Renewing
    /\ pc[j] = "new" => j \notin foreign

\* Until its version is read, a job is overtaken if and only if the version
\* has moved on; the last two lines keep that for the final state.
VersionTrue(j) ==
    /\ Captured(j) /\ j \notin foreign => version = Track(j)
    /\ Captured(j) /\ j \in foreign /\ j \notin Renewing => Weight(Track(j)) < Weight(version)
    /\ pc[j] = "checking" /\ j \notin foreign => read[j] = Track(j)
    /\ j \in Renewing /\ j \notin foreign /\ reply[j].committed # NoVersion
         => reply[j].committed.rev = job[j].captured.rev
    /\ pc[j] = "finishing" /\ j \notin foreign => read[j] = Base(j) \/ reply[j].own
    /\ pc[j] = "finishing" /\ j \in foreign /\ j \notin Renewing => read[j] # Track(j)

JobTrue(j) == ReplyTrue(j) /\ VersionTrue(j) /\ StateTrue(j)

TruthInv == version.cred > 0 /\ \A j \in Jobs : JobTrue(j)

IInv == TypeOK /\ TableInv /\ HoldInv /\ CloseInv /\ TruthInv
-----------------------------------------------------------------------------
(* Facts about sequences and numbers                                       *)

(* Removing one position from the table leaves the others in order         *)
(* (startManagementJob).                                                   *)
LEMMA RemoveAtProperties ==
  ASSUME NEW S, NEW q \in Seq(S), NEW i \in 1..Len(q)
  PROVE  /\ RemoveAt(q, i) \in Seq(S)
         /\ Len(RemoveAt(q, i)) = Len(q) - 1
         /\ \A j \in 1..(Len(q) - 1) :
              RemoveAt(q, i)[j] = IF j < i THEN q[j] ELSE q[j + 1]
<1>1. Len(q) \in Nat /\ \A j \in 1..Len(q) : q[j] \in S
  BY LenProperties, ElementOfSeq
<1> DEFINE a == SubSeq(q, 1, i - 1)
           b == SubSeq(q, i + 1, Len(q))
<1>2. /\ a \in Seq(S)
      /\ Len(a) = i - 1
      /\ \A j \in 1..(i - 1) : a[j] = q[j]
  <2>1. \A j \in 1..(i - 1) : q[j] \in S
    BY <1>1
  <2>2. /\ a \in Seq(S)
        /\ Len(a) = IF 1 <= i - 1 THEN (i - 1) - 1 + 1 ELSE 0
        /\ \A j \in 1..((i - 1) - 1 + 1) : a[j] = q[1 + j - 1]
    BY <1>1, <2>1, SubSeqProperties
  <2> QED
    BY <1>1, <2>2
<1>3. /\ b \in Seq(S)
      /\ Len(b) = Len(q) - i
      /\ \A j \in 1..(Len(q) - i) : b[j] = q[i + j]
  <2>1. \A j \in (i + 1)..Len(q) : q[j] \in S
    BY <1>1
  <2>2. /\ b \in Seq(S)
        /\ Len(b) = IF i + 1 <= Len(q) THEN Len(q) - (i + 1) + 1 ELSE 0
        /\ \A j \in 1..(Len(q) - (i + 1) + 1) : b[j] = q[(i + 1) + j - 1]
    BY <1>1, <2>1, SubSeqProperties
  <2> QED
    BY <1>1, <2>2
<1>4. RemoveAt(q, i) = a \o b
  BY DEF RemoveAt
<1>5. /\ a \o b \in Seq(S)
      /\ Len(a \o b) = Len(a) + Len(b)
      /\ \A j \in 1..(Len(a) + Len(b)) :
           (a \o b)[j] = IF j <= Len(a) THEN a[j] ELSE b[j - Len(a)]
  BY <1>2, <1>3, ConcatProperties
<1> HIDE DEF a, b
<1> QED
  BY <1>1, <1>2, <1>3, <1>4, <1>5

(* A set of naturals without a least element is empty.                     *)
LEMMA LeastNat ==
  ASSUME NEW T \in SUBSET Nat, \A n \in T : \E m \in T : m < n
  PROVE  T = {}
<1> DEFINE R == {ss \in Nat \X Nat : ss[1] < ss[2]}
<1>1. IsWellFoundedOn(R, Nat)
  BY NatLessThanWellFounded DEF OpToRel
<1>2. SUFFICES ASSUME T # {} PROVE FALSE
  OBVIOUS
<1>3. PICK n \in T : \A m \in T : ~(<<m, n>> \in R)
  <2> HIDE DEF R
  <2> QED
    BY <1>1, <1>2, WFMin
<1>4. PICK m \in T : m < n
  OBVIOUS
<1>5. <<m, n>> \in R
  BY <1>4
<1> QED
  BY <1>3, <1>5

(* If some job of the table is not running, Evict removes one that is not; *)
(* otherwise it removes nothing.                                           *)
LEMMA EvictFacts ==
  ASSUME NEW s \in Seq(Jobs)
  PROVE  \/ Evict(s) = s /\ \A k \in 1..Len(s) : Running(s[k])
         \/ \E k \in 1..Len(s) : ~Running(s[k]) /\ Evict(s) = RemoveAt(s, k)
<1>1. DOMAIN s = 1..Len(s) /\ Len(s) \in Nat
  BY LenProperties
<1>2. CASE \A k \in DOMAIN s : Running(s[k])
  BY <1>1, <1>2 DEF Evict
<1>3. CASE \E k \in DOMAIN s : ~Running(s[k])
  <2> DEFINE T == {k \in 1..Len(s) : ~Running(s[k])}
             Q(k) == ~Running(s[k]) /\ \A m \in 1..(k - 1) : Running(s[m])
  <2>1. T \in SUBSET Nat /\ T # {}
    BY <1>1, <1>3
  <2>2. PICK n \in T : \A m \in T : ~(m < n)
    <3> HIDE DEF T
    <3> QED
      BY <2>1, LeastNat
  <2>3. n \in DOMAIN s /\ Q(n)
    <3>1. ASSUME NEW m \in 1..(n - 1) PROVE Running(s[m])
      <4>1. m \in 1..Len(s) /\ m < n
        BY <1>1
      <4> QED
        BY <2>2, <4>1
    <3> QED
      BY <1>1, <3>1
  <2> DEFINE k == CHOOSE k \in DOMAIN s : Q(k)
  <2>4. k \in DOMAIN s /\ Q(k)
    <3> HIDE DEF Q
    <3> QED
      BY <2>3
  <2>5. Evict(s) = RemoveAt(s, k)
    BY <1>3 DEF Evict
  <2> HIDE DEF k
  <2> QED
    BY <1>1, <2>4, <2>5
<1> QED
  BY <1>2, <1>3
-----------------------------------------------------------------------------
(* Steps                                                                   *)

\* The types of what a job holds and of what its handler answers
JobType == [resource : Resources \cup {NoResource}, captured : Versions,
            state : {"none", "running", "failed", "timed_out", "canceled", "stale", "completed"}]
ReplyType == [status : {"none", "ok", "error", "panic"}, committed : Versions, own : BOOLEAN]
Places == {"new", "captured", "rejected", "accepted", "executing", "returned", "checking",
           "finishing", "finished"}

(* The first state satisfies the invariant.                                *)
LEMMA InitInv ==
  ASSUME JobsAssumption, Init
  PROVE  IInv
<1> USE DEF Init
<1>1. NoVersion \in Versions /\ version \in Versions /\ version.cred > 0
  BY DEF NoVersion, Versions
<1>2. TypeOK
  <2>1. job \in [Jobs -> JobType]
    BY <1>1 DEF JobType
  <2>2. reply \in [Jobs -> ReplyType]
    BY <1>1 DEF ReplyType, NoReply
  <2>3. closed \in BOOLEAN /\ items \in Seq(Jobs) /\ Len(items) = 0
    BY EmptySeq
  <2>4. /\ pc \in [Jobs -> Places] /\ ctx \in [Jobs -> {"live", "canceled", "expired"}]
        /\ read \in [Jobs -> Versions] /\ sync \in [Syncs -> Resources \cup {NoResource}]
    BY <1>1 DEF Places
  <2>5. Len(items) <= MaxItems
    BY <2>3 DEF JobsAssumption
  <2> QED
    BY <1>1, <2>1, <2>2, <2>3, <2>4, <2>5 DEF TypeOK, JobType, ReplyType, Places
<1>3. \A j \in Jobs : pc[j] = "new" /\ ~Running(j) /\ ~Captured(j) /\ ~Finished(j)
  BY DEF Running, Captured, Finished
<1>4. TableInv
  BY <1>3 DEF TableInv, RunningInTable
<1>5. HoldInv
  <2>1. IsFiniteSet({}) /\ Cardinality({}) = 0
    BY FS_EmptySet
  <2>2. \A s \in Syncs : sync[s] = NoResource
    OBVIOUS
  <2>3. 0 <= MaxActive
    BY DEF JobsAssumption
  <2> QED
    BY <1>3, <2>1, <2>2, <2>3 DEF HoldInv
<1>6. CloseInv
  BY DEF CloseInv
<1>7. TruthInv
  <2>1. \A j \in Jobs : reply[j] = NoReply /\ ~NoReply.own /\ NoReply.committed = NoVersion
    BY DEF NoReply
  <2> QED
    BY <1>1, <1>3, <2>1 DEF TruthInv, JobTrue, ReplyTrue, VersionTrue, StateTrue
<1> QED
  BY <1>2, <1>4, <1>5, <1>6, <1>7 DEF IInv

(* A step that nobody enters or leaves.                                    *)
LEMMA SameUsers ==
  ASSUME JobsAssumption, IInv, UNCHANGED <<resources, items, sync>>,
         \A j \in Jobs : /\ Running(j)' <=> Running(j)
                         /\ Outside(j)' <=> Outside(j)
                         /\ pc'[j] = "new" => pc[j] = "new"
                         /\ Running(j) => job'[j].resource = job[j].resource
                         /\ job'[j].resource = job[j].resource \/ job'[j].resource \in Resources
                         /\ pc[j] = "new" /\ pc'[j] # "new" => job'[j].resource \in Resources
  PROVE  TableInv' /\ HoldInv'
<1> USE DEF IInv
<1>1. \A k \in DOMAIN items : items[k] \in Jobs
  BY DEF TypeOK
<1>2. TableInv'
  BY <1>1 DEF TableInv, RunningInTable
<1>3. \A r : Used(r) => Used(r)'
  BY DEF Used
<1>4. HoldInv'
  <2>1. \A j \in Jobs : pc'[j] # "new" => job'[j].resource \in Resources
    BY DEF HoldInv
  <2>2. \A j \in Jobs : Running(j)' => job'[j].resource = job[j].resource /\ Running(j)
    OBVIOUS
  <2> QED
    BY <1>3, <2>1, <2>2 DEF HoldInv
<1> QED
  BY <1>2, <1>4

(* The versions a well formed state speaks of are numbers.                 *)
LEMMA VersionFacts ==
  ASSUME TypeOK, NEW j \in Jobs
  PROVE  /\ Track(j) \in Versions /\ job[j] \in JobType /\ reply[j] \in ReplyType
         /\ version \in Versions /\ read[j] \in Versions /\ Base(j) \in Versions
         /\ Weight(version) \in Nat /\ Weight(Track(j)) \in Nat
<1>1. /\ job[j] \in JobType /\ reply[j] \in ReplyType /\ version \in Versions
      /\ read[j] \in Versions
  BY DEF TypeOK, JobType, ReplyType
<1>2. reply[j].committed \in Versions /\ job[j].captured \in Versions
  BY <1>1 DEF JobType, ReplyType
<1>3. Track(j) \in Versions /\ Base(j) \in Versions
  BY <1>2 DEF Track, Base
<1>4. \A v \in Versions : Weight(v) \in Nat
  BY DEF Weight, Versions
<1> QED
  BY <1>1, <1>3, <1>4

(* A job that does not step itself stays true, whether or not the version  *)
(* moves on.                                                               *)
LEMMA OthersTrue ==
  ASSUME TypeOK, NEW j \in Jobs, JobTrue(j), version' \in Versions,
         pc'[j] = pc[j], job'[j] = job[j], reply'[j] = reply[j], read'[j] = read[j],
         (j \in changed') <=> (j \in changed),
         \/ version' = version /\ ((j \in foreign') <=> (j \in foreign))
         \/ /\ Weight(version) < Weight(version')
            /\ (j \in foreign') <=> (j \in foreign \/ Captured(j))
  PROVE  JobTrue(j)'
<1>1. /\ Running(j)' <=> Running(j)
      /\ Captured(j)' <=> Captured(j)
      /\ Finished(j)' <=> Finished(j)
  BY DEF Running, Captured, Finished
<1>2. Track(j)' = Track(j) /\ Base(j)' = Base(j)
  BY DEF Track, Base, Committed
<1>3. Weight(version) \in Nat /\ Weight(Track(j)) \in Nat /\ Weight(version') \in Nat
  BY VersionFacts DEF Weight, Versions
<1>4. Captured(j) => pc[j] \notin {"new", "finishing", "finished"}
  BY DEF Captured
<1>5. ReplyTrue(j)'
  BY <1>4 DEF JobTrue, ReplyTrue
<1>6. StateTrue(j)'
  BY <1>1, <1>4 DEF JobTrue, StateTrue, Finished
<1>7. VersionTrue(j)'
  <2>1. /\ Captured(j)' /\ j \notin foreign' => version' = Track(j)'
        /\ Captured(j)' /\ j \in foreign' /\ j \notin Renewing => Weight(Track(j))' < Weight(version)'
    <3>1. CASE version' = version /\ ((j \in foreign') <=> (j \in foreign))
      BY <1>1, <1>2, <3>1 DEF JobTrue, VersionTrue, Weight
    <3>2. CASE /\ Weight(version) < Weight(version')
               /\ (j \in foreign') <=> (j \in foreign \/ Captured(j))
      <4>1. Captured(j) /\ j \notin Renewing => Weight(Track(j)) <= Weight(version)
        BY <1>3 DEF JobTrue, VersionTrue
      <4>2. Weight(Track(j))' = Weight(Track(j)) /\ Weight(version)' = Weight(version')
        BY <1>2 DEF Weight
      <4> QED
        BY <1>1, <1>3, <3>2, <4>1, <4>2
    <3> QED
      BY <3>1, <3>2
  <2>2. /\ pc'[j] = "checking" /\ j \notin foreign' => read'[j] = Track(j)'
        /\ pc'[j] = "finishing" /\ j \notin foreign' => read'[j] = Base(j)' \/ reply'[j].own
        /\ pc'[j] = "finishing" /\ j \in foreign' /\ j \notin Renewing => read'[j] # Track(j)'
        /\ j \in Renewing /\ j \notin foreign' /\ reply'[j].committed # NoVersion
             => reply'[j].committed.rev = job'[j].captured.rev
    BY <1>2, <1>4 DEF JobTrue, VersionTrue
  <2> QED
    BY <2>1, <2>2 DEF VersionTrue
<1> QED
  BY <1>5, <1>6, <1>7 DEF JobTrue

(* A step of one job that keeps the version leaves the others true.        *)
LEMMA AloneTrue ==
  ASSUME IInv, NEW i \in Jobs, UNCHANGED <<version, foreign, changed>>,
         \A j \in Jobs \ {i} : /\ pc'[j] = pc[j] /\ job'[j] = job[j] /\ reply'[j] = reply[j]
                               /\ read'[j] = read[j],
         JobTrue(i)'
  PROVE  TruthInv'
<1>1. TypeOK /\ version \in Versions /\ version.cred > 0
  BY DEF IInv, TypeOK, TruthInv
<1>2. ASSUME NEW j \in Jobs \ {i} PROVE JobTrue(j)'
  <2>1. JobTrue(j)
    BY DEF IInv, TruthInv
  <2> QED
    BY <1>1, <2>1, OthersTrue
<1> QED
  BY <1>1, <1>2 DEF TruthInv

\* Where a job runs
Busy == {"accepted", "executing", "returned", "checking", "finishing"}

(* A job goes on without entering or leaving the table.                    *)
LEMMA JobMoves ==
  ASSUME JobsAssumption, IInv, NEW i \in Jobs, NEW p \in Places, pc' = [pc EXCEPT ![i] = p],
         UNCHANGED <<resources, items, closed, ctx, sync>>,
         \/ pc[i] \in Busy /\ p \in Busy
         \/ pc[i] \in {"new", "captured"} /\ p \in {"captured", "rejected"},
         job' \in [Jobs -> JobType], \A j \in Jobs \ {i} : job'[j] = job[j],
         IF pc[i] = "new" THEN job'[i].resource \in Resources ELSE job'[i] = job[i],
         version' \in Versions, reply' \in [Jobs -> ReplyType], read' \in [Jobs -> Versions],
         foreign' \subseteq Jobs, changed' \subseteq Jobs
  PROVE  TypeOK' /\ TableInv' /\ HoldInv' /\ CloseInv'
<1> USE DEF IInv
<1>1. pc'[i] = p /\ \A j \in Jobs \ {i} : pc'[j] = pc[j]
  BY DEF TypeOK
<1>2. \A j \in Jobs : /\ Running(j)' <=> Running(j)
                      /\ Outside(j)' <=> Outside(j)
                      /\ pc'[j] = "new" => pc[j] = "new"
                      /\ Running(j) => pc[j] # "new"
  BY <1>1 DEF Running, Outside, Busy
<1>3. \A j \in Jobs : /\ Running(j) => job'[j].resource = job[j].resource
                      /\ job'[j].resource = job[j].resource \/ job'[j].resource \in Resources
                      /\ pc[j] = "new" /\ pc'[j] # "new" => job'[j].resource \in Resources
  BY <1>1, <1>2
<1>4. TableInv' /\ HoldInv'
  BY <1>2, <1>3, SameUsers
<1>5. TypeOK'
  <2>1. pc' \in [Jobs -> Places]
    BY DEF TypeOK, Places
  <2> QED
    BY <2>1 DEF TypeOK, JobType, ReplyType, Places
<1>6. CloseInv'
  BY <1>2 DEF CloseInv
<1> QED
  BY <1>4, <1>5, <1>6

(* POST /admin/jobs: the version is captured, and the job may be refused.  *)
LEMMA CaptureSteps ==
  ASSUME JobsAssumption, IInv, NEW i \in Jobs,
         Reject(i) \/ \E r \in Resources : Capture(i, r)
  PROVE  IInv'
<1> USE DEF IInv
<1>1. JobTrue(i) /\ version \in Versions
  BY DEF TruthInv, TypeOK
<1>2. CASE Reject(i)
  <2>1. /\ pc[i] = "captured" /\ pc' = [pc EXCEPT ![i] = "rejected"]
        /\ UNCHANGED <<version, resources, items, closed, job, ctx, reply, read, sync, foreign,
                       changed>>
    BY <1>2 DEF Reject
  <2>2. TypeOK' /\ TableInv' /\ HoldInv' /\ CloseInv'
    <3>1. /\ version' \in Versions /\ reply' \in [Jobs -> ReplyType] /\ read' \in [Jobs -> Versions]
          /\ foreign' \subseteq Jobs /\ changed' \subseteq Jobs /\ job' \in [Jobs -> JobType]
      BY <2>1 DEF TypeOK, ReplyType, JobType
    <3> QED
      BY <2>1, <3>1, JobMoves DEF Places
  <2>3. pc'[i] = "rejected" /\ \A j \in Jobs \ {i} : pc'[j] = pc[j]
    BY <2>1 DEF TypeOK
  <2>4. JobTrue(i)'
    BY <1>1, <2>1, <2>3 DEF JobTrue, ReplyTrue, VersionTrue, StateTrue, Captured, Finished
  <2> QED
    BY <2>1, <2>2, <2>3, <2>4, AloneTrue
<1>3. ASSUME NEW r \in Resources, Capture(i, r) PROVE IInv'
  <2> DEFINE t == [resource |-> r, captured |-> version, state |-> "none"]
  <2>1. /\ pc[i] = "new" /\ pc' = [pc EXCEPT ![i] = "captured"] /\ job' = [job EXCEPT ![i] = t]
        /\ UNCHANGED <<version, resources, items, closed, ctx, reply, read, sync, foreign,
                       changed>>
    BY <1>3 DEF Capture
  <2>2. t \in JobType /\ t.resource = r /\ t.captured = version
    BY <1>1 DEF JobType
  <2> HIDE DEF t
  <2>3. /\ pc'[i] = "captured" /\ job'[i] = t /\ job' \in [Jobs -> JobType]
        /\ \A j \in Jobs \ {i} : pc'[j] = pc[j] /\ job'[j] = job[j]
    BY <2>1, <2>2 DEF TypeOK, JobType
  <2>4. TypeOK' /\ TableInv' /\ HoldInv' /\ CloseInv'
    <3>1. /\ version' \in Versions /\ reply' \in [Jobs -> ReplyType] /\ read' \in [Jobs -> Versions]
          /\ foreign' \subseteq Jobs /\ changed' \subseteq Jobs
      BY <2>1 DEF TypeOK, ReplyType
    <3> QED
      BY <2>1, <2>2, <2>3, <3>1, JobMoves DEF Places
  <2>5. JobTrue(i)'
    <3>1. reply[i] = NoReply /\ i \notin foreign /\ NoReply.committed = NoVersion
      BY <1>1, <2>1 DEF JobTrue, ReplyTrue, NoReply
    <3>2. Track(i)' = version
      BY <2>1, <2>2, <2>3, <3>1 DEF Track
    <3> QED
      BY <1>1, <2>1, <2>3, <3>1, <3>2
         DEF JobTrue, ReplyTrue, VersionTrue, StateTrue, Captured, Finished
  <2> QED
    BY <2>1, <2>3, <2>4, <2>5, AloneTrue
<1> QED
  BY <1>2, <1>3

(* A job begins, or learns that it was overtaken.                          *)
LEMMA RunStep ==
  ASSUME JobsAssumption, IInv, NEW i \in Jobs, Run(i)
  PROVE  IInv'
<1> USE DEF IInv
<1> DEFINE p == IF version = job[i].captured THEN "executing" ELSE "returned"
<1>1. /\ pc[i] = "accepted" /\ pc' = [pc EXCEPT ![i] = p]
      /\ UNCHANGED <<version, resources, items, closed, job, ctx, reply, read, sync, foreign,
                     changed>>
  BY DEF Run
<1>2. p \in {"executing", "returned"}
  OBVIOUS
<1> HIDE DEF p
<1>3. pc'[i] = p /\ \A j \in Jobs \ {i} : pc'[j] = pc[j]
  BY <1>1 DEF TypeOK
<1>4. TypeOK' /\ TableInv' /\ HoldInv' /\ CloseInv'
  <2>1. /\ version' \in Versions /\ reply' \in [Jobs -> ReplyType] /\ read' \in [Jobs -> Versions]
        /\ foreign' \subseteq Jobs /\ changed' \subseteq Jobs /\ job' \in [Jobs -> JobType]
    BY <1>1 DEF TypeOK, ReplyType, JobType
  <2> QED
    BY <1>1, <1>2, <2>1, JobMoves DEF Places, Busy
<1>5. JobTrue(i)'
  <2>1. Track(i)' = Track(i) /\ Weight(Track(i))' = Weight(Track(i)) /\ Weight(version)' = Weight(version)
    BY <1>1 DEF Track, Weight
  <2>2. JobTrue(i)
    BY DEF TruthInv
  <2>3. reply[i] = NoReply /\ NoReply.committed = NoVersion
    BY <1>1, <2>2 DEF JobTrue, ReplyTrue, NoReply
  <2> QED
    BY <1>1, <1>2, <1>3, <2>1, <2>2, <2>3
       DEF JobTrue, ReplyTrue, VersionTrue, StateTrue, Captured, Finished
<1> QED
  BY <1>1, <1>3, <1>4, <1>5, AloneTrue

(* The handler answers without a commit.                                   *)
LEMMA ReturnsOnly ==
  ASSUME JobsAssumption, IInv, NEW i \in Jobs, NEW status \in {"ok", "error", "panic"},
         pc[i] = "executing", pc' = [pc EXCEPT ![i] = "returned"],
         reply' = [reply EXCEPT ![i].status = status],
         UNCHANGED <<version, resources, items, closed, job, ctx, read, sync, foreign, changed>>
  PROVE  IInv'
<1> USE DEF IInv
<1>1. JobTrue(i) /\ reply \in [Jobs -> ReplyType]
  BY DEF TruthInv, TypeOK, ReplyType
<1>2. reply[i] = NoReply
  BY <1>1 DEF JobTrue, ReplyTrue
<1>3. /\ pc'[i] = "returned" /\ reply'[i] = [NoReply EXCEPT !.status = status]
      /\ \A j \in Jobs \ {i} : pc'[j] = pc[j] /\ reply'[j] = reply[j]
  BY <1>1, <1>2 DEF TypeOK
<1>4. /\ reply'[i].committed = NoVersion /\ reply'[i].own = FALSE
      /\ NoReply.committed = NoVersion
  BY <1>3 DEF NoReply
<1>5. TypeOK' /\ TableInv' /\ HoldInv' /\ CloseInv'
  <2>1. reply' \in [Jobs -> ReplyType]
    BY <1>1 DEF ReplyType
  <2>2. /\ version' \in Versions /\ read' \in [Jobs -> Versions] /\ foreign' \subseteq Jobs
        /\ changed' \subseteq Jobs /\ job' \in [Jobs -> JobType]
    BY DEF TypeOK, JobType
  <2> QED
    BY <2>1, <2>2, JobMoves DEF Places, Busy
<1>6. JobTrue(i)'
  <2>1. Track(i)' = Track(i) /\ Weight(Track(i))' = Weight(Track(i)) /\ Weight(version)' = Weight(version)
    BY <1>2, <1>4 DEF Track, Weight
  <2> QED
    BY <1>1, <1>2, <1>3, <1>4, <2>1
       DEF JobTrue, ReplyTrue, VersionTrue, StateTrue, Captured, Finished
<1> QED
  BY <1>3, <1>5, <1>6, AloneTrue

(* The handler commits, or a refresh renews its credential: everybody else *)
(* who has captured a version is overtaken.                                *)
LEMMA CommitsNow ==
  ASSUME JobsAssumption, IInv, NEW i \in Jobs, pc[i] = "executing",
         pc' = [pc EXCEPT ![i] = "returned"], Overtake({i}),
         version' \in Versions, Weight(version') = Weight(version) + 1, version'.cred > 0,
         reply' = [reply EXCEPT ![i] = [status |-> "ok", committed |-> version', own |-> FALSE]],
         UNCHANGED <<resources, items, closed, job, ctx, read, sync>>,
         \/ i \notin Renewing /\ version = job[i].captured /\ changed' = changed \cup {i}
         \/ i \in Renewing /\ version'.rev = version.rev /\ changed' = changed
  PROVE  IInv'
<1> USE DEF IInv
<1> DEFINE a == [status |-> "ok", committed |-> version', own |-> FALSE]
<1>1. JobTrue(i) /\ reply \in [Jobs -> ReplyType]
  BY DEF TruthInv, TypeOK, ReplyType
<1>2. reply[i] = NoReply /\ NoReply.committed = NoVersion
  BY <1>1 DEF JobTrue, ReplyTrue, NoReply
<1>3. a \in ReplyType /\ a.status = "ok" /\ a.committed = version' /\ a.own = FALSE
  BY DEF ReplyType
<1> HIDE DEF a
<1>4. /\ pc'[i] = "returned" /\ reply'[i] = a /\ reply' \in [Jobs -> ReplyType]
      /\ \A j \in Jobs \ {i} : pc'[j] = pc[j] /\ reply'[j] = reply[j]
  BY <1>1, <1>3 DEF TypeOK, a
<1>5. foreign' = foreign \cup {j \in Jobs \ {i} : Captured(j)}
  BY DEF Overtake
<1>6. version' # NoVersion
  BY DEF NoVersion
<1>7. TypeOK' /\ TableInv' /\ HoldInv' /\ CloseInv'
  <2>1. /\ read' \in [Jobs -> Versions] /\ foreign' \subseteq Jobs
        /\ changed' \subseteq Jobs /\ job' \in [Jobs -> JobType]
    BY <1>5 DEF TypeOK, JobType
  <2> QED
    BY <1>4, <2>1, JobMoves DEF Places, Busy
<1>8. JobTrue(i)'
  <2>1. Track(i) = job[i].captured /\ Track(i)' = version'
    BY <1>2, <1>3, <1>4, <1>6 DEF Track
  <2>2. /\ Weight(version) \in Nat /\ Captured(i)
        /\ (i \in foreign') <=> (i \in foreign)
    BY <1>5, VersionFacts DEF Captured
  <2>3. i \notin Renewing => i \notin foreign
    BY <1>1, <2>1, <2>2 DEF JobTrue, VersionTrue
  <2>4. i \in Renewing /\ i \notin foreign => version'.rev = job[i].captured.rev
    BY <1>1, <2>1, <2>2 DEF JobTrue, VersionTrue
  <2>5. ReplyTrue(i)'
    BY <1>1, <1>2, <1>3, <1>4, <1>6 DEF JobTrue, ReplyTrue
  <2>6. VersionTrue(i)'
    BY <1>3, <1>4, <2>1, <2>2, <2>3, <2>4 DEF VersionTrue
  <2>7. StateTrue(i)'
    BY <1>4 DEF StateTrue, Finished
  <2> QED
    BY <2>5, <2>6, <2>7 DEF JobTrue
<1>9. ASSUME NEW j \in Jobs \ {i} PROVE JobTrue(j)'
  <2>1. JobTrue(j) /\ Weight(version) \in Nat
    BY VersionFacts DEF TruthInv
  <2>2. /\ Weight(version) < Weight(version')
        /\ (j \in foreign') <=> (j \in foreign \/ Captured(j))
        /\ (j \in changed') <=> (j \in changed)
    BY <1>5, <2>1
  <2> QED
    BY <1>4, <2>1, <2>2, OthersTrue
<1> QED
  BY <1>7, <1>8, <1>9 DEF TruthInv

(* The version moves on by one.                                            *)
LEMMA MovedVersion ==
  ASSUME TypeOK, version.cred > 0,
         \/ version' = [version EXCEPT !.rev = @ + 1]
         \/ version' = [version EXCEPT !.cred = @ + 1]
         \/ version' = [version EXCEPT !.rest = @ + 1]
  PROVE  /\ version' \in Versions /\ Weight(version') = Weight(version) + 1 /\ version'.cred > 0
         /\ version' = [version EXCEPT !.cred = @ + 1] => version'.rev = version.rev
<1>1. version \in [rev : Nat, cred : Nat, rest : Nat]
  BY DEF TypeOK, Versions
<1> QED
  BY <1>1 DEF Versions, Weight

(* The handler ends, in one of its ways.                                   *)
LEMMA HandlerSteps ==
  ASSUME JobsAssumption, IInv, NEW i \in Jobs,
         \/ Commit(i) \/ Renew(i)
         \/ \E status \in {"ok", "error", "panic"} : Return(i, status)
  PROVE  IInv'
<1>1. TypeOK /\ version.cred > 0
  BY DEF IInv, TruthInv
<1>2. ASSUME NEW status \in {"ok", "error", "panic"}, Return(i, status) PROVE IInv'
  BY <1>2, ReturnsOnly DEF Return
<1>3. CASE Renew(i)
  <2>1. version' = [version EXCEPT !.cred = @ + 1]
    BY <1>3 DEF Renew
  <2>2. /\ version' \in Versions /\ Weight(version') = Weight(version) + 1 /\ version'.cred > 0
        /\ version'.rev = version.rev
    BY <1>1, <2>1, MovedVersion
  <2> QED
    BY <1>3, <2>2, CommitsNow DEF Renew
<1>4. CASE Commit(i)
  <2>1. /\ pc[i] = "executing" /\ i \notin Renewing /\ pc' = [pc EXCEPT ![i] = "returned"]
        /\ UNCHANGED <<resources, items, closed, job, ctx, read, sync>>
    BY <1>4 DEF Commit
  <2>2. CASE reply' = [reply EXCEPT ![i].status = "error"] /\ UNCHANGED <<version, changed, foreign>>
    BY <2>1, <2>2, ReturnsOnly
  <2>3. CASE /\ version = job[i].captured /\ version' = [version EXCEPT !.rev = @ + 1]
             /\ changed' = changed \cup {i} /\ Overtake({i})
             /\ reply' = [reply EXCEPT ![i] = [status |-> "ok", committed |-> version',
                                               own |-> FALSE]]
    <3>1. /\ version' \in Versions /\ Weight(version') = Weight(version) + 1
          /\ version'.cred > 0
      BY <1>1, <2>3, MovedVersion
    <3> QED
      BY <2>1, <2>3, <3>1, CommitsNow
  <2> QED
    BY <1>4, <2>2, <2>3 DEF Commit, Fresh
<1> QED
  BY <1>2, <1>3, <1>4

(* The version is read when the handler has returned, and a refresh        *)
(* compares it with its own renewal.                                       *)
LEMMA ReadSteps ==
  ASSUME JobsAssumption, IInv, NEW i \in Jobs, ReadVersion(i) \/ CheckRefresh(i)
  PROVE  IInv'
<1> USE DEF IInv
<1>1. JobTrue(i) /\ version \in Versions /\ Weight(version) \in Nat /\ version.cred > 0
  BY VersionFacts DEF TruthInv, TypeOK
<1>2. CASE ReadVersion(i)
  <2> DEFINE p == IF i \in Renewing THEN "checking" ELSE "finishing"
  <2>1. /\ pc[i] = "returned" /\ read' = [read EXCEPT ![i] = version]
        /\ pc' = [pc EXCEPT ![i] = p]
        /\ UNCHANGED <<version, resources, items, closed, job, ctx, reply, sync, foreign,
                       changed>>
    BY <1>2 DEF ReadVersion
  <2>2. /\ p \in {"checking", "finishing"}
        /\ (p = "checking") <=> (i \in Renewing)
    OBVIOUS
  <2> HIDE DEF p
  <2>3. /\ pc'[i] = p /\ read'[i] = version
        /\ \A j \in Jobs \ {i} : pc'[j] = pc[j] /\ read'[j] = read[j]
    BY <2>1 DEF TypeOK
  <2>4. TypeOK' /\ TableInv' /\ HoldInv' /\ CloseInv'
    <3>1. /\ reply' \in [Jobs -> ReplyType] /\ read' \in [Jobs -> Versions]
          /\ foreign' \subseteq Jobs /\ changed' \subseteq Jobs /\ job' \in [Jobs -> JobType]
      BY <1>1, <2>1 DEF TypeOK, ReplyType, JobType
    <3> QED
      BY <1>1, <2>1, <2>2, <3>1, JobMoves DEF Places, Busy
  <2>5. JobTrue(i)'
    <3>1. Track(i)' = Track(i) /\ Weight(Track(i))' = Weight(Track(i))
          /\ Weight(version)' = Weight(version) /\ Base(i)' = Base(i)
      BY <2>1 DEF Track, Weight, Base, Committed
    <3>2. Captured(i)
      BY <2>1 DEF Captured
    <3>3. i \notin Renewing => Base(i) = Track(i)
      BY <1>1 DEF Base, Committed, Track, JobTrue, ReplyTrue
    <3>4. i \in foreign /\ i \notin Renewing => version # Track(i)
      BY <1>1, <3>2 DEF JobTrue, VersionTrue
    <3>5. i \notin foreign => version = Track(i)
      BY <1>1, <3>2 DEF JobTrue, VersionTrue
    <3>6. ReplyTrue(i)'
      BY <1>1, <2>1, <2>2, <2>3 DEF JobTrue, ReplyTrue
    <3>7. VersionTrue(i)'
      BY <1>1, <2>1, <2>2, <2>3, <3>1, <3>2, <3>3, <3>4, <3>5 DEF JobTrue, VersionTrue
    <3>8. StateTrue(i)'
      BY <2>2, <2>3 DEF StateTrue, Finished
    <3> QED
      BY <3>6, <3>7, <3>8 DEF JobTrue
  <2> QED
    BY <2>1, <2>3, <2>4, <2>5, AloneTrue
<1>3. CASE CheckRefresh(i)
  <2> DEFINE own == /\ reply[i].status = "ok" /\ read[i].rev = job[i].captured.rev
                    /\ version.cred = reply[i].committed.cred
  <2>1. /\ pc[i] = "checking" /\ reply' = [reply EXCEPT ![i].own = own]
        /\ pc' = [pc EXCEPT ![i] = "finishing"]
        /\ UNCHANGED <<version, resources, items, closed, job, ctx, read, sync, foreign, changed>>
    BY <1>3 DEF CheckRefresh
  <2>2. own \in BOOLEAN /\ reply \in [Jobs -> ReplyType]
    BY DEF TypeOK, ReplyType
  <2>3. (own = TRUE) <=> own
    OBVIOUS
  <2>4. /\ pc'[i] = "finishing" /\ reply'[i] = [reply[i] EXCEPT !.own = own]
        /\ \A j \in Jobs \ {i} : pc'[j] = pc[j] /\ reply'[j] = reply[j]
    BY <2>1, <2>2 DEF TypeOK
  <2>5. /\ reply'[i].status = reply[i].status /\ reply'[i].committed = reply[i].committed
        /\ reply'[i].own = own
    BY <2>2, <2>4 DEF ReplyType
  <2>6. TypeOK' /\ TableInv' /\ HoldInv' /\ CloseInv'
    <3>1. reply' \in [Jobs -> ReplyType]
      <4> HIDE DEF own
      <4> QED
        BY <2>1, <2>2 DEF ReplyType
    <3>2. /\ read' \in [Jobs -> Versions] /\ version' \in Versions
          /\ foreign' \subseteq Jobs /\ changed' \subseteq Jobs /\ job' \in [Jobs -> JobType]
      BY <2>1 DEF TypeOK, JobType
    <3> QED
      BY <2>1, <3>1, <3>2, JobMoves DEF Places, Busy
  <2>7. JobTrue(i)'
    <3>1. i \in Renewing /\ Captured(i)
      BY <1>1, <2>1 DEF JobTrue, ReplyTrue, Captured
    <3>2. Base(i)' = job[i].captured
      BY <2>1, <3>1 DEF Base, Committed
    <3>3. i \notin foreign => read[i] = job[i].captured \/ own
      <4>1. SUFFICES ASSUME i \notin foreign PROVE read[i] = job[i].captured \/ own
        OBVIOUS
      <4>2. read[i] = Track(i) /\ version = Track(i)
        BY <1>1, <2>1, <3>1, <4>1 DEF JobTrue, VersionTrue
      <4>3. CASE reply[i].committed = NoVersion
        BY <4>2, <4>3 DEF Track
      <4>4. CASE reply[i].committed # NoVersion
        <5>1. reply[i].status = "ok" /\ reply[i].committed.rev = job[i].captured.rev
          BY <1>1, <3>1, <4>1, <4>4 DEF JobTrue, ReplyTrue, VersionTrue
        <5> QED
          BY <4>2, <4>4, <5>1 DEF Track
      <4> QED
        BY <4>3, <4>4
    <3>4. ReplyTrue(i)'
      BY <1>1, <2>1, <2>4, <2>5, <3>1 DEF JobTrue, ReplyTrue
    <3>5. VersionTrue(i)'
      BY <1>1, <2>1, <2>4, <2>5, <3>1, <3>2, <3>3 DEF JobTrue, VersionTrue, Captured
    <3>6. StateTrue(i)'
      BY <2>4 DEF StateTrue, Finished
    <3> QED
      BY <3>4, <3>5, <3>6 DEF JobTrue
  <2> QED
    BY <2>1, <2>4, <2>6, <2>7, AloneTrue
<1> QED
  BY <1>2, <1>3

(* Room is made for a new job without losing a running one; the table has  *)
(* room since fewer jobs run than it holds.                                *)
LEMMA MakesRoom ==
  ASSUME JobsAssumption, IInv, Cardinality(resources) < MaxActive
  PROVE  \E s \in Seq(Jobs) :
           /\ s = IF Len(items) >= MaxItems THEN Evict(items) ELSE items
           /\ Len(s) + 1 <= MaxItems
           /\ \A k \in 1..Len(s) : \E m \in 1..Len(items) : s[k] = items[m]
           /\ \A k, m \in 1..Len(s) : s[k] = s[m] => k = m
           /\ \A j \in Jobs : Running(j) => \E k \in 1..Len(s) : s[k] = j
<1> USE DEF IInv
<1>1. PICK n \in Nat : n = Len(items)
  BY LenProperties DEF TypeOK
<1>2. /\ items \in Seq(Jobs) /\ n <= MaxItems
      /\ DOMAIN items = 1..n /\ \A k \in 1..n : items[k] \in Jobs
  BY <1>1, LenProperties, ElementOfSeq DEF TypeOK
<1>3. /\ \A k, m \in 1..n : items[k] = items[m] => k = m
      /\ \A j \in Jobs : Running(j) => \E k \in 1..n : items[k] = j
  BY <1>2 DEF TableInv, RunningInTable
<1>4. MaxActive \in Nat /\ MaxItems \in Nat /\ MaxActive < MaxItems
  BY DEF JobsAssumption
<1>5. CASE ~(n >= MaxItems)
  BY <1>1, <1>2, <1>3, <1>4, <1>5
<1>6. CASE n >= MaxItems
  <2>1. ~\A k \in 1..n : Running(items[k])
    <3>1. SUFFICES ASSUME \A k \in 1..n : Running(items[k]) PROVE FALSE
      OBVIOUS
    <3> DEFINE f == [k \in 1..n |-> job[items[k]].resource]
    <3>2. IsFiniteSet(resources) /\ Cardinality(resources) \in Nat
      BY FS_CardinalityType DEF HoldInv
    <3>3. IsFiniteSet(1..n) /\ Cardinality(1..n) = n
      BY FS_Interval
    <3>4. f \in [1..n -> resources]
      BY <1>2, <3>1 DEF HoldInv
    <3>5. Cardinality(resources) < Cardinality(1..n)
      BY <1>4, <1>6, <3>2, <3>3
    <3>6. PICK k, m \in 1..n : k # m /\ f[k] = f[m]
      <4> HIDE DEF f
      <4> QED
        BY <3>2, <3>3, <3>4, <3>5, FS_PigeonHole
    <3>7. items[k] = items[m]
      BY <1>2, <3>1, <3>6 DEF HoldInv
    <3> QED
      BY <1>3, <3>6, <3>7
  <2>2. PICK k \in 1..n : ~Running(items[k]) /\ Evict(items) = RemoveAt(items, k)
    BY <1>1, <1>2, <2>1, EvictFacts
  <2>3. PICK s : s = RemoveAt(items, k)
    OBVIOUS
  <2>4. /\ s \in Seq(Jobs) /\ Len(s) = n - 1
        /\ \A m \in 1..(n - 1) : s[m] = IF m < k THEN items[m] ELSE items[m + 1]
    <3>1. k \in 1..Len(items)
      BY <1>1
    <3> QED
      BY <1>1, <1>2, <2>3, <3>1, RemoveAtProperties
  <2>5. /\ \A m \in 1..(n - 1) : \E x \in 1..n : s[m] = items[x]
        /\ \A x, y \in 1..(n - 1) : s[x] = s[y] => x = y
        /\ \A x \in 1..n : x # k => \E m \in 1..(n - 1) : s[m] = items[x]
    <3> DEFINE up(m) == IF m < k THEN m ELSE m + 1
    <3>1. \A m \in 1..(n - 1) : up(m) \in 1..n /\ s[m] = items[up(m)]
      BY <2>4
    <3>2. \A x, y \in 1..(n - 1) : up(x) = up(y) => x = y
      OBVIOUS
    <3>3. \A x \in 1..n : x # k => \E m \in 1..(n - 1) : up(m) = x
      <4>1. SUFFICES ASSUME NEW x \in 1..n, x # k PROVE \E m \in 1..(n - 1) : up(m) = x
        OBVIOUS
      <4>2. CASE x < k
        <5>1. x \in 1..(n - 1) /\ up(x) = x
          BY <4>2
        <5> QED
          BY <5>1
      <4>3. CASE x > k
        <5>1. x - 1 \in 1..(n - 1) /\ up(x - 1) = x
          BY <4>3
        <5> QED
          BY <5>1
      <4> QED
        BY <4>1, <4>2, <4>3
    <3> HIDE DEF up
    <3>4. \A m \in 1..(n - 1) : \E x \in 1..n : s[m] = items[x]
      BY <3>1
    <3>5. \A x, y \in 1..(n - 1) : s[x] = s[y] => x = y
      <4>1. SUFFICES ASSUME NEW x \in 1..(n - 1), NEW y \in 1..(n - 1), s[x] = s[y] PROVE x = y
        OBVIOUS
      <4>2. /\ up(x) \in 1..n /\ up(y) \in 1..n
            /\ items[up(x)] = items[up(y)]
        BY <3>1, <4>1
      <4>3. up(x) = up(y)
        BY <1>3, <4>2
      <4> QED
        BY <3>2, <4>3
    <3>6. ASSUME NEW x \in 1..n, x # k PROVE \E m \in 1..(n - 1) : s[m] = items[x]
      <4>1. PICK m \in 1..(n - 1) : up(m) = x
        BY <3>3, <3>6
      <4>2. s[m] = items[x]
        BY <3>1, <4>1
      <4> QED
        BY <4>2
    <3> QED
      BY <3>4, <3>5, <3>6
  <2>6. \A j \in Jobs : Running(j) => \E m \in 1..(n - 1) : s[m] = j
    <3>1. SUFFICES ASSUME NEW j \in Jobs, Running(j) PROVE \E m \in 1..(n - 1) : s[m] = j
      OBVIOUS
    <3>2. PICK x \in 1..n : items[x] = j
      BY <1>3, <3>1
    <3>3. x # k
      BY <2>2, <3>1, <3>2
    <3> QED
      BY <2>5, <3>2, <3>3
  <2>7. n - 1 + 1 <= MaxItems
    BY <1>2
  <2>8. s = IF Len(items) >= MaxItems THEN Evict(items) ELSE items
    BY <1>1, <1>6, <2>2, <2>3
  <2>9. /\ Len(s) + 1 <= MaxItems
        /\ \A x \in 1..Len(s) : \E m \in 1..Len(items) : s[x] = items[m]
        /\ \A x, y \in 1..Len(s) : s[x] = s[y] => x = y
        /\ \A j \in Jobs : Running(j) => \E m \in 1..Len(s) : s[m] = j
    BY <1>1, <2>4, <2>5, <2>6, <2>7
  <2> QED
    BY <2>4, <2>8, <2>9
<1> QED
  BY <1>5, <1>6

(* The job enters the table and takes its resource.                        *)
LEMMA AdmitStep ==
  ASSUME JobsAssumption, IInv, NEW i \in Jobs, Admit(i)
  PROVE  IInv'
<1> USE DEF IInv
<1> DEFINE r == job[i].resource
<1>1. /\ pc[i] = "captured" /\ ~closed /\ r \notin resources /\ Cardinality(resources) < MaxActive
      /\ resources' = resources \cup {r} /\ pc' = [pc EXCEPT ![i] = "accepted"]
      /\ job' = [job EXCEPT ![i].state = "running"]
      /\ UNCHANGED <<version, closed, ctx, reply, read, sync, foreign, changed>>
  BY DEF Admit, Free
<1>2. PICK s \in Seq(Jobs) :
           /\ s = IF Len(items) >= MaxItems THEN Evict(items) ELSE items
           /\ Len(s) + 1 <= MaxItems
           /\ \A k \in 1..Len(s) : \E m \in 1..Len(items) : s[k] = items[m]
           /\ \A k, m \in 1..Len(s) : s[k] = s[m] => k = m
           /\ \A j \in Jobs : Running(j) => \E k \in 1..Len(s) : s[k] = j
  BY <1>1, MakesRoom
<1>3. items' = Append(s, i)
  BY <1>2 DEF Admit
<1>4. /\ items' \in Seq(Jobs) /\ Len(items') = Len(s) + 1 /\ DOMAIN items' = 1..(Len(s) + 1)
      /\ \A k \in 1..Len(s) : items'[k] = s[k]
      /\ items'[Len(s) + 1] = i /\ Len(s) \in Nat
  BY <1>2, <1>3
<1>5. job \in [Jobs -> JobType]
  BY DEF TypeOK, JobType
<1>6. /\ pc'[i] = "accepted" /\ job'[i].resource = r /\ job'[i].captured = job[i].captured
      /\ \A j \in Jobs \ {i} : pc'[j] = pc[j] /\ job'[j] = job[j]
  BY <1>1, <1>5 DEF TypeOK, JobType
<1>7. /\ Running(i)' /\ ~Outside(i)' /\ ~Running(i) /\ Outside(i)
      /\ \A j \in Jobs \ {i} : (Running(j)' <=> Running(j)) /\ (Outside(j)' <=> Outside(j))
  BY <1>1, <1>6 DEF Running, Outside
<1>8. r \in Resources /\ r # NoResource
  BY <1>1 DEF HoldInv, JobsAssumption
<1>9. TypeOK'
  <2>1. job' \in [Jobs -> JobType] /\ pc' \in [Jobs -> Places]
    BY <1>1, <1>5 DEF JobType, TypeOK, Places
  <2>2. resources' \subseteq Resources
    BY <1>1, <1>8 DEF TypeOK
  <2>3. items' \in Seq(Jobs) /\ Len(items') <= MaxItems
    BY <1>2, <1>4
  <2> QED
    BY <1>1, <2>1, <2>2, <2>3 DEF TypeOK, JobType, Places
<1>10. TableInv'
  <2>1. \A m \in 1..Len(items) : items[m] \in Jobs /\ ~Outside(items[m])
    BY DEF TypeOK, TableInv
  <2>2. \A k \in 1..Len(s) : s[k] \in Jobs /\ ~Outside(s[k])
    BY <1>2, <2>1
  <2>3. \A k \in 1..Len(s) : s[k] # i
    BY <1>7, <2>2
  <2>4. \A k \in DOMAIN items' : pc'[items'[k]] \notin {"new", "captured", "rejected"}
    <3>1. SUFFICES ASSUME NEW k \in 1..(Len(s) + 1)
                   PROVE  pc'[items'[k]] \notin {"new", "captured", "rejected"}
      BY <1>4
    <3>2. CASE k \in 1..Len(s)
      BY <1>4, <1>6, <2>2, <2>3, <3>2 DEF Outside
    <3>3. CASE k = Len(s) + 1
      BY <1>4, <1>6, <3>3
    <3> QED
      BY <1>4, <3>2, <3>3
  <2>5. \A k, m \in DOMAIN items' : items'[k] = items'[m] => k = m
    <3>1. SUFFICES ASSUME NEW k \in 1..(Len(s) + 1), NEW m \in 1..(Len(s) + 1),
                          items'[k] = items'[m]
                   PROVE  k = m
      BY <1>4
    <3>2. k \in 1..Len(s) \/ k = Len(s) + 1
      BY <1>4
    <3>3. m \in 1..Len(s) \/ m = Len(s) + 1
      BY <1>4
    <3> QED
      BY <1>2, <1>4, <2>3, <3>1, <3>2, <3>3
  <2>6. \A j \in Jobs : Running(j)' => \E k \in DOMAIN items' : items'[k] = j
    <3>1. SUFFICES ASSUME NEW j \in Jobs, Running(j)' PROVE \E k \in 1..(Len(s) + 1) : items'[k] = j
      BY <1>4
    <3>2. CASE j = i
      BY <1>4, <3>2
    <3>3. CASE j # i
      <4>1. PICK k \in 1..Len(s) : s[k] = j
        BY <1>2, <1>7, <3>1, <3>3
      <4>2. k \in 1..(Len(s) + 1)
        BY <1>4
      <4> QED
        BY <1>4, <4>1, <4>2
    <3> QED
      BY <3>2, <3>3
  <2> QED
    BY <2>4, <2>5, <2>6 DEF TableInv, RunningInTable, Outside
<1>11. HoldInv'
  <2>1. IsFiniteSet(resources') /\ Cardinality(resources') <= MaxActive
    <3>1. IsFiniteSet(resources) /\ Cardinality(resources) \in Nat
      BY FS_CardinalityType DEF HoldInv
    <3>2. IsFiniteSet(resources') /\ Cardinality(resources') = Cardinality(resources) + 1
      BY <1>1, <3>1, FS_AddElement
    <3> QED
      BY <1>1, <3>1, <3>2 DEF JobsAssumption
  <2>2. \A j \in Jobs : job'[j].resource = job[j].resource
    BY <1>6
  <2>3. \A j \in Jobs : Running(j) => job[j].resource # r
    BY <1>1 DEF HoldInv
  <2>4. \A t \in Syncs : sync[t] # r
    BY <1>1, <1>8 DEF HoldInv
  <2>5. \A x \in resources' : Used(x)'
    <3>1. ASSUME NEW x \in resources PROVE Used(x)'
      <4>1. Used(x)
        BY DEF HoldInv
      <4> QED
        BY <1>1, <1>7, <2>2, <4>1 DEF Used
    <3>2. Used(r)'
      BY <1>6, <1>7 DEF Used
    <3> QED
      BY <1>1, <3>1, <3>2
  <2>6. \A j \in Jobs : pc'[j] # "new" => job'[j].resource \in Resources
    BY <1>6, <1>8 DEF HoldInv
  <2>7. /\ \A j \in Jobs : Running(j)' => job'[j].resource \in resources'
        /\ \A t \in Syncs : sync'[t] # NoResource => sync'[t] \in resources'
        /\ \A x, y \in Syncs : sync'[x] # NoResource /\ sync'[x] = sync'[y] => x = y
    BY <1>1, <1>7, <2>2 DEF HoldInv
  <2>8. /\ \A x, y \in Jobs : Running(x)' /\ Running(y)' /\ job'[x].resource = job'[y].resource
                              => x = y
        /\ \A j \in Jobs, t \in Syncs : Running(j)' => job'[j].resource # sync'[t]
    <3>1. ASSUME NEW x \in Jobs, NEW y \in Jobs, Running(x)', Running(y)',
                 job'[x].resource = job'[y].resource
          PROVE  x = y
      <4>1. job[x].resource = job[y].resource
        BY <2>2, <3>1
      <4>2. CASE x = i
        BY <1>7, <2>3, <3>1, <4>1, <4>2
      <4>3. CASE y = i
        BY <1>7, <2>3, <3>1, <4>1, <4>3
      <4>4. CASE x # i /\ y # i
        BY <1>7, <3>1, <4>1, <4>4 DEF HoldInv
      <4> QED
        BY <4>2, <4>3, <4>4
    <3>2. ASSUME NEW j \in Jobs, NEW t \in Syncs, Running(j)' PROVE job'[j].resource # sync'[t]
      <4>1. CASE j = i
        BY <1>1, <2>2, <2>4, <4>1
      <4>2. CASE j # i
        BY <1>1, <1>7, <2>2, <3>2, <4>2 DEF HoldInv
      <4> QED
        BY <4>1, <4>2
    <3> QED
      BY <3>1, <3>2
  <2> QED
    BY <2>1, <2>5, <2>6, <2>7, <2>8 DEF HoldInv
<1>12. CloseInv'
  BY <1>1 DEF CloseInv
<1>13. TruthInv'
  <2>1. JobTrue(i)
    BY DEF TruthInv
  <2>2. Track(i)' = Track(i) /\ Weight(Track(i))' = Weight(Track(i)) /\ Weight(version)' = Weight(version)
    BY <1>1, <1>6 DEF Track, Weight
  <2>3. JobTrue(i)'
    BY <1>1, <1>6, <2>1, <2>2
       DEF JobTrue, ReplyTrue, VersionTrue, StateTrue, Captured, Finished
  <2> QED
    BY <1>1, <1>6, <2>3, AloneTrue
<1> QED
  BY <1>9, <1>10, <1>11, <1>12, <1>13

(* The final state is what the job did.                                    *)
LEMMA FinalStateTrue ==
  ASSUME TypeOK, NEW i \in Jobs, JobTrue(i), pc[i] = "finishing"
  PROVE  /\ FinalState(i) \in {"failed", "timed_out", "canceled", "stale", "completed"}
         /\ FinalState(i) \in {"canceled", "timed_out"} => i \notin changed
         /\ FinalState(i) = "stale" => i \in foreign
         /\ FinalState(i) = "completed" /\ i \notin Renewing => i \notin foreign
<1>1. PICK s : s = FinalState(i)
  OBVIOUS
<1>2. /\ s \in {"failed", "timed_out", "canceled", "stale", "completed"}
      /\ s \in {"canceled", "timed_out"} => ~Committed(i)
      /\ s = "stale" => read[i] # Base(i) /\ ~reply[i].own
      /\ s = "completed" => read[i] = Base(i) \/ reply[i].own
  BY <1>1 DEF FinalState, WasCanceled
<1>3. i \in changed => Committed(i)
  BY DEF JobTrue, ReplyTrue, Committed
<1>4. i \notin foreign => read[i] = Base(i) \/ reply[i].own
  BY DEF JobTrue, VersionTrue
<1>5. i \notin Renewing => Base(i) = Track(i) /\ ~reply[i].own
  BY DEF JobTrue, ReplyTrue, Base, Track, Committed
<1>6. i \in foreign /\ i \notin Renewing => read[i] # Track(i)
  BY DEF JobTrue, VersionTrue
<1> QED
  BY <1>1, <1>2, <1>3, <1>4, <1>5, <1>6

(* The job gives its resource back, and nobody else loses his.             *)
LEMMA FinishStep ==
  ASSUME JobsAssumption, IInv, NEW i \in Jobs, Finish(i)
  PROVE  IInv'
<1> USE DEF IInv
<1> DEFINE r == job[i].resource
<1>1. /\ pc[i] = "finishing" /\ resources' = resources \ {r}
      /\ pc' = [pc EXCEPT ![i] = "finished"]
      /\ job' = [job EXCEPT ![i].state = FinalState(i)]
      /\ UNCHANGED <<version, items, closed, ctx, reply, read, sync, foreign, changed>>
  BY DEF Finish, Freed
<1>2. JobTrue(i) /\ job \in [Jobs -> JobType]
  BY DEF TruthInv, TypeOK, JobType
<1>3. PICK s : s = FinalState(i)
  OBVIOUS
<1>4. /\ s \in {"failed", "timed_out", "canceled", "stale", "completed"}
      /\ s \in {"canceled", "timed_out"} => i \notin changed
      /\ s = "stale" => i \in foreign
      /\ s = "completed" /\ i \notin Renewing => i \notin foreign
  BY <1>1, <1>2, <1>3, FinalStateTrue
<1>5. job' = [job EXCEPT ![i].state = s]
  BY <1>1, <1>3
<1>6. /\ pc'[i] = "finished" /\ job'[i].resource = r /\ job'[i].captured = job[i].captured
      /\ job'[i].state = s
      /\ \A j \in Jobs \ {i} : pc'[j] = pc[j] /\ job'[j] = job[j]
  BY <1>1, <1>2, <1>5 DEF TypeOK, JobType
<1>7. /\ ~Running(i)' /\ ~Outside(i)' /\ Running(i)
      /\ \A j \in Jobs \ {i} : (Running(j)' <=> Running(j)) /\ (Outside(j)' <=> Outside(j))
  BY <1>1, <1>6 DEF Running, Outside
<1>8. TypeOK'
  <2>1. job' \in [Jobs -> JobType]
    BY <1>2, <1>4, <1>5 DEF JobType
  <2>2. pc' \in [Jobs -> Places]
    BY <1>1 DEF TypeOK, Places
  <2>3. resources' \subseteq Resources
    BY <1>1 DEF TypeOK
  <2> QED
    BY <1>1, <2>1, <2>2, <2>3 DEF TypeOK, JobType, Places
<1>9. TableInv'
  <2>1. \A k \in DOMAIN items : items[k] \in Jobs
    BY DEF TypeOK
  <2> QED
    BY <1>1, <1>7, <2>1 DEF TableInv, RunningInTable
<1>10. HoldInv'
  <2>1. IsFiniteSet(resources') /\ Cardinality(resources') <= MaxActive
    <3>1. IsFiniteSet(resources) /\ Cardinality(resources) \in Nat
      BY FS_CardinalityType DEF HoldInv
    <3>2. /\ IsFiniteSet(resources')
          /\ Cardinality(resources') = IF r \in resources THEN Cardinality(resources) - 1
                                                          ELSE Cardinality(resources)
      BY <1>1, <3>1, FS_RemoveElement
    <3> QED
      BY <3>1, <3>2 DEF HoldInv, JobsAssumption
  <2>2. \A j \in Jobs : job'[j].resource = job[j].resource
    BY <1>6
  <2>3. \A j \in Jobs : Running(j)' => Running(j) /\ job[j].resource # r
    <3>1. SUFFICES ASSUME NEW j \in Jobs, Running(j)' PROVE Running(j) /\ job[j].resource # r
      OBVIOUS
    <3>2. j # i /\ Running(j)
      BY <1>7, <3>1
    <3> QED
      BY <1>7, <3>2 DEF HoldInv
  <2>4. \A t \in Syncs : sync[t] # r
    BY <1>7 DEF HoldInv
  <2>5. ASSUME NEW x \in resources' PROVE Used(x)'
    <3>1. Used(x) /\ x # r
      BY <1>1 DEF HoldInv
    <3> QED
      BY <1>1, <1>7, <2>2, <3>1 DEF Used
  <2>6. \A j \in Jobs : pc'[j] # "new" => job'[j].resource \in Resources
    BY <1>1, <1>6, <2>2 DEF HoldInv
  <2>7. /\ \A j \in Jobs : Running(j)' => job'[j].resource \in resources'
        /\ \A t \in Syncs : sync'[t] # NoResource => sync'[t] \in resources'
        /\ \A x, y \in Syncs : sync'[x] # NoResource /\ sync'[x] = sync'[y] => x = y
    BY <1>1, <2>2, <2>3, <2>4 DEF HoldInv
  <2>8. /\ \A x, y \in Jobs : Running(x)' /\ Running(y)' /\ job'[x].resource = job'[y].resource
                              => x = y
        /\ \A j \in Jobs, t \in Syncs : Running(j)' => job'[j].resource # sync'[t]
    BY <1>1, <2>2, <2>3 DEF HoldInv
  <2> QED
    BY <2>1, <2>5, <2>6, <2>7, <2>8 DEF HoldInv
<1>11. CloseInv'
  BY <1>1, <1>7 DEF CloseInv
<1>12. TruthInv'
  <2>1. JobTrue(i)'
    BY <1>1, <1>2, <1>4, <1>6
       DEF JobTrue, ReplyTrue, VersionTrue, StateTrue, Captured, Finished
  <2> QED
    BY <1>1, <1>6, <2>1, AloneTrue
<1> QED
  BY <1>8, <1>9, <1>10, <1>11, <1>12

(* A step that leaves the jobs and the version alone leaves them true.     *)
LEMMA NothingTold ==
  ASSUME IInv, UNCHANGED <<version, pc, job, reply, read, foreign, changed>>
  PROVE  TruthInv'
<1>1. TypeOK /\ version \in Versions /\ version.cred > 0
  BY DEF IInv, TypeOK, TruthInv
<1>2. ASSUME NEW j \in Jobs PROVE JobTrue(j)'
  <2>1. JobTrue(j)
    BY DEF IInv, TruthInv
  <2> QED
    BY <1>1, <2>1, OthersTrue
<1> QED
  BY <1>1, <1>2 DEF TruthInv

(* A job is canceled, times out, or is canceled by Close.                  *)
LEMMA ContextSteps ==
  ASSUME JobsAssumption, IInv, Close \/ \E i \in Jobs : Cancel(i) \/ Expire(i)
  PROVE  IInv'
<1> USE DEF IInv
<1>1. UNCHANGED <<version, resources, items, pc, job, reply, read, sync, foreign, changed>>
  BY DEF Close, Cancel, Expire
<1>2. TruthInv'
  BY <1>1, NothingTold
<1>3. \A j \in Jobs : (Running(j)' <=> Running(j)) /\ (Outside(j)' <=> Outside(j))
  BY <1>1 DEF Running, Outside
<1>4. TableInv' /\ HoldInv'
  <2>1. \A j \in Jobs : /\ Running(j)' <=> Running(j)
                        /\ Outside(j)' <=> Outside(j)
                        /\ pc'[j] = "new" => pc[j] = "new"
                        /\ Running(j) => job'[j].resource = job[j].resource
                        /\ job'[j].resource = job[j].resource \/ job'[j].resource \in Resources
                        /\ pc[j] = "new" /\ pc'[j] # "new" => job'[j].resource \in Resources
    BY <1>1, <1>3
  <2> QED
    BY <1>1, <2>1, SameUsers
<1>5. CASE Close
  <2>1. /\ closed' = TRUE
        /\ ctx' = [j \in Jobs |-> IF ctx[j] = "live" /\ Running(j)
                                     /\ \E k \in DOMAIN items : items[k] = j
                                  THEN "canceled" ELSE ctx[j]]
    BY <1>5 DEF Close
  <2>2. ctx' \in [Jobs -> {"live", "canceled", "expired"}]
    BY <2>1 DEF TypeOK
  <2>3. TypeOK'
    <3>1. closed' \in BOOLEAN
      BY <2>1
    <3> QED
      BY <1>1, <2>2, <3>1 DEF TypeOK
  <2>4. \A j \in Jobs : Running(j) => ctx'[j] # "live"
    BY <2>1 DEF TableInv, RunningInTable
  <2>5. CloseInv'
    BY <1>3, <2>4 DEF CloseInv
  <2> QED
    BY <1>2, <1>4, <2>3, <2>5
<1>6. ASSUME NEW i \in Jobs, Cancel(i) \/ Expire(i) PROVE IInv'
  <2>1. PICK v \in {"canceled", "expired"} : ctx' = [ctx EXCEPT ![i] = v] /\ closed' = closed
    BY <1>6 DEF Cancel, Expire
  <2>2. TypeOK'
    BY <1>1, <2>1 DEF TypeOK
  <2>3. CloseInv'
    BY <1>3, <2>1 DEF CloseInv, TypeOK
  <2> QED
    BY <1>2, <1>4, <2>2, <2>3
<1> QED
  BY <1>5, <1>6

(* A synchronous operation takes a free resource.                          *)
LEMMA SyncBeginStep ==
  ASSUME JobsAssumption, IInv, NEW s \in Syncs, NEW r \in Resources, SyncBegin(s, r)
  PROVE  IInv'
<1> USE DEF IInv
<1>1. /\ sync[s] = NoResource /\ r \notin resources /\ Cardinality(resources) < MaxActive
      /\ resources' = resources \cup {r} /\ sync' = [sync EXCEPT ![s] = r]
      /\ UNCHANGED <<version, items, closed, pc, job, ctx, reply, read, foreign, changed>>
  BY DEF SyncBegin
<1>2. r # NoResource
  BY DEF JobsAssumption
<1>3. sync'[s] = r /\ \A t \in Syncs \ {s} : sync'[t] = sync[t]
  BY <1>1 DEF TypeOK
<1>4. \A j \in Jobs : Running(j)' <=> Running(j)
  BY <1>1 DEF Running
<1>5. TypeOK'
  BY <1>1 DEF TypeOK
<1>6. TableInv'
  BY <1>1, <1>4 DEF TableInv, RunningInTable, Outside
<1>7. HoldInv'
  <2>1. IsFiniteSet(resources') /\ Cardinality(resources') <= MaxActive
    <3>1. IsFiniteSet(resources) /\ Cardinality(resources) \in Nat
      BY FS_CardinalityType DEF HoldInv
    <3>2. IsFiniteSet(resources') /\ Cardinality(resources') = Cardinality(resources) + 1
      BY <1>1, <3>1, FS_AddElement
    <3> QED
      BY <1>1, <3>1, <3>2 DEF JobsAssumption
  <2>2. \A j \in Jobs : Running(j) => job[j].resource # r
    BY <1>1 DEF HoldInv
  <2>3. \A t \in Syncs : sync[t] # r
    BY <1>1, <1>2 DEF HoldInv
  <2>4. ASSUME NEW x \in resources' PROVE Used(x)'
    <3>1. CASE x = r
      BY <1>3, <3>1 DEF Used
    <3>2. CASE x # r
      <4>1. Used(x) /\ x \in Resources
        BY <1>1, <3>2 DEF HoldInv, TypeOK
      <4>2. CASE \E j \in Jobs : Running(j) /\ job[j].resource = x
        BY <1>1, <1>4, <4>2 DEF Used
      <4>3. CASE \E t \in Syncs : sync[t] = x
        <5>1. PICK t \in Syncs : sync[t] = x
          BY <4>3
        <5>2. t # s
          BY <1>1, <4>1, <5>1 DEF JobsAssumption
        <5> QED
          BY <1>3, <5>1, <5>2 DEF Used
      <4> QED
        BY <4>1, <4>2, <4>3 DEF Used
    <3> QED
      BY <3>1, <3>2
  <2>5. /\ \A j \in Jobs : pc'[j] # "new" => job'[j].resource \in Resources
        /\ \A j \in Jobs : Running(j)' => job'[j].resource \in resources'
        /\ \A x, y \in Jobs : Running(x)' /\ Running(y)' /\ job'[x].resource = job'[y].resource
                              => x = y
    BY <1>1, <1>4 DEF HoldInv
  <2>6. \A t \in Syncs : sync'[t] # NoResource => sync'[t] \in resources'
    BY <1>1, <1>3 DEF HoldInv
  <2>7. ASSUME NEW x \in Syncs, NEW y \in Syncs, sync'[x] # NoResource, sync'[x] = sync'[y]
        PROVE  x = y
    BY <1>3, <2>3, <2>7 DEF HoldInv
  <2>8. ASSUME NEW j \in Jobs, NEW t \in Syncs, Running(j)' PROVE job'[j].resource # sync'[t]
    BY <1>1, <1>3, <1>4, <2>2, <2>8 DEF HoldInv
  <2> QED
    BY <2>1, <2>4, <2>5, <2>6, <2>7, <2>8 DEF HoldInv
<1>8. CloseInv'
  BY <1>1, <1>4 DEF CloseInv
<1>9. TruthInv'
  BY <1>1, NothingTold
<1> QED
  BY <1>5, <1>6, <1>7, <1>8, <1>9

(* A synchronous operation gives its resource back.                        *)
LEMMA SyncEndStep ==
  ASSUME JobsAssumption, IInv, NEW s \in Syncs, SyncEnd(s)
  PROVE  IInv'
<1> USE DEF IInv
<1> DEFINE r == sync[s]
<1>1. /\ r # NoResource /\ resources' = resources \ {r}
      /\ sync' = [sync EXCEPT ![s] = NoResource]
      /\ UNCHANGED <<version, items, closed, pc, job, ctx, reply, read, foreign, changed>>
  BY DEF SyncEnd
<1>2. sync'[s] = NoResource /\ \A t \in Syncs \ {s} : sync'[t] = sync[t]
  BY <1>1 DEF TypeOK
<1>3. \A j \in Jobs : Running(j)' <=> Running(j)
  BY <1>1 DEF Running
<1>4. TypeOK'
  BY <1>1 DEF TypeOK
<1>5. TableInv'
  BY <1>1, <1>3 DEF TableInv, RunningInTable, Outside
<1>6. HoldInv'
  <2>1. IsFiniteSet(resources') /\ Cardinality(resources') <= MaxActive
    <3>1. IsFiniteSet(resources) /\ Cardinality(resources) \in Nat
      BY FS_CardinalityType DEF HoldInv
    <3>2. /\ IsFiniteSet(resources')
          /\ Cardinality(resources') = IF r \in resources THEN Cardinality(resources) - 1
                                                          ELSE Cardinality(resources)
      BY <1>1, <3>1, FS_RemoveElement
    <3> QED
      BY <3>1, <3>2 DEF HoldInv, JobsAssumption
  <2>2. \A j \in Jobs : Running(j) => job[j].resource # r
    BY DEF HoldInv
  <2>3. \A t \in Syncs \ {s} : sync[t] # r
    BY <1>1 DEF HoldInv
  <2>4. ASSUME NEW x \in resources' PROVE Used(x)'
    <3>1. Used(x) /\ x # r
      BY <1>1 DEF HoldInv
    <3>2. CASE \E j \in Jobs : Running(j) /\ job[j].resource = x
      BY <1>1, <1>3, <3>2 DEF Used
    <3>3. CASE \E t \in Syncs : sync[t] = x
      BY <1>2, <3>1, <3>3 DEF Used
    <3> QED
      BY <3>1, <3>2, <3>3 DEF Used
  <2>5. /\ \A j \in Jobs : pc'[j] # "new" => job'[j].resource \in Resources
        /\ \A j \in Jobs : Running(j)' => job'[j].resource \in resources'
        /\ \A x, y \in Jobs : Running(x)' /\ Running(y)' /\ job'[x].resource = job'[y].resource
                              => x = y
    BY <1>1, <1>3, <2>2 DEF HoldInv
  <2>6. \A t \in Syncs : sync'[t] # NoResource => sync'[t] \in resources'
    BY <1>1, <1>2, <2>3 DEF HoldInv
  <2>7. ASSUME NEW x \in Syncs, NEW y \in Syncs, sync'[x] # NoResource, sync'[x] = sync'[y]
        PROVE  x = y
    BY <1>2, <2>7 DEF HoldInv
  <2>8. ASSUME NEW j \in Jobs, NEW t \in Syncs, Running(j)' PROVE job'[j].resource # sync'[t]
    <3>1. job[j].resource \in Resources
      BY <1>3, <2>8 DEF HoldInv, TypeOK
    <3> QED
      BY <1>1, <1>2, <1>3, <2>8, <3>1 DEF HoldInv, JobsAssumption
  <2> QED
    BY <2>1, <2>4, <2>5, <2>6, <2>7, <2>8 DEF HoldInv
<1>7. CloseInv'
  BY <1>1, <1>3 DEF CloseInv
<1>8. TruthInv'
  BY <1>1, NothingTold
<1> QED
  BY <1>4, <1>5, <1>6, <1>7, <1>8

(* Another update overtakes every job that has captured a version.         *)
LEMMA OtherChangeStep ==
  ASSUME JobsAssumption, IInv, NEW field \in {"rev", "cred", "rest"}, OtherChange(field)
  PROVE  IInv'
<1> USE DEF IInv
<1>1. /\ foreign' = foreign \cup {j \in Jobs : Captured(j)}
      /\ UNCHANGED <<resources, items, closed, pc, job, ctx, reply, read, sync, changed>>
  BY DEF OtherChange, Overtake
<1>2. TypeOK /\ version.cred > 0
  BY DEF TruthInv
<1>3. \/ version' = [version EXCEPT !.rev = @ + 1]
      \/ version' = [version EXCEPT !.cred = @ + 1]
      \/ version' = [version EXCEPT !.rest = @ + 1]
  BY DEF OtherChange
<1>4. version' \in Versions /\ Weight(version') = Weight(version) + 1 /\ version'.cred > 0
  BY <1>2, <1>3, MovedVersion
<1>5. \A j \in Jobs : (Running(j)' <=> Running(j)) /\ (Outside(j)' <=> Outside(j))
  BY <1>1 DEF Running, Outside
<1>6. TypeOK'
  BY <1>1, <1>4 DEF TypeOK
<1>7. TableInv' /\ HoldInv'
  <2>1. \A j \in Jobs : /\ Running(j)' <=> Running(j)
                        /\ Outside(j)' <=> Outside(j)
                        /\ pc'[j] = "new" => pc[j] = "new"
                        /\ Running(j) => job'[j].resource = job[j].resource
                        /\ job'[j].resource = job[j].resource \/ job'[j].resource \in Resources
                        /\ pc[j] = "new" /\ pc'[j] # "new" => job'[j].resource \in Resources
    BY <1>1, <1>5
  <2> QED
    BY <1>1, <2>1, SameUsers
<1>8. CloseInv'
  BY <1>1, <1>5 DEF CloseInv
<1>9. ASSUME NEW j \in Jobs PROVE JobTrue(j)'
  <2>1. JobTrue(j) /\ Weight(version) \in Nat
    BY VersionFacts DEF TruthInv
  <2>2. /\ Weight(version) < Weight(version')
        /\ (j \in foreign') <=> (j \in foreign \/ Captured(j))
    BY <1>1, <1>4, <2>1
  <2> QED
    BY <1>1, <1>4, <2>1, <2>2, OthersTrue
<1> QED
  BY <1>4, <1>6, <1>7, <1>8, <1>9 DEF TruthInv

(* Every step keeps the invariant.                                         *)
LEMMA NextInv ==
  ASSUME JobsAssumption, IInv, [Next]_vars
  PROVE  IInv'
<1>1. CASE UNCHANGED vars
  BY <1>1 DEF vars, IInv, TypeOK, TableInv, RunningInTable, Outside, Running, HoldInv, Used,
              CloseInv, TruthInv, JobTrue, ReplyTrue, VersionTrue, StateTrue, Captured, Finished,
              Track, Base, Committed, Weight
<1>2. ASSUME NEW i \in Jobs, JobStep(i) PROVE IInv'
  <2>1. CASE Reject(i) \/ \E r \in Resources : Capture(i, r)
    BY <2>1, CaptureSteps
  <2>2. CASE Admit(i)
    BY <2>2, AdmitStep
  <2>3. CASE Cancel(i) \/ Expire(i)
    BY <2>3, ContextSteps
  <2>4. CASE Run(i)
    BY <2>4, RunStep
  <2>5. CASE \/ Commit(i) \/ Renew(i)
             \/ \E status \in {"ok", "error", "panic"} : Return(i, status)
    BY <2>5, HandlerSteps
  <2>6. CASE ReadVersion(i) \/ CheckRefresh(i)
    BY <2>6, ReadSteps
  <2>7. CASE Finish(i)
    BY <2>7, FinishStep
  <2> QED
    BY <1>2, <2>1, <2>2, <2>3, <2>4, <2>5, <2>6, <2>7 DEF JobStep
<1>3. ASSUME NEW s \in Syncs, SyncStep(s) PROVE IInv'
  BY <1>3, SyncBeginStep, SyncEndStep DEF SyncStep
<1>4. ASSUME NEW field \in {"rev", "cred", "rest"}, OtherChange(field) PROVE IInv'
  BY <1>4, OtherChangeStep
<1>5. CASE Close
  BY <1>5, ContextSteps
<1> QED
  BY <1>1, <1>2, <1>3, <1>4, <1>5 DEF Next

(* The invariant holds in every reachable state.                           *)
LEMMA Invariance ==
  ASSUME JobsAssumption
  PROVE  Spec => []IInv
<1>1. Init => IInv
  BY InitInv
<1>2. IInv /\ [Next]_vars => IInv'
  BY NextInv
<1> QED
  BY <1>1, <1>2, PTL DEF Spec
-----------------------------------------------------------------------------
(* The theorems                                                            *)

(* The one user of a resource can be counted.                              *)
LEMMA OneUser ==
  ASSUME JobsAssumption, IInv
  PROVE  ResourceExclusive
<1> USE DEF IInv
<1>1. SUFFICES ASSUME NEW r \in Resources
               PROVE  Cardinality({j \in Jobs : Running(j) /\ job[j].resource = r})
                        + Cardinality({s \in Syncs : sync[s] = r})
                      = IF r \in resources THEN 1 ELSE 0
  BY DEF ResourceExclusive
<1> DEFINE J == {j \in Jobs : Running(j) /\ job[j].resource = r}
           S == {s \in Syncs : sync[s] = r}
<1>2. r # NoResource /\ Cardinality({}) = 0
  BY FS_EmptySet DEF JobsAssumption
<1>3. CASE r \notin resources
  <2>1. J = {} /\ S = {}
    BY <1>2, <1>3 DEF HoldInv
  <2> HIDE DEF J, S
  <2>2. Cardinality(J) + Cardinality(S) = 0
    BY <1>2, <2>1
  <2> QED
    BY <1>3, <2>2 DEF J, S
<1>4. CASE r \in resources
  <2>1. Used(r)
    BY <1>4 DEF HoldInv
  <2>2. CASE \E j \in Jobs : Running(j) /\ job[j].resource = r
    <3>1. PICK j \in Jobs : Running(j) /\ job[j].resource = r
      BY <2>2
    <3>2. J = {j} /\ S = {}
      BY <3>1 DEF HoldInv
    <3>3. Cardinality({j}) = 1
      BY FS_Singleton
    <3> HIDE DEF J, S
    <3>4. Cardinality(J) + Cardinality(S) = 1
      BY <1>2, <3>2, <3>3
    <3> QED
      BY <1>4, <3>4 DEF J, S
  <2>3. CASE \E s \in Syncs : sync[s] = r
    <3>1. PICK s \in Syncs : sync[s] = r
      BY <2>3
    <3>2. J = {} /\ S = {s}
      BY <1>2, <3>1 DEF HoldInv
    <3>3. Cardinality({s}) = 1
      BY FS_Singleton
    <3> HIDE DEF J, S
    <3>4. Cardinality(J) + Cardinality(S) = 1
      BY <1>2, <3>2, <3>3
    <3> QED
      BY <1>4, <3>4 DEF J, S
  <2> QED
    BY <2>1, <2>2, <2>3 DEF Used
<1> QED
  BY <1>3, <1>4 DEF J, S

(* For any number of jobs, synchronous operations and resources, and any   *)
(* limits with fewer active jobs than the table holds: a resource has one  *)
(* user, is free once its user is over, and a running job is in the table  *)
(* until it ends (startManagementJob, runManagementJob, ServeHTTP).        *)
THEOREM ResourcesAreExclusive ==
  ASSUME JobsAssumption
  PROVE  Spec => []JobsExclusive
<1>1. IInv => JobsExclusive
  <2>1. SUFFICES ASSUME IInv PROVE JobsExclusive
    OBVIOUS
  <2>2. ResourceExclusive
    BY <2>1, OneUser
  <2> QED
    BY <2>1, <2>2 DEF IInv, TableInv, JobsExclusive
<1> QED
  BY <1>1, Invariance, PTL

(* Only the commit of a live job enters it among those that committed.     *)
LEMMA CommitsOpen ==
  ASSUME JobsAssumption, IInv, Next, closed
  PROVE  changed' = changed
<1>1. ASSUME NEW i \in Jobs, Commit(i) PROVE changed' = changed
  <2>1. Running(i)
    BY <1>1 DEF Commit, Running
  <2>2. ~Fresh(i)
    BY <2>1 DEF IInv, CloseInv, Fresh
  <2> QED
    BY <1>1, <2>2 DEF Commit
<1>2. ASSUME NEW i \in Jobs, JobStep(i), ~Commit(i) PROVE changed' = changed
  BY <1>2 DEF JobStep, Capture, Admit, Reject, Cancel, Expire, Run, Renew, Return, ReadVersion,
              CheckRefresh, Finish
<1>3. ASSUME NEW s \in Syncs, SyncStep(s) PROVE changed' = changed
  BY <1>3 DEF SyncStep, SyncBegin, SyncEnd
<1> QED
  BY <1>1, <1>2, <1>3 DEF Next, OtherChange, Close

(* For any number of jobs and changes: what runManagementJob reports is    *)
(* what the job did, and managementJobs.close is the last word: no job     *)
(* commits after it.                                                       *)
THEOREM ReportsAreTrue ==
  ASSUME JobsAssumption
  PROVE  Spec => CommitsAreTrue
<1>1. IInv => \A j \in Jobs : StateTrue(j)
  BY DEF IInv, TruthInv, JobTrue
<1>2. IInv /\ [Next]_vars => [CommitsBeforeClose]_vars
  <2>1. SUFFICES ASSUME IInv, Next PROVE CommitsBeforeClose
    OBVIOUS
  <2> QED
    BY <2>1, CommitsOpen DEF CommitsBeforeClose
<1> QED
  BY <1>1, <1>2, Invariance, PTL DEF Spec, CommitsAreTrue, NoCommitAfterClose

-----------------------------------------------------------------------------
(* The scan: the inductive invariant                                       *)

\* A scan that is said to run has its goroutine.
GoroutineInv ==
    /\ live = IF place \in {"idle", "down"} THEN 0 ELSE 1
    /\ view.state = "running" <=> place \notin {"idle", "down"}
    /\ place \in {"visiting", "storing", "applying", "recording"} => site \in Scan!Sites

\* A ticket in hand is not spent, void only if it is expired, and its preview
\* is untouched.
TicketInv ==
    /\ started \cap void = {}
    /\ ticket \notin started /\ (ticket \in void => ~valid)
    /\ ticket # 0 => place = "idle" /\ view.sites = Scan!Fresh

\* What the view, the file and the goroutine call saved is stored.
SavedInv ==
    /\ \A i \in Scan!Sites : view.sites[i] = "saved" \/ disk.sites[i] = "saved" => i \in stored
    /\ place = "recording" /\ found = "saved" => site \in stored

\* Material in use is kept; material that may be discarded is not in use.
MaterialInv ==
    /\ \A i \in Scan!Sites : bound[i] <= made /\ (bound[i] # 0 => bound[i] \in vault)
    /\ place = "applying" /\ site \notin BrowserMode
            => made \in vault /\ \A i \in Scan!Sites : bound[i] < made

ScanIInv == Scan!TypeOK /\ GoroutineInv /\ TicketInv /\ SavedInv /\ MaterialInv
-----------------------------------------------------------------------------
(* Facts                                                                   *)

(* A view changes its state, one of its sites, or closes what is open.     *)
LEMMA ViewFacts ==
  ASSUME NEW v \in Scan!View
  PROVE  /\ v.sites \in [Scan!Sites -> Scan!Results \cup {"unsupported", "queued", "running",
                                                           "not_attempted"}]
         /\ \A s \in Scan!Terminals \cup {"none", "preview", "running", "canceled", "interrupted"} :
              /\ [v EXCEPT !.state = s] \in Scan!View /\ [v EXCEPT !.state = s].state = s
              /\ [v EXCEPT !.state = s].sites = v.sites
              /\ [state |-> s, sites |-> Scan!Fresh] \in Scan!View
              /\ [state |-> s, sites |-> Scan!Closing(v.sites)] \in Scan!View
         /\ \A i \in Scan!Sites : Scan!Closing(v.sites)[i] = "saved" => v.sites[i] = "saved"
         /\ \A i \in Scan!Sites : Scan!Fresh[i] # "saved"
<1>1. v.sites \in [Scan!Sites -> Scan!Results \cup {"unsupported", "queued", "running",
                                                    "not_attempted"}]
  BY DEF Scan!View
<1>2. /\ Scan!Closing(v.sites) \in [Scan!Sites -> Scan!Results \cup {"unsupported", "queued", "running",
                                                                     "not_attempted"}]
      /\ \A i \in Scan!Sites : Scan!Closing(v.sites)[i] = "saved" => v.sites[i] = "saved"
  BY <1>1 DEF Scan!Closing
<1>3. /\ Scan!Fresh \in [Scan!Sites -> Scan!Results \cup {"unsupported", "queued", "running",
                                                         "not_attempted"}]
      /\ \A i \in Scan!Sites : Scan!Fresh[i] # "saved"
  BY DEF Scan!Fresh
<1>4. ASSUME NEW s \in Scan!Terminals \cup {"none", "preview", "running", "canceled", "interrupted"}
      PROVE  /\ [v EXCEPT !.state = s] \in Scan!View /\ [v EXCEPT !.state = s].state = s
             /\ [v EXCEPT !.state = s].sites = v.sites
             /\ [state |-> s, sites |-> Scan!Fresh] \in Scan!View
             /\ [state |-> s, sites |-> Scan!Closing(v.sites)] \in Scan!View
  BY <1>2, <1>3 DEF Scan!View
<1> QED
  BY <1>1, <1>2, <1>3, <1>4

(* One site of a view changes.                                             *)
LEMMA SiteFacts ==
  ASSUME NEW v \in Scan!View, NEW i \in Scan!Sites,
         NEW r \in Scan!Results \cup {"unsupported", "queued", "running", "not_attempted"}
  PROVE  /\ [v EXCEPT !.sites[i] = r] \in Scan!View
         /\ [v EXCEPT !.sites[i] = r].state = v.state
         /\ [v EXCEPT !.sites[i] = r].sites = [v.sites EXCEPT ![i] = r]
BY DEF Scan!View

(* A scan that ended, by itself or by a crash, is not said to run.         *)
LEMMA LoadedFacts ==
  ASSUME NEW v \in Scan!View
  PROVE  /\ Scan!Loaded(v) \in Scan!View /\ Scan!Loaded(v).state # "running"
         /\ \A i \in Scan!Sites : Scan!Loaded(v).sites[i] = "saved" => v.sites[i] = "saved"
<1>1. CASE v.state = "running"
  BY <1>1, ViewFacts DEF Scan!Loaded
<1>2. CASE v.state # "running"
  BY <1>2 DEF Scan!Loaded
<1> QED
  BY <1>1, <1>2
-----------------------------------------------------------------------------
(* Steps                                                                   *)

(* The first state satisfies the invariant.                                *)
LEMMA ScanInit ==
  ASSUME Scan!BatchAssumption, Scan!Init
  PROVE  ScanIInv
<1> USE DEF Scan!Init
<1>1. LastSite \in Nat /\ 1 \in 1..(LastSite + 1)
  BY DEF Scan!BatchAssumption
<1>2. /\ Scan!Fresh \in [Scan!Sites -> Scan!Results \cup {"unsupported", "queued", "running",
                                                         "not_attempted"}]
      /\ \A i \in Scan!Sites : Scan!Fresh[i] # "saved"
  BY DEF Scan!Fresh
<1>3. view \in Scan!View /\ disk \in Scan!View /\ view.sites = Scan!Fresh /\ disk.sites = Scan!Fresh
      /\ view.state = "none"
  BY <1>2 DEF Scan!View
<1>4. Scan!TypeOK
  <2>1. valid \in BOOLEAN /\ stopped \in BOOLEAN /\ canceled \in BOOLEAN
    OBVIOUS
  <2>2. approved \in Scan!Version /\ expected \in Scan!Version
    BY DEF Scan!Version
  <2>3. found \in Scan!Results /\ terminal \in Scan!Terminals
    BY DEF Scan!Results, Scan!Terminals
  <2>4. bound \in [Scan!Sites -> Nat] /\ vault \subseteq Nat /\ stored \subseteq Scan!Sites
    OBVIOUS
  <2>5. started \subseteq 1..tickets /\ void \subseteq 1..tickets /\ ticket \in 0..tickets
    OBVIOUS
  <2> QED
    BY <1>1, <1>3, <2>1, <2>2, <2>3, <2>4, <2>5 DEF Scan!TypeOK
<1>5. GoroutineInv /\ TicketInv /\ MaterialInv
  BY <1>3 DEF GoroutineInv, TicketInv, MaterialInv
<1>6. SavedInv
  BY <1>2, <1>3 DEF SavedInv
<1> QED
  BY <1>4, <1>5, <1>6 DEF ScanIInv

(* A step that changes nothing the invariant speaks of, other than the     *)
(* queue's flag and who asked for the end.                                 *)
LEMMA QuietStep ==
  ASSUME Scan!BatchAssumption, ScanIInv, stopped' \in BOOLEAN, canceled' \in BOOLEAN,
         changes' \in Nat, revision' \in Nat,
         UNCHANGED <<view, ticket, valid, approved, disk, bound, vault, made, place, live,
                     expected, site, found, terminal, stored, tickets, crashes, started, void>>
  PROVE  ScanIInv'
BY DEF ScanIInv, Scan!TypeOK, GoroutineInv, TicketInv, SavedInv, MaterialInv

(* Requests of the administrator, deadlines, and changes by others.        *)
LEMMA RequestSteps ==
  ASSUME Scan!BatchAssumption, ScanIInv,
         \/ Scan!Preview \/ Scan!CancelScan \/ Scan!TicketExpires
         \/ Scan!ScanExpires \/ Scan!CloseQueue \/ Scan!OtherChange
  PROVE  ScanIInv'
<1> USE DEF ScanIInv
<1>1. CASE Scan!TicketExpires
  <2>1. /\ ticket # 0 /\ valid' = FALSE /\ void' = void \cup {ticket}
        /\ UNCHANGED <<view, ticket, approved, stopped, disk, revision, bound, vault, made, place,
                       live, canceled, expected, site, found, terminal, stored, tickets, changes,
                       crashes, started>>
    BY <1>1 DEF Scan!TicketExpires, Scan!store, Scan!worker
  <2>2. void' \subseteq 1..tickets /\ valid' \in BOOLEAN
    <3>1. valid' \in BOOLEAN
      BY <2>1
    <3>2. ticket \in 1..tickets /\ void \subseteq 1..tickets
      BY <2>1 DEF Scan!TypeOK
    <3> QED
      BY <2>1, <3>1, <3>2
  <2>3. Scan!TypeOK'
    BY <2>1, <2>2 DEF Scan!TypeOK
  <2>4. TicketInv'
    BY <2>1 DEF TicketInv
  <2>5. GoroutineInv' /\ SavedInv' /\ MaterialInv'
    BY <2>1 DEF GoroutineInv, SavedInv, MaterialInv
  <2> QED
    BY <2>3, <2>4, <2>5
<1>2. CASE Scan!ScanExpires
  BY <1>2, QuietStep DEF Scan!ScanExpires, Scan!queue, Scan!store, Scan!ledger, Scan!TypeOK
<1>3. CASE Scan!CloseQueue
  BY <1>3, QuietStep DEF Scan!CloseQueue, Scan!store, Scan!ledger, Scan!TypeOK
<1>4. CASE Scan!OtherChange
  <2>1. revision' \in Nat /\ changes' \in Nat
    BY <1>4 DEF Scan!OtherChange, Scan!TypeOK
  <2> QED
    BY <1>4, <2>1, QuietStep DEF Scan!OtherChange, Scan!queue, Scan!worker, Scan!TypeOK
<1>5. CASE Scan!CancelScan
  <2>1. /\ ticket' = 0 /\ canceled' \in BOOLEAN
        /\ void' = IF ticket = 0 THEN void ELSE void \cup {ticket}
        /\ UNCHANGED <<view, valid, approved, stopped, disk, revision, bound, vault, made, place,
                       live, expected, site, found, terminal, stored, tickets, changes, crashes,
                       started>>
    BY <1>5 DEF Scan!CancelScan, Scan!store, Scan!TypeOK
  <2>2. Scan!TypeOK'
    BY <2>1 DEF Scan!TypeOK
  <2>3. TicketInv'
    BY <2>1 DEF TicketInv, Scan!TypeOK
  <2>4. GoroutineInv' /\ SavedInv' /\ MaterialInv'
    BY <2>1 DEF GoroutineInv, SavedInv, MaterialInv
  <2> QED
    BY <2>2, <2>3, <2>4
<1>6. CASE Scan!Preview
  <2>1. /\ place # "down" /\ view.state # "running"
        /\ tickets' = tickets + 1 /\ ticket' = tickets + 1 /\ valid' = TRUE
        /\ approved' = <<revision, vault>> /\ view' = [state |-> "preview", sites |-> Scan!Fresh]
        /\ void' = IF ticket = 0 THEN void ELSE void \cup {ticket}
        /\ UNCHANGED <<stopped, disk, revision, bound, vault, made, place, live, canceled, expected,
                       site, found, terminal, stored, changes, crashes, started>>
    BY <1>6 DEF Scan!Preview, Scan!NotRunning, Scan!version, Scan!store, Scan!worker
  <2>2. place = "idle"
    BY <2>1 DEF GoroutineInv
  <2>3. /\ view' \in Scan!View /\ view'.state = "preview" /\ view'.sites = Scan!Fresh
        /\ \A i \in Scan!Sites : Scan!Fresh[i] # "saved"
    BY <2>1, ViewFacts DEF Scan!TypeOK
  <2>4. Scan!TypeOK'
    <3>1. valid' \in BOOLEAN
      BY <2>1
    <3>2. approved' \in Scan!Version
      BY <2>1 DEF Scan!Version, Scan!TypeOK
    <3>3. tickets' \in Nat /\ ticket' \in 0..tickets' /\ 1..tickets \subseteq 1..tickets'
      BY <2>1 DEF Scan!TypeOK
    <3>4. void' \subseteq 1..tickets' /\ started' \subseteq 1..tickets'
      BY <2>1, <3>3 DEF Scan!TypeOK
    <3> QED
      BY <2>1, <2>3, <3>1, <3>2, <3>3, <3>4 DEF Scan!TypeOK
  <2>5. TicketInv'
    <3>1. tickets \in Nat /\ started \subseteq 1..tickets /\ void \subseteq 1..tickets
          /\ ticket \in 0..tickets
      BY DEF Scan!TypeOK
    <3>2. tickets + 1 \notin started /\ tickets + 1 \notin void \cup {ticket}
      BY <3>1
    <3> QED
      BY <2>1, <2>2, <2>3, <3>2 DEF TicketInv
  <2>6. GoroutineInv' /\ SavedInv' /\ MaterialInv'
    BY <2>1, <2>2, <2>3 DEF GoroutineInv, SavedInv, MaterialInv
  <2> QED
    BY <2>4, <2>5, <2>6
<1> QED
  BY <1>1, <1>2, <1>3, <1>4, <1>5, <1>6

(* The confirmation.                                                       *)
LEMMA ConfirmStep ==
  ASSUME Scan!BatchAssumption, ScanIInv, NEW t \in 1..MaxTickets, NEW ok \in BOOLEAN, Scan!Confirm(t, ok)
  PROVE  ScanIInv'
<1> USE DEF ScanIInv
<1>1. /\ place # "down" /\ view.state # "running" /\ t # 0 /\ t = ticket /\ valid
      /\ ticket' = 0 /\ started' = started \cup {t}
      /\ UNCHANGED <<valid, approved, stopped, revision, bound, vault, made, tickets, changes,
                     crashes, void>>
  BY DEF Scan!Confirm, Scan!NotRunning, Scan!TicketSpent, Scan!store
<1>2. place = "idle" /\ view.sites = Scan!Fresh
  BY <1>1 DEF GoroutineInv, TicketInv
<1>3. \A i \in Scan!Sites : Scan!Fresh[i] # "saved"
  BY ViewFacts DEF Scan!TypeOK
<1>4. TicketInv' /\ started' \subseteq 1..tickets
  BY <1>1 DEF TicketInv, Scan!TypeOK
<1>5. CASE ok
  <2>1. /\ view' = [view EXCEPT !.state = "running"] /\ disk' = view'
        /\ place' = "begin" /\ live' = live + 1 /\ canceled' = FALSE /\ expected' = approved
        /\ site' = 1 /\ found' = "nothing" /\ terminal' = "completed" /\ stored' = {}
    BY <1>5 DEF Scan!Confirm, Scan!SaveHistory
  <2>2. view' \in Scan!View /\ view'.state = "running" /\ view'.sites = Scan!Fresh
    BY <1>2, <2>1, ViewFacts DEF Scan!TypeOK
  <2>3. live = 0 /\ live' = 1
    BY <1>2, <2>1 DEF GoroutineInv
  <2>4. 1 \in 1..(LastSite + 1) /\ "nothing" \in Scan!Results /\ "completed" \in Scan!Terminals
    BY DEF Scan!BatchAssumption, Scan!Results, Scan!Terminals
  <2>5. Scan!TypeOK'
    <3>1. canceled' \in BOOLEAN
      BY <2>1
    <3>2. ticket' \in 0..tickets' /\ started' \subseteq 1..tickets'
      BY <1>1, <1>4 DEF Scan!TypeOK
    <3> QED
      BY <1>1, <2>1, <2>2, <2>3, <2>4, <3>1, <3>2 DEF Scan!TypeOK
  <2>6. GoroutineInv' /\ SavedInv' /\ MaterialInv'
    BY <1>1, <1>3, <2>1, <2>2, <2>3 DEF GoroutineInv, SavedInv, MaterialInv
  <2> QED
    BY <1>4, <2>5, <2>6
<1>6. CASE ~ok
  <2>1. /\ view' = [view EXCEPT !.state = "history_failed"] /\ disk' = disk
        /\ UNCHANGED <<place, live, canceled, expected, site, found, terminal, stored>>
    BY <1>6 DEF Scan!Confirm, Scan!SaveHistory, Scan!worker
  <2>2. "history_failed" \in Scan!Terminals
    BY DEF Scan!Terminals
  <2>3. view' \in Scan!View /\ view'.state = "history_failed" /\ view'.sites = Scan!Fresh
    BY <1>2, <2>1, <2>2, ViewFacts DEF Scan!TypeOK
  <2>4. Scan!TypeOK'
    BY <1>1, <1>4, <2>1, <2>3 DEF Scan!TypeOK
  <2>5. GoroutineInv' /\ SavedInv' /\ MaterialInv'
    BY <1>1, <1>2, <1>3, <2>1, <2>3 DEF GoroutineInv, SavedInv, MaterialInv
  <2> QED
    BY <1>4, <2>4, <2>5
<1> QED
  BY <1>5, <1>6

(* The goroutine goes on without touching the store or the history.        *)
LEMMA WorkSteps ==
  ASSUME Scan!BatchAssumption, ScanIInv,
         \/ Scan!NextSite \/ Scan!Panic
         \/ \E ok \in BOOLEAN : Scan!OpenBrowser(ok)
         \/ \E result \in {"session", "no_session", "site_unavailable"} : Scan!Visit(result)
  PROVE  ScanIInv'
<1> USE DEF ScanIInv
<1>1. /\ UNCHANGED <<ticket, valid, approved, stopped, disk, revision, bound, vault, made, stored,
                     live, canceled, expected, tickets, changes, crashes, started, void>>
      /\ place \in {"begin", "loop", "visiting", "recording"}
      /\ place' \in {"loop", "visiting", "storing", "recording", "ending"}
  BY DEF Scan!NextSite, Scan!Panic, Scan!OpenBrowser, Scan!Visit, Scan!Goes,
         Scan!queue, Scan!store, Scan!ledger
<1>2. terminal' \in Scan!Terminals
  BY DEF Scan!NextSite, Scan!Panic, Scan!OpenBrowser, Scan!Visit, Scan!Terminals, Scan!TypeOK
<1>3. /\ found' \in Scan!Results /\ (place' = "recording" => found' # "saved")
      /\ site' \in 1..(LastSite + 1)
      /\ place' \in {"visiting", "storing", "recording"} => site' \in Scan!Sites
  <2>1. CASE Scan!NextSite
    <3>1. site \in Scan!Sites => site + 1 \in 1..(LastSite + 1)
      BY DEF Scan!Sites, Scan!BatchAssumption
    <3> QED
      BY <2>1, <3>1 DEF Scan!NextSite, Scan!Goes, Scan!TypeOK
  <2>2. CASE Scan!Panic \/ \E ok \in BOOLEAN : Scan!OpenBrowser(ok)
    BY <2>2 DEF Scan!Panic, Scan!OpenBrowser, Scan!Goes, Scan!TypeOK
  <2>3. CASE \E result \in {"session", "no_session", "site_unavailable"} : Scan!Visit(result)
    BY <2>3 DEF Scan!Visit, Scan!Goes, Scan!TypeOK, GoroutineInv, Scan!Results
  <2> QED
    BY <2>1, <2>2, <2>3
<1>4. /\ view' \in Scan!View /\ view'.state = view.state
      /\ \A i \in Scan!Sites : view'.sites[i] = "saved" => view.sites[i] = "saved"
  <2>1. CASE view' = view
    BY <2>1 DEF Scan!TypeOK
  <2>2. CASE site \in Scan!Sites /\ view' = [view EXCEPT !.sites[site] = "running"]
    <3>1. /\ view' \in Scan!View /\ view'.state = view.state
          /\ view'.sites = [view.sites EXCEPT ![site] = "running"]
      BY <2>2, SiteFacts DEF Scan!TypeOK
    <3>2. view.sites \in [Scan!Sites -> Scan!Results \cup {"unsupported", "queued", "running",
                                                           "not_attempted"}]
      BY ViewFacts DEF Scan!TypeOK
    <3> QED
      BY <2>2, <3>1, <3>2
  <2>3. view' = view \/ (site \in Scan!Sites /\ view' = [view EXCEPT !.sites[site] = "running"])
    BY DEF Scan!NextSite, Scan!Panic, Scan!OpenBrowser, Scan!Visit, Scan!queue
  <2> QED
    BY <2>1, <2>2, <2>3
<1>5. Scan!TypeOK'
  BY <1>1, <1>2, <1>3, <1>4 DEF Scan!TypeOK
<1>6. GoroutineInv'
  BY <1>1, <1>3, <1>4 DEF GoroutineInv
<1>7. TicketInv'
  BY <1>1 DEF TicketInv
<1>8. SavedInv' /\ MaterialInv'
  BY <1>1, <1>3, <1>4 DEF SavedInv, MaterialInv
<1> QED
  BY <1>5, <1>6, <1>7, <1>8

(* saveScannedSession: first the material, then the account.               *)
LEMMA StoreSteps ==
  ASSUME Scan!BatchAssumption, ScanIInv,
         \/ \E ok \in BOOLEAN : Scan!CreateMaterial(ok)
         \/ \E ok, deleted \in BOOLEAN : Scan!ApplyAccount(ok, deleted)
  PROVE  ScanIInv'
<1> USE DEF ScanIInv
<1>1. CASE \E ok \in BOOLEAN : Scan!CreateMaterial(ok)
  <2>1. /\ place = "storing"
        /\ UNCHANGED <<view, ticket, valid, approved, stopped, disk, revision, bound, live,
                       canceled, expected, site, terminal, stored, tickets, changes, crashes,
                       started, void>>
    BY <1>1 DEF Scan!CreateMaterial, Scan!queue, Scan!ledger
  <2>2. \/ /\ place' = "applying" /\ found' = found
           /\ \/ site \in BrowserMode /\ made' = made /\ vault' = vault
              \/ site \notin BrowserMode /\ made' = made + 1 /\ vault' = vault \cup {made + 1}
        \/ place' = "recording" /\ found' = "save_failed" /\ made' = made /\ vault' = vault
    BY <1>1 DEF Scan!CreateMaterial, Scan!StoreFailed
  <2>3. /\ made' \in Nat /\ vault' \subseteq Nat /\ vault \subseteq vault' /\ made <= made'
        /\ found' \in Scan!Results
    <3>1. "save_failed" \in Scan!Results /\ made \in Nat /\ vault \subseteq Nat /\ found \in Scan!Results
      BY DEF Scan!TypeOK, Scan!Results
    <3>2. CASE made' = made /\ vault' = vault
      BY <2>2, <3>1, <3>2
    <3>3. CASE made' = made + 1 /\ vault' = vault \cup {made + 1}
      BY <2>2, <3>1, <3>3
    <3> QED
      BY <2>2, <3>2, <3>3
  <2>4. Scan!TypeOK'
    BY <2>1, <2>2, <2>3 DEF Scan!TypeOK
  <2>5. GoroutineInv' /\ TicketInv' /\ SavedInv'
    BY <2>1, <2>2 DEF GoroutineInv, TicketInv, SavedInv
  <2>6. MaterialInv'
    <3>1. made \in Nat /\ \A i \in Scan!Sites : bound[i] \in Nat /\ bound[i] <= made
      BY DEF Scan!TypeOK, MaterialInv
    <3> QED
      BY <2>1, <2>2, <2>3, <3>1 DEF MaterialInv
  <2> QED
    BY <2>4, <2>5, <2>6
<1>2. CASE \E ok, deleted \in BOOLEAN : Scan!ApplyAccount(ok, deleted)
  <2>1. /\ place = "applying" /\ place' = "recording"
        /\ UNCHANGED <<view, ticket, valid, approved, stopped, disk, made, live, canceled, site,
                       terminal, tickets, changes, crashes, started, void>>
    BY <1>2 DEF Scan!ApplyAccount, Scan!queue, Scan!ledger
  <2>2. \/ /\ vault' = vault /\ revision' = revision + 1 /\ stored' = stored \cup {site}
           /\ bound' = [bound EXCEPT ![site] = IF site \in BrowserMode THEN @ ELSE made]
           /\ expected' = <<revision', vault'>> /\ found' = "saved"
        \/ /\ vault' = vault \/ (site \notin BrowserMode /\ vault' = vault \ {made})
           /\ found' = "save_failed" /\ UNCHANGED <<revision, bound, stored, expected>>
    BY <1>2 DEF Scan!ApplyAccount, Scan!Discard, Scan!StoreFailed
  <2>3. site \in Scan!Sites
    BY <2>1 DEF GoroutineInv
  <2>4. /\ vault' \subseteq Nat /\ revision' \in Nat /\ stored' \subseteq Scan!Sites
        /\ bound' \in [Scan!Sites -> Nat] /\ expected' \in Scan!Version /\ found' \in Scan!Results
    <3>1. vault' \subseteq Nat /\ revision' \in Nat /\ stored' \subseteq Scan!Sites
      <4>1. vault \subseteq Nat /\ revision \in Nat /\ stored \subseteq Scan!Sites
        BY DEF Scan!TypeOK
      <4>2. /\ vault' = vault \/ vault' = vault \ {made}
            /\ revision' = revision \/ revision' = revision + 1
            /\ stored' = stored \/ stored' = stored \cup {site}
        BY <2>2
      <4>3. vault' \subseteq Nat
        BY <4>1, <4>2
      <4>4. stored' \subseteq Scan!Sites
        BY <2>3, <4>1, <4>2
      <4>5. revision' \in Nat
        BY <4>1, <4>2
      <4> QED
        BY <4>3, <4>4, <4>5
    <3>2. bound' \in [Scan!Sites -> Nat]
      <4>1. bound \in [Scan!Sites -> Nat] /\ bound[site] \in Nat /\ made \in Nat
        BY <2>3 DEF Scan!TypeOK
      <4>2. PICK m \in Nat : bound' = bound \/ bound' = [bound EXCEPT ![site] = m]
        BY <2>2, <4>1
      <4> QED
        BY <4>1, <4>2
    <3>3. expected' \in Scan!Version
      <4>1. <<revision', vault'>> \in Scan!Version
        BY <3>1 DEF Scan!Version
      <4>2. expected' = <<revision', vault'>> \/ expected' = expected
        BY <2>2
      <4> QED
        BY <4>1, <4>2 DEF Scan!TypeOK
    <3>4. found' \in Scan!Results
      BY <2>2 DEF Scan!Results
    <3> QED
      BY <3>1, <3>2, <3>3, <3>4
  <2>5. Scan!TypeOK'
    BY <2>1, <2>4 DEF Scan!TypeOK
  <2>6. GoroutineInv' /\ TicketInv'
    BY <2>1, <2>3 DEF GoroutineInv, TicketInv
  <2>7. SavedInv'
    BY <2>1, <2>2 DEF SavedInv
  <2>8. MaterialInv'
    <3>1. made \in Nat /\ \A i \in Scan!Sites : bound[i] \in Nat
      BY DEF Scan!TypeOK
    <3>2. site \notin BrowserMode => made \in vault /\ \A i \in Scan!Sites : bound[i] < made
      BY <2>1 DEF MaterialInv
    <3>3. \A i \in Scan!Sites : bound[i] <= made /\ (bound[i] # 0 => bound[i] \in vault)
      BY DEF MaterialInv
    <3>4. CASE vault' = vault /\ bound' = [bound EXCEPT ![site] = IF site \in BrowserMode
                                                                THEN @ ELSE made]
      <4>1. \A i \in Scan!Sites : bound'[i] = bound[i]
                                  \/ (i = site /\ site \notin BrowserMode /\ bound'[i] = made)
        BY <3>4 DEF Scan!TypeOK
      <4> QED
        BY <2>1, <3>1, <3>2, <3>3, <3>4, <4>1 DEF MaterialInv
    <3>5. CASE bound' = bound /\ (vault' = vault \/ (site \notin BrowserMode
                                                     /\ vault' = vault \ {made}))
      <4>1. \A i \in Scan!Sites : bound[i] # 0 => bound[i] \in vault'
        BY <3>1, <3>2, <3>3, <3>5
      <4> QED
        BY <2>1, <3>3, <3>5, <4>1 DEF MaterialInv
    <3> QED
      BY <2>2, <3>4, <3>5
  <2> QED
    BY <2>5, <2>6, <2>7, <2>8
<1> QED
  BY <1>1, <1>2

(* The result of a site is noted and saved.                                *)
LEMMA RecordStep ==
  ASSUME Scan!BatchAssumption, ScanIInv, NEW ok \in BOOLEAN, Scan!RecordSite(ok)
  PROVE  ScanIInv'
<1> USE DEF ScanIInv
<1>1. /\ place = "recording" /\ view' = [view EXCEPT !.sites[site] = found]
      /\ disk' = view' \/ disk' = disk
      /\ \/ place' = "loop" /\ site' = site + 1 /\ terminal' = terminal
         \/ place' = "ending" /\ site' = site /\ terminal' = "history_failed"
      /\ UNCHANGED <<ticket, valid, approved, stopped, revision, bound, vault, made, live,
                     canceled, expected, found, stored, tickets, changes, crashes, started, void>>
  BY DEF Scan!RecordSite, Scan!SaveHistory, Scan!Goes, Scan!store, Scan!ledger
<1>2. site \in Scan!Sites /\ found \in Scan!Results
  BY <1>1 DEF GoroutineInv, Scan!TypeOK
<1>3. /\ view' \in Scan!View /\ view'.state = view.state
      /\ view'.sites = [view.sites EXCEPT ![site] = found]
  BY <1>1, <1>2, SiteFacts DEF Scan!TypeOK
<1>4. view.sites \in [Scan!Sites -> Scan!Results \cup {"unsupported", "queued", "running",
                                                       "not_attempted"}]
  BY ViewFacts DEF Scan!TypeOK
<1>5. \A i \in Scan!Sites : view'.sites[i] = "saved" => i \in stored
  BY <1>1, <1>2, <1>3, <1>4 DEF SavedInv
<1>6. Scan!TypeOK'
  <2>1. site' \in 1..(LastSite + 1)
    BY <1>1, <1>2 DEF Scan!Sites, Scan!BatchAssumption
  <2>2. terminal' \in Scan!Terminals /\ disk' \in Scan!View
    BY <1>1, <1>3 DEF Scan!TypeOK, Scan!Terminals
  <2> QED
    BY <1>1, <1>3, <2>1, <2>2 DEF Scan!TypeOK
<1>7. GoroutineInv' /\ TicketInv' /\ MaterialInv'
  BY <1>1, <1>3 DEF GoroutineInv, TicketInv, MaterialInv
<1>8. SavedInv'
  BY <1>1, <1>5 DEF SavedInv
<1> QED
  BY <1>6, <1>7, <1>8

(* The scan ends.                                                          *)
LEMMA EndStep ==
  ASSUME Scan!BatchAssumption, ScanIInv, NEW ok \in BOOLEAN, Scan!EndScan(ok)
  PROVE  ScanIInv'
<1> USE DEF ScanIInv
<1> DEFINE s == IF canceled THEN "canceled" ELSE terminal
<1>1. /\ place = "ending" /\ view' = [state |-> s, sites |-> Scan!Closing(view.sites)]
      /\ disk' = view' \/ disk' = disk
      /\ place' = "idle" /\ live' = live - 1 /\ canceled' = FALSE
      /\ UNCHANGED <<ticket, valid, approved, stopped, revision, bound, vault, made, expected,
                     site, found, terminal, stored, tickets, changes, crashes, started, void>>
  BY DEF Scan!EndScan, Scan!Ended, Scan!SaveHistory, Scan!store, Scan!ledger
<1>2. /\ s \in Scan!Terminals \cup {"none", "preview", "running", "canceled", "interrupted"}
      /\ s # "running"
  BY DEF Scan!TypeOK, Scan!Terminals
<1> HIDE DEF s
<1>3. /\ view' \in Scan!View /\ view'.state = s
      /\ \A i \in Scan!Sites : view'.sites[i] = "saved" => view.sites[i] = "saved"
  <2>1. /\ [state |-> s, sites |-> Scan!Closing(view.sites)] \in Scan!View
        /\ \A i \in Scan!Sites : Scan!Closing(view.sites)[i] = "saved" => view.sites[i] = "saved"
    BY <1>2, ViewFacts DEF Scan!TypeOK
  <2> QED
    BY <1>1, <2>1
<1>4. live = 1 /\ live' = 0 /\ ticket = 0
  BY <1>1 DEF GoroutineInv, TicketInv
<1>5. Scan!TypeOK'
  <2>1. canceled' \in BOOLEAN /\ disk' \in Scan!View
    BY <1>1, <1>3 DEF Scan!TypeOK
  <2> QED
    BY <1>1, <1>3, <1>4, <2>1 DEF Scan!TypeOK
<1>6. GoroutineInv' /\ TicketInv' /\ MaterialInv'
  BY <1>1, <1>2, <1>3, <1>4 DEF GoroutineInv, TicketInv, MaterialInv
<1>7. SavedInv'
  BY <1>1, <1>3 DEF SavedInv
<1> QED
  BY <1>5, <1>6, <1>7

(* The process dies, and is started again.                                 *)
LEMMA CrashSteps ==
  ASSUME Scan!BatchAssumption, ScanIInv, Scan!Crash \/ Scan!Restart
  PROVE  ScanIInv'
<1> USE DEF ScanIInv
<1>1. CASE Scan!Crash
  <2>1. /\ crashes' = crashes + 1 /\ place' = "down" /\ live' = 0 /\ canceled' = FALSE
        /\ view' = [state |-> "none", sites |-> Scan!Fresh] /\ ticket' = 0 /\ valid' = FALSE
        /\ void' = IF ticket = 0 THEN void ELSE void \cup {ticket}
        /\ UNCHANGED <<approved, stopped, disk, revision, bound, vault, made, expected, site,
                       found, terminal, stored, tickets, changes, started>>
    BY <1>1 DEF Scan!Crash, Scan!store
  <2>2. /\ view' \in Scan!View /\ view'.state = "none" /\ view'.sites = Scan!Fresh
        /\ \A i \in Scan!Sites : Scan!Fresh[i] # "saved"
    BY <2>1, ViewFacts DEF Scan!TypeOK
  <2>3. Scan!TypeOK'
    <3>1. canceled' \in BOOLEAN /\ valid' \in BOOLEAN
      BY <2>1
    <3>2. ticket' \in 0..tickets' /\ void' \subseteq 1..tickets' /\ crashes' \in Nat
      BY <2>1 DEF Scan!TypeOK
    <3> QED
      BY <2>1, <2>2, <3>1, <3>2 DEF Scan!TypeOK
  <2>4. TicketInv'
    BY <2>1 DEF TicketInv, Scan!TypeOK
  <2>5. GoroutineInv' /\ SavedInv' /\ MaterialInv'
    BY <2>1, <2>2 DEF GoroutineInv, SavedInv, MaterialInv
  <2> QED
    BY <2>3, <2>4, <2>5
<1>2. CASE Scan!Restart
  <2>1. /\ place = "down" /\ view' = Scan!Loaded(disk) /\ disk' = Scan!Loaded(disk)
        /\ place' = "idle" /\ stopped' = FALSE
        /\ UNCHANGED <<ticket, valid, approved, revision, bound, vault, made, live, canceled,
                       expected, site, found, terminal, stored, tickets, changes, crashes,
                       started, void>>
    BY <1>2 DEF Scan!Restart, Scan!store, Scan!ledger
  <2>2. /\ Scan!Loaded(disk) \in Scan!View /\ Scan!Loaded(disk).state # "running"
        /\ \A i \in Scan!Sites : Scan!Loaded(disk).sites[i] = "saved" => disk.sites[i] = "saved"
    BY LoadedFacts DEF Scan!TypeOK
  <2>3. Scan!TypeOK'
    BY <2>1, <2>2 DEF Scan!TypeOK
  <2>4. GoroutineInv' /\ SavedInv' /\ MaterialInv'
    BY <2>1, <2>2 DEF GoroutineInv, SavedInv, MaterialInv
  <2>5. TicketInv'
    BY <2>1 DEF TicketInv
  <2> QED
    BY <2>3, <2>4, <2>5
<1> QED
  BY <1>1, <1>2

(* Every step keeps the invariant.                                         *)
LEMMA ScanNext ==
  ASSUME Scan!BatchAssumption
  PROVE  ScanIInv /\ [Scan!Next]_(Scan!vars) => ScanIInv'
<1> SUFFICES ASSUME ScanIInv, [Scan!Next]_(Scan!vars) PROVE ScanIInv'
  OBVIOUS
<1>1. CASE \/ Scan!Preview \/ Scan!CancelScan \/ Scan!TicketExpires
           \/ Scan!ScanExpires \/ Scan!CloseQueue \/ Scan!OtherChange
  BY <1>1, RequestSteps
<1>2. ASSUME NEW t \in 1..MaxTickets, NEW ok \in BOOLEAN, Scan!Confirm(t, ok) PROVE ScanIInv'
  BY <1>2, ConfirmStep
<1>3. CASE Scan!ScanStep
  <2>1. ASSUME NEW ok \in BOOLEAN, Scan!RecordSite(ok) PROVE ScanIInv'
    BY <2>1, RecordStep
  <2>2. ASSUME NEW ok \in BOOLEAN, Scan!EndScan(ok) PROVE ScanIInv'
    BY <2>2, EndStep
  <2> QED
    BY <1>3, <2>1, <2>2, StoreSteps, WorkSteps DEF Scan!ScanStep
<1>4. CASE Scan!Panic
  BY <1>4, WorkSteps
<1>5. CASE Scan!Crash \/ Scan!Restart
  BY <1>5, CrashSteps
<1>6. CASE UNCHANGED Scan!vars
  BY <1>6, QuietStep DEF Scan!vars, Scan!queue, Scan!store, Scan!worker, Scan!ledger,
         ScanIInv, Scan!TypeOK
<1> QED
  BY <1>1, <1>2, <1>3, <1>4, <1>5, <1>6 DEF Scan!Next
-----------------------------------------------------------------------------
(* Theorems                                                                *)

(* A scan is said to run exactly while one goroutine runs it, started by   *)
(* one confirmation that was not canceled, replaced or too late; what the  *)
(* history says was saved is stored, and stored accounts refer to material *)
(* in the vault, whatever fails and whenever the process dies (confirm,    *)
(* runLoginBatch, saveScannedSession, load).                               *)
THEOREM ScansStayTrue ==
  ASSUME Scan!BatchAssumption
  PROVE  Scan!Spec => []ScansAreTrue
<1>1. Scan!Init => ScanIInv
  BY ScanInit
<1>2. ScanIInv /\ [Scan!Next]_(Scan!vars) => ScanIInv'
  BY ScanNext
<1>3. ScanIInv => ScansAreTrue
  BY DEF ScanIInv, Scan!TypeOK, ScansAreTrue, Scan!ScansAreTrue,
         GoroutineInv, TicketInv, SavedInv, MaterialInv,
         Scan!RunningIsReal, Scan!TicketUsedOnce, Scan!HistoryIsTrue, Scan!MaterialKept
<1> QED
  BY <1>1, <1>2, <1>3, PTL DEF Scan!Spec
=============================================================================
