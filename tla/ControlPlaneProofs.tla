------------------------- MODULE ControlPlaneProofs -------------------------
(***************************************************************************)
(* Proofs about ControlPlane, for every number of users, credentials,      *)
(* revisions, generations and crashes.                                     *)
(***************************************************************************)
EXTENDS ControlPlane, FiniteSetTheorems, SequenceTheorems, TLAPS

-----------------------------------------------------------------------------
(* The inductive invariant                                                 *)

\* The places under the lock, and those where a generation is prepared.
Busy == {"locked", "prepared", "written", "published", "refused"}
Ready == {"prepared", "written"}

Pinned(g) == {u \in Users : pin[u] = g}

\* The lock is held by the one actor that is inside an update.
LockInv == \A a \in Actors : (pc[a] \in Busy) <=> (lock = a)

\* A process that is down has nothing under way.
DownInv == ~up => lock = None /\ current = 1 /\ \A a \in Actors : pc[a] = "idle"

\* A prepared generation is new and unused, and is what its update wants.
SpareInv ==
    \A a \in Actors :
        IF pc[a] \in Ready
        THEN /\ spare[a] \in 1..built /\ spare[a] # current /\ spare[a] \notin retired
             /\ closes[spare[a]] = 0 /\ refs[spare[a]] = 0
             /\ config[spare[a]] = goal[a] /\ goal[a] \subseteq live
        ELSE spare[a] = 0

\* Only an actor at work has a generation; an operation whose revision is
\* still the current one has the current generation.
PinInv ==
    /\ \A u \in Users : pin[u] <= built
    /\ \A a \in Actors : pc[a] \in {"idle", "read"} => pin[a] = 0
    /\ \A o \in Operations :
         pc[o] \notin {"idle", "read"} /\ base[o] = CurrentRevision => pin[o] = current

\* The revision an update is based on is the current one from the moment the
\* lock (for an editor, the check of preview) says so.
BaseInv ==
    \A a \in Actors :
        /\ base[a] <= CurrentRevision
        /\ pc[a] = "idle" => base[a] = 1
        /\ (pc[a] \in Ready \/ (pc[a] = "locked" /\ a \notin Editors))
             => base[a] = CurrentRevision
        /\ pc[a] \in Ready => CurrentRevision < MaxRevision

\* Only an operation that was under way updates a closed plane.
ClosedInv == \A a \in Actors : closed /\ pc[a] \in Busy => a \in Operations

\* Every generation that was built is current, retired, prepared, or was
\* discarded.
BuiltInv ==
    /\ current <= built
    /\ \A g \in Gens : g > built => g \notin retired /\ closes[g] = 0
    /\ \A g \in 1..built :
         \/ g = current \/ g \in retired
         \/ \E a \in Actors : spare[a] = g
         \/ closes[g] = 1 /\ refs[g] = 0

\* A credential an update has stored is not yet referred to.
MadeInv ==
    \A a \in Actors :
        pc[a] \in {"locked", "prepared", "refused"} => made[a] \cap CurrentConfig = {}

\* The versions a restart would find, in increasing order, and how the
\* history in memory relates to them.
HistoryInv ==
    /\ \A i, j \in DOMAIN Recovered :
         i < j => Recovered[i].revision < Recovered[j].revision
    /\ up => config[current] = CurrentConfig
    /\ up /\ (\A a \in Actors : pc[a] # "written") => versions = Recovered
    /\ \A a \in Actors : pc[a] = "written" =>
         journal # <<>> /\ Last(journal) = NextVersion(a)
    /\ \A a \in Actors : pc[a] = "published" => CurrentConfig = goal[a]

IInv ==
    /\ TypeOK /\ LockInv /\ DownInv /\ SpareInv /\ PinInv /\ BaseInv /\ ClosedInv
    /\ BuiltInv /\ ClosedOnce /\ MadeInv /\ HistoryInv
    /\ AckedSurvives /\ NoDanglingReference

-----------------------------------------------------------------------------
(* Facts                                                                   *)

(* The constants, as the proofs use them.                                  *)
LEMMA ConstantFacts ==
  /\ MaxGen \in Nat \ {0} /\ Gens = 1..MaxGen /\ 1 \in Gens
  /\ MaxRevision \in Nat \ {0} /\ Keep \in Nat \ {0}
  /\ Sites \in Nat /\ MaxStamp \in Nat /\ MaxCrashes \in Nat
  /\ Actors \subseteq Users /\ Traffic \subseteq Users
  /\ Editors \subseteq Actors /\ Operations \subseteq Actors /\ Batches \subseteq Actors
  /\ None \notin Actors
BY ConstantsAssumption DEF Gens, Users, Actors

(* The history in memory and the one a restart finds are never empty.      *)
LEMMA HistoryFacts ==
  ASSUME TypeOK
  PROVE  /\ Len(versions) \in Nat \ {0} /\ DOMAIN versions = 1..Len(versions)
         /\ Last(versions) \in Version
         /\ CurrentRevision \in 1..MaxRevision /\ CurrentConfig \in Configs
         /\ Recovered \in Seq(Version)
         /\ Len(Recovered) \in Nat \ {0} /\ DOMAIN Recovered = 1..Len(Recovered)
         /\ Last(Recovered) \in Version
         /\ \A i \in 1..Len(Recovered) : Recovered[i] \in Version
<1>1. ASSUME NEW s \in Seq(Version), s # <<>>
      PROVE  /\ Len(s) \in Nat \ {0} /\ DOMAIN s = 1..Len(s)
             /\ Last(s) \in Version
             /\ \A i \in 1..Len(s) : s[i] \in Version
  <2>1. Len(s) \in Nat /\ DOMAIN s = 1..Len(s) /\ Len(s) # 0
    BY <1>1, LenProperties, EmptySeq
  <2>2. \A i \in 1..Len(s) : s[i] \in Version
    BY <1>1, ElementOfSeq
  <2> QED
    BY <2>1, <2>2 DEF Last
<1>2. Initial \in Seq(Version) /\ Initial # <<>>
  <2>1. [revision |-> 1, config |-> {}] \in Version
    BY ConstantFacts DEF Version, Configs
  <2> QED
    BY <2>1 DEF Initial
<1>3. Recovered \in Seq(Version) /\ Recovered # <<>>
  BY <1>2 DEF Recovered, TypeOK
<1>4. versions \in Seq(Version) /\ versions # <<>>
  BY DEF TypeOK
<1>5. /\ Len(versions) \in Nat \ {0} /\ DOMAIN versions = 1..Len(versions)
      /\ Last(versions) \in Version
  BY <1>1, <1>4
<1>6. /\ Len(Recovered) \in Nat \ {0} /\ DOMAIN Recovered = 1..Len(Recovered)
      /\ Last(Recovered) \in Version
      /\ \A i \in 1..Len(Recovered) : Recovered[i] \in Version
  BY <1>1, <1>3
<1>7. CurrentRevision \in 1..MaxRevision /\ CurrentConfig \in Configs
  BY <1>5 DEF CurrentRevision, CurrentConfig, Version
<1> QED
  BY <1>3, <1>5, <1>6, <1>7

(* A step that does not publish leaves the current version alone.          *)
LEMMA SameVersion ==
  ASSUME versions' = versions
  PROVE  CurrentRevision' = CurrentRevision /\ CurrentConfig' = CurrentConfig
BY DEF CurrentRevision, CurrentConfig

(* A step that does not write leaves what a restart finds alone.           *)
LEMMA SameJournal ==
  ASSUME journal' = journal
  PROVE  Recovered' = Recovered
BY DEF Recovered

\* What ClosedOnce says of a generation beside the count of its users.
CloseRule(g) ==
    /\ refs[g] > 0 => closes[g] = 0
    /\ g \in retired => closes[g] = (IF refs[g] = 0 THEN 1 ELSE 0)
    /\ g = current /\ ~closed => closes[g] = 0 /\ g \notin retired

(* The two halves of ClosedOnce.                                           *)
LEMMA ClosedOnceParts ==
  /\ ClosedOnce <=> \A g \in Gens : refs[g] = Cardinality(Pinned(g)) /\ CloseRule(g)
  /\ ClosedOnce' <=> \A g \in Gens : refs'[g] = Cardinality(Pinned(g)') /\ CloseRule(g)'
BY DEF ClosedOnce, CloseRule, Pinned

(* A user without a generation acquires the current one.                   *)
LEMMA AcquireFacts ==
  ASSUME IInv, NEW u \in Users, pin[u] = 0, Acquire(u),
         current' = current, closed' = closed, retired' = retired, closes' = closes
  PROVE  /\ pin' \in [Users -> 0..MaxGen] /\ refs' \in [Gens -> Nat]
         /\ pin'[u] = current /\ \A v \in Users \ {u} : pin'[v] = pin[v]
         /\ \A g \in Gens \ {current} : refs'[g] = refs[g]
         /\ refs'[current] = refs[current] + 1
         /\ \A v \in Users : pin'[v] <= built
         /\ ClosedOnce'
<1> USE DEF IInv
<1>1. /\ ~closed /\ current \in Gens
      /\ pin' = [pin EXCEPT ![u] = current]
      /\ refs' = [refs EXCEPT ![current] = @ + 1]
  BY DEF Acquire, TypeOK
<1>2. /\ pin' \in [Users -> 0..MaxGen] /\ refs' \in [Gens -> Nat]
      /\ pin'[u] = current /\ \A v \in Users \ {u} : pin'[v] = pin[v]
      /\ \A g \in Gens \ {current} : refs'[g] = refs[g]
      /\ refs'[current] = refs[current] + 1
  BY <1>1, ConstantFacts, SMTT(30) DEF TypeOK
<1>3. \A v \in Users : pin'[v] <= built
  BY <1>2 DEF PinInv, BuiltInv
<1>4. ASSUME NEW g \in Gens PROVE refs'[g] = Cardinality(Pinned(g)')
  <2>1. refs[g] = Cardinality(Pinned(g)) /\ IsFiniteSet(Pinned(g)) /\ refs[g] \in Nat
    BY FS_Subset, ConstantsAssumption, ClosedOnceParts DEF Pinned, TypeOK
  <2>2. CASE g = current
    <3>1. Pinned(g)' = Pinned(g) \cup {u} /\ u \notin Pinned(g)
      BY <1>2, <2>2, ConstantFacts DEF Pinned
    <3>2. Cardinality(Pinned(g)') = Cardinality(Pinned(g)) + 1
      BY <2>1, <3>1, FS_AddElement
    <3>3. refs'[g] = refs[g] + 1
      BY <1>2, <2>2
    <3> QED
      BY <2>1, <3>2, <3>3
  <2>3. CASE g # current
    <3>1. Pinned(g)' = Pinned(g)
      BY <1>2, <2>3, ConstantFacts DEF Pinned
    <3> QED
      BY <1>2, <2>1, <2>3, <3>1
  <2> QED
    BY <2>2, <2>3
<1>5. ClosedOnce'
  <2>1. \A g \in Gens : CloseRule(g)'
    BY <1>1, <1>2, ClosedOnceParts DEF CloseRule, TypeOK
  <2> QED
    BY <1>4, <2>1, ClosedOnceParts
<1> QED
  BY <1>2, <1>3, <1>5

(* A user gives up the generation it has, if it has one.  The server of a  *)
(* retired generation is closed by its last user.                          *)
LEMMA ReleaseFacts ==
  ASSUME IInv, NEW u \in Users, Release(u),
         current' = current, closed' = closed, retired' = retired, built' = built
  PROVE  /\ pin' \in [Users -> 0..MaxGen] /\ refs' \in [Gens -> Nat]
         /\ closes' \in [Gens -> Nat]
         /\ pin'[u] = 0 /\ \A v \in Users \ {u} : pin'[v] = pin[v]
         /\ \A v \in Users : pin'[v] <= built
         /\ \A g \in Gens : g # pin[u] => refs'[g] = refs[g] /\ closes'[g] = closes[g]
         /\ ClosedOnce'
         /\ \A g \in Gens : g \in retired \/ closes'[g] = closes[g]
         /\ \A g \in Gens : refs[g] = 0 => refs'[g] = 0
<1> USE DEF IInv
<1>1. CASE pin[u] = 0
  <2>1. UNCHANGED <<pin, refs, closes>>
    BY <1>1 DEF Release
  <2>2. ClosedOnce'
    BY <2>1 DEF ClosedOnce
  <2> QED
    BY <1>1, <2>1, <2>2 DEF TypeOK, PinInv
<1>2. CASE pin[u] # 0
  <2> DEFINE p == pin[u]
  <2>1. /\ p \in Gens
        /\ pin' = [pin EXCEPT ![u] = 0]
        /\ refs' = [refs EXCEPT ![p] = @ - 1]
        /\ closes' = [g \in Gens |-> IF g \in ClosedBy(p) THEN closes[g] + 1 ELSE closes[g]]
    BY <1>2, ConstantFacts DEF Release, Closing, TypeOK
  <2>2. \A g \in Gens : /\ refs[g] = Cardinality(Pinned(g)) /\ IsFiniteSet(Pinned(g))
                        /\ refs[g] \in Nat /\ CloseRule(g) /\ closes[g] \in Nat
    BY FS_Subset, ConstantsAssumption, ClosedOnceParts DEF Pinned, TypeOK
  <2>3. refs[p] \in Nat \ {0} /\ closes[p] = 0
    <3>1. u \in Pinned(p)
      BY DEF Pinned
    <3>2. Cardinality(Pinned(p)) # 0
      BY <2>1, <2>2, <3>1, FS_EmptySet
    <3>3. refs[p] \in Nat /\ refs[p] # 0
      BY <2>1, <2>2, <3>2
    <3> HIDE DEF p
    <3> QED
      BY <2>1, <2>2, <3>3 DEF CloseRule
  <2>4. /\ pin' \in [Users -> 0..MaxGen] /\ refs' \in [Gens -> Nat]
        /\ closes' \in [Gens -> Nat]
        /\ pin'[u] = 0 /\ \A v \in Users \ {u} : pin'[v] = pin[v]
        /\ refs'[p] = refs[p] - 1
        /\ \A g \in Gens : g # p => refs'[g] = refs[g]
    <3> HIDE DEF p
    <3>1. pin' \in [Users -> 0..MaxGen]
      BY <2>1, ConstantFacts DEF TypeOK
    <3>2. refs' \in [Gens -> Nat]
      BY <2>1, <2>3 DEF TypeOK
    <3>3. closes' \in [Gens -> Nat]
      BY <2>1, <2>2
    <3> QED
      BY <2>1, <3>1, <3>2, <3>3 DEF TypeOK
  <2>5. \A g \in Gens : g # p => closes'[g] = closes[g]
    BY <2>1 DEF ClosedBy
  <2>6. closes'[p] = IF p \in retired /\ refs[p] = 1 THEN 1 ELSE 0
    BY <2>1, <2>3 DEF ClosedBy
  <2>7. \A v \in Users : pin'[v] <= built
    <3>1. built \in Nat /\ \A v \in Users : pin[v] <= built
      BY ConstantFacts DEF PinInv, TypeOK
    <3> QED
      BY <2>4, <3>1
  <2>8. ASSUME NEW g \in Gens PROVE refs'[g] = Cardinality(Pinned(g)')
    <3>1. CASE g = p
      <4>1. Pinned(g)' = Pinned(g) \ {u} /\ u \in Pinned(g)
        BY <2>1, <2>4, <3>1, ConstantFacts DEF Pinned
      <4> QED
        BY <2>2, <2>4, <3>1, <4>1, FS_RemoveElement, ZenonT(30)
    <3>2. CASE g # p
      <4>1. Pinned(g)' = Pinned(g)
        BY <2>4, <3>2, ConstantFacts DEF Pinned
      <4> QED
        BY <2>2, <2>4, <3>2, <4>1
    <3> QED
      BY <3>1, <3>2
  <2> HIDE DEF p
  <2>9. ASSUME NEW g \in Gens
        PROVE  /\ refs'[g] > 0 => closes'[g] = 0
               /\ g \in retired => closes'[g] = (IF refs'[g] = 0 THEN 1 ELSE 0)
               /\ g = current /\ ~closed => closes'[g] = 0 /\ g \notin retired
               /\ g \in retired \/ closes'[g] = closes[g]
               /\ refs[g] = 0 => refs'[g] = 0
    <3>1. CASE g = p
      BY <2>2, <2>3, <2>4, <2>6, <3>1 DEF CloseRule
    <3>2. CASE g # p
      BY <2>2, <2>4, <2>5, <3>2 DEF CloseRule
    <3> QED
      BY <3>1, <3>2
  <2>10. ClosedOnce'
    BY <2>8, <2>9, ClosedOnceParts DEF CloseRule
  <2> QED
    BY <2>4, <2>5, <2>7, <2>9, <2>10 DEF p
<1> QED
  BY <1>1, <1>2

-----------------------------------------------------------------------------
(* Initial states                                                          *)

(* A fresh gateway satisfies the invariant.                                *)
LEMMA InitInv == Init => IInv
<1> SUFFICES ASSUME Init PROVE IInv
  OBVIOUS
<1> USE DEF Init
<1>1. TypeOK
  <2>1. Initial \in Seq(Version) \ {<<>>}
    <3>1. [revision |-> 1, config |-> {}] \in Version
      BY ConstantFacts DEF Version, Configs
    <3> QED
      BY <3>1 DEF Initial
  <2>2. <<{}, 0>> \in Digest
    BY ConstantFacts DEF Digest, Configs
  <2>3. /\ config \in [Gens -> Configs] /\ refs \in [Gens -> Nat] /\ closes \in [Gens -> Nat]
        /\ pin \in [Users -> 0..MaxGen] /\ spare \in [Actors -> 0..MaxGen]
        /\ left \in [Actors -> Nat] /\ base \in [Actors -> 1..MaxRevision]
    BY ConstantFacts DEF Configs
  <2>4. /\ pc \in [Actors -> {"idle", "read", "working", "locked", "prepared", "written",
                              "published", "refused"}]
        /\ seen \in [Actors -> Digest]
        /\ goal \in [Actors -> Configs] /\ made \in [Actors -> SUBSET Secrets]
    BY <2>2 DEF Configs
  <2>5. /\ stamp \in 0..MaxStamp /\ crashes \in 0..MaxCrashes
        /\ current \in Gens /\ built \in Gens /\ retired \subseteq Gens
        /\ journal \in Seq(Version)
        /\ lock \in Actors \cup {None}
    BY ConstantFacts
  <2> QED
    BY <2>1, <2>3, <2>4, <2>5, Zenon DEF TypeOK
<1>2. Initial[1] = [revision |-> 1, config |-> {}] /\ Len(Initial) = 1 /\ DOMAIN Initial = {1}
  BY DEF Initial
<1>3. Recovered = Initial /\ CurrentRevision = 1 /\ CurrentConfig = {}
  BY <1>2 DEF Recovered, CurrentRevision, CurrentConfig, Last
<1>4. LockInv /\ DownInv /\ SpareInv /\ ClosedInv /\ MadeInv /\ PinInv /\ BaseInv
  BY <1>3, ConstantFacts DEF LockInv, DownInv, SpareInv, ClosedInv, MadeInv, PinInv, BaseInv,
       Busy, Ready
<1>5. BuiltInv
  BY ConstantFacts DEF BuiltInv
<1>6. ClosedOnce
  <2>1. \A g \in Gens : {u \in Users : pin[u] = g} = {}
    BY ConstantFacts
  <2> QED
    BY <2>1, FS_EmptySet DEF ClosedOnce
<1>7. HistoryInv
  BY <1>2, <1>3, ConstantFacts DEF HistoryInv
<1>8. AckedSurvives
  BY DEF AckedSurvives
<1>9. NoDanglingReference
  <2>1. Last(Recovered) = [revision |-> 1, config |-> {}]
    BY <1>2, <1>3 DEF Last
  <2> QED
    BY <2>1, ConstantFacts DEF NoDanglingReference
<1> QED
  BY <1>1, <1>4, <1>5, <1>6, <1>7, <1>8, <1>9 DEF IInv

(* Giving up a generation leaves prepared generations alone, and every     *)
(* built generation accounted for.                                         *)
LEMMA ReleaseKeepsBuilt ==
  ASSUME IInv, UNCHANGED <<current, built, config, retired, pc, goal, spare, live>>,
         \A g \in Gens : g \in retired \/ closes'[g] = closes[g],
         \A g \in Gens : refs[g] = 0 => refs'[g] = 0
  PROVE  SpareInv' /\ BuiltInv'
<1> USE DEF IInv
<1>1. built \in Gens /\ 1..built \subseteq Gens
  BY ConstantFacts DEF TypeOK
<1>2. SpareInv'
  <2>1. SUFFICES ASSUME NEW a \in Actors, pc[a] \in Ready
                 PROVE  closes'[spare[a]] = 0 /\ refs'[spare[a]] = 0
    BY DEF SpareInv
  <2>2. /\ spare[a] \in Gens /\ spare[a] \notin retired
        /\ closes[spare[a]] = 0 /\ refs[spare[a]] = 0
    BY <1>1, <2>1 DEF SpareInv
  <2> QED
    BY <2>2
<1>3. BuiltInv'
  BY <1>1 DEF BuiltInv
<1> QED
  BY <1>2, <1>3

-----------------------------------------------------------------------------
(* Traffic and the vault                                                   *)

(* A request arrives: it takes the current generation, which is open.      *)
LEMMA ArriveStep ==
  ASSUME IInv, NEW c \in Traffic, Arrive(c)
  PROVE  IInv'
<1> USE DEF IInv
<1>1. /\ pin[c] = 0 /\ Acquire(c) /\ ~closed
      /\ UNCHANGED <<journal, vault, up, versions, lock, closed, plane, actor, history>>
  BY DEF Arrive, Acquire
<1>2. UNCHANGED <<journal, live, spent, stamp, up, versions, lock, closed, current, built,
        config, retired, closes, pc, base, seen, goal, made, spare, left, crashes, acked>>
  BY <1>1 DEF vault, plane, actor, history
<1>3. c \in Users /\ c \notin Actors
  BY ConstantsAssumption, ConstantFacts
<1>4. /\ pin' \in [Users -> 0..MaxGen] /\ refs' \in [Gens -> Nat]
      /\ \A v \in Users \ {c} : pin'[v] = pin[v]
      /\ \A g \in Gens \ {current} : refs'[g] = refs[g]
      /\ \A v \in Users : pin'[v] <= built
      /\ ClosedOnce'
  BY <1>1, <1>2, <1>3, AcquireFacts
<1>5. CurrentRevision' = CurrentRevision /\ CurrentConfig' = CurrentConfig
      /\ Recovered' = Recovered
  BY <1>2, SameVersion, SameJournal
<1>6. \A a \in Actors : pin'[a] = pin[a]
  BY <1>3, <1>4, ConstantFacts
<1>7. TypeOK'
  BY <1>2, <1>4 DEF TypeOK
<1>8. LockInv' /\ DownInv' /\ ClosedInv' /\ MadeInv' /\ BaseInv'
  BY <1>2, <1>5 DEF LockInv, DownInv, ClosedInv, MadeInv, BaseInv
<1>9. PinInv'
  BY <1>2, <1>4, <1>5, <1>6, ConstantFacts DEF PinInv
<1>10. SpareInv'
  <2>1. \A a \in Actors : pc[a] \in Ready => spare[a] \in Gens \ {current}
    BY ConstantFacts DEF SpareInv, TypeOK
  <2> QED
    BY <1>2, <1>4, <2>1 DEF SpareInv
<1>11. BuiltInv'
  <2>1. \A g \in Gens : g = current \/ refs'[g] = refs[g]
    BY <1>4
  <2>2. built \in Gens /\ 1..built \subseteq Gens
    BY ConstantFacts DEF TypeOK
  <2> QED
    BY <1>2, <2>1, <2>2 DEF BuiltInv
<1>12. HistoryInv' /\ AckedSurvives' /\ NoDanglingReference'
  BY <1>2, <1>5 DEF HistoryInv, AckedSurvives, NoDanglingReference, NextVersion
<1> QED
  BY <1>4, <1>7, <1>8, <1>9, <1>10, <1>11, <1>12

(* A request leaves, and may close a retired generation behind itself.     *)
LEMMA LeaveStep ==
  ASSUME IInv, NEW c \in Traffic, Leave(c)
  PROVE  IInv'
<1> USE DEF IInv
<1>1. /\ Release(c)
      /\ UNCHANGED <<journal, vault, up, versions, lock, closed, current, built, config,
                     retired, actor, history>>
  BY DEF Leave
<1>2. UNCHANGED <<journal, live, spent, stamp, up, versions, lock, closed, current, built,
        config, retired, pc, base, seen, goal, made, spare, left, crashes, acked>>
  BY <1>1 DEF vault, actor, history
<1>3. c \in Users /\ c \notin Actors
  BY ConstantsAssumption, ConstantFacts
<1>4. /\ pin' \in [Users -> 0..MaxGen] /\ refs' \in [Gens -> Nat]
      /\ closes' \in [Gens -> Nat]
      /\ \A v \in Users \ {c} : pin'[v] = pin[v]
      /\ \A v \in Users : pin'[v] <= built
      /\ ClosedOnce'
      /\ \A g \in Gens : g \in retired \/ closes'[g] = closes[g]
      /\ \A g \in Gens : refs[g] = 0 => refs'[g] = 0
  BY <1>1, <1>2, <1>3, ReleaseFacts
<1>5. CurrentRevision' = CurrentRevision /\ CurrentConfig' = CurrentConfig
      /\ Recovered' = Recovered
  BY <1>2, SameVersion, SameJournal
<1>6. \A a \in Actors : pin'[a] = pin[a]
  BY <1>3, <1>4, ConstantFacts
<1>7. TypeOK'
  BY <1>2, <1>4 DEF TypeOK
<1>8. LockInv' /\ DownInv' /\ ClosedInv' /\ MadeInv' /\ BaseInv'
  BY <1>2, <1>5 DEF LockInv, DownInv, ClosedInv, MadeInv, BaseInv
<1>9. PinInv'
  BY <1>2, <1>4, <1>5, <1>6, ConstantFacts DEF PinInv
<1>10. SpareInv' /\ BuiltInv'
  BY <1>2, <1>4, ReleaseKeepsBuilt
<1>11. HistoryInv' /\ AckedSurvives' /\ NoDanglingReference'
  BY <1>2, <1>5 DEF HistoryInv, AckedSurvives, NoDanglingReference, NextVersion
<1> QED
  BY <1>4, <1>7, <1>8, <1>9, <1>10, <1>11

(* The vault changes without an update under way: what is deleted is not   *)
(* what the current configuration, and so the newest one on disk, names.   *)
LEMMA VaultSteps ==
  ASSUME IInv, VaultStep
  PROVE  IInv'
<1> USE DEF IInv
<1>1. /\ UNCHANGED <<journal, up, versions, lock, closed, plane, refs, pin, actor, history>>
      /\ up
      /\ live' \subseteq Secrets /\ spent' \subseteq Secrets /\ stamp' \in 0..MaxStamp
      /\ \/ live \subseteq live'
         \/ lock = None /\ \E k \in Secrets \ config[current] : live' = live \ {k}
  <2>1. CASE RefreshToken
    BY <2>1, ConstantFacts DEF RefreshToken, TypeOK
  <2>2. ASSUME NEW k \in Secrets, PutCredential(k)
        PROVE  /\ UNCHANGED <<journal, up, versions, lock, closed, plane, refs, pin, actor,
                              history>>
               /\ up
               /\ live' \subseteq Secrets /\ spent' = spent /\ stamp' = stamp
               /\ live \subseteq live'
    BY <2>2 DEF PutCredential, TypeOK
  <2>3. ASSUME NEW k \in Secrets, DeleteCredential(k)
        PROVE  /\ UNCHANGED <<journal, up, versions, lock, closed, plane, refs, pin, actor,
                              history>>
               /\ up
               /\ live' \subseteq Secrets /\ spent' \subseteq Secrets /\ stamp' = stamp
               /\ lock = None /\ k \notin config[current] /\ live' = live \ {k}
    BY <2>3 DEF DeleteCredential, TypeOK
  <2>4. spent \subseteq Secrets /\ stamp \in 0..MaxStamp
    BY DEF TypeOK
  <2> QED
    BY <2>1, <2>2, <2>3, <2>4 DEF VaultStep
<1>2. UNCHANGED <<journal, up, versions, lock, closed, current, built, config, retired, closes,
        refs, pin, pc, base, seen, goal, made, spare, left, crashes, acked>>
  BY <1>1 DEF plane, actor, history
<1>3. CurrentRevision' = CurrentRevision /\ CurrentConfig' = CurrentConfig
      /\ Recovered' = Recovered
  BY <1>2, SameVersion, SameJournal
<1>4. TypeOK'
  BY <1>1, <1>2 DEF TypeOK
<1>5. LockInv' /\ DownInv' /\ ClosedInv' /\ MadeInv' /\ BaseInv' /\ PinInv' /\ BuiltInv'
      /\ ClosedOnce'
  BY <1>2, <1>3 DEF LockInv, DownInv, ClosedInv, MadeInv, BaseInv, PinInv, BuiltInv, ClosedOnce
<1>6. HistoryInv' /\ AckedSurvives'
  BY <1>2, <1>3 DEF HistoryInv, AckedSurvives, NextVersion
<1>7. CASE live \subseteq live'
  <2>1. SpareInv'
    BY <1>2, <1>7 DEF SpareInv
  <2>2. NoDanglingReference'
    BY <1>2, <1>3, <1>7 DEF NoDanglingReference
  <2> QED
    BY <1>4, <1>5, <1>6, <2>1, <2>2
<1>8. ASSUME lock = None, NEW k \in Secrets \ config[current], live' = live \ {k}
      PROVE  IInv'
  <2>1. \A a \in Actors : pc[a] \notin Busy
    BY <1>8, ConstantFacts DEF LockInv
  <2>2. SpareInv'
    BY <1>2, <2>1 DEF SpareInv, Busy, Ready
  <2>3. versions = Recovered /\ config[current] = CurrentConfig
    BY <1>1, <2>1 DEF HistoryInv, Busy
  <2>4. NoDanglingReference'
    BY <1>2, <1>3, <1>8, <2>3 DEF NoDanglingReference, CurrentConfig
  <2> QED
    BY <1>4, <1>5, <1>6, <2>2, <2>4
<1> QED
  BY <1>1, <1>7, <1>8

-----------------------------------------------------------------------------
(* Updates, operations and batches up to the lock                          *)

(* GET /admin/config only notes a revision.                                *)
LEMMA ReadStep ==
  ASSUME IInv, NEW e \in Editors, Read(e)
  PROVE  IInv'
<1> USE DEF IInv
<1>1. /\ up /\ pc[e] \in {"idle", "read"}
      /\ pc' = [pc EXCEPT ![e] = "read"]
      /\ base' = [base EXCEPT ![e] = CurrentRevision]
      /\ UNCHANGED <<journal, vault, up, versions, lock, closed, plane, refs, pin, seen, goal,
                     made, spare, left, history>>
  BY DEF Read
<1>2. UNCHANGED <<journal, live, spent, stamp, up, versions, lock, closed, current, built,
        config, retired, closes, refs, pin, seen, goal, made, spare, left, crashes, acked>>
  BY <1>1 DEF vault, plane, history
<1>3. /\ CurrentRevision' = CurrentRevision /\ CurrentConfig' = CurrentConfig
      /\ Recovered' = Recovered
      /\ CurrentRevision \in 1..MaxRevision
      /\ e \in Actors /\ e \notin Operations /\ Operations \subseteq Actors
  BY <1>2, SameVersion, SameJournal, HistoryFacts, ConstantFacts, ConstantsAssumption
<1>4. TypeOK'
  BY <1>1, <1>2, <1>3 DEF TypeOK
<1>5. /\ pc'[e] = "read" /\ base'[e] = CurrentRevision
      /\ \A a \in Actors \ {e} : pc'[a] = pc[a] /\ base'[a] = base[a]
  BY <1>1, <1>3 DEF TypeOK
<1>6. LockInv' /\ DownInv' /\ ClosedInv' /\ MadeInv' /\ PinInv' /\ SpareInv'
  BY <1>1, <1>2, <1>3, <1>5 DEF LockInv, DownInv, ClosedInv, MadeInv, PinInv, SpareInv, Busy,
       Ready
<1>7. BaseInv'
  BY <1>2, <1>3, <1>5 DEF BaseInv, Ready
<1>8. BuiltInv' /\ ClosedOnce'
  BY <1>2 DEF BuiltInv, ClosedOnce
<1>9. HistoryInv' /\ AckedSurvives' /\ NoDanglingReference'
  BY <1>1, <1>2, <1>3, <1>5 DEF HistoryInv, AckedSurvives, NoDanglingReference, NextVersion
<1> QED
  BY <1>4, <1>6, <1>7, <1>8, <1>9

(* The lock is taken and the credential, if there is one, is stored: what  *)
(* does not depend on the generation and the revision the update has.      *)
LEMMA BeginKeeps ==
  ASSUME IInv, up, NEW a \in Actors, NEW cf \in Configs, NEW new \in SUBSET Secrets,
         Begin(a, cf, new), new \cap live = {}, closed => a \in Operations,
         \A g \in Gens \ {current} : refs'[g] = refs[g]
  PROVE  /\ LockInv' /\ DownInv' /\ SpareInv' /\ ClosedInv' /\ BuiltInv' /\ MadeInv'
         /\ HistoryInv' /\ AckedSurvives' /\ NoDanglingReference'
<1> USE DEF IInv
<1>1. /\ lock = None /\ lock' = a
      /\ pc' = [pc EXCEPT ![a] = "locked"]
      /\ goal' = [goal EXCEPT ![a] = cf]
      /\ made' = [made EXCEPT ![a] = new]
      /\ live' = live \cup new
      /\ UNCHANGED <<journal, up, versions, closed, current, built, config, retired, closes,
                     spare, acked>>
  BY DEF Begin, plane, history
<1>2. /\ CurrentRevision' = CurrentRevision /\ CurrentConfig' = CurrentConfig
      /\ Recovered' = Recovered
      /\ built \in Gens /\ 1..built \subseteq Gens
  BY <1>1, SameVersion, SameJournal, ConstantFacts DEF TypeOK
<1>3. /\ \A b \in Actors : pc[b] \notin Busy
      /\ pc'[a] = "locked" /\ made'[a] = new
      /\ \A b \in Actors \ {a} : pc'[b] = pc[b]
  BY <1>1, ConstantFacts DEF LockInv, TypeOK
<1>4. LockInv' /\ DownInv' /\ ClosedInv'
  BY <1>1, <1>3 DEF LockInv, DownInv, ClosedInv, Busy
<1>5. SpareInv'
  BY <1>1, <1>3 DEF SpareInv, Busy, Ready
<1>6. BuiltInv'
  BY <1>1, <1>2 DEF BuiltInv
<1>7. versions = Recovered /\ config[current] = CurrentConfig /\ CurrentConfig \subseteq live
  BY <1>3 DEF HistoryInv, NoDanglingReference, Busy
<1>8. MadeInv'
  BY <1>2, <1>3, <1>7 DEF MadeInv, Busy
<1>9. HistoryInv'
  BY <1>1, <1>2, <1>3 DEF HistoryInv, Busy
<1>10. AckedSurvives' /\ NoDanglingReference'
  BY <1>1, <1>2 DEF AckedSurvives, NoDanglingReference
<1> QED
  BY <1>4, <1>5, <1>6, <1>8, <1>9, <1>10

(* An editor's update takes the lock (Edit and SetMaterial).               *)
LEMMA EditorBegins ==
  ASSUME IInv, up, NEW e \in Editors, NEW cf \in Configs, NEW new \in SUBSET Secrets,
         pc[e] \in {"idle", "read"}, Acquire(e), Begin(e, cf, new), new \cap live = {},
         base' = base \/ base' = [base EXCEPT ![e] = CurrentRevision],
         left' = left
  PROVE  IInv'
<1> USE DEF IInv
<1>1. /\ ~closed
      /\ lock = None /\ lock' = e
      /\ pc' = [pc EXCEPT ![e] = "locked"]
      /\ goal' = [goal EXCEPT ![e] = cf]
      /\ made' = [made EXCEPT ![e] = new]
      /\ live' = live \cup new
      /\ UNCHANGED <<journal, spent, stamp, up, versions, closed, current, built, config,
                     retired, closes, seen, spare, crashes, acked>>
  BY DEF Begin, Acquire, plane, history
<1>2. /\ e \in Actors /\ e \in Users /\ pin[e] = 0
      /\ e \notin Operations /\ e \notin Batches /\ Actors \subseteq Users
      /\ Operations \subseteq Actors
  BY ConstantFacts, ConstantsAssumption DEF PinInv
<1>3. /\ pin' \in [Users -> 0..MaxGen] /\ refs' \in [Gens -> Nat]
      /\ \A v \in Users \ {e} : pin'[v] = pin[v]
      /\ \A g \in Gens \ {current} : refs'[g] = refs[g]
      /\ \A v \in Users : pin'[v] <= built
      /\ ClosedOnce'
  BY <1>1, <1>2, AcquireFacts
<1>4. /\ CurrentRevision' = CurrentRevision
      /\ CurrentRevision \in 1..MaxRevision
  BY <1>1, SameVersion, HistoryFacts
<1>5. /\ LockInv' /\ DownInv' /\ SpareInv' /\ ClosedInv' /\ BuiltInv' /\ MadeInv'
      /\ HistoryInv' /\ AckedSurvives' /\ NoDanglingReference'
  BY <1>1, <1>2, <1>3, BeginKeeps
<1>6. TypeOK'
  <2>1. lock' \in Actors \cup {None} /\ live' \subseteq Secrets
    BY <1>1, <1>2 DEF TypeOK
  <2>2. base' \in [Actors -> 1..MaxRevision]
    BY <1>2, <1>4 DEF TypeOK
  <2>3. goal' \in [Actors -> Configs] /\ made' \in [Actors -> SUBSET Secrets]
    BY <1>1 DEF TypeOK
  <2>4. pc' \in [Actors -> {"idle", "read", "working", "locked", "prepared", "written",
                            "published", "refused"}]
    BY <1>1 DEF TypeOK
  <2> QED
    BY <1>1, <1>3, <2>1, <2>2, <2>3, <2>4 DEF TypeOK
<1>7. /\ pc'[e] = "locked" /\ base'[e] <= CurrentRevision
      /\ \A a \in Actors \ {e} : pc'[a] = pc[a] /\ base'[a] = base[a]
  BY <1>1, <1>2, <1>4 DEF TypeOK, BaseInv
<1>8. PinInv'
  BY <1>1, <1>2, <1>3, <1>4, <1>7 DEF PinInv
<1>9. BaseInv'
  BY <1>4, <1>7 DEF BaseInv, Ready
<1> QED
  BY <1>3, <1>5, <1>6, <1>8, <1>9

(* POST /admin/config and rollback.                                        *)
LEMMA EditStep ==
  ASSUME IInv, NEW e \in Editors, NEW cf \in Configs, Edit(e, cf)
  PROVE  IInv'
BY EditorBegins DEF Edit, Configs

(* A rollback is an edit back to a version of the history.                 *)
LEMMA RollbackStep ==
  ASSUME IInv, NEW e \in Editors, NEW i \in 1..Keep, Rollback(e, i)
  PROVE  IInv'
<1>1. versions[i] \in Version
  BY ElementOfSeq, HistoryFacts DEF Rollback, IInv, TypeOK
<1>2. versions[i].config \in Configs /\ Edit(e, versions[i].config)
  BY <1>1 DEF Rollback, Version
<1> QED
  BY <1>2, EditStep

(* New account material: the credential is stored and bound.               *)
LEMMA SetMaterialStep ==
  ASSUME IInv, NEW e \in Editors, NEW k \in Secrets, NEW kept \in Configs,
         SetMaterial(e, k, kept)
  PROVE  IInv'
<1>1. kept \cup {k} \in Configs /\ {k} \in SUBSET Secrets
  BY DEF Configs
<1>2. /\ up /\ pc[e] \in {"idle", "read"} /\ {k} \cap live = {}
      /\ Acquire(e) /\ Begin(e, kept \cup {k}, {k})
      /\ base' = [base EXCEPT ![e] = CurrentRevision]
      /\ left' = left
  BY DEF SetMaterial
<1> QED
  BY <1>1, <1>2, EditorBegins

(* An operation captures its version and its generation under the lock.    *)
LEMMA StartOperationStep ==
  ASSUME IInv, NEW o \in Operations, StartOperation(o)
  PROVE  IInv'
<1> USE DEF IInv
<1>1. /\ up /\ lock = None /\ pc[o] = "idle" /\ Acquire(o) /\ ~closed
      /\ base' = [base EXCEPT ![o] = CurrentRevision]
      /\ seen' = [seen EXCEPT ![o] = VaultDigest]
      /\ left' = [left EXCEPT ![o] = 1]
      /\ pc' = [pc EXCEPT ![o] = "working"]
      /\ UNCHANGED <<journal, live, spent, stamp, up, versions, lock, closed, current, built,
                     config, retired, closes, goal, made, spare, crashes, acked>>
  BY DEF StartOperation, Acquire, vault, plane, history
<1>2. /\ o \in Actors /\ o \in Users /\ pin[o] = 0 /\ Actors \subseteq Users
      /\ Operations \subseteq Actors
  BY <1>1, ConstantFacts DEF PinInv
<1>3. /\ pin' \in [Users -> 0..MaxGen] /\ refs' \in [Gens -> Nat]
      /\ pin'[o] = current /\ \A v \in Users \ {o} : pin'[v] = pin[v]
      /\ \A g \in Gens \ {current} : refs'[g] = refs[g]
      /\ \A v \in Users : pin'[v] <= built
      /\ ClosedOnce'
  BY <1>1, <1>2, AcquireFacts
<1>4. /\ CurrentRevision' = CurrentRevision /\ CurrentConfig' = CurrentConfig
      /\ Recovered' = Recovered
      /\ CurrentRevision \in 1..MaxRevision
  BY <1>1, SameVersion, SameJournal, HistoryFacts
<1>0. built \in Gens /\ 1..built \subseteq Gens
  BY ConstantFacts DEF TypeOK
<1>5. VaultDigest \in Digest
  BY DEF VaultDigest, Digest, Configs, TypeOK
<1>6. TypeOK'
  <2>1. base' \in [Actors -> 1..MaxRevision] /\ left' \in [Actors -> Nat]
    BY <1>1, <1>4 DEF TypeOK
  <2>2. seen' \in [Actors -> Digest]
    BY <1>1, <1>5 DEF TypeOK
  <2>3. pc' \in [Actors -> {"idle", "read", "working", "locked", "prepared", "written",
                            "published", "refused"}]
    BY <1>1 DEF TypeOK
  <2> QED
    BY <1>1, <1>3, <2>1, <2>2, <2>3 DEF TypeOK
<1>7. /\ pc'[o] = "working" /\ base'[o] = CurrentRevision
      /\ \A a \in Actors \ {o} : pc'[a] = pc[a] /\ base'[a] = base[a]
      /\ \A a \in Actors : pc[a] \notin Busy
  BY <1>1, <1>2, ConstantFacts DEF TypeOK, LockInv
<1>8. LockInv' /\ DownInv' /\ ClosedInv' /\ MadeInv' /\ SpareInv'
  BY <1>1, <1>4, <1>7 DEF LockInv, DownInv, ClosedInv, MadeInv, SpareInv, Busy, Ready
<1>9. PinInv'
  BY <1>1, <1>2, <1>3, <1>4, <1>7 DEF PinInv
<1>10. BaseInv'
  BY <1>1, <1>4, <1>7 DEF BaseInv, Ready
<1>11. BuiltInv'
  BY <1>0, <1>1, <1>3 DEF BuiltInv
<1>12. HistoryInv' /\ AckedSurvives' /\ NoDanglingReference'
  BY <1>1, <1>4, <1>7 DEF HistoryInv, AckedSurvives, NoDanglingReference, NextVersion, Busy
<1> QED
  BY <1>3, <1>6, <1>8, <1>9, <1>10, <1>11, <1>12

(* A batch captures a version, and no generation.                          *)
LEMMA StartBatchStep ==
  ASSUME IInv, NEW b \in Batches, StartBatch(b)
  PROVE  IInv'
<1> USE DEF IInv
<1>1. /\ up /\ lock = None /\ pc[b] = "idle"
      /\ base' = [base EXCEPT ![b] = CurrentRevision]
      /\ seen' = [seen EXCEPT ![b] = VaultDigest]
      /\ left' = [left EXCEPT ![b] = Sites]
      /\ pc' = [pc EXCEPT ![b] = "working"]
      /\ UNCHANGED <<journal, live, spent, stamp, up, versions, lock, closed, current, built,
                     config, retired, closes, refs, pin, goal, made, spare, crashes, acked>>
  BY DEF StartBatch, vault, plane, history
<1>2. /\ CurrentRevision' = CurrentRevision /\ CurrentConfig' = CurrentConfig
      /\ Recovered' = Recovered
      /\ CurrentRevision \in 1..MaxRevision
      /\ b \in Actors /\ b \notin Operations /\ Operations \subseteq Actors
  BY <1>1, SameVersion, SameJournal, HistoryFacts, ConstantFacts, ConstantsAssumption
<1>3. VaultDigest \in Digest
  BY DEF VaultDigest, Digest, Configs, TypeOK
<1>4. TypeOK'
  <2>1. base' \in [Actors -> 1..MaxRevision] /\ left' \in [Actors -> Nat]
    BY <1>1, <1>2, ConstantFacts DEF TypeOK
  <2>2. seen' \in [Actors -> Digest]
    BY <1>1, <1>3 DEF TypeOK
  <2>3. pc' \in [Actors -> {"idle", "read", "working", "locked", "prepared", "written",
                            "published", "refused"}]
    BY <1>1 DEF TypeOK
  <2> QED
    BY <1>1, <2>1, <2>2, <2>3 DEF TypeOK
<1>5. /\ pc'[b] = "working" /\ base'[b] = CurrentRevision
      /\ \A a \in Actors \ {b} : pc'[a] = pc[a] /\ base'[a] = base[a]
      /\ \A a \in Actors : pc[a] \notin Busy
  BY <1>1, <1>2, ConstantFacts DEF TypeOK, LockInv
<1>6. LockInv' /\ DownInv' /\ ClosedInv' /\ MadeInv' /\ SpareInv'
  BY <1>1, <1>2, <1>5 DEF LockInv, DownInv, ClosedInv, MadeInv, SpareInv, Busy, Ready
<1>7. PinInv' /\ BaseInv'
  BY <1>1, <1>2, <1>5 DEF PinInv, BaseInv, Ready
<1>8. BuiltInv' /\ ClosedOnce'
  BY <1>1 DEF BuiltInv, ClosedOnce
<1>9. HistoryInv' /\ AckedSurvives' /\ NoDanglingReference'
  BY <1>1, <1>2, <1>5 DEF HistoryInv, AckedSurvives, NoDanglingReference, NextVersion, Busy
<1> QED
  BY <1>4, <1>6, <1>7, <1>8, <1>9

(* The result of an operation or of one site takes the lock, if the        *)
(* version is still the one it captured.                                   *)
LEMMA CommitOperationStep ==
  ASSUME IInv, NEW o \in Operations \cup Batches, NEW cf \in Configs,
         NEW new \in {{}} \cup {{k} : k \in Secrets}, CommitOperation(o, cf, new)
  PROVE  IInv'
<1> USE DEF IInv
<1>1. /\ up /\ pc[o] = "working" /\ left[o] > 0
      /\ base[o] = CurrentRevision
      /\ new \cap live = {}
      /\ o \in Batches => ~closed
      /\ Begin(o, cf, new)
      /\ left' = [left EXCEPT ![o] = left[o] - 1]
      /\ UNCHANGED <<base, refs, pin>>
  BY DEF CommitOperation, Fresh, LeftAfter
<1>2. /\ lock = None /\ lock' = o
      /\ pc' = [pc EXCEPT ![o] = "locked"]
      /\ goal' = [goal EXCEPT ![o] = cf]
      /\ made' = [made EXCEPT ![o] = new]
      /\ live' = live \cup new
      /\ UNCHANGED <<journal, spent, stamp, up, versions, closed, current, built, config,
                     retired, closes, seen, spare, crashes, acked>>
  BY <1>1 DEF Begin, plane, history
<1>3. /\ o \in Actors /\ o \notin Editors /\ Operations \subseteq Actors
      /\ new \in SUBSET Secrets /\ (closed => o \in Operations)
  BY <1>1, ConstantFacts, ConstantsAssumption
<1>4. CurrentRevision' = CurrentRevision /\ CurrentRevision \in 1..MaxRevision
  BY <1>2, SameVersion, HistoryFacts
<1>5. /\ LockInv' /\ DownInv' /\ SpareInv' /\ ClosedInv' /\ BuiltInv' /\ MadeInv'
      /\ HistoryInv' /\ AckedSurvives' /\ NoDanglingReference'
  BY <1>1, <1>3, BeginKeeps
<1>6. TypeOK'
  <2>1. lock' \in Actors \cup {None} /\ live' \subseteq Secrets
    BY <1>2, <1>3 DEF TypeOK
  <2>2. left' \in [Actors -> Nat]
    BY <1>1, <1>3 DEF TypeOK
  <2>3. goal' \in [Actors -> Configs] /\ made' \in [Actors -> SUBSET Secrets]
    BY <1>2, <1>3 DEF TypeOK
  <2>4. pc' \in [Actors -> {"idle", "read", "working", "locked", "prepared", "written",
                            "published", "refused"}]
    BY <1>2 DEF TypeOK
  <2> QED
    BY <1>1, <1>2, <2>1, <2>2, <2>3, <2>4 DEF TypeOK
<1>7. /\ pc'[o] = "locked"
      /\ \A a \in Actors \ {o} : pc'[a] = pc[a]
  BY <1>2, <1>3 DEF TypeOK
<1>8. PinInv' /\ BaseInv'
  BY <1>1, <1>2, <1>3, <1>4, <1>7 DEF PinInv, BaseInv, Ready
<1>9. ClosedOnce'
  BY <1>1, <1>2 DEF ClosedOnce
<1> QED
  BY <1>5, <1>6, <1>8, <1>9

(* An operation ends: its commit stored a credential and nothing else, or  *)
(* there is no commit.                                                     *)
LEMMA EndOperationStep ==
  ASSUME IInv, NEW o \in Operations \cup Batches,
         EndOperation(o) \/ \E k \in Secrets : CommitImport(o, k)
  PROVE  IInv'
<1> USE DEF IInv
<1>1. /\ up /\ pc[o] = "working"
      /\ Release(o)
      /\ pc' = [pc EXCEPT ![o] = "idle"]
      /\ base' = [base EXCEPT ![o] = 1]
      /\ seen' = [seen EXCEPT ![o] = <<{}, 0>>]
      /\ goal' = [goal EXCEPT ![o] = {}]
      /\ made' = [made EXCEPT ![o] = {}]
      /\ left' = [left EXCEPT ![o] = 0]
      /\ live \subseteq live' /\ live' \subseteq Secrets
      /\ UNCHANGED <<journal, spent, stamp, up, versions, lock, closed, current, built, config,
                     retired, spare, crashes, acked>>
      /\ live' # live => lock = None
  BY DEF EndOperation, CommitImport, Rest, vault, history, TypeOK
<1>2. o \in Actors /\ o \in Users /\ Actors \subseteq Users /\ Operations \subseteq Actors
  BY ConstantFacts
<1>3. /\ pin' \in [Users -> 0..MaxGen] /\ refs' \in [Gens -> Nat]
      /\ closes' \in [Gens -> Nat]
      /\ pin'[o] = 0 /\ \A v \in Users \ {o} : pin'[v] = pin[v]
      /\ \A v \in Users : pin'[v] <= built
      /\ ClosedOnce'
      /\ \A g \in Gens : g \in retired \/ closes'[g] = closes[g]
      /\ \A g \in Gens : refs[g] = 0 => refs'[g] = 0
  BY <1>1, <1>2, ReleaseFacts
<1>4. /\ CurrentRevision' = CurrentRevision /\ CurrentConfig' = CurrentConfig
      /\ Recovered' = Recovered
      /\ CurrentRevision \in 1..MaxRevision
  BY <1>1, SameVersion, SameJournal, HistoryFacts
<1>5. <<{}, 0>> \in Digest /\ {} \in Configs
  BY ConstantFacts DEF Digest, Configs
<1>6. TypeOK'
  <2>1. base' \in [Actors -> 1..MaxRevision] /\ left' \in [Actors -> Nat]
    BY <1>1, ConstantFacts DEF TypeOK
  <2>2. seen' \in [Actors -> Digest]
    BY <1>1, <1>5 DEF TypeOK
  <2>3. goal' \in [Actors -> Configs] /\ made' \in [Actors -> SUBSET Secrets]
    BY <1>1, <1>5 DEF TypeOK
  <2>4. pc' \in [Actors -> {"idle", "read", "working", "locked", "prepared", "written",
                            "published", "refused"}]
    BY <1>1 DEF TypeOK
  <2> QED
    BY <1>1, <1>3, <2>1, <2>2, <2>3, <2>4 DEF TypeOK
<1>7. /\ pc'[o] = "idle" /\ base'[o] = 1
      /\ \A a \in Actors \ {o} : /\ pc'[a] = pc[a] /\ base'[a] = base[a]
                                 /\ goal'[a] = goal[a] /\ made'[a] = made[a]
  BY <1>1, <1>2 DEF TypeOK
<1>8. LockInv' /\ DownInv' /\ ClosedInv' /\ MadeInv'
  BY <1>1, <1>4, <1>7 DEF LockInv, DownInv, ClosedInv, MadeInv, Busy
<1>9. PinInv'
  BY <1>1, <1>2, <1>3, <1>4, <1>7 DEF PinInv
<1>10. BaseInv'
  BY <1>4, <1>7 DEF BaseInv, Ready
<1>11. built \in Gens /\ 1..built \subseteq Gens
  BY ConstantFacts DEF TypeOK
<1>12. SpareInv'
  <2>1. SUFFICES ASSUME NEW a \in Actors
                 PROVE  IF pc'[a] \in Ready
                        THEN /\ spare[a] \in 1..built /\ spare[a] # current
                             /\ spare[a] \notin retired
                             /\ closes'[spare[a]] = 0 /\ refs'[spare[a]] = 0
                             /\ config[spare[a]] = goal'[a] /\ goal'[a] \subseteq live'
                        ELSE spare[a] = 0
    BY <1>1 DEF SpareInv
  <2>2. CASE a = o
    BY <1>1, <1>7, <2>2 DEF SpareInv, Ready
  <2>3. CASE a # o
    BY <1>1, <1>3, <1>7, <1>11, <2>3 DEF SpareInv
  <2> QED
    BY <2>2, <2>3
<1>13. BuiltInv'
  BY <1>1, <1>3, <1>11 DEF BuiltInv
<1>14. HistoryInv'
  BY <1>1, <1>4, <1>7 DEF HistoryInv, NextVersion
<1>15. AckedSurvives' /\ NoDanglingReference'
  BY <1>1, <1>4 DEF AckedSurvives, NoDanglingReference
<1> QED
  BY <1>3, <1>6, <1>8, <1>9, <1>10, <1>12, <1>13, <1>14, <1>15

-----------------------------------------------------------------------------
(* Service.apply                                                           *)

(* prepare builds the next server: a generation that was never used.       *)
LEMMA PrepareStep ==
  ASSUME IInv, NEW a \in Actors, Prepare(a)
  PROVE  IInv'
<1> USE DEF IInv
<1>1. /\ up /\ pc[a] = "locked"
      /\ a \in Editors => base[a] = CurrentRevision
      /\ goal[a] \subseteq live
      /\ CurrentRevision < MaxRevision
      /\ built < MaxGen
      /\ built' = built + 1
      /\ config' = [config EXCEPT ![built + 1] = goal[a]]
      /\ spare' = [spare EXCEPT ![a] = built + 1]
      /\ pc' = [pc EXCEPT ![a] = "prepared"]
      /\ UNCHANGED <<journal, live, spent, stamp, up, versions, lock, closed, current, retired,
                     closes, refs, pin, base, seen, goal, made, left, crashes, acked>>
  BY DEF Prepare, BasedOnCurrent, BindingsExist, vault, history
<1>2. /\ CurrentRevision' = CurrentRevision /\ CurrentConfig' = CurrentConfig
      /\ Recovered' = Recovered
      /\ CurrentRevision \in 1..MaxRevision
  BY <1>1, SameVersion, SameJournal, HistoryFacts
<1>3. /\ built \in Gens /\ built + 1 \in Gens /\ 1..built \subseteq Gens
      /\ built \in Nat /\ current \in Gens /\ current <= built
  BY <1>1, ConstantFacts DEF TypeOK, BuiltInv
<1>4. /\ pc'[a] = "prepared" /\ spare'[a] = built + 1
      /\ \A b \in Actors \ {a} : pc'[b] = pc[b] /\ spare'[b] = spare[b]
      /\ config'[built + 1] = goal[a]
      /\ \A g \in Gens \ {built + 1} : config'[g] = config[g]
  BY <1>1, <1>3 DEF TypeOK
<1>5. lock = a /\ \A b \in Actors \ {a} : pc[b] \notin Busy
  BY <1>1 DEF LockInv, Busy
<1>6. TypeOK'
  <2>1. goal[a] \in Configs
    BY DEF TypeOK
  <2>2. config' \in [Gens -> Configs]
    BY <1>1, <1>3, <2>1 DEF TypeOK
  <2>3. spare' \in [Actors -> 0..MaxGen]
    BY <1>1, <1>3, ConstantFacts DEF TypeOK
  <2>4. pc' \in [Actors -> {"idle", "read", "working", "locked", "prepared", "written",
                            "published", "refused"}]
    BY <1>1 DEF TypeOK
  <2> QED
    BY <1>1, <1>3, <2>2, <2>3, <2>4 DEF TypeOK
<1>7. LockInv' /\ DownInv' /\ ClosedInv' /\ MadeInv'
  BY <1>1, <1>2, <1>4 DEF LockInv, DownInv, ClosedInv, MadeInv, Busy
<1>8. /\ built + 1 \notin retired /\ closes[built + 1] = 0 /\ refs[built + 1] = 0
      /\ built + 1 # current
  <2>1. built + 1 \notin retired /\ closes[built + 1] = 0 /\ built + 1 # current
    BY <1>3 DEF BuiltInv
  <2>2. Pinned(built + 1) = {}
    BY <1>3, ConstantFacts DEF Pinned, PinInv, TypeOK
  <2>3. refs[built + 1] = 0
    BY <1>3, <2>2, ClosedOnceParts, FS_EmptySet
  <2> QED
    BY <2>1, <2>3
<1>9. SpareInv'
  <2>1. SUFFICES ASSUME NEW b \in Actors
                 PROVE  IF pc'[b] \in Ready
                        THEN /\ spare'[b] \in 1..built' /\ spare'[b] # current
                             /\ spare'[b] \notin retired
                             /\ closes[spare'[b]] = 0 /\ refs[spare'[b]] = 0
                             /\ config'[spare'[b]] = goal[b] /\ goal[b] \subseteq live
                        ELSE spare'[b] = 0
    BY <1>1 DEF SpareInv
  <2>2. CASE b = a
    BY <1>1, <1>3, <1>4, <1>8, <2>2 DEF Ready
  <2>3. CASE b # a
    BY <1>4, <1>5, <2>3 DEF SpareInv, Ready, Busy
  <2> QED
    BY <2>2, <2>3
<1>10. PinInv'
  <2>1. \A u \in Users : pin[u] <= built + 1
    BY <1>3, ConstantFacts DEF PinInv, TypeOK
  <2> QED
    BY <1>1, <1>2, <1>4, <2>1 DEF PinInv
<1>11. BaseInv'
  BY <1>1, <1>2, <1>4 DEF BaseInv, Ready
<1>12. BuiltInv'
  <2>1. current <= built + 1 /\ \A g \in Gens : g > built + 1 => g \notin retired /\ closes[g] = 0
    BY <1>3, ConstantFacts DEF BuiltInv
  <2>2. ASSUME NEW g \in 1..(built + 1)
        PROVE  \/ g = current \/ g \in retired
               \/ \E b \in Actors : spare'[b] = g
               \/ closes[g] = 1 /\ refs[g] = 0
    <3>1. CASE g = built + 1
      BY <1>4, <3>1
    <3>2. CASE g \in 1..built
      <4>1. \A b \in Actors : spare[b] = g => spare'[b] = g
        BY <1>1, <1>4, <3>2 DEF SpareInv, Ready
      <4> QED
        BY <3>2, <4>1 DEF BuiltInv
    <3> QED
      BY <1>3, <3>1, <3>2
  <2> QED
    BY <1>1, <2>1, <2>2 DEF BuiltInv
<1>13. ClosedOnce'
  BY <1>1 DEF ClosedOnce
<1>14. HistoryInv' /\ AckedSurvives' /\ NoDanglingReference'
  <2>1. config'[current] = config[current]
    BY <1>3, <1>4, <1>8
  <2>2. HistoryInv'
    BY <1>1, <1>2, <1>4, <2>1 DEF HistoryInv, NextVersion
  <2> QED
    BY <1>1, <1>2, <2>1, <2>2 DEF AckedSurvives, NoDanglingReference
<1> QED
  BY <1>6, <1>7, <1>9, <1>10, <1>11, <1>12, <1>13, <1>14

(* preview or prepare refuses.                                             *)
LEMMA RefuseStep ==
  ASSUME IInv, NEW a \in Actors, Refuse(a)
  PROVE  IInv'
<1> USE DEF IInv
<1>1. /\ up /\ pc[a] = "locked"
      /\ pc' = [pc EXCEPT ![a] = "refused"]
      /\ UNCHANGED <<journal, live, spent, stamp, up, versions, lock, closed, current, built,
                     config, retired, closes, refs, pin, base, seen, goal, made, spare, left,
                     crashes, acked>>
  BY DEF Refuse, vault, plane, history
<1>2. /\ CurrentRevision' = CurrentRevision /\ CurrentConfig' = CurrentConfig
      /\ Recovered' = Recovered
  BY <1>1, SameVersion, SameJournal
<1>3. pc'[a] = "refused" /\ \A b \in Actors \ {a} : pc'[b] = pc[b]
  BY <1>1 DEF TypeOK
<1>4. TypeOK'
  BY <1>1 DEF TypeOK
<1>5. LockInv' /\ DownInv' /\ ClosedInv' /\ MadeInv' /\ SpareInv'
  BY <1>1, <1>2, <1>3 DEF LockInv, DownInv, ClosedInv, MadeInv, SpareInv, Busy, Ready
<1>6. PinInv' /\ BaseInv'
  BY <1>1, <1>2, <1>3, ConstantFacts DEF PinInv, BaseInv, Ready
<1>7. BuiltInv' /\ ClosedOnce'
  BY <1>1 DEF BuiltInv, ClosedOnce
<1>8. HistoryInv' /\ AckedSurvives' /\ NoDanglingReference'
  BY <1>1, <1>2, <1>3 DEF HistoryInv, AckedSurvives, NoDanglingReference, NextVersion
<1> QED
  BY <1>4, <1>5, <1>6, <1>7, <1>8

(* What the journal holds after a write: the newest versions, in order,    *)
(* and the next one at the end.                                            *)
LEMMA KeptFacts ==
  ASSUME TypeOK, NEW a \in Actors, CurrentRevision < MaxRevision,
         NEW n \in 1..(Len(versions) + 1)
  PROVE  /\ Kept(a, n) \in Seq(Version)
         /\ Len(Kept(a, n)) = n
         /\ Kept(a, n)[n] = NextVersion(a)
         /\ \A i \in 1..(n - 1) :
              /\ Len(versions) - n + 1 + i \in 1..Len(versions)
              /\ Kept(a, n)[i] = versions[Len(versions) - n + 1 + i]
         /\ NextVersion(a) \in Version
<1>1. /\ versions \in Seq(Version) /\ Len(versions) \in Nat \ {0}
      /\ CurrentRevision \in 1..MaxRevision
      /\ \A i \in 1..Len(versions) : versions[i] \in Version
  BY HistoryFacts, ElementOfSeq DEF TypeOK
<1>2. NextVersion(a) \in Version
  BY <1>1, ConstantFacts DEF NextVersion, Version, TypeOK
<1> DEFINE all == Append(versions, NextVersion(a))
           m == Len(versions) + 1
<1>3. /\ all \in Seq(Version) /\ Len(all) = m
      /\ \A i \in 1..Len(versions) : all[i] = versions[i]
      /\ all[m] = NextVersion(a)
  BY <1>1, <1>2, AppendProperties
<1>4. \A i \in (m - n + 1)..m : all[i] \in Version
  BY <1>1, <1>2, <1>3
<1>5. Kept(a, n) = SubSeq(all, m - n + 1, m)
  BY <1>3 DEF Kept
<1> HIDE DEF all
<1>6. m - n + 1 \in Int /\ m \in Int /\ m - n + 1 >= 1 /\ m - n + 1 <= m /\ n \in Nat \ {0}
  BY <1>1
<1> DEFINE b == m - n + 1
<1>7. /\ SubSeq(all, b, m) \in Seq(Version)
      /\ Len(SubSeq(all, b, m)) = IF b <= m THEN m - b + 1 ELSE 0
      /\ \A i \in 1..(m - b + 1) : SubSeq(all, b, m)[i] = all[b + i - 1]
  <2> HIDE DEF m, b
  <2>1. b \in Int /\ m \in Int /\ \A i \in b..m : all[i] \in Version
    BY <1>4, <1>6 DEF b
  <2> QED
    BY <1>3, <2>1, SubSeqProperties
<1>8. Len(Kept(a, n)) = n /\ Kept(a, n) \in Seq(Version)
      /\ \A i \in 1..n : Kept(a, n)[i] = all[m - n + i]
  BY <1>1, <1>5, <1>6, <1>7
<1>9. Kept(a, n)[n] = NextVersion(a)
  BY <1>1, <1>3, <1>8
<1>10. ASSUME NEW i \in 1..(n - 1)
       PROVE  /\ Len(versions) - n + 1 + i \in 1..Len(versions)
              /\ Kept(a, n)[i] = versions[Len(versions) - n + 1 + i]
  <2>1. Len(versions) - n + 1 + i \in 1..Len(versions)
    BY <1>1
  <2>2. i \in 1..n /\ m - n + i = Len(versions) - n + 1 + i
    BY <1>1
  <2>3. Kept(a, n)[i] = all[Len(versions) - n + 1 + i]
    BY <1>8, <2>2
  <2> QED
    BY <1>3, <2>1, <2>3
<1> QED
  BY <1>2, <1>8, <1>9, <1>10

(* atomicWrite replaces the journal.  The revision it adds is new, so what *)
(* was acknowledged is kept or is older than all that is kept.             *)
LEMMA PersistStep ==
  ASSUME IInv, NEW a \in Actors, Persist(a)
  PROVE  IInv' /\ versions = Recovered
         /\ \E n \in 1..(Len(versions) + 1) : journal' = Kept(a, n)
<1> USE DEF IInv
<1>1. /\ up /\ pc[a] = "prepared"
      /\ pc' = [pc EXCEPT ![a] = "written"]
      /\ UNCHANGED <<live, spent, stamp, up, versions, lock, closed, current, built,
                     config, retired, closes, refs, pin, base, seen, goal, made, spare, left,
                     crashes, acked>>
  BY DEF Persist, Write, vault, plane, history
<1>2. /\ CurrentRevision' = CurrentRevision /\ CurrentConfig' = CurrentConfig
      /\ CurrentRevision \in 1..MaxRevision /\ CurrentRevision < MaxRevision
      /\ Len(versions) \in Nat \ {0} /\ DOMAIN versions = 1..Len(versions)
  BY <1>1, SameVersion, HistoryFacts DEF BaseInv, Ready
<1>3. PICK n \in 1..(Len(versions) + 1) : journal' = Kept(a, n)
  BY <1>2, ConstantFacts DEF Persist, Write
<1>4. /\ pc'[a] = "written" /\ lock = a
      /\ \A b \in Actors \ {a} : pc'[b] = pc[b] /\ pc[b] \notin Busy
  BY <1>1 DEF TypeOK, LockInv, Busy
<1>5. versions = Recovered /\ config[current] = CurrentConfig
  BY <1>1, <1>4 DEF HistoryInv, Busy
<1>6. /\ journal' \in Seq(Version) /\ Len(journal') = n
      /\ journal'[n] = NextVersion(a)
      /\ \A i \in 1..(n - 1) :
           /\ Len(versions) - n + 1 + i \in 1..Len(versions)
           /\ journal'[i] = versions[Len(versions) - n + 1 + i]
      /\ NextVersion(a) \in Version
  BY <1>2, <1>3, KeptFacts
<1>7. journal' # <<>> /\ DOMAIN journal' = 1..n /\ n \in Nat \ {0} /\ n <= Len(versions) + 1
  <2>1. n \in Nat \ {0} /\ n <= Len(versions) + 1
    BY <1>2
  <2> QED
    BY <1>6, <2>1, LenProperties, EmptySeq
<1>8. Recovered' = journal' /\ Last(journal') = NextVersion(a)
  BY <1>6, <1>7 DEF Recovered, Last
<1>9. \A i, j \in 1..Len(versions) : i < j => versions[i].revision < versions[j].revision
  BY <1>2, <1>5 DEF HistoryInv
<1>10. \A i \in 1..Len(versions) : /\ versions[i].revision \in Nat
                                   /\ versions[i].revision <= CurrentRevision
  <2>1. SUFFICES ASSUME NEW i \in 1..Len(versions)
                 PROVE  /\ versions[i].revision \in Nat
                        /\ versions[i].revision <= CurrentRevision
    OBVIOUS
  <2>2. versions[i] \in Version /\ CurrentRevision = versions[Len(versions)].revision
    BY <1>2, ElementOfSeq DEF TypeOK, CurrentRevision, Last
  <2>3. versions[i].revision \in Nat
    BY <2>2, ConstantFacts DEF Version
  <2>4. i = Len(versions) \/ i < Len(versions)
    <3>1. Len(versions) \in Nat
      BY <1>2
    <3> QED
      BY <3>1
  <2> QED
    BY <1>2, <1>9, <2>2, <2>3, <2>4
<1>11. NextVersion(a).revision = CurrentRevision + 1 /\ NextVersion(a).config = goal[a]
  BY DEF NextVersion
<1>12. TypeOK'
  BY <1>1, <1>6 DEF TypeOK
<1>13. LockInv' /\ DownInv' /\ ClosedInv' /\ MadeInv' /\ SpareInv'
  BY <1>1, <1>2, <1>4 DEF LockInv, DownInv, ClosedInv, MadeInv, SpareInv, Busy, Ready
<1>14. PinInv' /\ BaseInv'
  BY <1>1, <1>2, <1>4, ConstantFacts DEF PinInv, BaseInv, Ready
<1>15. BuiltInv' /\ ClosedOnce'
  BY <1>1 DEF BuiltInv, ClosedOnce
<1>16. HistoryInv'
  <2>1. ASSUME NEW i \in 1..n, NEW j \in 1..n, i < j
        PROVE  journal'[i].revision < journal'[j].revision
    <3> DEFINE d == Len(versions) - n + 1
    <3>1. i \in 1..(n - 1) /\ d \in Int
      BY <1>2, <1>7, <2>1
    <3>2. d + i \in 1..Len(versions) /\ journal'[i] = versions[d + i]
      BY <1>6, <3>1
    <3>3. CASE j = n
      BY <1>2, <1>6, <1>10, <1>11, <3>2, <3>3, SMTT(30)
    <3>4. CASE j \in 1..(n - 1)
      <4>1. d + j \in 1..Len(versions) /\ journal'[j] = versions[d + j]
        BY <1>6, <3>4
      <4>2. d + i < d + j
        BY <2>1, <3>1
      <4> HIDE DEF d
      <4> QED
        BY <1>9, <3>2, <4>1, <4>2
    <3> QED
      BY <1>7, <3>3, <3>4
  <2>2. \A i, j \in DOMAIN Recovered' :
          i < j => Recovered'[i].revision < Recovered'[j].revision
    BY <1>7, <1>8, <2>1
  <2>3. NextVersion(a)' = NextVersion(a)
    BY <1>1, <1>2 DEF NextVersion
  <2>4. \A b \in Actors : pc'[b] = "written" => journal' # <<>> /\ Last(journal') = NextVersion(b)'
    BY <1>4, <1>7, <1>8, <2>3 DEF Busy
  <2> QED
    BY <1>1, <1>2, <1>4, <1>5, <2>2, <2>4 DEF HistoryInv, Busy
<1>17. AckedSurvives'
  <2>1. SUFFICES ASSUME NEW v \in acked
                 PROVE  \/ \E i \in 1..n : journal'[i] = v
                        \/ \A i \in 1..n : journal'[i].revision > v.revision
    BY <1>1, <1>7, <1>8 DEF AckedSurvives
  <2>2. v.revision \in Nat
    BY ConstantFacts DEF TypeOK, Version
  <2> DEFINE d == Len(versions) - n + 1
  <2>3. d \in Nat
    BY <1>2, <1>7
  <2>4. CASE \A i \in 1..Len(versions) : versions[i].revision > v.revision
    <3>1. CurrentRevision > v.revision
      BY <1>2, <2>4 DEF CurrentRevision, Last
    <3>2. ASSUME NEW i \in 1..n PROVE journal'[i].revision > v.revision
      <4>1. CASE i = n
        BY <1>2, <1>6, <1>11, <2>2, <3>1, <4>1
      <4>2. CASE i \in 1..(n - 1)
        BY <1>6, <2>4, <4>2
      <4> QED
        BY <1>7, <4>1, <4>2
    <3> QED
      BY <3>2
  <2>5. ASSUME NEW k \in 1..Len(versions), versions[k] = v
        PROVE  \/ \E i \in 1..n : journal'[i] = v
               \/ \A i \in 1..n : journal'[i].revision > v.revision
    <3>1. CASE k > d
      <4>1. k - d \in 1..(n - 1) /\ d + (k - d) = k
        BY <1>2, <1>7, <2>3, <3>1
      <4>2. journal'[k - d] = v
        BY <1>6, <2>5, <4>1
      <4>3. k - d \in 1..n
        BY <1>7, <4>1
      <4> QED
        BY <4>2, <4>3
    <3>2. CASE k <= d
      <4>1. ASSUME NEW i \in 1..n PROVE journal'[i].revision > v.revision
        <5>1. CASE i = n
          BY <1>2, <1>6, <1>10, <1>11, <2>5, <5>1
        <5>2. CASE i \in 1..(n - 1)
          <6>1. d + i \in 1..Len(versions) /\ journal'[i] = versions[d + i]
            BY <1>6, <5>2
          <6>2. k < d + i
            BY <1>2, <2>3, <3>2, <5>2
          <6>3. versions[k].revision < versions[d + i].revision
            BY <1>9, <6>1, <6>2
          <6>4. versions[d + i].revision \in Nat
            BY <1>10, <6>1
          <6> QED
            BY <2>2, <2>5, <6>1, <6>3, <6>4
        <5> QED
          BY <1>7, <5>1, <5>2
      <4> QED
        BY <4>1
    <3> QED
      BY <1>2, <2>3, <3>1, <3>2
  <2> QED
    BY <1>2, <1>5, <2>4, <2>5 DEF AckedSurvives
<1>18. NoDanglingReference'
  <2>1. goal[a] \subseteq live
    BY <1>1 DEF SpareInv, Ready
  <2> QED
    BY <1>1, <1>8, <1>11, <2>1 DEF NoDanglingReference
<1> QED
  BY <1>3, <1>5, <1>12, <1>13, <1>14, <1>15, <1>16, <1>17, <1>18

(* The journal cannot be written: the prepared server is discarded.        *)
LEMMA PersistFailsStep ==
  ASSUME IInv, NEW a \in Actors, PersistFails(a)
  PROVE  IInv'
<1> USE DEF IInv
<1>1. /\ up /\ pc[a] = "prepared"
      /\ closes' = [g \in Gens |-> IF g \in {spare[a]} THEN closes[g] + 1 ELSE closes[g]]
      /\ spare' = [spare EXCEPT ![a] = 0]
      /\ pc' = [pc EXCEPT ![a] = "refused"]
      /\ UNCHANGED <<journal, live, spent, stamp, up, versions, lock, closed, current, built,
                     config, retired, refs, pin, base, seen, goal, made, left, crashes, acked>>
  BY DEF PersistFails, Closing, Discarded, vault, history
<1>2. /\ CurrentRevision' = CurrentRevision /\ CurrentConfig' = CurrentConfig
      /\ Recovered' = Recovered
  BY <1>1, SameVersion, SameJournal
<1>3. /\ pc'[a] = "refused" /\ spare'[a] = 0
      /\ \A b \in Actors \ {a} : /\ pc'[b] = pc[b] /\ spare'[b] = spare[b]
                                 /\ pc[b] \notin Busy
  BY <1>1 DEF TypeOK, LockInv, Busy
<1>4. /\ spare[a] \in 1..built /\ spare[a] \in Gens /\ spare[a] # current
      /\ spare[a] \notin retired /\ closes[spare[a]] = 0 /\ refs[spare[a]] = 0
  BY <1>1, ConstantFacts DEF SpareInv, Ready, TypeOK
<1>5. closes'[spare[a]] = 1 /\ \A g \in Gens : g # spare[a] => closes'[g] = closes[g]
  BY <1>1, <1>4
<1>6. TypeOK'
  <2>1. closes' \in [Gens -> Nat]
    BY <1>1 DEF TypeOK
  <2>2. spare' \in [Actors -> 0..MaxGen]
    BY <1>1, ConstantFacts DEF TypeOK
  <2>3. pc' \in [Actors -> {"idle", "read", "working", "locked", "prepared", "written",
                            "published", "refused"}]
    BY <1>1 DEF TypeOK
  <2> QED
    BY <1>1, <2>1, <2>2, <2>3 DEF TypeOK
<1>7. LockInv' /\ DownInv' /\ ClosedInv' /\ MadeInv'
  BY <1>1, <1>2, <1>3 DEF LockInv, DownInv, ClosedInv, MadeInv, Busy
<1>8. SpareInv'
  BY <1>3 DEF SpareInv, Ready, Busy
<1>9. PinInv' /\ BaseInv'
  BY <1>1, <1>2, <1>3, ConstantFacts DEF PinInv, BaseInv, Ready
<1>10. built \in Gens /\ 1..built \subseteq Gens
  BY ConstantFacts DEF TypeOK
<1>11. BuiltInv'
  <2>1. \A g \in Gens : g > built => g \notin retired /\ closes'[g] = 0
    BY <1>4, <1>5, <1>10, ConstantFacts DEF BuiltInv
  <2>2. ASSUME NEW g \in 1..built
        PROVE  \/ g = current \/ g \in retired
               \/ \E b \in Actors : spare'[b] = g
               \/ closes'[g] = 1 /\ refs[g] = 0
    <3>1. CASE g = spare[a]
      BY <1>4, <1>5, <3>1
    <3>2. CASE g # spare[a]
      <4>1. \A b \in Actors : spare[b] = g => spare'[b] = g
        BY <1>3, <3>2
      <4> QED
        BY <1>5, <1>10, <3>2, <4>1 DEF BuiltInv
    <3> QED
      BY <3>1, <3>2
  <2> QED
    BY <1>1, <2>1, <2>2 DEF BuiltInv
<1>12. ClosedOnce'
  <2>1. \A g \in Gens : CloseRule(g)'
    BY <1>1, <1>4, <1>5, ClosedOnceParts DEF CloseRule
  <2>2. \A g \in Gens : refs'[g] = Cardinality(Pinned(g)')
    BY <1>1, ClosedOnceParts DEF Pinned
  <2> QED
    BY <2>1, <2>2, ClosedOnceParts
<1>13. HistoryInv' /\ AckedSurvives' /\ NoDanglingReference'
  BY <1>1, <1>2, <1>3 DEF HistoryInv, AckedSurvives, NoDanglingReference, NextVersion, Busy
<1> QED
  BY <1>6, <1>7, <1>8, <1>9, <1>11, <1>12, <1>13

(* The update is published: the history in memory is the one on disk, and  *)
(* the old generation is retired.  A generation whose plane was closed     *)
(* before is not closed again, because the operation that publishes still  *)
(* has it.                                                                 *)
LEMMA PublishStep ==
  ASSUME IInv, NEW a \in Actors, Publish(a)
  PROVE  /\ IInv'
         /\ base[a] = CurrentRevision /\ CurrentRevision' = CurrentRevision + 1
<1> USE DEF IInv
<1>1. /\ up /\ pc[a] = "written"
      /\ versions' = IF journal = <<>> THEN versions ELSE journal
      /\ retired' = retired \cup {current}
      /\ current' = spare[a]
      /\ closes' = [g \in Gens |-> IF g \in RetiredIdle THEN closes[g] + 1 ELSE closes[g]]
      /\ spare' = [spare EXCEPT ![a] = 0]
      /\ pc' = [pc EXCEPT ![a] = "published"]
      /\ UNCHANGED <<journal, live, spent, stamp, up, lock, closed, built, config, refs, pin,
                     base, seen, goal, made, left, crashes, acked>>
  BY DEF Publish, Closing, vault, history
<1>2. /\ pc'[a] = "published" /\ spare'[a] = 0 /\ lock = a
      /\ \A b \in Actors \ {a} : /\ pc'[b] = pc[b] /\ spare'[b] = spare[b]
                                 /\ pc[b] \notin Busy
  BY <1>1 DEF TypeOK, LockInv, Busy
<1>3. /\ spare[a] \in 1..built /\ spare[a] \in Gens /\ spare[a] # current
      /\ spare[a] \notin retired /\ closes[spare[a]] = 0 /\ refs[spare[a]] = 0
      /\ config[spare[a]] = goal[a] /\ goal[a] \subseteq live
  BY <1>1, ConstantFacts DEF SpareInv, Ready, TypeOK
<1>4. /\ journal # <<>> /\ versions' = journal /\ Recovered = journal /\ Recovered' = journal
      /\ Last(journal) = NextVersion(a)
  BY <1>1 DEF HistoryInv, Recovered
<1>5. /\ CurrentRevision' = CurrentRevision + 1 /\ CurrentConfig' = goal[a]
      /\ CurrentRevision \in 1..MaxRevision /\ base[a] = CurrentRevision
  BY <1>1, <1>4, HistoryFacts DEF CurrentRevision, CurrentConfig, NextVersion, BaseInv, Ready
<1>6. current \in Gens /\ built \in Gens /\ 1..built \subseteq Gens /\ current <= built
  BY ConstantFacts DEF TypeOK, BuiltInv
<1>7. \A b \in Actors : base[b] \in Nat /\ base[b] <= CurrentRevision
  BY ConstantFacts DEF BaseInv, TypeOK
<1>8. \A g \in Gens : /\ refs[g] = Cardinality(Pinned(g)) /\ CloseRule(g)
                      /\ refs[g] \in Nat /\ closes[g] \in Nat
  BY ClosedOnceParts DEF TypeOK
<1>9. closes[current] = 0 /\ (current \in retired => refs[current] > 0)
  <2>1. CASE ~closed
    BY <1>6, <1>8, <2>1 DEF CloseRule
  <2>2. CASE closed
    <3>1. a \in Operations
      BY <1>1, <2>2 DEF ClosedInv, Busy
    <3>2. pin[a] = current
      BY <1>1, <1>5, <3>1 DEF PinInv
    <3>3. a \in Pinned(current) /\ IsFiniteSet(Pinned(current))
      BY <3>2, FS_Subset, ConstantsAssumption, ConstantFacts DEF Pinned
    <3>4. Cardinality(Pinned(current)) # 0
      BY <3>3, FS_EmptySet
    <3>5. refs[current] > 0
      BY <1>6, <1>8, <3>4
    <3> QED
      BY <1>6, <1>8, <3>5 DEF CloseRule
  <2> QED
    BY <2>1, <2>2
<1>10. /\ closes'[current] = IF refs[current] = 0 THEN 1 ELSE 0
       /\ \A g \in Gens : g # current => closes'[g] = closes[g]
  BY <1>1, <1>6, <1>8, <1>9 DEF RetiredIdle
<1>11. TypeOK'
  <2>1. closes' \in [Gens -> Nat]
    BY <1>1, <1>8
  <2>2. spare' \in [Actors -> 0..MaxGen]
    BY <1>1, ConstantFacts DEF TypeOK
  <2>3. pc' \in [Actors -> {"idle", "read", "working", "locked", "prepared", "written",
                            "published", "refused"}]
    BY <1>1 DEF TypeOK
  <2>4. versions' \in Seq(Version) \ {<<>>}
    BY <1>4 DEF TypeOK
  <2> QED
    BY <1>1, <1>3, <1>6, <2>1, <2>2, <2>3, <2>4 DEF TypeOK
<1>12. LockInv' /\ DownInv' /\ ClosedInv'
  BY <1>1, <1>2 DEF LockInv, DownInv, ClosedInv, Busy
<1>13. MadeInv' /\ SpareInv'
  BY <1>2 DEF MadeInv, SpareInv, Ready, Busy
<1>14. PinInv'
  <2>1. \A o \in Operations : base'[o] # CurrentRevision'
    BY <1>1, <1>5, <1>7, ConstantFacts
  <2> QED
    BY <1>1, <1>2, <2>1 DEF PinInv
<1>15. BaseInv'
  BY <1>1, <1>2, <1>5, <1>7 DEF BaseInv, Ready, Busy
<1>16. BuiltInv'
  <2>1. spare[a] <= built /\ \A g \in Gens : g > built => g \notin retired' /\ closes'[g] = 0
    BY <1>1, <1>3, <1>6, <1>10, ConstantFacts DEF BuiltInv
  <2>2. ASSUME NEW g \in 1..built
        PROVE  \/ g = current' \/ g \in retired'
               \/ \E b \in Actors : spare'[b] = g
               \/ closes'[g] = 1 /\ refs[g] = 0
    <3>1. CASE g = spare[a] \/ g = current
      BY <1>1, <3>1
    <3>2. CASE g # spare[a] /\ g # current
      <4>1. \A b \in Actors : spare[b] = g => spare'[b] = g
        BY <1>2, <3>2
      <4> QED
        BY <1>1, <1>6, <1>10, <3>2, <4>1 DEF BuiltInv
    <3> QED
      BY <3>1, <3>2
  <2> QED
    BY <1>1, <2>1, <2>2 DEF BuiltInv
<1>17. ClosedOnce'
  <2>1. ASSUME NEW g \in Gens PROVE CloseRule(g)'
    <3>1. CASE g = current
      BY <1>1, <1>3, <1>8, <1>10, <3>1 DEF CloseRule
    <3>2. CASE g # current
      BY <1>1, <1>3, <1>8, <1>10, <3>2 DEF CloseRule
    <3> QED
      BY <3>1, <3>2
  <2>2. \A g \in Gens : refs'[g] = Cardinality(Pinned(g)')
    BY <1>1, <1>8 DEF Pinned
  <2> QED
    BY <2>1, <2>2, ClosedOnceParts
<1>18. HistoryInv'
  BY <1>1, <1>2, <1>3, <1>4, <1>5 DEF HistoryInv, Busy
<1>19. AckedSurvives' /\ NoDanglingReference'
  BY <1>1, <1>3, <1>4 DEF AckedSurvives, NoDanglingReference
<1> QED
  BY <1>5, <1>11, <1>12, <1>13, <1>14, <1>15, <1>16, <1>17, <1>18, <1>19

(* The update is over: what is acknowledged is on disk, and a credential   *)
(* that is deleted again is one nothing refers to.                         *)
LEMMA CompensateKeeps ==
  ASSUME IInv, up, NEW a \in Actors, pc[a] \in {"published", "refused"}, Compensate(a),
         UNCHANGED <<journal, up, config, current>>
  PROVE  /\ live' \subseteq Secrets /\ spent' \subseteq Secrets
         /\ NoDanglingReference'
         /\ versions = Recovered
<1> USE DEF IInv
<1>1. live' \subseteq Secrets /\ spent' \subseteq Secrets
  BY DEF Compensate, TypeOK
<1>2. versions = Recovered /\ config[current] = CurrentConfig
  <2>1. \A b \in Actors : pc[b] # "written"
    BY DEF LockInv, Busy
  <2> QED
    BY <2>1 DEF HistoryInv
<1>3. Recovered' = Recovered /\ CurrentConfig = Last(Recovered).config
  BY <1>2, SameJournal DEF CurrentConfig
<1>4. CurrentConfig \subseteq live'
  <2>1. CurrentConfig \subseteq live
    BY <1>3 DEF NoDanglingReference
  <2>2. pc[a] = "refused" => made[a] \cap CurrentConfig = {}
    BY DEF MadeInv
  <2> QED
    BY <2>1, <2>2 DEF Compensate
<1> QED
  BY <1>1, <1>2, <1>3, <1>4 DEF NoDanglingReference

(* A handler answers, releases its generation and gives up the lock.       *)
LEMMA FinishStep ==
  ASSUME IInv, NEW a \in Actors, Finish(a)
  PROVE  IInv'
<1> USE DEF IInv
<1>1. /\ up /\ pc[a] \in {"published", "refused"}
      /\ acked' = IF pc[a] = "published"
                  THEN acked \cup {[revision |-> CurrentRevision, config |-> goal[a]]}
                  ELSE acked
      /\ Compensate(a)
      /\ Release(a)
      /\ pc' = [pc EXCEPT ![a] = "idle"]
      /\ base' = [base EXCEPT ![a] = 1]
      /\ seen' = [seen EXCEPT ![a] = <<{}, 0>>]
      /\ goal' = [goal EXCEPT ![a] = {}]
      /\ made' = [made EXCEPT ![a] = {}]
      /\ left' = [left EXCEPT ![a] = 0]
      /\ lock' = None
      /\ UNCHANGED <<journal, stamp, up, versions, closed, current, built, config, retired,
                     spare, crashes>>
  BY DEF Finish, Rest
<1>2. a \in Users /\ Actors \subseteq Users /\ Operations \subseteq Actors
  BY ConstantFacts
<1>3. /\ pin' \in [Users -> 0..MaxGen] /\ refs' \in [Gens -> Nat]
      /\ closes' \in [Gens -> Nat]
      /\ pin'[a] = 0 /\ \A v \in Users \ {a} : pin'[v] = pin[v]
      /\ \A v \in Users : pin'[v] <= built
      /\ ClosedOnce'
      /\ \A g \in Gens : g \in retired \/ closes'[g] = closes[g]
      /\ \A g \in Gens : refs[g] = 0 => refs'[g] = 0
  BY <1>1, <1>2, ReleaseFacts
<1>4. /\ CurrentRevision' = CurrentRevision /\ CurrentConfig' = CurrentConfig
      /\ Recovered' = Recovered
      /\ CurrentRevision \in 1..MaxRevision
  BY <1>1, SameVersion, SameJournal, HistoryFacts
<1>5. /\ live' \subseteq Secrets /\ spent' \subseteq Secrets
      /\ NoDanglingReference'
      /\ versions = Recovered
  BY <1>1, CompensateKeeps
<1>6. <<{}, 0>> \in Digest /\ {} \in Configs
  BY ConstantFacts DEF Digest, Configs
<1>7. /\ pc'[a] = "idle" /\ base'[a] = 1
      /\ \A b \in Actors \ {a} : /\ pc'[b] = pc[b] /\ base'[b] = base[b]
                                 /\ pc[b] \notin Busy
  BY <1>1 DEF TypeOK, LockInv, Busy
<1>8. TypeOK'
  <2>1. base' \in [Actors -> 1..MaxRevision] /\ left' \in [Actors -> Nat]
    BY <1>1, ConstantFacts DEF TypeOK
  <2>2. seen' \in [Actors -> Digest]
    BY <1>1, <1>6 DEF TypeOK
  <2>3. goal' \in [Actors -> Configs] /\ made' \in [Actors -> SUBSET Secrets]
    BY <1>1, <1>6 DEF TypeOK
  <2>4. pc' \in [Actors -> {"idle", "read", "working", "locked", "prepared", "written",
                            "published", "refused"}]
    BY <1>1 DEF TypeOK
  <2>5. acked' \subseteq Version
    <3>1. [revision |-> CurrentRevision, config |-> goal[a]] \in Version
      BY <1>4 DEF Version, TypeOK
    <3> QED
      BY <1>1, <3>1 DEF TypeOK
  <2> QED
    BY <1>1, <1>3, <1>5, <2>1, <2>2, <2>3, <2>4, <2>5 DEF TypeOK
<1>9. LockInv' /\ DownInv' /\ ClosedInv' /\ MadeInv'
  BY <1>1, <1>7, ConstantFacts DEF LockInv, DownInv, ClosedInv, MadeInv, Busy
<1>10. SpareInv'
  BY <1>1, <1>7 DEF SpareInv, Ready, Busy
<1>11. PinInv'
  BY <1>1, <1>2, <1>3, <1>4, <1>7 DEF PinInv
<1>12. BaseInv'
  BY <1>4, <1>7 DEF BaseInv, Ready, Busy
<1>13. BuiltInv'
  <2>1. built \in Gens /\ 1..built \subseteq Gens
    BY ConstantFacts DEF TypeOK
  <2> QED
    BY <1>1, <1>3, <2>1 DEF BuiltInv
<1>14. HistoryInv'
  BY <1>1, <1>4, <1>5, <1>7 DEF HistoryInv, Busy
<1>15. AckedSurvives'
  <2>1. CASE pc[a] # "published"
    BY <1>1, <1>4, <2>1 DEF AckedSurvives
  <2>2. CASE pc[a] = "published"
    <3> DEFINE v == [revision |-> CurrentRevision, config |-> goal[a]]
    <3>1. CurrentConfig = goal[a] /\ Last(versions) \in Version
      BY <2>2, HistoryFacts DEF HistoryInv
    <3>2. Last(Recovered) = v
      BY <1>5, <3>1 DEF CurrentRevision, CurrentConfig, Version
    <3>3. \E i \in DOMAIN Recovered : Recovered[i] = v
      BY <3>2, HistoryFacts DEF Last
    <3> QED
      BY <1>1, <1>4, <2>2, <3>3 DEF AckedSurvives
  <2> QED
    BY <2>1, <2>2
<1> QED
  BY <1>3, <1>5, <1>8, <1>9, <1>10, <1>11, <1>12, <1>13, <1>14, <1>15
(* A batch goes on to its next site.                                       *)
LEMMA FinishSiteStep ==
  ASSUME IInv, NEW b \in Actors, FinishSite(b)
  PROVE  IInv'
<1> USE DEF IInv
<1>1. /\ up /\ b \in Batches /\ pc[b] \in {"published", "refused"}
      /\ Compensate(b)
      /\ pc' = [pc EXCEPT ![b] = "working"]
      /\ base' = base \/ base' = [base EXCEPT ![b] = CurrentRevision]
      /\ seen' = seen \/ seen' = [seen EXCEPT ![b] = VaultDigest]
      /\ goal' = [goal EXCEPT ![b] = {}]
      /\ made' = [made EXCEPT ![b] = {}]
      /\ lock' = None
      /\ UNCHANGED <<journal, stamp, up, versions, closed, current, built, config, retired,
                     closes, refs, pin, spare, left, crashes, acked>>
  BY DEF FinishSite, plane, history
<1>2. /\ CurrentRevision' = CurrentRevision /\ CurrentConfig' = CurrentConfig
      /\ Recovered' = Recovered
      /\ CurrentRevision \in 1..MaxRevision
  BY <1>1, SameVersion, SameJournal, HistoryFacts
<1>3. /\ live' \subseteq Secrets /\ spent' \subseteq Secrets
      /\ NoDanglingReference'
      /\ versions = Recovered
  BY <1>1, CompensateKeeps
<1>4. /\ pc'[b] = "working" /\ base'[b] <= CurrentRevision /\ b \notin Operations
      /\ \A a \in Actors \ {b} : /\ pc'[a] = pc[a] /\ base'[a] = base[a]
                                 /\ pc[a] \notin Busy
  <2>1. base'[b] <= CurrentRevision
    BY <1>1, <1>2 DEF TypeOK, BaseInv
  <2> QED
    BY <1>1, <2>1, ConstantsAssumption DEF TypeOK, LockInv, Busy
<1>5. TypeOK'
  <2>1. base' \in [Actors -> 1..MaxRevision]
    BY <1>1, <1>2 DEF TypeOK
  <2>2. VaultDigest \in Digest
    BY DEF VaultDigest, Digest, Configs, TypeOK
  <2>3. seen' \in [Actors -> Digest]
    BY <1>1, <2>2 DEF TypeOK
  <2>4. goal' \in [Actors -> Configs] /\ made' \in [Actors -> SUBSET Secrets]
    BY <1>1 DEF TypeOK, Configs
  <2>5. pc' \in [Actors -> {"idle", "read", "working", "locked", "prepared", "written",
                            "published", "refused"}]
    BY <1>1 DEF TypeOK
  <2> QED
    BY <1>1, <1>3, <2>1, <2>3, <2>4, <2>5 DEF TypeOK
<1>6. LockInv' /\ DownInv' /\ ClosedInv' /\ MadeInv'
  BY <1>1, <1>4, ConstantFacts DEF LockInv, DownInv, ClosedInv, MadeInv, Busy
<1>7. SpareInv'
  BY <1>1, <1>4 DEF SpareInv, Ready, Busy
<1>8. PinInv'
  BY <1>1, <1>2, <1>4, ConstantFacts DEF PinInv
<1>9. BaseInv'
  BY <1>2, <1>4 DEF BaseInv, Ready, Busy
<1>10. BuiltInv' /\ ClosedOnce'
  BY <1>1 DEF BuiltInv, ClosedOnce
<1>11. HistoryInv' /\ AckedSurvives'
  BY <1>1, <1>2, <1>3, <1>4 DEF HistoryInv, AckedSurvives, Busy
<1> QED
  BY <1>3, <1>5, <1>6, <1>7, <1>8, <1>9, <1>10, <1>11

-----------------------------------------------------------------------------
(* Shutdown, crash and restart                                             *)

(* ControlPlane.Close retires the current generation.                      *)
LEMMA CloseStep ==
  ASSUME IInv, Close
  PROVE  IInv'
<1> USE DEF IInv
<1>1. /\ up /\ lock = None /\ ~closed /\ closed' = TRUE
      /\ retired' = retired \cup {current}
      /\ closes' = [g \in Gens |-> IF g \in RetiredIdle THEN closes[g] + 1 ELSE closes[g]]
      /\ UNCHANGED <<journal, live, spent, stamp, up, versions, lock, current, built, config,
                     refs, pin, pc, base, seen, goal, made, spare, left, crashes, acked>>
  BY DEF Close, Closing, vault, actor, history
<1>2. /\ CurrentRevision' = CurrentRevision /\ CurrentConfig' = CurrentConfig
      /\ Recovered' = Recovered
  BY <1>1, SameVersion, SameJournal
<1>3. \A a \in Actors : pc[a] \notin Busy /\ spare[a] = 0
  BY <1>1, ConstantFacts DEF LockInv, SpareInv, Busy, Ready
<1>4. current \in Gens /\ built \in Gens /\ 1..built \subseteq Gens /\ current <= built
  BY ConstantFacts DEF TypeOK, BuiltInv
<1>5. \A g \in Gens : /\ refs[g] = Cardinality(Pinned(g)) /\ CloseRule(g)
                      /\ refs[g] \in Nat /\ closes[g] \in Nat
  BY ClosedOnceParts DEF TypeOK
<1>6. /\ closes[current] = 0 /\ current \notin retired
      /\ closes'[current] = IF refs[current] = 0 THEN 1 ELSE 0
      /\ \A g \in Gens : g # current => closes'[g] = closes[g]
  BY <1>1, <1>4, <1>5 DEF CloseRule, RetiredIdle
<1>7. TypeOK'
  <2>1. closes' \in [Gens -> Nat]
    BY <1>1, <1>5
  <2> QED
    BY <1>1, <2>1 DEF TypeOK
<1>8. LockInv' /\ DownInv' /\ SpareInv' /\ PinInv' /\ BaseInv' /\ ClosedInv' /\ MadeInv'
  BY <1>1, <1>2, <1>3 DEF LockInv, DownInv, SpareInv, PinInv, BaseInv, ClosedInv, MadeInv,
       Busy, Ready
<1>9. BuiltInv'
  <2>1. \A g \in Gens : g > built => g \notin retired' /\ closes'[g] = 0
    BY <1>1, <1>4, <1>6, ConstantFacts DEF BuiltInv
  <2>2. \A g \in 1..built : g # current => closes'[g] = closes[g]
    BY <1>4, <1>6
  <2> QED
    BY <1>1, <2>1, <2>2 DEF BuiltInv
<1>10. ClosedOnce'
  <2>1. ASSUME NEW g \in Gens PROVE CloseRule(g)'
    <3>1. CASE g = current
      BY <1>1, <1>5, <1>6, <3>1 DEF CloseRule
    <3>2. CASE g # current
      BY <1>1, <1>5, <1>6, <3>2 DEF CloseRule
    <3> QED
      BY <3>1, <3>2
  <2>2. \A g \in Gens : refs'[g] = Cardinality(Pinned(g)')
    BY <1>1, <1>5 DEF Pinned
  <2> QED
    BY <2>1, <2>2, ClosedOnceParts
<1>11. HistoryInv' /\ AckedSurvives' /\ NoDanglingReference'
  BY <1>1, <1>2 DEF HistoryInv, AckedSurvives, NoDanglingReference, NextVersion
<1> QED
  BY <1>7, <1>8, <1>9, <1>10, <1>11

(* A crash loses all but the files and what clients were told.             *)
LEMMA CrashStep ==
  ASSUME IInv, Crash
  PROVE  IInv'
<1> USE DEF IInv
<1>1. journal' = journal /\ live' = live /\ spent' = spent /\ stamp' = stamp
      /\ acked' = acked /\ up' = FALSE
  BY DEF Crash, vault
<1>2. Recovered' = Recovered
  BY <1>1, SameJournal
<1>3. TypeOK'
  <2>1. versions' \in Seq(Version) \ {<<>>}
    <3>1. [revision |-> 1, config |-> {}] \in Version
      BY ConstantFacts DEF Version, Configs
    <3> QED
      BY <3>1 DEF Initial, Crash
  <2>2. <<{}, 0>> \in Digest
    BY ConstantFacts DEF Digest, Configs
  <2>3. /\ config' \in [Gens -> Configs] /\ refs' \in [Gens -> Nat]
        /\ closes' \in [Gens -> Nat]
        /\ pin' \in [Users -> 0..MaxGen] /\ spare' \in [Actors -> 0..MaxGen]
        /\ left' \in [Actors -> Nat] /\ base' \in [Actors -> 1..MaxRevision]
    BY ConstantFacts DEF Configs, Crash
  <2>4. /\ pc' \in [Actors -> {"idle", "read", "working", "locked", "prepared", "written",
                               "published", "refused"}]
        /\ seen' \in [Actors -> Digest]
        /\ goal' \in [Actors -> Configs] /\ made' \in [Actors -> SUBSET Secrets]
    BY <2>2 DEF Configs, Crash
  <2>5. crashes' \in 0..MaxCrashes
    BY ConstantFacts DEF Crash, TypeOK
  <2>6. /\ current' \in Gens /\ built' \in Gens /\ retired' \subseteq Gens
        /\ lock' \in Actors \cup {None} /\ closed' \in BOOLEAN
    BY ConstantFacts DEF Crash
  <2> QED
    BY <1>1, <2>1, <2>3, <2>4, <2>5, <2>6 DEF TypeOK
<1>4. CurrentRevision' = 1 /\ CurrentConfig' = {}
  <2>1. versions' = <<[revision |-> 1, config |-> {}]>>
    BY DEF Crash, Initial
  <2> QED
    BY <2>1 DEF CurrentRevision, CurrentConfig, Last
<1>5. /\ lock' = None /\ current' = 1 /\ built' = 1 /\ retired' = {} /\ closed' = FALSE
      /\ \A u \in Users : pin'[u] = 0
      /\ \A g \in Gens : refs'[g] = 0 /\ closes'[g] = 0
      /\ \A a \in Actors : pc'[a] = "idle" /\ spare'[a] = 0 /\ base'[a] = 1 /\ pin'[a] = 0
  BY ConstantFacts DEF Crash
<1>6. LockInv' /\ DownInv' /\ SpareInv' /\ ClosedInv' /\ MadeInv' /\ BaseInv'
  BY <1>4, <1>5, ConstantFacts DEF LockInv, DownInv, SpareInv, ClosedInv, MadeInv, BaseInv,
       Busy, Ready
<1>7. PinInv'
  BY <1>5, ConstantFacts DEF PinInv
<1>8. BuiltInv'
  BY <1>5, ConstantFacts DEF BuiltInv
<1>9. ClosedOnce'
  <2>1. ASSUME NEW g \in Gens PROVE Pinned(g)' = {}
    BY <1>5, ConstantFacts DEF Pinned
  <2>2. \A g \in Gens : refs'[g] = Cardinality(Pinned(g)')
    BY <1>5, <2>1, FS_EmptySet
  <2>3. \A g \in Gens : CloseRule(g)'
    BY <1>5 DEF CloseRule
  <2> QED
    BY <2>2, <2>3, ClosedOnceParts
<1>10. HistoryInv'
  BY <1>1, <1>2, <1>5 DEF HistoryInv
<1>11. AckedSurvives' /\ NoDanglingReference'
  BY <1>1, <1>2 DEF AckedSurvives, NoDanglingReference
<1> QED
  BY <1>3, <1>6, <1>7, <1>8, <1>9, <1>10, <1>11

(* NewControlPlane starts from the newest version on disk.                 *)
LEMMA RestartStep ==
  ASSUME IInv, Restart
  PROVE  IInv'
<1> USE DEF IInv
<1>1. /\ ~up /\ up' = TRUE /\ versions' = Recovered
      /\ Last(Recovered).config \subseteq live
      /\ config' = [config EXCEPT ![1] = Last(Recovered).config]
      /\ UNCHANGED <<journal, live, spent, stamp, lock, closed, current, built, retired,
                     closes, refs, pin, pc, base, seen, goal, made, spare, left, crashes,
                     acked>>
  BY DEF Restart, BindingsExist, vault, actor, history
<1>2. Recovered' = Recovered
  BY <1>1, SameJournal
<1>3. /\ Last(Recovered) \in Version
      /\ Recovered \in Seq(Version) /\ Recovered # <<>>
  <2>1. Len(Recovered) \in Nat \ {0} /\ Recovered \in Seq(Version)
    BY HistoryFacts
  <2> QED
    BY <2>1, HistoryFacts, EmptySeq
<1>4. /\ CurrentConfig' = Last(Recovered).config /\ CurrentRevision' \in 1..MaxRevision
      /\ Last(Recovered).config \in Configs
  BY <1>1, <1>3 DEF CurrentConfig, CurrentRevision, Version
<1>5. current = 1 /\ lock = None /\ \A a \in Actors : pc[a] = "idle"
  BY <1>1 DEF DownInv
<1>6. config' \in [Gens -> Configs] /\ config'[current] = CurrentConfig'
  BY <1>1, <1>4, <1>5, ConstantFacts DEF TypeOK
<1>7. TypeOK'
  BY <1>1, <1>3, <1>6 DEF TypeOK
<1>8. /\ LockInv' /\ DownInv' /\ ClosedInv' /\ MadeInv' /\ SpareInv'
  BY <1>1, <1>5 DEF LockInv, DownInv, ClosedInv, MadeInv, SpareInv, Busy, Ready
<1>9. PinInv'
  BY <1>1, <1>5, ConstantFacts DEF PinInv
<1>10. BaseInv'
  BY <1>1, <1>4, <1>5, ConstantFacts DEF BaseInv, Ready
<1>11. BuiltInv' /\ ClosedOnce'
  BY <1>1 DEF BuiltInv, ClosedOnce
<1>12. HistoryInv'
  BY <1>1, <1>2, <1>5, <1>6 DEF HistoryInv
<1>13. AckedSurvives' /\ NoDanglingReference'
  BY <1>1, <1>2, <1>4, <1>6 DEF AckedSurvives, NoDanglingReference
<1> QED
  BY <1>7, <1>8, <1>9, <1>10, <1>11, <1>12, <1>13
-----------------------------------------------------------------------------
(* Theorems                                                                *)

(* Every step preserves the invariant.                                     *)
LEMMA NextInv == IInv /\ [Next]_vars => IInv'
<1> SUFFICES ASSUME IInv, [Next]_vars PROVE IInv'
  OBVIOUS
<1>1. ASSUME NEW c \in Traffic, Arrive(c) \/ Leave(c) PROVE IInv'
  BY <1>1, ArriveStep, LeaveStep
<1>2. ASSUME NEW e \in Editors, EditorStep(e) PROVE IInv'
  BY <1>2, ReadStep, EditStep, RollbackStep, SetMaterialStep DEF EditorStep
<1>3. ASSUME NEW o \in Operations \cup Batches, OperationStep(o) PROVE IInv'
  <2>1. CASE o \in Operations /\ StartOperation(o)
    BY <2>1, StartOperationStep
  <2>2. CASE o \in Batches /\ StartBatch(o)
    BY <2>2, StartBatchStep
  <2>3. ASSUME NEW cf \in Configs, NEW new \in {{}} \cup {{k} : k \in Secrets},
               CommitOperation(o, cf, new)
        PROVE  IInv'
    BY <2>3, CommitOperationStep
  <2>4. CASE EndOperation(o) \/ \E k \in Secrets : CommitImport(o, k)
    BY <2>4, EndOperationStep
  <2> QED
    BY <1>3, <2>1, <2>2, <2>3, <2>4 DEF OperationStep
<1>4. ASSUME NEW a \in Actors, ApplyStep(a) PROVE IInv'
  BY <1>4, PrepareStep, RefuseStep, PersistStep, PersistFailsStep, PublishStep, FinishStep,
     FinishSiteStep DEF ApplyStep
<1>5. CASE VaultStep
  BY <1>5, VaultSteps
<1>6. CASE Close
  BY <1>6, CloseStep
<1>7. CASE Crash
  BY <1>7, CrashStep
<1>8. CASE Restart
  BY <1>8, RestartStep
<1>9. CASE UNCHANGED vars
  <2>1. UNCHANGED <<journal, live, spent, stamp, up, versions, lock, closed, current, built,
                    config, retired, closes, refs, pin, pc, base, seen, goal, made, spare, left,
                    crashes, acked>>
    BY <1>9 DEF vars, vault, plane, actor, history
  <2>2. /\ CurrentRevision' = CurrentRevision /\ CurrentConfig' = CurrentConfig
        /\ Recovered' = Recovered
    BY <2>1, SameVersion, SameJournal
  <2>3. TypeOK'
    BY <2>1 DEF IInv, TypeOK
  <2>4. ClosedOnce' /\ BuiltInv'
    BY <2>1 DEF IInv, ClosedOnce, BuiltInv
  <2>5. LockInv' /\ DownInv' /\ SpareInv'
    BY <2>1 DEF IInv, LockInv, DownInv, SpareInv
  <2>6. /\ PinInv' /\ BaseInv' /\ ClosedInv' /\ MadeInv' /\ HistoryInv' /\ AckedSurvives'
        /\ NoDanglingReference'
    BY <2>1, <2>2 DEF IInv, PinInv, BaseInv, ClosedInv, MadeInv, HistoryInv, AckedSurvives,
         NoDanglingReference, NextVersion
  <2> QED
    BY <2>3, <2>4, <2>5, <2>6 DEF IInv
<1> QED
  BY <1>1, <1>2, <1>3, <1>4, <1>5, <1>6, <1>7, <1>8, <1>9 DEF Next

(* The invariant holds in every reachable state.                           *)
LEMMA Invariance == Spec => []IInv
<1>1. Init => IInv
  BY InitInv
<1>2. IInv /\ [Next]_vars => IInv'
  BY NextInv
<1> QED
  BY <1>1, <1>2, PTL DEF Spec

(* A generation counts its users exactly, its server is closed once, after *)
(* it was retired and its last user left, and no update that fails leaves  *)
(* one open (ControlPlane.acquire, release, prepare), for any number of    *)
(* requests, editors, operations and batches.                              *)
THEOREM GenerationsAreClosed == Spec => []GenerationLifecycle
<1>1. IInv => GenerationLifecycle
  <2> SUFFICES ASSUME IInv PROVE NoLeakedGeneration
    BY DEF IInv, GenerationLifecycle
  <2>1. built \in Gens /\ 1..built \subseteq Gens
    BY ConstantFacts DEF IInv, TypeOK
  <2>2. ASSUME NEW g \in 1..built, g \in retired PROVE closes[g] = 1 \/ refs[g] > 0
    <3>1. g \in Gens /\ refs[g] \in Nat
      BY <2>1 DEF IInv, TypeOK
    <3>2. closes[g] = IF refs[g] = 0 THEN 1 ELSE 0
      BY <2>2, <3>1 DEF IInv, ClosedOnce
    <3> QED
      BY <3>1, <3>2
  <2> QED
    BY <2>2 DEF NoLeakedGeneration, IInv, BuiltInv
<1> QED
  BY <1>1, Invariance, PTL

(* What the newest configuration on disk, and the one being served, refer  *)
(* to is in the vault: the reference check of a delete, the credential of  *)
(* an update that fails, and a crash between any two steps of an update    *)
(* leave nothing dangling.                                                 *)
THEOREM ReferencesResolve == Spec => []NoDanglingReference
<1>1. IInv => NoDanglingReference
  BY DEF IInv
<1> QED
  BY <1>1, Invariance, PTL

(* Only the last step of an update publishes.                              *)
LEMMA OnlyPublish ==
  ASSUME IInv, [Next]_vars, NEW a \in Actors, pc[a] = "written", pc'[a] = "published"
  PROVE  Publish(a)
<1> USE DEF IInv
<1>1. pc' # pc
  OBVIOUS
<1>2. lock = a /\ lock # None /\ \A b \in Actors \ {a} : pc[b] \notin Busy
  BY ConstantFacts DEF LockInv, Busy
<1>3. ASSUME NEW b \in Actors, NEW p, p # "published", pc' = [pc EXCEPT ![b] = p]
      PROVE  FALSE
  BY <1>3 DEF TypeOK
<1>4. ASSUME NEW c \in Traffic, Arrive(c) \/ Leave(c) PROVE FALSE
  BY <1>1, <1>4 DEF Arrive, Leave, actor
<1>5. ASSUME NEW e \in Editors, EditorStep(e) PROVE FALSE
  <2>1. e \in Actors
    BY ConstantFacts
  <2> QED
    BY <1>2, <1>3, <1>5, <2>1 DEF EditorStep, Read, Edit, Rollback, SetMaterial, Begin
<1>6. ASSUME NEW o \in Operations \cup Batches, OperationStep(o) PROVE FALSE
  <2>1. o \in Actors
    BY ConstantFacts
  <2> QED
    BY <1>2, <1>3, <1>6, <2>1 DEF OperationStep, StartOperation, StartBatch, CommitOperation,
         CommitImport, EndOperation, Begin, Rest
<1>7. ASSUME NEW b \in Actors, ApplyStep(b) PROVE Publish(a)
  <2>1. CASE Publish(b)
    <3>1. b = a
      BY <1>2, <2>1 DEF Publish, Busy
    <3> QED
      BY <2>1, <3>1
  <2>2. CASE Prepare(b) \/ Refuse(b) \/ Persist(b) \/ PersistFails(b)
    BY <1>3, <2>2 DEF Prepare, Refuse, Persist, Write, PersistFails
  <2>3. CASE Finish(b) \/ FinishSite(b)
    BY <1>3, <2>3 DEF Finish, FinishSite, Rest
  <2> QED
    BY <1>7, <2>1, <2>2, <2>3 DEF ApplyStep
<1>8. ASSUME VaultStep PROVE FALSE
  BY <1>1, <1>8 DEF VaultStep, RefreshToken, PutCredential, DeleteCredential, actor
<1>9. ASSUME Close \/ Crash \/ Restart \/ UNCHANGED vars PROVE FALSE
  BY <1>1, <1>9 DEF Close, Crash, Restart, vars, actor
<1> QED
  BY <1>4, <1>5, <1>6, <1>7, <1>8, <1>9 DEF Next

(* An update replaces exactly the version that its author had seen: a      *)
(* stale editor or operation publishes nothing, however the updates,       *)
(* crashes and restarts interleave (Service.preview, operationVersion).    *)
THEOREM StaleUpdatesAreRefused == Spec => NoStaleCommit
<1>1. ASSUME IInv, [Next]_vars, NEW a \in Actors, pc[a] = "written", pc'[a] = "published"
      PROVE  CurrentRevision = base[a] /\ Last(versions').revision = base[a] + 1
  <2>1. base[a] = CurrentRevision /\ CurrentRevision' = CurrentRevision + 1
    BY <1>1, OnlyPublish, PublishStep
  <2> QED
    BY <2>1 DEF CurrentRevision
<1>2. IInv /\ [Next]_vars
      => [\A a \in Actors :
            (pc[a] = "written" /\ pc'[a] = "published")
              => /\ CurrentRevision = base[a]
                 /\ Last(versions').revision = base[a] + 1]_vars
  BY <1>1
<1> QED
  BY <1>2, Invariance, PTL DEF Spec, NoStaleCommit

(* Only Persist writes the file.                                           *)
LEMMA OnlyPersist ==
  ASSUME [Next]_vars, journal' # journal
  PROVE  \E a \in Actors : Persist(a)
<1>1. ASSUME NEW c \in Traffic, Arrive(c) \/ Leave(c) PROVE FALSE
  BY <1>1 DEF Arrive, Leave
<1>2. ASSUME NEW e \in Editors, EditorStep(e) PROVE FALSE
  BY <1>2 DEF EditorStep, Read, Edit, Rollback, SetMaterial, Begin
<1>3. ASSUME NEW o \in Operations \cup Batches, OperationStep(o) PROVE FALSE
  BY <1>3 DEF OperationStep, StartOperation, StartBatch, CommitOperation, CommitImport,
       EndOperation, Begin
<1>4. ASSUME NEW b \in Actors, ApplyStep(b) PROVE Persist(b)
  BY <1>4 DEF ApplyStep, Prepare, Refuse, PersistFails, Publish, Finish, FinishSite
<1>5. ASSUME VaultStep \/ Close \/ Crash \/ Restart \/ UNCHANGED vars PROVE FALSE
  BY <1>5 DEF VaultStep, RefreshToken, PutCredential, DeleteCredential, Close, Crash, Restart,
       vars
<1> QED
  BY <1>1, <1>2, <1>3, <1>4, <1>5 DEF Next

(* What is served or acknowledged is what a restart finds, whatever step a *)
(* crash comes after, and the journal only gains the next revision and     *)
(* loses its oldest ones (Service.apply, atomicWrite, OpenService).        *)
THEOREM HistoryIsDurable == Spec => DurableHistory
<1>1. ASSUME IInv PROVE PublishedIsDurable /\ AckedSurvives
  <2>1. ASSUME up, NEW a \in Actors, pc[a] = "written"
        PROVE  lock = a /\ Last(Recovered).revision = CurrentRevision + 1
    BY <1>1, <2>1 DEF IInv, LockInv, HistoryInv, Busy, Recovered, NextVersion
  <2> QED
    BY <1>1, <2>1 DEF IInv, HistoryInv, PublishedIsDurable
<1>2. ASSUME IInv, [Next]_vars, journal' # journal
      PROVE  /\ Last(journal').revision = Last(Recovered).revision + 1
             /\ \A i \in 1..(Len(journal') - 1) :
                  \E j \in DOMAIN Recovered : Recovered[j] = journal'[i]
  <2>1. PICK a \in Actors : Persist(a)
    BY <1>2, OnlyPersist
  <2>2. versions = Recovered
    BY <1>2, <2>1, PersistStep
  <2>3. PICK n \in 1..(Len(versions) + 1) : journal' = Kept(a, n)
    BY <1>2, <2>1, PersistStep
  <2>4. TypeOK /\ CurrentRevision < MaxRevision
    BY <1>2, <2>1 DEF IInv, BaseInv, Ready, Persist
  <2>5. /\ Len(journal') = n /\ journal'[n] = NextVersion(a)
        /\ \A i \in 1..(n - 1) :
             /\ Len(versions) - n + 1 + i \in 1..Len(versions)
             /\ journal'[i] = versions[Len(versions) - n + 1 + i]
    BY <2>3, <2>4, KeptFacts
  <2>6. DOMAIN Recovered = 1..Len(versions)
    BY <2>2, <2>4, HistoryFacts
  <2>7. Last(journal').revision = CurrentRevision + 1
    BY <2>5 DEF Last, NextVersion
  <2> QED
    BY <2>2, <2>5, <2>6, <2>7 DEF CurrentRevision
<1>3. IInv => PublishedIsDurable /\ AckedSurvives
  BY <1>1
<1>4. IInv /\ [Next]_vars
      => [journal' # journal =>
            /\ Last(journal').revision = Last(Recovered).revision + 1
            /\ \A i \in 1..(Len(journal') - 1) :
                 \E j \in DOMAIN Recovered : Recovered[j] = journal'[i]]_vars
  BY <1>2
<1> QED
  BY <1>3, <1>4, Invariance, PTL DEF Spec, DurableHistory, HistoryAppendOnly

=============================================================================
