---------------------------- MODULE TrafficProofs ----------------------------
(***************************************************************************)
(* Proofs about the algorithms a request meets, for any number of targets, *)
(* accounts, choices and leases, any size of the reader's buffer and of    *)
(* the ring: the records are true and the ring implements EventLog, the    *)
(* best target is chosen and the shares are fair, the frames are the       *)
(* events of the stream, and the verdict on it is right.                   *)
(***************************************************************************)
EXTENDS Traffic, FiniteSetTheorems, SequenceTheorems, WellFoundedInduction, TLAPS
-----------------------------------------------------------------------------
(* The ring                                                                *)

(* The remainder of a number that goes around the ring at most once.       *)
LEMMA Around ==
  ASSUME NEW n \in Nat, n > 0, NEW a \in Nat, a < n + n
  PROVE  a % n = IF a < n THEN a ELSE a - n
OBVIOUS

(* The place after the last one of the ring is the first.                  *)
LEMMA Places ==
  ASSUME NEW n \in Nat, n > 0, NEW c \in 0..(n - 1)
  PROVE  /\ (c + 1) % n \in 0..(n - 1)
         /\ (((c + 1) % n) + n - 1) % n = c
         /\ \A i \in 1..n : (c + i - 1) % n \in 0..(n - 1)
         /\ \A i \in 1..(n - 1) : /\ (((c + 1) % n) + i - 1) % n = (c + (i + 1) - 1) % n
                                  /\ (c + (i + 1) - 1) % n # c
<1> DEFINE m(a) == IF a < n THEN a ELSE a - n
<1>1. \A a \in Nat : a < n + n => a % n = m(a)
  BY Around
<1>2. (c + 1) % n = m(c + 1) /\ m(c + 1) \in 0..(n - 1)
  BY <1>1
<1>3. (m(c + 1) + n - 1) % n = m(m(c + 1) + n - 1) /\ m(m(c + 1) + n - 1) = c
  BY <1>1, <1>2
<1>4. \A i \in 1..n : (c + i - 1) % n = m(c + i - 1) /\ m(c + i - 1) \in 0..(n - 1)
  BY <1>1
<1>5. \A i \in 1..(n - 1) : /\ (m(c + 1) + i - 1) % n = m(m(c + 1) + i - 1)
                            /\ (c + (i + 1) - 1) % n = m(c + (i + 1) - 1)
                            /\ m(m(c + 1) + i - 1) = m(c + (i + 1) - 1)
                            /\ m(c + (i + 1) - 1) # c
  BY <1>1, <1>2
<1> HIDE DEF m
<1> QED
  BY <1>2, <1>3, <1>4, <1>5

(* A ring that has not gone around is read from its first place.           *)
LEMMA FromStart ==
  ASSUME NEW S, NEW q \in Seq(S)
  PROVE  [i \in DOMAIN q |-> q[((0 + i - 1) % Len(q)) + 1]] = q
<1>1. PICK n \in Nat : n = Len(q) /\ DOMAIN q = 1..n
  BY LenProperties
<1>2. ASSUME NEW i \in 1..n PROVE q[((0 + i - 1) % n) + 1] = q[i]
  <2>1. (0 + i - 1) % n = i - 1
    <3>1. n > 0 /\ 0 + i - 1 \in Nat /\ 0 + i - 1 < n /\ 0 + i - 1 = i - 1
      OBVIOUS
    <3> QED
      BY <3>1, Around
  <2> QED
    BY <2>1
<1>3. q = [i \in 1..n |-> q[i]]
  BY <1>1
<1> QED
  BY <1>1, <1>2, <1>3

\* The ring's places.  A ring that is not full begins at its first place.
RingInv ==
    /\ events \in Seq(AnyEvent) /\ Len(events) <= Size
    /\ cursor \in 0..(Size - 1)
    /\ Len(events) < Size => cursor = 0

(* What recordEvent makes of the ring is what Add makes of the queue.      *)
LEMMA RingStep ==
  ASSUME LogAssumption, RingInv, NEW e \in AnyEvent, Push(e)
  PROVE  RingInv' /\ ExecutionEvents' = Log!Latest(Append(ExecutionEvents, e))
<1>1. PICK n \in Nat : n = Len(events) /\ DOMAIN events = 1..n
  BY LenProperties DEF RingInv
<1>2. Size \in Nat /\ Size > 0 /\ events \in Seq(AnyEvent) /\ cursor \in 0..(Size - 1)
  BY DEF RingInv, LogAssumption
<1>3. CASE n < Size
  <2>1. cursor = 0 /\ cursor' = 0 /\ events' = Append(events, e)
    BY <1>1, <1>3 DEF RingInv, Push
  <2>2. events' \in Seq(AnyEvent) /\ Len(events') = n + 1
    BY <1>1, <1>2, <2>1
  <2>3. ExecutionEvents = events /\ ExecutionEvents' = events'
    BY <1>2, <2>1, <2>2, FromStart DEF ExecutionEvents
  <2>4. Log!Latest(events') = events'
    BY <1>2, <1>3, <2>2 DEF Log!Latest
  <2>5. RingInv'
    BY <1>2, <1>3, <2>1, <2>2 DEF RingInv
  <2> QED
    BY <2>1, <2>3, <2>4, <2>5
<1>4. CASE n >= Size
  <2>1. /\ n = Size /\ n > 0 /\ cursor \in 0..(n - 1)
        /\ events' = [events EXCEPT ![cursor + 1] = e] /\ cursor' = (cursor + 1) % n
    BY <1>1, <1>2, <1>4 DEF RingInv, Push, NextOldest
  <2>2. \A i \in 1..n : events[i] \in AnyEvent
    BY <1>1, <1>2, ElementOfSeq
  <2>3. /\ events' \in [1..n -> AnyEvent] /\ DOMAIN events' = 1..n
        /\ cursor + 1 \in 1..n
        /\ \A i \in 1..n : events'[i] = IF i = cursor + 1 THEN e ELSE events[i]
    <3>1. events \in [1..n -> AnyEvent]
      BY <1>1, <1>2, <2>2, SeqDef
    <3>2. cursor + 1 \in 1..n
      BY <2>1
    <3> QED
      BY <2>1, <3>1, <3>2
  <2>4. events' \in Seq(AnyEvent) /\ Len(events') = n
    BY <2>3
  <2>5. PICK E \in Seq(AnyEvent) :
          /\ E = ExecutionEvents /\ Len(E) = n
          /\ \A i \in 1..n : E[i] = events[((cursor + i - 1) % n) + 1]
    <3>1. \A i \in 1..n : (cursor + i - 1) % n \in 0..(n - 1)
      BY <2>1, Places
    <3>2. ExecutionEvents = [i \in 1..n |-> events[((cursor + i - 1) % n) + 1]]
      BY <1>1 DEF ExecutionEvents
    <3>3. ExecutionEvents \in [1..n -> AnyEvent]
      BY <2>2, <3>1, <3>2
    <3> QED
      BY <3>2, <3>3, SMTT(30)
  <2>6. ExecutionEvents' = [i \in 1..n |-> events'[((cursor' + i - 1) % n) + 1]]
    BY <2>3, <2>4 DEF ExecutionEvents
  <2>7. /\ Append(E, e) \in Seq(AnyEvent) /\ Len(Append(E, e)) = n + 1
        /\ \A i \in 1..n : Append(E, e)[i] = E[i]
        /\ Append(E, e)[n + 1] = e
    BY <2>5
  <2>8. Log!Latest(Append(E, e)) = SubSeq(Append(E, e), 2, n + 1)
    BY <2>1, <2>7 DEF Log!Latest
  <2>9. SubSeq(Append(E, e), 2, n + 1) = [i \in 1..n |-> Append(E, e)[i + 1]]
    <3>1. PICK A \in Seq(AnyEvent) : A = Append(E, e)
      BY <2>7
    <3>2. Len(A) = n + 1 /\ \A i \in 2..(n + 1) : A[i] \in AnyEvent
      BY <2>7, <3>1, ElementOfSeq
    <3>3. /\ SubSeq(A, 2, n + 1) \in Seq(AnyEvent)
          /\ Len(SubSeq(A, 2, n + 1)) = IF 2 <= n + 1 THEN (n + 1) - 2 + 1 ELSE 0
          /\ \A i \in 1..((n + 1) - 2 + 1) : SubSeq(A, 2, n + 1)[i] = A[2 + i - 1]
      BY <2>1, <3>2, SubSeqProperties
    <3>4. PICK B \in Seq(AnyEvent) : B = SubSeq(A, 2, n + 1)
      BY <3>3
    <3>5. Len(B) = n /\ \A i \in 1..n : B[i] = A[i + 1]
      BY <2>1, <3>3, <3>4
    <3>6. B = [i \in 1..n |-> B[i]]
      BY <3>5, LenProperties
    <3> QED
      BY <3>1, <3>4, <3>5, <3>6
  <2>10. ASSUME NEW i \in 1..n
         PROVE  events'[((cursor' + i - 1) % n) + 1] = Append(E, e)[i + 1]
    <3>1. CASE i = n
      <4>1. (cursor' + n - 1) % n = cursor
        BY <2>1, Places
      <4> QED
        BY <2>3, <2>7, <3>1, <4>1
    <3>2. CASE i \in 1..(n - 1)
      <4>1. /\ (cursor' + i - 1) % n = (cursor + (i + 1) - 1) % n
            /\ (cursor + (i + 1) - 1) % n # cursor
        BY <2>1, <3>2, Places
      <4>2. i + 1 \in 1..n /\ (cursor + (i + 1) - 1) % n \in 0..(n - 1)
        BY <2>1, <3>2, Places
      <4>3. PICK k \in 0..(n - 1) : k = (cursor + (i + 1) - 1) % n /\ k # cursor
        BY <4>1, <4>2
      <4>4. events'[k + 1] = events[k + 1]
        BY <2>1, <2>3, <4>3
      <4>5. Append(E, e)[i + 1] = events[k + 1]
        BY <2>5, <2>7, <4>2, <4>3
      <4> QED
        BY <4>1, <4>3, <4>4, <4>5
    <3>3. i = n \/ i \in 1..(n - 1)
      OBVIOUS
    <3> QED
      BY <3>1, <3>2, <3>3
  <2>11. ExecutionEvents' = Log!Latest(Append(ExecutionEvents, e))
    BY <2>5, <2>6, <2>8, <2>9, <2>10
  <2>12. cursor' \in 0..(n - 1)
    BY <2>1, Places
  <2>13. RingInv'
    BY <2>1, <2>4, <2>12 DEF RingInv
  <2> QED
    BY <2>11, <2>13
<1> QED
  BY <1>2, <1>3, <1>4
-----------------------------------------------------------------------------
(* The inductive invariant                                                 *)

Records == Results \cup {NoResult}

Counters == [in : Nat, out : Nat, total : Nat, executions : Nat, priced : Nat,
             costKnown : BOOLEAN]

\* The state is well formed.
Typed ==
    /\ sequence \in Nat
    /\ counters \in Counters
    /\ tally \in [completed : Nat, failures : Nat]
    /\ execution \in [Leases -> Records] /\ first \in [Leases -> Records]
    /\ state \in [Leases -> {"held", "released", "returned"}]

PricedLeases == {l \in Counted : first[l].known /\ l \in Priced}

\* The counters count sets; a lease has a first record once it has one.
UsageInv ==
    /\ \A l \in Leases : first[l] = NoResult <=> execution[l] = NoResult
    /\ counters.executions = Cardinality(Counted)
    /\ IsFiniteSet(InputTokens) /\ counters.in = Cardinality(InputTokens)
    /\ IsFiniteSet(OutputTokens) /\ counters.out = Cardinality(OutputTokens)
    /\ IsFiniteSet(TotalTokens) /\ counters.total = Cardinality(TotalTokens)
    /\ counters.priced = Cardinality(PricedLeases)
    /\ counters.costKnown => counters.priced = counters.executions

IInv == Typed /\ RingInv /\ UsageInv /\ EventsAreTrue
-----------------------------------------------------------------------------
(* Steps                                                                   *)

\* What every lease was recorded with, as named tokens
Tokens(h) == UNION {{l} \X (1..h[l]) : l \in Leases}

(* A first record adds its tokens, and no token is counted twice.          *)
LEMMA TokensGrow ==
  ASSUME NEW h \in [Leases -> Nat], NEW k \in [Leases -> Nat], NEW l \in Leases,
         IsFiniteSet(Tokens(h)), h[l] = 0, \A x \in Leases \ {l} : k[x] = h[x]
  PROVE  IsFiniteSet(Tokens(k)) /\ Cardinality(Tokens(k)) = Cardinality(Tokens(h)) + k[l]
<1> DEFINE T == {l} \X (1..k[l])
<1>1. Tokens(k) = Tokens(h) \cup T
  <2>1. ASSUME NEW t PROVE t \in Tokens(k) <=> t \in Tokens(h) \/ t \in T
    <3>1. t \in Tokens(k) <=> \E x \in Leases : t \in {x} \X (1..k[x])
      BY DEF Tokens
    <3>2. t \in Tokens(h) <=> \E x \in Leases : t \in {x} \X (1..h[x])
      BY DEF Tokens
    <3>3. 1..h[l] = {}
      OBVIOUS
    <3>4. ASSUME NEW x \in Leases \ {l}
          PROVE  t \in {x} \X (1..k[x]) <=> t \in {x} \X (1..h[x])
      OBVIOUS
    <3> QED
      BY <3>1, <3>2, <3>3, <3>4
  <2> QED
    BY <2>1
<1>2. Tokens(h) \cap T = {}
  <2>1. SUFFICES ASSUME NEW t, t \in Tokens(h), t \in T PROVE FALSE
    OBVIOUS
  <2>2. PICK x \in Leases : t \in {x} \X (1..h[x])
    BY <2>1 DEF Tokens
  <2>3. x = l
    BY <2>1, <2>2
  <2> QED
    BY <2>2, <2>3
<1>3. IsFiniteSet(T) /\ Cardinality(T) = k[l]
  <2>1. IsFiniteSet({l}) /\ Cardinality({l}) = 1
    BY FS_Singleton
  <2>2. IsFiniteSet(1..k[l]) /\ Cardinality(1..k[l]) = k[l]
    BY FS_Interval
  <2>3. IsFiniteSet(T) /\ Cardinality(T) = Cardinality({l}) * Cardinality(1..k[l])
    BY <2>1, <2>2, FS_Product
  <2> QED
    BY <2>1, <2>2, <2>3
<1>4. Cardinality({}) = 0 /\ Cardinality(Tokens(h)) \in Nat
  BY FS_EmptySet, FS_CardinalityType
<1> HIDE DEF T
<1> QED
  BY <1>1, <1>2, <1>3, <1>4, FS_Union

(* A record is a record of numbers, and the empty one has no tokens.       *)
LEMMA RecordFacts ==
  ASSUME LogAssumption
  PROVE  /\ \A r \in Records : /\ r.in \in Int /\ r.out \in Int /\ r.known \in BOOLEAN
                               /\ NotNegative(r.in) \in Nat /\ NotNegative(r.out) \in Nat
                               /\ TotalOf(r) \in Nat
         /\ NoResult \notin Results
         /\ NotNegative(NoResult.in) = 0 /\ NotNegative(NoResult.out) = 0
         /\ TotalOf(NoResult) = 0
<1>1. /\ NoResult.in = 0 /\ NoResult.out = 0 /\ NoResult.total = 0 /\ NoResult.known = FALSE
      /\ NoResult.none = TRUE
  BY DEF NoResult
<1>2. \A r \in Results : /\ r.in \in Int /\ r.out \in Int /\ r.total \in Int
                         /\ r.known \in BOOLEAN /\ r.none = FALSE
  BY DEF LogAssumption
<1>3. \A r \in Records : r.in \in Int /\ r.out \in Int /\ r.total \in Int
  BY <1>1, <1>2 DEF Records
<1>4. \A r \in Records : r.known \in BOOLEAN
  <2>1. NoResult.known \in BOOLEAN
    BY <1>1
  <2> QED
    BY <1>2, <2>1 DEF Records
<1>5. NoResult \notin Results
  BY <1>1, <1>2
<1>6. \A r \in Records : NotNegative(r.in) \in Nat /\ NotNegative(r.out) \in Nat
  BY <1>3 DEF NotNegative
<1>7. \A r \in Records : TotalOf(r) \in Nat
  BY <1>3, <1>6 DEF TotalOf, NotNegative
<1>8. TotalOf(NoResult) = 0
  BY <1>1 DEF TotalOf, NotNegative
<1> QED
  BY <1>1, <1>3, <1>4, <1>5, <1>6, <1>7, <1>8 DEF NotNegative

\* The tokens of the first records, as numbers
InputOf == [l \in Leases |-> NotNegative(first[l].in)]
OutputOf == [l \in Leases |-> NotNegative(first[l].out)]
TotalsOf == [l \in Leases |-> TotalOf(first[l])]

(* The counted tokens are those of the first records.                      *)
LEMMA TokensOf ==
  /\ InputTokens = Tokens(InputOf) /\ OutputTokens = Tokens(OutputOf)
  /\ TotalTokens = Tokens(TotalsOf)
BY DEF InputTokens, OutputTokens, TotalTokens, Tokens, InputOf, OutputOf, TotalsOf

(* The first record of a lease is counted, and only the first.             *)
LEMMA RecordUsage ==
  ASSUME LogAssumption, Typed, UsageInv, NEW l \in Leases, NEW r \in Results, Record(l, r)
  PROVE  Typed' /\ UsageInv'
<1>1. /\ NoResult \notin Results /\ r \in Records /\ r # NoResult
      /\ NotNegative(r.in) \in Nat /\ NotNegative(r.out) \in Nat /\ TotalOf(r) \in Nat
      /\ r.known \in BOOLEAN
  BY RecordFacts DEF Records
<1>2. /\ execution' = [execution EXCEPT ![l] = r]
      /\ UNCHANGED <<events, cursor, sequence, tally, state>>
  BY DEF Record
<1>3. execution' \in [Leases -> Records]
  BY <1>1, <1>2 DEF Typed
<1>4. CASE execution[l] # NoResult
  <2>1. first[l] # NoResult
    BY <1>4 DEF UsageInv
  <2>2. counters' = counters /\ first' = first
    BY <1>4, <2>1 DEF Record, CountsNow
  <2>3. /\ Counted' = Counted /\ InputTokens' = InputTokens /\ OutputTokens' = OutputTokens
        /\ TotalTokens' = TotalTokens /\ PricedLeases' = PricedLeases
    BY <2>2 DEF Counted, InputTokens, OutputTokens, TotalTokens, PricedLeases
  <2>4. \A x \in Leases : first'[x] = NoResult <=> execution'[x] = NoResult
    BY <1>1, <1>2, <2>1, <2>2 DEF UsageInv, Typed
  <2> QED
    BY <1>2, <1>3, <2>2, <2>3, <2>4 DEF Typed, UsageInv
<1>5. CASE execution[l] = NoResult
  <2>1. first[l] = NoResult
    BY <1>5 DEF UsageInv
  <2>2. first' = [first EXCEPT ![l] = r]
    BY <2>1 DEF Record
  <2>3. /\ first' \in [Leases -> Records] /\ first'[l] = r
        /\ \A x \in Leases \ {l} : first'[x] = first[x]
    BY <1>1, <2>2 DEF Typed
  <2> DEFINE p == IF r.known /\ l \in Priced THEN 1 ELSE 0
  <2>4. /\ counters'.in = counters.in + NotNegative(r.in)
        /\ counters'.out = counters.out + NotNegative(r.out)
        /\ counters'.total = counters.total + TotalOf(r)
        /\ counters'.executions = counters.executions + 1
        /\ counters'.priced = counters.priced + p
        /\ counters'.costKnown => counters'.priced = counters'.executions
        /\ counters' \in Counters
    <3> DEFINE c == [counters EXCEPT !.in = @ + NotNegative(r.in), !.out = @ + NotNegative(r.out),
                                     !.total = @ + TotalOf(r), !.executions = @ + 1,
                                     !.priced = IF r.known /\ l \in Priced THEN @ + 1 ELSE @]
    <3>1. counters' = [c EXCEPT !.costKnown = CostKnown(c)]
      BY <1>5 DEF Record, CountsNow
    <3>2. /\ counters.in \in Nat /\ counters.out \in Nat /\ counters.total \in Nat
          /\ counters.executions \in Nat /\ counters.priced \in Nat
      BY DEF Typed, Counters
    <3>3. /\ c.in = counters.in + NotNegative(r.in) /\ c.out = counters.out + NotNegative(r.out)
          /\ c.total = counters.total + TotalOf(r)
          /\ c.executions = counters.executions + 1 /\ c.priced = counters.priced + p
      BY <3>2 DEF Typed, Counters
    <3>4. c \in Counters
      <4>1. PICK q \in Nat : q = IF r.known /\ l \in Priced THEN counters.priced + 1
                                                        ELSE counters.priced
        BY <3>2
      <4>2. c = [counters EXCEPT !.in = @ + NotNegative(r.in), !.out = @ + NotNegative(r.out),
                                 !.total = @ + TotalOf(r), !.executions = @ + 1, !.priced = q]
        BY <4>1
      <4>3. /\ counters.in + NotNegative(r.in) \in Nat /\ counters.out + NotNegative(r.out) \in Nat
            /\ counters.total + TotalOf(r) \in Nat
        BY <1>1, <3>2
      <4>4. [counters EXCEPT !.in = @ + NotNegative(r.in), !.out = @ + NotNegative(r.out),
                             !.total = @ + TotalOf(r), !.executions = @ + 1, !.priced = q]
              \in Counters
        <5> DEFINE R == Counters
        <5>1. \A x \in R, a \in Nat : /\ [x EXCEPT !.in = a] \in R /\ [x EXCEPT !.out = a] \in R
                                      /\ [x EXCEPT !.total = a] \in R
                                      /\ [x EXCEPT !.executions = a] \in R
                                      /\ [x EXCEPT !.priced = a] \in R
          BY DEF Counters
        <5>2. counters \in R /\ counters.executions + 1 \in Nat
          BY <3>2 DEF Typed
        <5> HIDE DEF R
        <5>3. [counters EXCEPT !.in = counters.in + NotNegative(r.in),
                               !.out = counters.out + NotNegative(r.out),
                               !.total = counters.total + TotalOf(r),
                               !.executions = counters.executions + 1, !.priced = q] \in R
          BY <4>3, <5>1, <5>2
        <5> QED
          BY <5>3 DEF R
      <4> HIDE DEF c
      <4> QED
        BY <4>2, <4>4
    <3> HIDE DEF c
    <3>5. PICK b \in BOOLEAN : b = CostKnown(c)
      BY DEF CostKnown
    <3>6. counters' = [c EXCEPT !.costKnown = b]
      BY <3>1, <3>5
    <3>7. /\ counters'.in = c.in /\ counters'.out = c.out /\ counters'.total = c.total
          /\ counters'.executions = c.executions /\ counters'.priced = c.priced
          /\ counters'.costKnown = b
      BY <3>4, <3>6 DEF Counters
    <3>8. counters' \in Counters
      BY <3>4, <3>6 DEF Counters
    <3>9. b => c.priced = c.executions
      BY <3>5 DEF CostKnown
    <3>10. counters'.costKnown => c.priced = c.executions
      BY <3>7, <3>9
    <3> QED
      BY <3>3, <3>7, <3>8, <3>10
  <2>5. IsFiniteSet(Leases)
    BY DEF LogAssumption
  <2>6. Counted' = Counted \cup {l} /\ l \notin Counted
    BY <1>1, <2>1, <2>3 DEF Counted
  <2>7. IsFiniteSet(Counted) /\ Cardinality(Counted') = Cardinality(Counted) + 1
    <3>1. IsFiniteSet(Counted)
      BY <2>5, FS_Subset DEF Counted
    <3> QED
      BY <2>6, <3>1, FS_AddElement
  <2>8. Cardinality(PricedLeases') = Cardinality(PricedLeases) + p
    <3>1. IsFiniteSet(PricedLeases) /\ Cardinality(PricedLeases) \in Nat
      BY <2>7, FS_Subset, FS_CardinalityType DEF PricedLeases
    <3>2. CASE r.known /\ l \in Priced
      <4>1. PricedLeases' = PricedLeases \cup {l} /\ l \notin PricedLeases
        <5>1. PricedLeases' = {x \in Counted' : first'[x].known /\ x \in Priced}
          BY DEF PricedLeases
        <5>2. \A x \in Counted : first'[x] = first[x]
          BY <2>3, <2>6 DEF Counted
        <5>3. first'[l].known
          BY <2>3, <3>2
        <5> QED
          BY <2>6, <3>2, <5>1, <5>2, <5>3 DEF PricedLeases
      <4> QED
        BY <3>1, <3>2, <4>1, FS_AddElement
    <3>3. CASE ~(r.known /\ l \in Priced)
      <4>1. PricedLeases' = PricedLeases
        BY <2>3, <2>6, <3>3 DEF PricedLeases, Counted
      <4> QED
        BY <3>1, <3>3, <4>1
    <3> QED
      BY <3>2, <3>3
  <2>9. /\ InputOf \in [Leases -> Nat] /\ InputOf' \in [Leases -> Nat]
        /\ InputOf[l] = 0 /\ InputOf'[l] = NotNegative(r.in)
        /\ \A x \in Leases \ {l} : InputOf'[x] = InputOf[x]
    BY <2>1, <2>3, RecordFacts DEF InputOf, Typed
  <2>10. /\ OutputOf \in [Leases -> Nat] /\ OutputOf' \in [Leases -> Nat]
         /\ OutputOf[l] = 0 /\ OutputOf'[l] = NotNegative(r.out)
         /\ \A x \in Leases \ {l} : OutputOf'[x] = OutputOf[x]
    BY <2>1, <2>3, RecordFacts DEF OutputOf, Typed
  <2>11. /\ InputTokens' = Tokens(InputOf') /\ OutputTokens' = Tokens(OutputOf')
         /\ TotalTokens' = Tokens(TotalsOf')
    BY DEF InputTokens, OutputTokens, TotalTokens, Tokens, InputOf, OutputOf, TotalsOf
  <2>12. /\ IsFiniteSet(InputTokens')
         /\ Cardinality(InputTokens') = Cardinality(InputTokens) + NotNegative(r.in)
    <3>1. IsFiniteSet(Tokens(InputOf))
      BY TokensOf DEF UsageInv
    <3> QED
      BY <2>9, <2>11, <3>1, TokensOf, TokensGrow
  <2>13. /\ IsFiniteSet(OutputTokens')
         /\ Cardinality(OutputTokens') = Cardinality(OutputTokens) + NotNegative(r.out)
    <3>1. IsFiniteSet(Tokens(OutputOf))
      BY TokensOf DEF UsageInv
    <3> QED
      BY <2>10, <2>11, <3>1, TokensOf, TokensGrow
  <2>14. /\ TotalsOf \in [Leases -> Nat] /\ TotalsOf' \in [Leases -> Nat]
         /\ TotalsOf[l] = 0 /\ TotalsOf'[l] = TotalOf(r)
         /\ \A x \in Leases \ {l} : TotalsOf'[x] = TotalsOf[x]
    BY <2>1, <2>3, RecordFacts DEF TotalsOf, Typed
  <2>15. /\ IsFiniteSet(TotalTokens')
         /\ Cardinality(TotalTokens') = Cardinality(TotalTokens) + TotalOf(r)
    <3>1. IsFiniteSet(Tokens(TotalsOf))
      BY TokensOf DEF UsageInv
    <3> QED
      BY <2>11, <2>14, <3>1, TokensOf, TokensGrow
  <2>16. \A x \in Leases : first'[x] = NoResult <=> execution'[x] = NoResult
    BY <1>1, <1>2, <2>3 DEF UsageInv, Typed
  <2>17. Typed'
    BY <1>2, <1>3, <2>3, <2>4 DEF Typed
  <2> HIDE DEF p
  <2> QED
    BY <2>4, <2>7, <2>8, <2>12, <2>13, <2>15, <2>16, <2>17 DEF UsageInv
<1> QED
  BY <1>4, <1>5

Released == {l \in Leases : state[l] = "released"}

(* Every event is about a lease.                                           *)
LEMMA EventLeases ==
  ASSUME RingInv
  PROVE  \A i \in DOMAIN events : events[i] \in AnyEvent /\ events[i].lease \in Leases
<1>1. \A i \in DOMAIN events : events[i] \in AnyEvent
  BY ElementOfSeq, LenProperties DEF RingInv
<1>2. \A e \in AnyEvent : e.lease \in Leases
  BY DEF AnyEvent
<1> QED
  BY <1>1, <1>2

(* What the events say stays true while their leases keep their state and  *)
(* their last record.                                                      *)
LEMMA RecordStep ==
  ASSUME LogAssumption, IInv, NEW l \in Leases, NEW r \in Results, Record(l, r)
  PROVE  IInv'
<1>1. Typed' /\ UsageInv'
  BY RecordUsage DEF IInv
<1>2. /\ state[l] = "held" /\ execution' = [execution EXCEPT ![l] = r]
      /\ UNCHANGED <<events, cursor, sequence, tally, state>>
  BY DEF Record
<1>3. RingInv'
  BY <1>2 DEF IInv, RingInv, AnyEvent
<1>4. EventsAreTrue'
  <2>1. \A i \in DOMAIN events : events[i].lease \in Leases /\ events[i].lease # l
    BY <1>2, EventLeases DEF IInv, EventsAreTrue
  <2>2. \A i \in DOMAIN events : execution'[events[i].lease] = execution[events[i].lease]
    BY <1>2, <2>1 DEF IInv, Typed
  <2> QED
    BY <1>2, <2>2 DEF IInv, EventsAreTrue
<1> QED
  BY <1>1, <1>3, <1>4 DEF IInv

(* An event takes one place of the ring and leaves the others as they are. *)
LEMMA OnePlace ==
  ASSUME LogAssumption, RingInv, NEW e \in AnyEvent, Push(e)
  PROVE  \E p \in DOMAIN events' :
           /\ events'[p] = e
           /\ \A i \in DOMAIN events' \ {p} : i \in DOMAIN events /\ events'[i] = events[i]
<1>1. PICK n \in Nat : n = Len(events) /\ DOMAIN events = 1..n /\ events \in Seq(AnyEvent)
  BY LenProperties DEF RingInv
<1>2. Size \in Nat /\ Size > 0 /\ cursor \in 0..(Size - 1)
  BY DEF RingInv, LogAssumption
<1>3. CASE n < Size
  <2>1. events' = Append(events, e)
    BY <1>1, <1>3 DEF Push
  <2>2. /\ DOMAIN events' = 1..(n + 1) /\ events'[n + 1] = e
        /\ \A i \in 1..n : events'[i] = events[i]
    BY <1>1, <2>1
  <2>3. n + 1 \in 1..(n + 1) /\ \A i \in 1..(n + 1) : i # n + 1 => i \in 1..n
    OBVIOUS
  <2> QED
    BY <1>1, <2>2, <2>3
<1>4. CASE n >= Size
  <2>1. events' = [events EXCEPT ![cursor + 1] = e] /\ cursor + 1 \in 1..n
    BY <1>1, <1>2, <1>4 DEF Push
  <2>2. \A i \in 1..n : events[i] \in AnyEvent
    BY <1>1, ElementOfSeq
  <2>3. events \in [1..n -> AnyEvent]
    BY <1>1, <2>2, SeqDef
  <2>4. /\ DOMAIN events' = 1..n /\ events'[cursor + 1] = e
        /\ \A i \in 1..n : i # cursor + 1 => events'[i] = events[i]
    BY <2>1, <2>3
  <2> QED
    BY <1>1, <2>1, <2>4
<1> QED
  BY <1>2, <1>3, <1>4

(* One more execution is released, of the leases there are.                *)
LEMMA ReleasedFacts ==
  ASSUME LogAssumption, IInv, NEW l \in Leases, state[l] = "held",
         state' = [state EXCEPT ![l] = "released"]
  PROVE  /\ Cardinality(Released) \in Nat
         /\ Cardinality(Released') = Cardinality(Released) + 1
         /\ Cardinality(Released) + 1 <= Cardinality(Leases) /\ Cardinality(Leases) \in Nat
<1>1. Released' = Released \cup {l} /\ l \notin Released /\ Released' \in SUBSET Leases
  BY DEF Released, IInv, Typed
<1>2. IsFiniteSet(Leases) /\ Cardinality(Leases) \in Nat
  BY FS_CardinalityType DEF LogAssumption
<1>3. IsFiniteSet(Released) /\ Cardinality(Released) \in Nat
  BY <1>2, FS_Subset, FS_CardinalityType DEF Released
<1>4. Cardinality(Released') = Cardinality(Released) + 1
  BY <1>1, <1>3, FS_AddElement
<1>5. Cardinality(Released') <= Cardinality(Leases)
  BY <1>1, <1>2, FS_Subset
<1> QED
  BY <1>1, <1>2, <1>3, <1>4, <1>5

(* A release without an event only releases; a release with one is the     *)
(* next event, and calls a success only what its handler saw succeed.      *)
LEMMA ReleaseStep ==
  ASSUME LogAssumption, IInv, NEW l \in Leases, NEW status, Release(l, status)
  PROVE  IInv' /\ [Log!Next]_ExecutionEvents
<1> USE DEF IInv
<1>1. /\ state[l] = "held"
      /\ state' = [state EXCEPT ![l] = IF status = -1 THEN "returned" ELSE "released"]
      /\ UNCHANGED <<counters, execution, first>>
  BY DEF Release
<1>2. UsageInv'
  BY <1>1 DEF UsageInv, Counted, InputTokens, OutputTokens, TotalTokens, PricedLeases
<1>3. /\ state' \in [Leases -> {"held", "released", "returned"}]
      /\ \A x \in Leases : state[x] = "released" => state'[x] = "released"
  BY <1>1 DEF Typed
<1>4. \A i \in DOMAIN events : events[i] \in AnyEvent /\ events[i].lease \in Leases
  BY EventLeases
<1>5. sequence \in Nat /\ sequence = Cardinality(Released)
  BY DEF Typed, EventsAreTrue, Released
<1>6. tally.completed \in Nat /\ tally.failures \in Nat
  BY DEF Typed
<1>7. CASE status = -1
  <2>1. UNCHANGED <<events, cursor, sequence, tally>>
    BY <1>7 DEF Release
  <2>2. Typed' /\ RingInv'
    BY <1>1, <1>3, <2>1 DEF Typed, RingInv, AnyEvent
  <2>3. ExecutionEvents' = ExecutionEvents
    BY <2>1 DEF ExecutionEvents
  <2>4. EventsAreTrue'
    <3>1. Released' = Released
      BY <1>1, <1>7 DEF Released, Typed
    <3>2. sequence' = Cardinality(Released')
      BY <1>5, <2>1, <3>1
    <3> QED
      BY <1>1, <1>3, <1>4, <2>1, <3>2 DEF EventsAreTrue, Released
  <2> QED
    BY <1>2, <2>2, <2>3, <2>4
<1>8. CASE status # -1
  <2>1. state' = [state EXCEPT ![l] = "released"] /\ state'[l] = "released"
    BY <1>1, <1>8 DEF Typed
  <2>2. /\ Cardinality(Released) \in Nat /\ Cardinality(Released') = Cardinality(Released) + 1
        /\ Cardinality(Released) + 1 <= Cardinality(Leases) /\ Cardinality(Leases) \in Nat
    BY <1>1, <2>1, ReleasedFacts
  <2>3. PICK e : e = Event(l, status)
    OBVIOUS
  <2>4. PICK t \in {"succeeded", "failed", "canceled"} :
          /\ t = Outcome(l, status)
          /\ t = "succeeded" /\ execution[l] # NoResult =>
               execution[l].ok /\ ~execution[l].canceled
    BY DEF Outcome
  <2>5. e = [sequence |-> sequence + 1, lease |-> l, outcome |-> t]
    BY <2>3, <2>4 DEF Event
  <2>6. e \in AnyEvent /\ e.lease = l /\ e.outcome = t
    <3>1. sequence + 1 \in 1..Cardinality(Leases)
      BY <1>5, <2>2
    <3> QED
      BY <2>5, <3>1 DEF AnyEvent
  <2>7. Push(e) /\ sequence' = sequence + 1
    BY <1>8, <2>3 DEF Release
  <2>8. \/ tally' = tally
        \/ tally' = [tally EXCEPT !.completed = @ + 1]
        \/ tally' = [tally EXCEPT !.failures = @ + 1]
    BY <1>8 DEF Release
  <2>9. /\ tally' \in [completed : Nat, failures : Nat]
        /\ tally'.completed + tally'.failures <= tally.completed + tally.failures + 1
    BY <1>6, <2>8 DEF Typed
  <2>10. Typed'
    BY <1>1, <1>3, <1>5, <2>7, <2>9 DEF Typed
  <2>11. RingInv' /\ ExecutionEvents' = Log!Latest(Append(ExecutionEvents, e))
    BY <2>6, <2>7, RingStep
  <2>12. Log!Next
    BY <2>6, <2>11 DEF Log!Next, Log!Add
  <2>13. PICK p \in DOMAIN events' :
           /\ events'[p] = e
           /\ \A i \in DOMAIN events' \ {p} : i \in DOMAIN events /\ events'[i] = events[i]
    BY <2>6, <2>7, OnePlace
  <2>14. \A i \in DOMAIN events : events[i].lease # l /\ state[events[i].lease] = "released"
    BY <1>1 DEF EventsAreTrue
  <2>15. \A i, j \in DOMAIN events' : events'[i].lease = events'[j].lease => i = j
    <3>1. SUFFICES ASSUME NEW i \in DOMAIN events', NEW j \in DOMAIN events',
                          events'[i].lease = events'[j].lease
                   PROVE  i = j
      OBVIOUS
    <3>2. CASE i = p
      BY <2>6, <2>13, <2>14, <3>1, <3>2
    <3>3. CASE j = p
      BY <2>6, <2>13, <2>14, <3>1, <3>3
    <3>4. CASE i # p /\ j # p
      BY <2>13, <3>1, <3>4 DEF EventsAreTrue
    <3> QED
      BY <3>2, <3>3, <3>4
  <2>16. ASSUME NEW i \in DOMAIN events'
         PROVE  /\ state'[events'[i].lease] = "released"
                /\ events'[i].outcome = "succeeded" /\ execution'[events'[i].lease] # NoResult
                     => execution'[events'[i].lease].ok /\ ~execution'[events'[i].lease].canceled
    <3>1. CASE i = p
      BY <1>1, <2>1, <2>4, <2>6, <2>13, <3>1
    <3>2. CASE i # p
      <4>1. i \in DOMAIN events /\ events'[i] = events[i]
        BY <2>13, <3>2
      <4>2. state'[events[i].lease] = "released"
        BY <1>3, <1>4, <2>14, <4>1
      <4> QED
        BY <1>1, <4>1, <4>2 DEF EventsAreTrue
    <3> QED
      BY <3>1, <3>2
  <2>17. tally'.completed + tally'.failures <= sequence'
    BY <1>5, <1>6, <2>7, <2>9 DEF EventsAreTrue, Typed
  <2>18. sequence' = Cardinality(Released')
    BY <1>5, <2>7, <2>2
  <2>19. EventsAreTrue'
    BY <2>15, <2>16, <2>17, <2>18 DEF EventsAreTrue, Released
  <2> QED
    BY <1>2, <2>10, <2>11, <2>12, <2>19
<1> QED
  BY <1>7, <1>8

(* The first state satisfies the invariant, and the ring is empty.         *)
LEMMA InitInv ==
  ASSUME LogAssumption, Init
  PROVE  IInv /\ ExecutionEvents = <<>>
<1> USE DEF Init
<1>1. Len(<<>>) = 0 /\ <<>> \in Seq(AnyEvent) /\ DOMAIN <<>> = {} /\ events = <<>>
  OBVIOUS
<1>2. Size \in Nat /\ Size > 0
  BY DEF LogAssumption
<1>3. RingInv
  BY <1>1, <1>2 DEF RingInv
<1>4. ExecutionEvents = <<>>
  BY <1>1, FromStart DEF ExecutionEvents
<1>5. Typed
  <2>1. counters \in Counters
    <3>1. FALSE \in BOOLEAN /\ 0 \in Nat
      OBVIOUS
    <3> QED
      BY <3>1 DEF Counters
  <2> QED
    BY <2>1 DEF Typed, Records
<1>6. Cardinality({}) = 0 /\ IsFiniteSet({})
  BY FS_EmptySet
<1>7. UsageInv
  <2>1. Counted = {} /\ PricedLeases = {}
    BY DEF Counted, PricedLeases
  <2>2. \A l \in Leases : /\ 1..NotNegative(first[l].in) = {} /\ 1..NotNegative(first[l].out) = {}
                          /\ 1..TotalOf(first[l]) = {}
    BY RecordFacts
  <2>3. InputTokens = {} /\ OutputTokens = {} /\ TotalTokens = {}
    BY <2>2 DEF InputTokens, OutputTokens, TotalTokens
  <2>4. /\ counters.in = 0 /\ counters.out = 0 /\ counters.total = 0
        /\ counters.executions = 0 /\ counters.priced = 0
    OBVIOUS
  <2> QED
    BY <1>6, <2>1, <2>3, <2>4 DEF UsageInv
<1>8. EventsAreTrue
  <2>1. Released = {}
    BY DEF Released
  <2>2. sequence = Cardinality(Released)
    BY <1>6, <2>1
  <2>3. tally.completed + tally.failures <= sequence
    OBVIOUS
  <2>4. DOMAIN events = {}
    BY <1>1
  <2> QED
    BY <2>2, <2>3, <2>4 DEF EventsAreTrue, Released
<1> QED
  BY <1>3, <1>4, <1>5, <1>7, <1>8 DEF IInv

(* Every step keeps the invariant and is a step of EventLog or stutters.   *)
LEMMA NextInv ==
  ASSUME LogAssumption, IInv, [Next]_vars
  PROVE  IInv' /\ [Log!Next]_ExecutionEvents
<1>1. CASE UNCHANGED vars
  BY <1>1 DEF vars, IInv, Typed, RingInv, AnyEvent, UsageInv, Counted, InputTokens, OutputTokens,
              TotalTokens, PricedLeases, EventsAreTrue, ExecutionEvents
<1>2. ASSUME NEW l \in Leases, NEW r \in Results, Record(l, r)
      PROVE  IInv' /\ [Log!Next]_ExecutionEvents
  <2>1. ExecutionEvents' = ExecutionEvents
    BY <1>2 DEF Record, ExecutionEvents
  <2> QED
    BY <1>2, <2>1, RecordStep
<1>3. ASSUME NEW l \in Leases, NEW status \in Statuses, Release(l, status)
      PROVE  IInv' /\ [Log!Next]_ExecutionEvents
  BY <1>3, ReleaseStep
<1> QED
  BY <1>1, <1>2, <1>3 DEF Next
-----------------------------------------------------------------------------
(* The theorems                                                            *)

(* For any leases, results and size of the ring: the counters of tokens    *)
(* hold what each lease was first recorded with, a cost is only called     *)
(* known if it is known of every execution, each released execution has    *)
(* one number and at most one event in the ring, a lease that was only     *)
(* returned has none, and no event calls a success what its handler saw    *)
(* fail (RecordExecution, Release, recordEvent).                           *)
THEOREM RecordsStayTrue ==
  ASSUME LogAssumption
  PROVE  Spec => []RecordsAreTrue
<1>1. Init => IInv
  BY InitInv
<1>2. IInv /\ [Next]_vars => IInv'
  BY NextInv
<1>3. IInv => RecordsAreTrue
  <2>1. SUFFICES ASSUME IInv PROVE RecordsAreTrue
    OBVIOUS
  <2>2. counters.costKnown => \A l \in Counted : first[l].known /\ l \in Priced
    <3>1. SUFFICES ASSUME counters.costKnown
                   PROVE  \A l \in Counted : first[l].known /\ l \in Priced
      OBVIOUS
    <3>2. Cardinality(PricedLeases) = Cardinality(Counted)
      BY <2>1, <3>1 DEF IInv, UsageInv
    <3>3. IsFiniteSet(Counted) /\ PricedLeases \in SUBSET Counted
      BY FS_Subset DEF LogAssumption, Counted, PricedLeases
    <3>4. PricedLeases = Counted
      BY <3>2, <3>3, FS_Subset
    <3> QED
      BY <3>4 DEF PricedLeases
  <2> QED
    BY <2>1, <2>2 DEF IInv, UsageInv, UsageCountedOnce, RecordsAreTrue
<1> QED
  BY <1>1, <1>2, <1>3, PTL DEF Spec

(* For any size: read from its cursor, the ring of recordEvent is the      *)
(* queue of the latest events, oldest first, that EventLog describes.      *)
THEOREM RingImplementsLog ==
  ASSUME LogAssumption
  PROVE  Spec => RingIsLog
<1>1. Init => IInv /\ Log!Init
  BY InitInv DEF Log!Init
<1>2. IInv /\ [Next]_vars => IInv' /\ [Log!Next]_ExecutionEvents
  BY NextInv
<1> QED
  BY <1>1, <1>2, PTL DEF Spec, RingIsLog, Log!Spec

-----------------------------------------------------------------------------
(* Numbers                                                                 *)

(* A set of naturals without a least element is empty.                     *)
LEMMA NoLeast ==
  ASSUME NEW T \in SUBSET Nat, \A n \in T : \E m \in T : m < n
  PROVE  T = {}
<1> DEFINE R == {ss \in Nat \X Nat : ss[1] < ss[2]}
<1>1. IsWellFoundedOn(R, Nat)
  BY NatLessThanWellFounded DEF OpToRel
<1>2. SUFFICES ASSUME T # {} PROVE FALSE
  OBVIOUS
<1>3. PICK n \in T : \A m \in T : ~(<<m, n>> \in R)
  <2> HIDE DEF R
  <2> QED
    BY <1>1, <1>2, WFMin
<1>4. PICK m \in T : m < n
  OBVIOUS
<1>5. <<m, n>> \in R
  BY <1>4
<1> QED
  BY <1>3, <1>5

(* What holds for 0 and is passed on to the next number holds for all.     *)
LEMMA UpTo ==
  ASSUME NEW n \in Nat, NEW T \in SUBSET Nat, 0 \in T,
         \A k \in Nat : k < n /\ k \in T => k + 1 \in T
  PROVE  \A k \in 0..n : k \in T
<1> DEFINE Bad == {k \in 0..n : k \notin T}
<1>1. ASSUME NEW k \in Bad PROVE \E m \in Bad : m < k
  <2>1. k # 0 /\ k \in Nat /\ k - 1 \in Nat /\ k - 1 < n /\ k <= n /\ k \notin T
    OBVIOUS
  <2>2. k - 1 \notin T
    <3>1. k - 1 \in T => (k - 1) + 1 \in T
      BY <2>1
    <3> QED
      BY <2>1, <3>1
  <2>3. k - 1 \in Bad /\ k - 1 < k
    BY <2>1, <2>2
  <2> QED
    BY <2>3
<1>2. Bad = {}
  <2>1. Bad \in SUBSET Nat
    OBVIOUS
  <2> HIDE DEF Bad
  <2> QED
    BY <1>1, <2>1, NoLeast
<1> QED
  BY <1>2

(* A set of naturals that is not empty has a least element.                *)
LEMMA MinFacts ==
  ASSUME NEW T \in SUBSET Nat, T # {}
  PROVE  Routing!Min(T) \in T /\ \A y \in T : Routing!Min(T) <= y
<1>1. ~\A n \in T : \E m \in T : m < n
  BY NoLeast
<1>2. PICK n \in T : \A m \in T : ~(m < n)
  BY <1>1
<1>3. \A m \in T : n <= m
  BY <1>2
<1> QED
  BY <1>3 DEF Routing!Min

(* A remainder is determined by its range.                                 *)
LEMMA Remainder ==
  ASSUME NEW n \in Nat, n > 0, NEW a \in Int, NEW q \in Int, NEW r \in 0..(n - 1), a = n * q + r
  PROVE  a % n = r
<1>1. a % n \in 0..(n - 1)
  OBVIOUS
<1>2. a \div n \in Int
  OBVIOUS
<1>3. a = n * (a \div n) + (a % n)
  OBVIOUS
<1> QED
  BY <1>1, <1>2, <1>3

(* Going around from the cursor reaches every place once.                  *)
LEMMA Rotation ==
  ASSUME NEW n \in Nat, n > 0, NEW c \in Nat
  PROVE  /\ \A i \in 1..n : /\ ((c + i - 1) % n) + 1 \in 1..n
                            /\ \A t \in Int : t = ((c + i - 1) % n) + 1 => (t - 1 - c) % n = i - 1
         /\ \A t \in 1..n : /\ (t - 1 - c) % n \in 0..(n - 1)
                            /\ ((c + (((t - 1 - c) % n) + 1) - 1) % n) + 1 = t
<1> DEFINE q == c \div n
           k == c % n
<1>1. k \in 0..(n - 1)
  OBVIOUS
<1>2. q \in Int
  OBVIOUS
<1>3. c = n * q + k
  OBVIOUS
<1> HIDE DEF q, k
<1>4. n * (q + 1) = n * q + n /\ n * (-q) = -(n * q) /\ n * (-q - 1) = -(n * q) - n
  BY <1>2
<1>5. PICK p \in Int : p = n * q /\ c = p + k
  BY <1>2, <1>3
<1>6. ASSUME NEW i \in 1..n
      PROVE  (c + i - 1) % n = IF k + i - 1 < n THEN k + i - 1 ELSE k + i - 1 - n
  <2>1. CASE k + i - 1 < n
    <3>1. k + i - 1 \in 0..(n - 1) /\ c + i - 1 = n * q + (k + i - 1) /\ c + i - 1 \in Int
      BY <1>1, <1>5, <2>1
    <3> QED
      BY <1>2, <2>1, <3>1, Remainder
  <2>2. CASE ~(k + i - 1 < n)
    <3>1. /\ k + i - 1 - n \in 0..(n - 1) /\ c + i - 1 \in Int
          /\ c + i - 1 = n * (q + 1) + (k + i - 1 - n)
      BY <1>1, <1>4, <1>5, <2>2
    <3>2. q + 1 \in Int
      BY <1>2
    <3> QED
      BY <2>2, <3>1, <3>2, Remainder
  <2> QED
    BY <2>1, <2>2
<1>7. ASSUME NEW t \in 1..n
      PROVE  (t - 1 - c) % n = IF t - 1 >= k THEN t - 1 - k ELSE t - 1 - k + n
  <2>1. CASE t - 1 >= k
    <3>1. /\ t - 1 - k \in 0..(n - 1) /\ t - 1 - c \in Int
          /\ t - 1 - c = n * (-q) + (t - 1 - k)
      BY <1>1, <1>4, <1>5, <2>1
    <3>2. -q \in Int
      BY <1>2
    <3> QED
      BY <2>1, <3>1, <3>2, Remainder
  <2>2. CASE ~(t - 1 >= k)
    <3>1. /\ t - 1 - k + n \in 0..(n - 1) /\ t - 1 - c \in Int
          /\ t - 1 - c = n * (-q - 1) + (t - 1 - k + n)
      BY <1>1, <1>4, <1>5, <2>2
    <3>2. -q - 1 \in Int
      BY <1>2
    <3> QED
      BY <2>2, <3>1, <3>2, Remainder
  <2> QED
    BY <2>1, <2>2
<1>8. ASSUME NEW i \in 1..n
      PROVE  /\ ((c + i - 1) % n) + 1 \in 1..n
             /\ \A t \in Int : t = ((c + i - 1) % n) + 1 => (t - 1 - c) % n = i - 1
  <2>1. (c + i - 1) % n = IF k + i - 1 < n THEN k + i - 1 ELSE k + i - 1 - n
    BY <1>6
  <2>2. SUFFICES ASSUME NEW t \in Int, t = ((c + i - 1) % n) + 1
                 PROVE  t \in 1..n /\ (t - 1 - c) % n = i - 1
    <3>1. ((c + i - 1) % n) + 1 \in Int
      BY <1>1, <2>1
    <3> QED
      BY <3>1
  <2>3. t = (IF k + i - 1 < n THEN k + i ELSE k + i - n) /\ t \in 1..n
    BY <1>1, <2>1, <2>2
  <2>4. (t - 1 - c) % n = IF t - 1 >= k THEN t - 1 - k ELSE t - 1 - k + n
    BY <1>7, <2>3
  <2>5. (IF t - 1 >= k THEN t - 1 - k ELSE t - 1 - k + n) = i - 1
    BY <1>1, <2>3
  <2>6. (t - 1 - c) % n = i - 1
    BY <2>4, <2>5
  <2> QED
    BY <2>2, <2>3, <2>6
<1>9. ASSUME NEW t \in 1..n
      PROVE  /\ (t - 1 - c) % n \in 0..(n - 1)
             /\ ((c + (((t - 1 - c) % n) + 1) - 1) % n) + 1 = t
  <2>1. (t - 1 - c) % n = IF t - 1 >= k THEN t - 1 - k ELSE t - 1 - k + n
    BY <1>7
  <2>2. PICK i \in Int : i = ((t - 1 - c) % n) + 1
    BY <1>1, <2>1
  <2>3. i = (IF t - 1 >= k THEN t - k ELSE t - k + n) /\ i \in 1..n /\ i - 1 = (t - 1 - c) % n
    BY <1>1, <2>1, <2>2
  <2>4. (c + i - 1) % n = IF k + i - 1 < n THEN k + i - 1 ELSE k + i - 1 - n
    BY <1>6, <2>3
  <2>5. (IF k + i - 1 < n THEN k + i - 1 ELSE k + i - 1 - n) = t - 1
    BY <1>1, <2>3
  <2>6. (c + i - 1) % n = t - 1
    BY <2>4, <2>5
  <2> QED
    BY <2>2, <2>3, <2>6
<1> QED
  BY <1>8, <1>9

-----------------------------------------------------------------------------
(* Folds                                                                   *)

(* The last place of a part of 1..(k + 1) that reaches it is k + 1.        *)
LEMMA MaxFacts ==
  ASSUME NEW k \in Nat, NEW s \in SUBSET (1..(k + 1)), k + 1 \in s
  PROVE  Routing!Max(s) = k + 1 /\ s \ {Routing!Max(s)} \in SUBSET (1..k)
<1>1. \A y \in s : k + 1 >= y
  OBVIOUS
<1>2. \A x \in s : (\A y \in s : x >= y) => x = k + 1
  OBVIOUS
<1>3. Routing!Max(s) = k + 1
  BY <1>1, <1>2 DEF Routing!Max
<1> QED
  BY <1>3

(* A part of 1..n that is not empty has a last place.                      *)
LEMMA MaxIn ==
  ASSUME NEW n \in Nat, NEW s \in SUBSET (1..n), s # {}
  PROVE  Routing!Max(s) \in s
<1> DEFINE T == {m \in Nat : \E x \in s : m = n - x}
<1>1. T # {}
  <2>1. PICK x \in s : TRUE
    OBVIOUS
  <2>2. n - x \in Nat
    BY <2>1
  <2> QED
    BY <2>2
<1>2. ~\A m \in T : \E k \in T : k < m
  <2>1. T \in SUBSET Nat
    OBVIOUS
  <2> HIDE DEF T
  <2> QED
    BY <1>1, <2>1, NoLeast
<1>3. PICK m \in T : \A k \in T : ~(k < m)
  BY <1>2
<1>4. PICK x \in s : m = n - x
  OBVIOUS
<1>5. \A y \in s : x >= y
  <2> TAKE y \in s
  <2>1. n - y \in T
    OBVIOUS
  <2>2. ~(n - y < m) /\ x \in Nat /\ y \in Nat
    BY <1>3, <2>1
  <2> QED
    BY <1>4, <2>2
<1> QED
  BY <1>5 DEF Routing!Max

\* g is the scan of 1..n by F that begins with base.
IsScan(g, n, base, F) ==
    \A s \in SUBSET (1..n) : g[s] = IF s = {} THEN base
        ELSE F[<<g[s \ {Routing!Max(s)}], Routing!Max(s)>>]

(* A scan of 1..n, written as a recursion on the parts of 1..n, exists.    *)
LEMMA ScanExists ==
  ASSUME NEW n \in Nat, NEW St, NEW base \in St, NEW F \in [St \X (1..n) -> St]
  PROVE  \E g \in [SUBSET (1..n) -> St] : IsScan(g, n, base, F)
<1> DEFINE Scan(g, k) == \A s \in SUBSET (1..k) :
                            g[s] = IF s = {} THEN base
                                ELSE F[<<g[s \ {Routing!Max(s)}], Routing!Max(s)>>]
           Begins(k) == \E g \in [SUBSET (1..k) -> St] : Scan(g, k)
           T == {k \in Nat : k <= n => Begins(k)}
<1>1. Begins(0)
  <2>1. [s \in SUBSET (1..0) |-> base] \in [SUBSET (1..0) -> St]
    OBVIOUS
  <2>2. Scan([s \in SUBSET (1..0) |-> base], 0)
    OBVIOUS
  <2> QED
    BY <2>1, <2>2
<1>2. ASSUME NEW k \in Nat, k < n, Begins(k) PROVE Begins(k + 1)
  <2>1. PICK g \in [SUBSET (1..k) -> St] : Scan(g, k)
    BY <1>2
  <2> DEFINE h == [s \in SUBSET (1..(k + 1)) |->
                     IF k + 1 \in s THEN F[<<g[s \ {k + 1}], k + 1>>] ELSE g[s]]
  <2>2. ASSUME NEW s \in SUBSET (1..(k + 1)), k + 1 \in s
        PROVE  h[s] \in St /\ h[s] = IF s = {} THEN base
            ELSE F[<<h[s \ {Routing!Max(s)}], Routing!Max(s)>>]
    <3>1. Routing!Max(s) = k + 1 /\ s \ {k + 1} \in SUBSET (1..k)
      BY <2>2, MaxFacts
    <3>2. g[s \ {k + 1}] \in St /\ k + 1 \in 1..n
      BY <1>2, <2>1, <3>1
    <3>3. h[s \ {k + 1}] = g[s \ {k + 1}]
      OBVIOUS
    <3>4. h[s] = F[<<g[s \ {k + 1}], k + 1>>]
      BY <2>2
    <3> QED
      BY <2>2, <3>1, <3>2, <3>3, <3>4
  <2>3. ASSUME NEW s \in SUBSET (1..(k + 1)), k + 1 \notin s
        PROVE  h[s] \in St /\ h[s] = IF s = {} THEN base
            ELSE F[<<h[s \ {Routing!Max(s)}], Routing!Max(s)>>]
    <3>0. \A i \in s : i \in 1..k
      BY <2>3
    <3>1. s \in SUBSET (1..k) /\ s \ {Routing!Max(s)} \in SUBSET (1..k)
      BY <3>0
    <3>2. h[s] = g[s]
      BY <2>3
    <3>3. h[s \ {Routing!Max(s)}] = g[s \ {Routing!Max(s)}]
      BY <2>3
    <3>4. g[s] = IF s = {} THEN base ELSE F[<<g[s \ {Routing!Max(s)}], Routing!Max(s)>>]
      BY <2>1, <3>1
    <3>5. g[s] \in St
      BY <3>1
    <3> QED
      BY <3>2, <3>3, <3>4, <3>5
  <2> HIDE DEF h
  <2>4. \A s \in SUBSET (1..(k + 1)) : h[s] \in St
    BY <2>2, <2>3
  <2>5. h \in [SUBSET (1..(k + 1)) -> St]
    BY <2>4 DEF h
  <2>6. Scan(h, k + 1)
    BY <2>2, <2>3
  <2> QED
    BY <2>5, <2>6
<1>3. Begins(n)
  <2> HIDE DEF Begins
  <2>1. 0 \in T /\ \A k \in Nat : k < n /\ k \in T => k + 1 \in T
    BY <1>1, <1>2
  <2>2. T \in SUBSET Nat
    OBVIOUS
  <2>3. n \in T
    <3> HIDE DEF T
    <3> QED
      BY <2>1, <2>2, UpTo
  <2> QED
    BY <2>3
<1> QED
  BY <1>3 DEF IsScan

(* The prefixes of 1..n, taken apart.                                      *)
LEMMA Prefix ==
  ASSUME NEW n \in Nat, NEW k \in Nat, k < n
  PROVE  /\ 1..(k + 1) \in SUBSET (1..n) /\ 1..(k + 1) # {}
         /\ Routing!Max(1..(k + 1)) = k + 1 /\ (1..(k + 1)) \ {k + 1} = 1..k
<1>1. 1..(k + 1) \in SUBSET (1..n) /\ k + 1 \in 1..(k + 1) /\ (1..(k + 1)) \ {k + 1} = 1..k
  OBVIOUS
<1>2. Routing!Max(1..(k + 1)) = k + 1
  BY <1>1, MaxFacts
<1> QED
  BY <1>1, <1>2

-----------------------------------------------------------------------------
(* The scan of choose                                                      *)

Total == Len(Candidates)

(* The targets are numbered from 1.                                        *)
LEMMA TargetFacts ==
  ASSUME Routing!PolicyAssumption
  PROVE  /\ Total \in Nat /\ Routing!Targets = 1..Total
         /\ \A t \in Routing!Targets : /\ Candidates[t].provider \in STRING
                                       /\ Routing!Owner(t) \in DOMAIN Accounts \cup {Routing!NoAccount}
                                       /\ Candidates[t].limit \in Nat \ {0}
                                       /\ Candidates[t].weight \in Nat \ {0}
                                       /\ Candidates[t].cost \in Nat
<1> DEFINE R == [provider : STRING, account : DOMAIN Accounts \cup {Routing!NoAccount},
                 quota : DOMAIN Quotas, limit : Nat \ {0}, weight : Nat \ {0}, cost : Nat,
                 subscribed : BOOLEAN, kind : {"official", "reverse", "other"}]
<1>1. Candidates \in Seq(R)
  BY DEF Routing!PolicyAssumption
<1>2. \A r \in R : /\ r.provider \in STRING
                   /\ r.account \in DOMAIN Accounts \cup {Routing!NoAccount}
                   /\ r.limit \in Nat \ {0} /\ r.weight \in Nat \ {0} /\ r.cost \in Nat
  OBVIOUS
<1> HIDE DEF R
<1>3. Total \in Nat /\ Routing!Targets = 1..Total /\ \A t \in Routing!Targets :
          Candidates[t] \in R
  BY <1>1 DEF Total, Routing!Targets
<1> QED
  BY <1>2, <1>3 DEF Routing!Owner

(* Rotated goes through the targets in the order of their distance.        *)
LEMMA RotatedFacts ==
  ASSUME Routing!PolicyAssumption, start \in Nat
  PROVE  /\ DOMAIN Routing!Rotated = 1..Total
         /\ \A i \in 1..Total :
              Routing!Rotated[i] \in Routing!Targets
                  /\ Routing!Distance(Routing!Rotated[i]) = i - 1
         /\ \A t \in Routing!Targets : /\ Routing!Distance(t) \in 0..(Total - 1)
                                       /\ Routing!Distance(t) + 1 \in 1..Total
                                       /\ Routing!Rotated[Routing!Distance(t) + 1] = t
<1>1. Total \in Nat /\ Routing!Targets = 1..Total
  BY TargetFacts
<1>2. DOMAIN Routing!Rotated = 1..Total /\ \A i \in 1..Total :
          Routing!Rotated[i] = ((start + i - 1) % Total) + 1
  BY <1>1 DEF Routing!Rotated, Total
<1>3. \A t : Routing!Distance(t) = (t - 1 - start) % Total
  BY DEF Routing!Distance, Total
<1>4. CASE Total = 0
  BY <1>1, <1>2, <1>4
<1>5. CASE Total > 0
  <2>1. /\ \A i \in 1..Total : /\ ((start + i - 1) % Total) + 1 \in 1..Total
                               /\ \A t \in Int : t = ((start + i - 1) % Total) + 1
                                                 => (t - 1 - start) % Total = i - 1
        /\ \A t \in 1..Total :
              /\ (t - 1 - start) % Total \in 0..(Total - 1)
              /\ ((start + (((t - 1 - start) % Total) + 1) - 1) % Total) + 1 = t
    BY <1>1, <1>5, Rotation
  <2>2. ASSUME NEW i \in 1..Total
            PROVE Routing!Rotated[i] \in Routing!Targets
                /\ Routing!Distance(Routing!Rotated[i]) = i - 1
    <3>1. Routing!Rotated[i] = ((start + i - 1) % Total) + 1
      BY <1>2
    <3>2. Routing!Rotated[i] \in 1..Total
      BY <2>1, <3>1
    <3>3. (Routing!Rotated[i] - 1 - start) % Total = i - 1
      BY <2>1, <3>1, <3>2
    <3> QED
      BY <1>1, <1>3, <3>2, <3>3
  <2>3. ASSUME NEW t \in Routing!Targets
        PROVE  /\ Routing!Distance(t) \in 0..(Total - 1) /\ Routing!Distance(t) + 1 \in 1..Total
               /\ Routing!Rotated[Routing!Distance(t) + 1] = t
    <3>1. Routing!Distance(t) = (t - 1 - start) % Total /\ t \in 1..Total
      BY <1>1, <1>3
    <3>2. Routing!Distance(t) \in 0..(Total - 1)
              /\ ((start + (Routing!Distance(t) + 1) - 1) % Total) + 1 = t
      BY <2>1, <3>1
    <3>3. Routing!Distance(t) + 1 \in 1..Total
      BY <1>1, <3>2
    <3> QED
      BY <1>2, <3>2, <3>3
  <2> QED
    BY <1>2, <2>2, <2>3
<1> QED
  BY <1>1, <1>4, <1>5

\* One step of the scan of choose, and the scan
ChooseStep(s, t, affinity) ==
    IF s.stop \/ ~Routing!Free(t) \/ ~Routing!InPool(t, Routing!PoolPreferences(affinity)) THEN s
    ELSE IF s.best = 0 \/ Routing!Compare(t, s.best) < 0
            \/ (Routing!Compare(t, s.best) = 0 /\ Routing!Value(t) < Routing!Value(s.best))
    THEN [best |-> t, stop |-> Routing!EndsScan(t)]
    ELSE s
Nothing == [best |-> 0, stop |-> FALSE]
ScanStates == [best : 0..Total, stop : BOOLEAN]
ChooseScan(affinity) ==
    CHOOSE iter : iter = [s \in SUBSET (DOMAIN Routing!Rotated) |->
        IF s = {} THEN Nothing
        ELSE ChooseStep(iter[s \ {Routing!Max(s)}], Routing!Rotated[Routing!Max(s)], affinity)]

LEMMA ChooseIsScan ==
  ASSUME NEW affinity
  PROVE  Routing!Choose(affinity) = ChooseScan(affinity)[DOMAIN Routing!Rotated].best
  BY DEF Routing!Choose, Routing!FoldLeft, Routing!MapThenFoldSet, ChooseScan, ChooseStep, Nothing

(* The scan exists, and its steps are those of choose.                     *)
LEMMA ChooseSteps ==
  ASSUME Routing!PolicyAssumption, start \in Nat, NEW affinity
  PROVE  \E h \in [0..Total -> ScanStates] :
            /\ h[0] = Nothing
            /\ \A k \in 0..Total : k < Total =>
                  h[k + 1] = ChooseStep(h[k], Routing!Rotated[k + 1], affinity)
            /\ Routing!Choose(affinity) = h[Total].best
<1>1. Total \in Nat /\ Routing!Targets = 1..Total /\ DOMAIN Routing!Rotated = 1..Total
      /\ \A i \in 1..Total : Routing!Rotated[i] \in Routing!Targets
  BY TargetFacts, RotatedFacts
<1>2. ASSUME NEW s \in ScanStates, NEW i \in 1..Total
      PROVE  ChooseStep(s, Routing!Rotated[i], affinity) \in ScanStates
  <2>1. Routing!Rotated[i] \in 0..Total
    BY <1>1
  <2>2. Routing!EndsScan(Routing!Rotated[i]) \in BOOLEAN
    BY DEF Routing!EndsScan
  <2>3. [best |-> Routing!Rotated[i],
            stop |-> Routing!EndsScan(Routing!Rotated[i])] \in ScanStates
    BY <2>1, <2>2 DEF ScanStates
  <2> QED
    BY <2>3 DEF ChooseStep
<1> DEFINE F == [q \in ScanStates \X (1..Total) |-> ChooseStep(q[1], Routing!Rotated[q[2]],
        affinity)]
           Is(g) == [s \in SUBSET (1..Total) |->
                       IF s = {} THEN Nothing
                       ELSE ChooseStep(g[s \ {Routing!Max(s)}], Routing!Rotated[Routing!Max(s)],
                           affinity)]
<1>3. F \in [ScanStates \X (1..Total) -> ScanStates]
  BY <1>2
<1>4. \A s \in ScanStates, i \in 1..Total :
          F[<<s, i>>] = ChooseStep(s, Routing!Rotated[i], affinity)
  OBVIOUS
<1>5. Nothing \in ScanStates
  BY <1>1 DEF Nothing, ScanStates
<1> HIDE DEF F
<1>6. PICK g \in [SUBSET (1..Total) -> ScanStates] : IsScan(g, Total, Nothing, F)
  <2>1. Total \in Nat
    BY <1>1
  <2> QED
    BY <1>3, <1>5, <2>1, ScanExists
<1>8. ASSUME NEW s \in SUBSET (1..Total), s # {}
      PROVE  F[<<g[s \ {Routing!Max(s)}], Routing!Max(s)>>]
                = ChooseStep(g[s \ {Routing!Max(s)}], Routing!Rotated[Routing!Max(s)], affinity)
  <2>1. Routing!Max(s) \in 1..Total
    BY <1>1, <1>8, MaxIn
  <2>2. g[s \ {Routing!Max(s)}] \in ScanStates
    OBVIOUS
  <2> QED
    BY <1>4, <2>1, <2>2
<1>9. g = Is(g)
  BY <1>6, <1>8 DEF IsScan
<1> DEFINE c == ChooseScan(affinity)
<1>10. c = Is(c)
  <2>1. \E x : x = Is(x)
    BY <1>9
  <2>2. c = CHOOSE x : x = Is(x)
    BY <1>1 DEF ChooseScan
  <2> QED
    BY <2>1, <2>2
<1> HIDE DEF c
<1>11. c[1..0] = Nothing
  <2>1. 1..0 = {} /\ 1..0 \in SUBSET (1..Total)
    OBVIOUS
  <2> QED
    BY <1>10, <2>1
<1>12. ASSUME NEW k \in Nat, k < Total
       PROVE  c[1..(k + 1)] = ChooseStep(c[1..k], Routing!Rotated[k + 1], affinity)
  <2> DEFINE s == 1..(k + 1)
  <2>1. s \in SUBSET (1..Total) /\ s # {} /\ Routing!Max(s) = k + 1 /\ s \ {k + 1} = 1..k
    BY <1>1, <1>12, Prefix
  <2> HIDE DEF s
  <2>2. c[s] = ChooseStep(c[s \ {Routing!Max(s)}], Routing!Rotated[Routing!Max(s)], affinity)
    BY <1>10, <2>1
  <2>3. c[s] = ChooseStep(c[1..k], Routing!Rotated[k + 1], affinity)
    BY <2>1, <2>2
  <2> QED
    BY <2>3 DEF s
<1>13. \A k \in 0..Total : c[1..k] \in ScanStates
  <2> DEFINE T == {k \in Nat : k <= Total => c[1..k] \in ScanStates}
  <2>1. 0 \in T
    BY <1>5, <1>11
  <2>2. ASSUME NEW k \in Nat, k < Total, k \in T PROVE k + 1 \in T
    <3>1. c[1..k] \in ScanStates /\ k + 1 \in 1..Total
      BY <1>1, <2>2
    <3> QED
      BY <1>2, <1>12, <2>2, <3>1
  <2>3. \A k \in 0..Total : k \in T
    <3>1. T \in SUBSET Nat
      OBVIOUS
    <3> HIDE DEF T
    <3> QED
      BY <1>1, <2>1, <2>2, <3>1, UpTo
  <2> QED
    BY <1>1, <2>3
<1> DEFINE h == [k \in 0..Total |-> c[1..k]]
<1>14. h \in [0..Total -> ScanStates]
  BY <1>13
<1>15. h[0] = Nothing
  BY <1>1, <1>11
<1>16. ASSUME NEW k \in 0..Total, k < Total
       PROVE  h[k + 1] = ChooseStep(h[k], Routing!Rotated[k + 1], affinity)
  BY <1>1, <1>12, <1>16
<1>17. Routing!Choose(affinity) = h[Total].best
  BY <1>1, ChooseIsScan DEF c
<1> HIDE DEF h
<1> QED
  BY <1>14, <1>15, <1>16, <1>17

-----------------------------------------------------------------------------
(* The order of the targets                                                *)

\* The types of the state, and what the assumption says of fractions
PolicyTypes ==
    /\ type \in Types /\ strategy \in Strategies /\ prefs \in Seq(STRING)
    /\ load \in [Routing!Targets -> Nat] /\ finish \in [Routing!Targets -> Nat]
    /\ latency \in [Routing!Targets -> Nat]
    /\ used \in [DOMAIN Accounts -> Int]
    /\ account \in [DOMAIN Accounts -> [finish : Nat, last : Nat]]
    /\ start \in Nat /\ dispatch \in Nat /\ steady \in BOOLEAN
    /\ grants \in [Routing!Targets -> Nat] /\ leases \in [DOMAIN Accounts -> Nat]

LEMMA Fraction ==
  ASSUME NEW s \in Nat, NEW w \in Nat \ {0}
  PROVE  s \div w \in Nat
  OBVIOUS

LEMMA ValueFacts ==
  ASSUME Routing!PolicyAssumption, PolicyTypes, NEW t \in Routing!Targets
  PROVE  /\ Routing!Value(t) \in Nat
         /\ \A p : Routing!PreferenceValue(t, p) \in Nat
<1>1. /\ load[t] \in Nat /\ finish[t] \in Nat /\ latency[t] \in Nat /\ t \in Nat /\ t > 0
      /\ Candidates[t].cost \in Nat
  BY TargetFacts DEF PolicyTypes
<1>2. Scale \div Candidates[t].limit \in Nat
  BY TargetFacts, Fraction DEF Routing!PolicyAssumption
<1>3. \A p : Routing!PreferenceValue(t, p) \in Nat
  BY <1>1 DEF Routing!PreferenceValue, Routing!Infinity
<1>4. PICK share \in Nat : share = load[t] * (Scale \div Candidates[t].limit)
  BY <1>1, <1>2
<1>5. share * Routing!Infinity + latency[t] \in Nat /\ t - 1 \in Nat
  BY <1>1 DEF Routing!Infinity
<1>6. Routing!Value(t) \in Nat
  BY <1>1, <1>4, <1>5 DEF Routing!Value
<1> QED
  BY <1>3, <1>6

\* Where two targets are first told apart
First(t, u, i) ==
    /\ i \in DOMAIN prefs
    /\ Routing!PreferenceValue(t, prefs[i]) < Routing!PreferenceValue(u, prefs[i])
    /\ \A j \in DOMAIN prefs : j < i =>
         Routing!PreferenceValue(t, prefs[j]) = Routing!PreferenceValue(u, prefs[j])
Alike(t, u) == \A i \in DOMAIN prefs :
    Routing!PreferenceValue(t, prefs[i]) = Routing!PreferenceValue(u, prefs[i])

(* Compare is the lexicographic order of the preferences.                  *)
LEMMA CompareFacts ==
  ASSUME Routing!PolicyAssumption, PolicyTypes, NEW t \in Routing!Targets,
         NEW u \in Routing!Targets
  PROVE  /\ Routing!Compare(t, u) \in Int
         /\ Routing!Compare(t, u) = 0 <=> Alike(t, u)
         /\ Routing!Compare(t, u) < 0 <=> \E i \in DOMAIN prefs : First(t, u, i)
         /\ Routing!Compare(t, u) > 0 <=> \E i \in DOMAIN prefs : First(u, t, i)
<1> DEFINE differs == {i \in DOMAIN prefs :
        Routing!PreferenceValue(t, prefs[i]) # Routing!PreferenceValue(u, prefs[i])}
           m == Routing!Min(differs)
<1>1. \A p : Routing!PreferenceValue(t, p) \in Nat /\ Routing!PreferenceValue(u, p) \in Nat
  BY ValueFacts
<1>2. \A i \in DOMAIN prefs : i \in Nat
  BY DEF PolicyTypes
<1>3. CASE differs = {}
  <2>1. Routing!Compare(t, u) = 0
    BY <1>3 DEF Routing!Compare
  <2>2. Alike(t, u)
    BY <1>3 DEF Alike
  <2>3. \A i \in DOMAIN prefs : ~First(t, u, i) /\ ~First(u, t, i)
    BY <1>1, <2>2 DEF Alike, First
  <2> QED
    BY <2>1, <2>2, <2>3
<1>4. CASE differs # {}
  <2>1. differs \in SUBSET Nat
    BY <1>2
  <2>2. m \in differs /\ \A y \in differs : m <= y
    <3> HIDE DEF differs
    <3> QED
      BY <1>4, <2>1, MinFacts
  <2>3. Routing!Compare(t, u) = Routing!PreferenceValue(t, prefs[m]) - Routing!PreferenceValue(u,
            prefs[m])
    BY <1>4 DEF Routing!Compare
  <2> HIDE DEF m
  <2>4. /\ m \in DOMAIN prefs
        /\ Routing!PreferenceValue(t, prefs[m]) # Routing!PreferenceValue(u, prefs[m])
        /\ m \in Nat
    BY <1>2, <2>2
  <2>5. \A j \in DOMAIN prefs : j < m =>
            Routing!PreferenceValue(t, prefs[j]) = Routing!PreferenceValue(u, prefs[j])
    BY <1>2, <2>2, <2>4
  <2>6. ~Alike(t, u)
    BY <2>4 DEF Alike
  <2>7. \A i \in DOMAIN prefs : First(t, u, i) \/ First(u, t, i) => i = m
    <3> SUFFICES ASSUME NEW i \in DOMAIN prefs, First(t, u, i) \/ First(u, t, i) PROVE i = m
      OBVIOUS
    <3>1. i \in Nat /\ Routing!PreferenceValue(t, prefs[i]) # Routing!PreferenceValue(u, prefs[i])
      BY <1>1, <1>2 DEF First
    <3>2. ~(i < m)
      BY <2>5, <3>1
    <3>3. ~(m < i)
      BY <2>4 DEF First
    <3> QED
      BY <2>4, <3>1, <3>2, <3>3
  <2>8. First(t, u, m) <=>
            Routing!PreferenceValue(t, prefs[m]) < Routing!PreferenceValue(u, prefs[m])
    BY <2>4, <2>5 DEF First
  <2>9. First(u, t, m) <=>
            Routing!PreferenceValue(u, prefs[m]) < Routing!PreferenceValue(t, prefs[m])
    BY <2>4, <2>5 DEF First
  <2>10. Routing!PreferenceValue(t, prefs[m]) \in Nat
             /\ Routing!PreferenceValue(u, prefs[m]) \in Nat
    BY <1>1
  <2>11. /\ Routing!Compare(t, u) \in Int /\ Routing!Compare(t, u) # 0
         /\ Routing!Compare(t, u) < 0 <=> First(t, u, m)
         /\ Routing!Compare(t, u) > 0 <=> First(u, t, m)
    BY <2>3, <2>4, <2>8, <2>9, <2>10
  <2> QED
    BY <2>4, <2>6, <2>7, <2>11
<1> QED
  BY <1>3, <1>4

\* The comparison that choose makes
Before(t, u) == Routing!Compare(t, u) < 0
    \/ (Routing!Compare(t, u) = 0 /\ Routing!Value(t) < Routing!Value(u))
Tied(t, u) == Routing!Compare(t, u) = 0 /\ Routing!Value(t) = Routing!Value(u)

(* It is a linear order up to ties.                                        *)
LEMMA OrderFacts ==
  ASSUME Routing!PolicyAssumption, PolicyTypes, NEW t \in Routing!Targets,
         NEW u \in Routing!Targets, NEW v \in Routing!Targets
  PROVE  /\ Before(t, u) \/ Before(u, t) \/ Tied(t, u)
         /\ Tied(t, u) => Tied(u, t)
         /\ Before(t, u) /\ (Before(u, v) \/ Tied(u, v)) => Before(t, v)
<1>1. Routing!Value(t) \in Nat /\ Routing!Value(u) \in Nat /\ Routing!Value(v) \in Nat
  BY ValueFacts
<1>2. /\ Routing!Compare(t, u) \in Int
      /\ Routing!Compare(t, u) = 0 <=> Alike(t, u)
      /\ Routing!Compare(t, u) < 0 <=> \E i \in DOMAIN prefs : First(t, u, i)
      /\ Routing!Compare(t, u) > 0 <=> \E i \in DOMAIN prefs : First(u, t, i)
  BY CompareFacts
<1>3. /\ Routing!Compare(u, t) \in Int
      /\ Routing!Compare(u, t) = 0 <=> Alike(u, t)
      /\ Routing!Compare(u, t) < 0 <=> \E i \in DOMAIN prefs : First(u, t, i)
  BY CompareFacts
<1>4. /\ Routing!Compare(u, v) \in Int
      /\ Routing!Compare(u, v) = 0 <=> Alike(u, v)
      /\ Routing!Compare(u, v) < 0 <=> \E i \in DOMAIN prefs : First(u, v, i)
  BY CompareFacts
<1>5. /\ Routing!Compare(t, v) \in Int
      /\ Routing!Compare(t, v) = 0 <=> Alike(t, v)
      /\ Routing!Compare(t, v) < 0 <=> \E i \in DOMAIN prefs : First(t, v, i)
  BY CompareFacts
<1>6. Alike(t, u) <=> Alike(u, t)
  BY DEF Alike
<1>7. Before(t, u) \/ Before(u, t) \/ Tied(t, u)
  BY <1>1, <1>2, <1>3, <1>6 DEF Before, Tied
<1>8. Tied(t, u) => Tied(u, t)
  BY <1>2, <1>3, <1>6 DEF Tied
<1>9. Alike(t, u) /\ Alike(u, v) => Alike(t, v)
  BY DEF Alike
<1>10. ASSUME NEW i \in DOMAIN prefs, First(t, u, i), Alike(u, v) PROVE First(t, v, i)
  BY <1>10 DEF First, Alike
<1>11. ASSUME NEW i \in DOMAIN prefs, Alike(t, u), First(u, v, i) PROVE First(t, v, i)
  BY <1>11 DEF First, Alike
<1>12. ASSUME NEW i \in DOMAIN prefs, NEW j \in DOMAIN prefs, First(t, u, i), First(u, v, j)
       PROVE  \E k \in DOMAIN prefs : First(t, v, k)
  <2>1. i \in Nat /\ j \in Nat /\ \A k \in DOMAIN prefs : k \in Nat
    BY SMTT(30) DEF PolicyTypes
  <2>2. CASE i < j
    <3>1. First(t, v, i)
      BY <1>12, <2>1, <2>2 DEF First
    <3> QED
      BY <3>1
  <2>3. CASE j < i
    <3>1. First(t, v, j)
      BY <1>12, <2>1, <2>3 DEF First
    <3> QED
      BY <3>1
  <2>4. CASE i = j
    <3>1. /\ Routing!PreferenceValue(t, prefs[i]) \in Nat
          /\ Routing!PreferenceValue(u, prefs[i]) \in Nat
          /\ Routing!PreferenceValue(v, prefs[i]) \in Nat
      BY ValueFacts
    <3>2. First(t, v, i)
      BY <1>12, <2>4, <3>1 DEF First
    <3> QED
      BY <3>2
  <2> QED
    BY <2>1, <2>2, <2>3, <2>4
<1>13. Routing!Compare(t, u) < 0 /\ Routing!Compare(u, v) <= 0 => Routing!Compare(t, v) < 0
  BY <1>2, <1>4, <1>5, <1>10, <1>12
<1>14. Routing!Compare(t, u) <= 0 /\ Routing!Compare(u, v) < 0 => Routing!Compare(t, v) < 0
  BY <1>2, <1>4, <1>5, <1>11, <1>12
<1>15. Routing!Compare(t, u) = 0 /\ Routing!Compare(u, v) = 0 => Routing!Compare(t, v) = 0
  BY <1>2, <1>4, <1>5, <1>9
<1>16. Before(t, u) /\ (Before(u, v) \/ Tied(u, v)) => Before(t, v)
  BY <1>1, <1>2, <1>4, <1>5, <1>13, <1>14, <1>15 DEF Before, Tied
<1> QED
  BY <1>7, <1>8, <1>16

-----------------------------------------------------------------------------
(* What choose finds                                                       *)

(* A scan that has ended had nothing better to come.                       *)
LEMMA EndIsBest ==
  ASSUME Routing!PolicyAssumption, PolicyTypes, NEW t \in Routing!Targets,
         NEW u \in Routing!Targets,
         Routing!EndsScan(t), Routing!Distance(t) < Routing!Distance(u)
  PROVE  Routing!Better(t, u)
<1>1. Routing!Value(t) = 0 /\ prefs = <<>> /\ Routing!Value(u) \in Nat
  BY ValueFacts DEF Routing!EndsScan
<1>2. Alike(t, u)
  BY <1>1 DEF Alike
<1>3. Routing!Compare(t, u) = 0
  BY <1>2, CompareFacts
<1> QED
  BY <1>1, <1>3 DEF Routing!Better

(* One step of the scan keeps the best of those it has seen.               *)
LEMMA BestStep ==
  ASSUME Routing!PolicyAssumption, PolicyTypes, NEW b \in Routing!Targets,
         NEW t \in Routing!Targets, NEW u \in Routing!Targets,
         Routing!Distance(b) < Routing!Distance(t), Routing!Distance(u) < Routing!Distance(t)
  PROVE  /\ ~Before(t, b) => Routing!Better(b, t)
         /\ Before(t, b) => Routing!Better(t, b)
         /\ Before(t, b) /\ Routing!Better(b, u) => Routing!Better(t, u)
<1>1. Routing!Better(b, t) <=>
          Before(b, t) \/ (Tied(b, t) /\ Routing!Distance(b) < Routing!Distance(t))
  BY DEF Routing!Better, Before, Tied
<1>2. Routing!Better(b, u) => Before(b, u) \/ Tied(b, u)
  BY DEF Routing!Better, Before, Tied
<1>3. \A v : Before(t, v) => Routing!Better(t, v)
  BY DEF Routing!Better, Before
<1>4. Before(t, b) \/ Before(b, t) \/ Tied(t, b)
  BY OrderFacts
<1>5. Tied(t, b) => Tied(b, t)
  BY OrderFacts
<1>6. Before(t, b) /\ (Before(b, u) \/ Tied(b, u)) => Before(t, u)
  BY OrderFacts
<1> QED
  BY <1>1, <1>2, <1>3, <1>4, <1>5, <1>6

\* What the scan knows when it has seen the targets nearer than k
Scanned(s, k, affinity) ==
    /\ s.best = 0 => \A u \in Routing!Contenders(affinity) : ~(Routing!Distance(u) < k)
    /\ s.best # 0 => /\ s.best \in Routing!Contenders(affinity) /\ Routing!Distance(s.best) < k
                     /\ \A u \in Routing!Contenders(affinity) \ {s.best} :
                           Routing!Distance(u) < k => Routing!Better(s.best, u)
    /\ s.stop => s.best # 0 /\ Routing!EndsScan(s.best)

LEMMA ScannedStep ==
  ASSUME Routing!PolicyAssumption, PolicyTypes, NEW affinity, NEW k \in 0..Total, k < Total,
         NEW s \in ScanStates, Scanned(s, k, affinity)
  PROVE  Scanned(ChooseStep(s, Routing!Rotated[k + 1], affinity), k + 1, affinity)
<1> DEFINE t == Routing!Rotated[k + 1]
           n == ChooseStep(s, t, affinity)
           C == Routing!Contenders(affinity)
<1>1. Total \in Nat /\ Routing!Targets = 1..Total /\ start \in Nat
  BY TargetFacts DEF PolicyTypes
<1>2. k + 1 \in 1..Total
  BY <1>1
<1>3. t \in Routing!Targets /\ Routing!Distance(t) = k
  <2>1. Routing!Distance(t) = (k + 1) - 1
    BY <1>1, <1>2, RotatedFacts
  <2> QED
    BY <1>1, <1>2, <2>1, RotatedFacts
<1>4. \A u \in Routing!Targets :
          Routing!Distance(u) \in Nat
              /\ (Routing!Distance(u) < k + 1 => Routing!Distance(u) < k \/ u = t)
  <2> TAKE u \in Routing!Targets
  <2>1. Routing!Distance(u) \in 0..(Total - 1) /\ Routing!Rotated[Routing!Distance(u) + 1] = u
    BY <1>1, RotatedFacts
  <2>2. Routing!Distance(u) = k => u = t
    BY <2>1
  <2> QED
    BY <1>1, <2>1, <2>2
<1> HIDE DEF t
<1>5. C \subseteq Routing!Targets
          /\ (t \in C <=> Routing!Free(t) /\ Routing!InPool(t, Routing!PoolPreferences(affinity)))
  BY <1>3 DEF Routing!Contenders
<1>6. s.best \in 0..Total /\ s.stop \in BOOLEAN /\ 0 \notin Routing!Targets /\ t # 0
  BY <1>1, <1>3 DEF ScanStates
<1> HIDE DEF C
<1>7. CASE s.stop
  <2>1. n = s
    BY <1>7 DEF ChooseStep
  <2>2. s.best # 0 /\ Routing!EndsScan(s.best) /\ s.best \in C /\ Routing!Distance(s.best) < k
    BY <1>7 DEF Scanned, C
  <2>3. s.best \in Routing!Targets /\ Routing!Distance(s.best) < Routing!Distance(t)
    BY <1>3, <1>5, <2>2
  <2>4. Routing!Better(s.best, t)
    BY <1>3, <2>2, <2>3, EndIsBest
  <2>5. \A u \in C \ {s.best} : Routing!Distance(u) < k + 1 => Routing!Better(s.best, u)
    BY <1>4, <1>5, <2>2, <2>4 DEF Scanned, C
  <2>6. Routing!Distance(s.best) < k + 1
    BY <1>4, <2>2, <2>3
  <2> QED
    BY <2>1, <2>2, <2>5, <2>6 DEF Scanned, C, t
<1>8. CASE ~s.stop /\ t \notin C
  <2>1. n = s
    BY <1>5, <1>8 DEF ChooseStep
  <2>2. \A u \in C : Routing!Distance(u) < k + 1 => Routing!Distance(u) < k
    BY <1>4, <1>5, <1>8
  <2>3. s.best # 0 => Routing!Distance(s.best) < k + 1
    BY <1>4, <1>5 DEF Scanned, C
  <2>4. Scanned(s, k + 1, affinity)
    BY <1>8, <2>2, <2>3 DEF Scanned, C
  <2> QED
    BY <2>1, <2>4 DEF t
<1>9. CASE ~s.stop /\ t \in C /\ s.best = 0
  <2>1. n = [best |-> t, stop |-> Routing!EndsScan(t)]
    BY <1>5, <1>9 DEF ChooseStep
  <2>2. n.best = t /\ (n.stop => Routing!EndsScan(t))
    BY <2>1
  <2>3. \A u \in C : Routing!Distance(u) < k + 1 => u = t
    BY <1>4, <1>5, <1>9 DEF Scanned, C
  <2>4. Routing!Distance(t) < k + 1
    BY <1>3
  <2> HIDE DEF n
  <2>5. Scanned(n, k + 1, affinity)
    BY <1>6, <1>9, <2>2, <2>3, <2>4 DEF Scanned, C
  <2> QED
    BY <2>5 DEF n, t
<1>10. CASE ~s.stop /\ t \in C /\ s.best # 0 /\ Before(t, s.best)
  <2>1. n = [best |-> t, stop |-> Routing!EndsScan(t)]
    BY <1>5, <1>10 DEF ChooseStep, Before
  <2>2. n.best = t /\ (n.stop => Routing!EndsScan(t))
    BY <2>1
  <2>3. s.best \in Routing!Targets /\ Routing!Distance(s.best) < Routing!Distance(t)
    BY <1>3, <1>5, <1>10 DEF Scanned, C
  <2>4. \A u \in C : Routing!Distance(u) < k + 1 /\ u # t => Routing!Better(t, u)
    <3> SUFFICES ASSUME NEW u \in C, Routing!Distance(u) < k + 1, u # t PROVE Routing!Better(t, u)
      OBVIOUS
    <3>1. u \in Routing!Targets /\ Routing!Distance(u) < Routing!Distance(t)
      BY <1>3, <1>4, <1>5
    <3>2. CASE u = s.best
      BY <1>3, <1>10, <2>3, <3>1, <3>2, BestStep
    <3>3. CASE u # s.best
      <4>1. Routing!Better(s.best, u)
        BY <1>3, <1>10, <3>1, <3>3 DEF Scanned, C
      <4> QED
        BY <1>3, <1>10, <2>3, <3>1, <4>1, BestStep
    <3> QED
      BY <3>2, <3>3
  <2>5. Routing!Distance(t) < k + 1
    BY <1>3
  <2> HIDE DEF n
  <2>6. Scanned(n, k + 1, affinity)
    BY <1>6, <1>10, <2>2, <2>4, <2>5 DEF Scanned, C
  <2> QED
    BY <2>6 DEF n, t
<1>11. CASE ~s.stop /\ t \in C /\ s.best # 0 /\ ~Before(t, s.best)
  <2>1. n = s
    BY <1>5, <1>11 DEF ChooseStep, Before
  <2>2. s.best \in Routing!Targets /\ Routing!Distance(s.best) < Routing!Distance(t)
    BY <1>3, <1>5, <1>11 DEF Scanned, C
  <2>3. Routing!Better(s.best, t)
    BY <1>3, <1>11, <2>2, BestStep
  <2>4. \A u \in C \ {s.best} : Routing!Distance(u) < k + 1 => Routing!Better(s.best, u)
    BY <1>4, <1>5, <1>11, <2>3 DEF Scanned, C
  <2>5. Routing!Distance(s.best) < k + 1
    BY <1>3, <1>4, <2>2
  <2>6. Scanned(s, k + 1, affinity)
    BY <1>11, <2>4, <2>5 DEF Scanned, C
  <2> QED
    BY <2>1, <2>6 DEF t
<1> QED
  BY <1>6, <1>7, <1>8, <1>9, <1>10, <1>11

(* choose returns the best contender, if there is one.                     *)
LEMMA ChooseFacts ==
  ASSUME Routing!PolicyAssumption, PolicyTypes, NEW affinity
  PROVE  /\ Routing!Choose(affinity) = 0 <=> Routing!Contenders(affinity) = {}
         /\ Routing!Choose(affinity) # 0 =>
               /\ Routing!Choose(affinity) \in Routing!Contenders(affinity)
               /\ \A u \in Routing!Contenders(affinity) \ {Routing!Choose(affinity)} :
                    Routing!Better(Routing!Choose(affinity), u)
<1>1. start \in Nat /\ Total \in Nat /\ Routing!Targets = 1..Total
  BY TargetFacts DEF PolicyTypes
<1>2. PICK h \in [0..Total -> ScanStates] :
            /\ h[0] = Nothing
            /\ \A k \in 0..Total : k < Total =>
                  h[k + 1] = ChooseStep(h[k], Routing!Rotated[k + 1], affinity)
            /\ Routing!Choose(affinity) = h[Total].best
  BY <1>1, ChooseSteps
<1> DEFINE T == {k \in Nat : k <= Total => Scanned(h[k], k, affinity)}
<1>3. \A u \in Routing!Contenders(affinity) : u \in Routing!Targets
  BY DEF Routing!Contenders
<1>4. \A u \in Routing!Contenders(affinity) : Routing!Distance(u) \in 0..(Total - 1)
  BY <1>1, <1>3, RotatedFacts
<1>5. 0 \in T
  <2>1. h[0].best = 0 /\ h[0].stop = FALSE
    BY <1>2 DEF Nothing
  <2>2. Scanned(h[0], 0, affinity)
    BY <1>1, <1>4, <2>1 DEF Scanned
  <2> QED
    BY <2>2
<1>6. ASSUME NEW k \in Nat, k < Total, k \in T PROVE k + 1 \in T
  <2>1. k \in 0..Total /\ h[k] \in ScanStates /\ Scanned(h[k], k, affinity)
    BY <1>1, <1>6
  <2>2. h[k + 1] = ChooseStep(h[k], Routing!Rotated[k + 1], affinity)
    BY <1>2, <1>6, <2>1
  <2>3. Scanned(h[k + 1], k + 1, affinity)
    BY <1>6, <2>1, <2>2, ScannedStep
  <2> QED
    BY <2>3
<1>7. Scanned(h[Total], Total, affinity)
  <2>1. T \in SUBSET Nat
    OBVIOUS
  <2>2. \A k \in 0..Total : k \in T
    <3> HIDE DEF T
    <3> QED
      BY <1>1, <1>5, <1>6, <2>1, UpTo
  <2> QED
    BY <1>1, <2>2
<1>8. \A u \in Routing!Contenders(affinity) : Routing!Distance(u) < Total /\ u # 0
  BY <1>1, <1>3, <1>4
<1> QED
  BY <1>2, <1>7, <1>8 DEF Scanned

-----------------------------------------------------------------------------
(* The scan of poolPreferences                                             *)

Providers == {Candidates[t].provider : t \in Routing!Targets}
Pools == [Providers -> DOMAIN Accounts \cup {Routing!NoAccount}]
Unpooled == [p \in {Candidates[t].provider : t \in Routing!Targets} |-> Routing!NoAccount]
PoolStep(best, t, affinity) ==
    IF Routing!Usable(t) /\ (best[Candidates[t].provider] = Routing!NoAccount
                             \/ Routing!BeatsInPool(Routing!Owner(t),
                                  best[Candidates[t].provider], affinity))
    THEN [best EXCEPT ![Candidates[t].provider] = Routing!Owner(t)] ELSE best
Numbers == [t \in Routing!Targets |-> t]
PoolScan(affinity) ==
    CHOOSE iter : iter = [s \in SUBSET (DOMAIN Numbers) |->
        IF s = {} THEN Unpooled
        ELSE PoolStep(iter[s \ {Routing!Max(s)}], Numbers[Routing!Max(s)], affinity)]
Ordered == {"fallback", "select", "weighted"}

LEMMA PoolIsScan ==
  ASSUME NEW affinity
  PROVE  Routing!PoolPreferences(affinity) =
            IF type \in Ordered THEN Unpooled ELSE PoolScan(affinity)[DOMAIN Numbers]
  BY DEF Routing!PoolPreferences, Routing!FoldLeft, Routing!MapThenFoldSet, PoolScan, PoolStep,
     Unpooled, Numbers, Ordered

(* The scan exists, and its steps are those of poolPreferences.            *)
LEMMA PoolSteps ==
  ASSUME Routing!PolicyAssumption, NEW affinity
  PROVE  \E h \in [0..Total -> Pools] :
            /\ h[0] = Unpooled
            /\ \A k \in 0..Total : k < Total => h[k + 1] = PoolStep(h[k], k + 1, affinity)
            /\ type \notin Ordered => Routing!PoolPreferences(affinity) = h[Total]
<1>1. /\ Total \in Nat /\ Routing!Targets = 1..Total /\ DOMAIN Numbers = 1..Total
      /\ \A i \in 1..Total : Numbers[i] = i
  BY TargetFacts DEF Numbers
<1>2. ASSUME NEW s \in Pools, NEW i \in 1..Total
      PROVE  PoolStep(s, i, affinity) \in Pools
  <2>1. Routing!Owner(i) \in DOMAIN Accounts \cup {Routing!NoAccount}
            /\ Candidates[i].provider \in Providers
    BY <1>1, TargetFacts DEF Providers
  <2>2. [s EXCEPT ![Candidates[i].provider] = Routing!Owner(i)] \in Pools
    BY <2>1 DEF Pools
  <2> QED
    BY <2>2 DEF PoolStep
<1> DEFINE F == [q \in Pools \X (1..Total) |-> PoolStep(q[1], q[2], affinity)]
           Is(g) == [s \in SUBSET (1..Total) |->
                       IF s = {} THEN Unpooled
                       ELSE PoolStep(g[s \ {Routing!Max(s)}], Numbers[Routing!Max(s)], affinity)]
<1>3. F \in [Pools \X (1..Total) -> Pools]
  BY <1>2
<1>4. \A s \in Pools, i \in 1..Total : F[<<s, i>>] = PoolStep(s, i, affinity)
  OBVIOUS
<1>5. Unpooled \in Pools
  BY DEF Unpooled, Pools, Providers
<1> HIDE DEF F
<1>6. PICK g \in [SUBSET (1..Total) -> Pools] : IsScan(g, Total, Unpooled, F)
  <2>1. Total \in Nat
    BY <1>1
  <2> QED
    BY <1>3, <1>5, <2>1, ScanExists
<1>7. ASSUME NEW s \in SUBSET (1..Total), s # {}
      PROVE  F[<<g[s \ {Routing!Max(s)}], Routing!Max(s)>>]
                = PoolStep(g[s \ {Routing!Max(s)}], Numbers[Routing!Max(s)], affinity)
  <2>1. Routing!Max(s) \in 1..Total
    BY <1>1, <1>7, MaxIn
  <2>2. g[s \ {Routing!Max(s)}] \in Pools
    OBVIOUS
  <2>3. Numbers[Routing!Max(s)] = Routing!Max(s)
    BY <1>1, <2>1
  <2> QED
    BY <1>4, <2>1, <2>2, <2>3
<1>8. g = Is(g)
  BY <1>6, <1>7 DEF IsScan
<1> DEFINE c == PoolScan(affinity)
<1>9. c = Is(c)
  <2>1. \E x : x = Is(x)
    BY <1>8
  <2>2. c = CHOOSE x : x = Is(x)
    BY <1>1 DEF PoolScan
  <2> QED
    BY <2>1, <2>2
<1> HIDE DEF c
<1>10. c[1..0] = Unpooled
  <2>1. 1..0 = {} /\ 1..0 \in SUBSET (1..Total)
    OBVIOUS
  <2> QED
    BY <1>9, <2>1
<1>11. ASSUME NEW k \in Nat, k < Total
       PROVE  c[1..(k + 1)] = PoolStep(c[1..k], k + 1, affinity)
  <2> DEFINE s == 1..(k + 1)
  <2>1. s \in SUBSET (1..Total) /\ s # {} /\ Routing!Max(s) = k + 1 /\ s \ {k + 1} = 1..k
    BY <1>1, <1>11, Prefix
  <2> HIDE DEF s
  <2>2. c[s] = PoolStep(c[s \ {Routing!Max(s)}], Numbers[Routing!Max(s)], affinity)
    BY <1>9, <2>1
  <2>3. Numbers[Routing!Max(s)] = k + 1
    BY <1>1, <1>11, <2>1
  <2>4. c[s] = PoolStep(c[1..k], k + 1, affinity)
    BY <2>1, <2>2, <2>3
  <2> QED
    BY <2>4 DEF s
<1>12. \A k \in 0..Total : c[1..k] \in Pools
  <2> DEFINE T == {k \in Nat : k <= Total => c[1..k] \in Pools}
  <2>1. 0 \in T
    BY <1>5, <1>10
  <2>2. ASSUME NEW k \in Nat, k < Total, k \in T PROVE k + 1 \in T
    <3>1. c[1..k] \in Pools /\ k + 1 \in 1..Total
      BY <1>1, <2>2
    <3> QED
      BY <1>2, <1>11, <2>2, <3>1
  <2>3. \A k \in 0..Total : k \in T
    <3>1. T \in SUBSET Nat
      OBVIOUS
    <3> HIDE DEF T
    <3> QED
      BY <1>1, <2>1, <2>2, <3>1, UpTo
  <2> QED
    BY <1>1, <2>3
<1> DEFINE h == [k \in 0..Total |-> c[1..k]]
<1>13. h \in [0..Total -> Pools]
  BY <1>12
<1>14. h[0] = Unpooled
  BY <1>1, <1>10
<1>15. ASSUME NEW k \in 0..Total, k < Total
       PROVE  h[k + 1] = PoolStep(h[k], k + 1, affinity)
  BY <1>1, <1>11, <1>15
<1>16. type \notin Ordered => Routing!PoolPreferences(affinity) = h[Total]
  BY <1>1, PoolIsScan DEF c
<1> HIDE DEF h
<1> QED
  BY <1>13, <1>14, <1>15, <1>16

\* What the scan knows of provider p when it has seen the targets up to k
Pooled(best, k, p) ==
    /\ best[p] = Routing!NoAccount =>
          \A t \in Routing!Targets : t <= k /\ Candidates[t].provider = p => ~Routing!Usable(t)
    /\ best[p] # Routing!NoAccount =>
          /\ \E t \in Routing!Targets :
               Candidates[t].provider = p /\ Routing!Owner(t) = best[p] /\ Routing!Usable(t)
          /\ strategy = "round-robin" =>
                \A t \in Routing!Targets :
                    t <= k /\ Candidates[t].provider = p /\ Routing!Usable(t) =>
                    account[best[p]].last <= account[Routing!Owner(t)].last

LEMMA LastFacts ==
  ASSUME Routing!PolicyAssumption, PolicyTypes, NEW t \in Routing!Targets,
         Routing!Owner(t) # Routing!NoAccount
  PROVE  Routing!Owner(t) \in DOMAIN Accounts /\ account[Routing!Owner(t)].last \in Nat
<1>1. Routing!Owner(t) \in DOMAIN Accounts
  BY TargetFacts
<1> QED
  BY <1>1 DEF PolicyTypes

LEMMA PooledStep ==
  ASSUME Routing!PolicyAssumption, PolicyTypes, NEW affinity, NEW k \in 0..Total, k < Total,
         NEW best \in Pools, NEW p \in Providers, Pooled(best, k, p)
  PROVE  Pooled(PoolStep(best, k + 1, affinity), k + 1, p)
<1> DEFINE t == k + 1
           q == Candidates[t].provider
           n == PoolStep(best, t, affinity)
           L(u) == account[Routing!Owner(u)].last
<1>1. Total \in Nat /\ Routing!Targets = 1..Total /\ t \in Routing!Targets
  BY TargetFacts
<1>2. \A u \in Routing!Targets : u <= t => u <= k \/ u = t
  BY <1>1
<1>3. q \in Providers /\ best[p] \in DOMAIN Accounts \cup {Routing!NoAccount}
  BY <1>1 DEF Providers, Pools
<1>4. \A u \in Routing!Targets : Routing!Usable(u) =>
          Routing!Owner(u) # Routing!NoAccount /\ L(u) \in Nat
  BY LastFacts DEF Routing!Usable
<1> HIDE DEF t, q, L
<1>5. CASE q # p \/ ~Routing!Usable(t)
  <2>1. n[p] = best[p]
    BY <1>3, <1>5 DEF PoolStep, Pools, q
  <2>2. \A u \in Routing!Targets : u <= t /\ Candidates[u].provider = p /\ Routing!Usable(u) =>
            u <= k
    BY <1>2, <1>5 DEF q
  <2> HIDE DEF n
  <2>3. Pooled(n, t, p)
    BY <2>1, <2>2 DEF Pooled
  <2> QED
    BY <2>3 DEF n, t
<1>6. CASE q = p /\ Routing!Usable(t) /\ best[p] = Routing!NoAccount
  <2>1. n[p] = Routing!Owner(t)
    BY <1>3, <1>6 DEF PoolStep, Pools, q
  <2>2. \A u \in Routing!Targets : u <= t /\ Candidates[u].provider = p /\ Routing!Usable(u) =>
            u = t
    BY <1>2, <1>6 DEF Pooled
  <2>3. Routing!Owner(t) # Routing!NoAccount /\ account[Routing!Owner(t)].last \in Nat
    BY <1>1, <1>4, <1>6 DEF L
  <2> HIDE DEF n
  <2>4. Pooled(n, t, p)
    BY <1>1, <1>6, <2>1, <2>2, <2>3 DEF Pooled, q
  <2> QED
    BY <2>4 DEF n, t
<1>7. CASE q = p /\ Routing!Usable(t) /\ best[p] # Routing!NoAccount
               /\ Routing!BeatsInPool(Routing!Owner(t), best[p], affinity)
  <2>1. n[p] = Routing!Owner(t)
    BY <1>3, <1>7 DEF PoolStep, Pools, q
  <2>2. Routing!Owner(t) # Routing!NoAccount /\ L(t) \in Nat
    BY <1>1, <1>4, <1>7
  <2>3. PICK v \in Routing!Targets :
                 Candidates[v].provider = p /\ Routing!Owner(v) = best[p] /\ Routing!Usable(v)
    BY <1>7 DEF Pooled
  <2>4. strategy = "round-robin" => L(t) < L(v)
    BY <1>7, <2>3 DEF Routing!BeatsInPool, Routing!PoolScore, L
  <2>5. strategy = "round-robin" =>
           \A u \in Routing!Targets :
               u <= t /\ Candidates[u].provider = p /\ Routing!Usable(u) => L(t) <= L(u)
    <3> SUFFICES ASSUME strategy = "round-robin", NEW u \in Routing!Targets, u <= t,
                        Candidates[u].provider = p, Routing!Usable(u)
                 PROVE  L(t) <= L(u)
      OBVIOUS
    <3>1. CASE u = t
      BY <2>2, <3>1
    <3>2. CASE u <= k
      <4>1. L(v) <= L(u)
        BY <1>7, <2>3, <3>2 DEF Pooled, L
      <4> QED
        BY <1>4, <2>2, <2>3, <2>4, <4>1
    <3> QED
      BY <1>2, <3>1, <3>2
  <2> HIDE DEF n
  <2>6. Pooled(n, t, p)
    BY <1>1, <1>7, <2>1, <2>2, <2>5 DEF Pooled, q, L
  <2> QED
    BY <2>6 DEF n, t
<1>8. CASE q = p /\ Routing!Usable(t) /\ best[p] # Routing!NoAccount
               /\ ~Routing!BeatsInPool(Routing!Owner(t), best[p], affinity)
  <2>1. n[p] = best[p]
    BY <1>8 DEF PoolStep, q
  <2>2. PICK v \in Routing!Targets :
                 Candidates[v].provider = p /\ Routing!Owner(v) = best[p] /\ Routing!Usable(v)
    BY <1>8 DEF Pooled
  <2>3. strategy = "round-robin" => L(v) <= L(t)
    <3>1. strategy = "round-robin" => ~(L(t) < L(v))
      BY <1>8, <2>2 DEF Routing!BeatsInPool, Routing!PoolScore, L
    <3> QED
      BY <1>1, <1>4, <1>8, <2>2, <3>1
  <2>4. strategy = "round-robin" =>
           \A u \in Routing!Targets :
               u <= t /\ Candidates[u].provider = p /\ Routing!Usable(u) => L(v) <= L(u)
    BY <1>2, <1>8, <2>2, <2>3 DEF Pooled, L
  <2> HIDE DEF n
  <2>5. Pooled(n, t, p)
    BY <1>8, <2>1, <2>2, <2>4 DEF Pooled, L
  <2> QED
    BY <2>5 DEF n, t
<1> QED
  BY <1>5, <1>6, <1>7, <1>8

(* The account that is preferred of a provider has a usable target, and in *)
(* a round-robin pool it is the one that has waited longest.               *)
LEMMA PoolFacts ==
  ASSUME Routing!PolicyAssumption, PolicyTypes, NEW affinity, NEW p \in Providers
  PROVE  /\ type \in Ordered => Routing!PoolPreferences(affinity)[p] = Routing!NoAccount
         /\ type \notin Ordered => Pooled(Routing!PoolPreferences(affinity), Total, p)
<1>1. type \in Ordered => Routing!PoolPreferences(affinity)[p] = Routing!NoAccount
  BY PoolIsScan DEF Unpooled, Providers
<1>2. Total \in Nat /\ Routing!Targets = 1..Total
  BY TargetFacts
<1>3. PICK h \in [0..Total -> Pools] :
            /\ h[0] = Unpooled
            /\ \A k \in 0..Total : k < Total => h[k + 1] = PoolStep(h[k], k + 1, affinity)
            /\ type \notin Ordered => Routing!PoolPreferences(affinity) = h[Total]
  BY PoolSteps
<1> DEFINE T == {k \in Nat : k <= Total => Pooled(h[k], k, p)}
<1>4. 0 \in T
  <2>1. h[0][p] = Routing!NoAccount
    BY <1>3 DEF Unpooled, Providers
  <2>2. \A t \in Routing!Targets : ~(t <= 0)
    BY <1>2
  <2>3. Pooled(h[0], 0, p)
    BY <2>1, <2>2 DEF Pooled
  <2> QED
    BY <2>3
<1>5. ASSUME NEW k \in Nat, k < Total, k \in T PROVE k + 1 \in T
  <2>1. k \in 0..Total /\ h[k] \in Pools /\ Pooled(h[k], k, p)
    BY <1>2, <1>5
  <2>2. h[k + 1] = PoolStep(h[k], k + 1, affinity)
    BY <1>3, <1>5, <2>1
  <2>3. Pooled(h[k + 1], k + 1, p)
    BY <1>5, <2>1, <2>2, PooledStep
  <2> QED
    BY <2>3
<1>6. Pooled(h[Total], Total, p)
  <2>1. T \in SUBSET Nat
    OBVIOUS
  <2>2. \A k \in 0..Total : k \in T
    <3> HIDE DEF T
    <3> QED
      BY <1>2, <1>4, <1>5, <2>1, UpTo
  <2> QED
    BY <1>2, <2>2
<1> QED
  BY <1>1, <1>3, <1>6

-----------------------------------------------------------------------------
(* The choice                                                              *)

(* A queue only forms when nothing is free.                                *)
LEMMA ConservesWork ==
  ASSUME Routing!PolicyAssumption, PolicyTypes
  PROVE  Routing!WorkConserving
<1> SUFFICES ASSUME NEW affinity \in Affinities, Routing!Choose(affinity) = 0,
                    NEW u \in Routing!Targets, Routing!Free(u)
             PROVE  FALSE
  BY DEF Routing!WorkConserving
<1> DEFINE P == Routing!PoolPreferences(affinity)
           p == Candidates[u].provider
<1>1. \A t \in Routing!Targets : ~(Routing!Free(t) /\ Routing!InPool(t, P))
  <2>1. Routing!Contenders(affinity) = {}
    BY ChooseFacts
  <2> QED
    BY <2>1 DEF Routing!Contenders
<1>2. P[p] # Routing!NoAccount /\ p \in Providers
  BY <1>1 DEF Routing!InPool, Providers
<1>3. Pooled(P, Total, p)
  BY <1>2, PoolFacts
<1>4. PICK t \in Routing!Targets :
               Candidates[t].provider = p /\ Routing!Owner(t) = P[p] /\ Routing!Usable(t)
  BY <1>2, <1>3 DEF Pooled
<1>5. Routing!Free(t)
  BY <1>4 DEF Routing!Free, Routing!Usable
<1>6. Routing!InPool(t, P)
  BY <1>4 DEF Routing!InPool
<1> QED
  BY <1>1, <1>5, <1>6

LEMMA ChoiceIsBest ==
  ASSUME Routing!PolicyAssumption, PolicyTypes
  PROVE  Routing!ChoosesBest
<1> SUFFICES ASSUME NEW affinity \in Affinities
             PROVE  /\ Routing!Choose(affinity) = 0 <=> Routing!Contenders(affinity) = {}
                    /\ Routing!Choose(affinity) # 0 =>
                         \A u \in Routing!Contenders(affinity) \ {Routing!Choose(affinity)} :
                             Routing!Better(Routing!Choose(affinity), u)
  BY DEF Routing!ChoosesBest
<1> QED
  BY ChooseFacts

-----------------------------------------------------------------------------
(* The shares                                                              *)

TurnOf(t) == Scale \div Candidates[t].weight

\* The lead of a target over another is at most one turn.
WeightedInv ==
    /\ \A t \in Routing!Targets : finish[t] = grants[t] * TurnOf(t)
    /\ steady /\ type = "weighted" /\ prefs = <<>> =>
          \A t, u \in Routing!Targets : finish[t] - finish[u] <= TurnOf(t)

SamePool(t, u) ==
    Routing!Owner(t) # Routing!NoAccount /\ Routing!Owner(u) # Routing!NoAccount
        /\ Candidates[t].provider = Candidates[u].provider

\* An account with more leases than another of its provider was used later.
TurnsInv ==
    /\ \A a \in DOMAIN Accounts : account[a].last <= dispatch
    /\ steady /\ strategy = "round-robin" /\ type \notin Ordered =>
          \A t, u \in Routing!Targets : SamePool(t, u) =>
             /\ leases[Routing!Owner(t)] - leases[Routing!Owner(u)] <= 1
             /\ leases[Routing!Owner(t)] > leases[Routing!Owner(u)] =>
                   account[Routing!Owner(t)].last > account[Routing!Owner(u)].last

PolicyInv == PolicyTypes /\ WeightedInv /\ TurnsInv

LEMMA PolicyInit ==
  ASSUME Routing!PolicyAssumption, Routing!Init
  PROVE  PolicyInv
<1>1. PolicyTypes
  BY DEF Routing!Init, PolicyTypes, Routing!PolicyAssumption
<1>2. \A t \in Routing!Targets : TurnOf(t) \in Nat
  BY TargetFacts, Fraction DEF TurnOf, Routing!PolicyAssumption
<1>3. WeightedInv
  BY <1>2 DEF Routing!Init, WeightedInv
<1>4. \A t \in Routing!Targets : Routing!Owner(t) # Routing!NoAccount =>
          Routing!Owner(t) \in DOMAIN Accounts
  BY TargetFacts
<1>5. TurnsInv
  BY <1>4 DEF Routing!Init, TurnsInv, SamePool
<1> QED
  BY <1>1, <1>3, <1>5 DEF PolicyInv

(* Steps that grant no lease                                               *)
LEMMA NoGrant ==
  ASSUME PolicyInv, PolicyTypes',
         UNCHANGED <<Routing!policy, finish, account, dispatch, grants, leases, steady>>
  PROVE  PolicyInv'
<1>1. /\ type' = type /\ strategy' = strategy /\ prefs' = prefs /\ finish' = finish
      /\ account' = account /\ dispatch' = dispatch /\ grants' = grants /\ leases' = leases
      /\ steady' = steady
  BY DEF Routing!policy
<1>2. WeightedInv'
  BY <1>1 DEF PolicyInv, WeightedInv, TurnOf
<1>3. TurnsInv'
  BY <1>1 DEF PolicyInv, TurnsInv, SamePool, Routing!Owner
<1> QED
  BY <1>2, <1>3 DEF PolicyInv

LEMMA ReleaseInv ==
  ASSUME Routing!PolicyAssumption, PolicyInv, NEW t \in Routing!Targets,
         NEW took \in 0..Routing!Slow, NEW cools, Routing!Release(t, took, cools)
  PROVE  PolicyInv'
<1>1. PolicyTypes
  BY DEF PolicyInv
<1>2. load' \in [Routing!Targets -> Nat]
  BY <1>1 DEF PolicyTypes, Routing!Release
<1>3. used' \in [DOMAIN Accounts -> Int]
  <2>1. Routing!Owner(t) \in DOMAIN Accounts \cup {Routing!NoAccount}
    BY TargetFacts
  <2> QED
    BY <1>1, <2>1 DEF PolicyTypes, Routing!Release
<1>4. latency' \in [Routing!Targets -> Nat]
  BY <1>1 DEF PolicyTypes, Routing!Release, Routing!Slow
<1>5. PolicyTypes'
  BY <1>1, <1>2, <1>3, <1>4 DEF PolicyTypes, Routing!Release, Routing!policy
<1> QED
  BY <1>5, NoGrant DEF Routing!Release

LEMMA WeatherInv ==
  ASSUME Routing!PolicyAssumption, PolicyInv, NEW t \in Routing!Targets, Routing!Weather(t)
  PROVE  PolicyInv'
<1>1. PolicyTypes'
  BY DEF PolicyInv, PolicyTypes, Routing!Weather, Routing!policy
<1> QED
  BY <1>1, NoGrant DEF Routing!Weather

\* What Dispatch does for target t
Granted(t) ==
    /\ load' = [load EXCEPT ![t] = @ + 1]
    /\ finish' = [finish EXCEPT ![t] = @ + TurnOf(t)]
    /\ start' = start + 1
    /\ grants' = [grants EXCEPT ![t] = @ + 1]
    /\ IF Routing!Owner(t) = Routing!NoAccount THEN UNCHANGED <<used, account, dispatch, leases>>
       ELSE /\ used' = [used EXCEPT ![Routing!Owner(t)] = @ + 1]
            /\ dispatch' = dispatch + 1
            /\ account' = [account EXCEPT ![Routing!Owner(t)] =
                   [finish |-> @.finish + (Scale \div Accounts[Routing!Owner(t)].weight),
                    last |-> dispatch + 1]]
            /\ leases' = [leases EXCEPT ![Routing!Owner(t)] = @ + 1]
    /\ steady' = (steady /\ \A u \in Routing!Targets : Routing!Free(u))
    /\ UNCHANGED <<type, strategy, prefs, latency>>

LEMMA DispatchFacts ==
  ASSUME Routing!PolicyAssumption, PolicyTypes, NEW affinity, Routing!Dispatch(affinity)
  PROVE  /\ Routing!Choose(affinity) \in Routing!Contenders(affinity)
         /\ Routing!Choose(affinity) \in Routing!Targets
         /\ Granted(Routing!Choose(affinity))
<1> DEFINE t == Routing!Choose(affinity)
<1>1. t # 0
  BY DEF Routing!Dispatch
<1>2. t \in Routing!Contenders(affinity)
  BY <1>1, ChooseFacts
<1>3. t \in Routing!Targets
  BY <1>2 DEF Routing!Contenders
<1>4. finish' = [finish EXCEPT ![t] = finish[t] + TurnOf(t)]
  BY DEF Routing!Dispatch, Routing!Turn, TurnOf
<1>5. UNCHANGED <<type, strategy, prefs, latency>>
  BY DEF Routing!Dispatch, Routing!policy
<1>6. /\ load' = [load EXCEPT ![t] = @ + 1]
      /\ start' = start + 1
      /\ grants' = [grants EXCEPT ![t] = @ + 1]
      /\ steady' = (steady /\ \A u \in Routing!Targets : Routing!Free(u))
  BY DEF Routing!Dispatch
<1>7. IF Routing!Owner(t) = Routing!NoAccount THEN UNCHANGED <<used, account, dispatch, leases>>
      ELSE /\ used' = [used EXCEPT ![Routing!Owner(t)] = @ + 1]
           /\ dispatch' = dispatch + 1
           /\ account' = [account EXCEPT ![Routing!Owner(t)] =
                  [finish |-> @.finish + (Scale \div Accounts[Routing!Owner(t)].weight),
                   last |-> dispatch + 1]]
           /\ leases' = [leases EXCEPT ![Routing!Owner(t)] = @ + 1]
  <2> HIDE DEF t
  <2> QED
    BY DEF Routing!Dispatch, t
<1> HIDE DEF t
<1> QED
  BY <1>2, <1>3, <1>4, <1>5, <1>6, <1>7 DEF Granted, t

LEMMA GrantedType ==
  ASSUME Routing!PolicyAssumption, PolicyTypes, NEW t \in Routing!Targets, Granted(t)
  PROVE  PolicyTypes'
<1>1. TurnOf(t) \in Nat
  BY TargetFacts, Fraction DEF TurnOf, Routing!PolicyAssumption
<1>2. load' \in [Routing!Targets -> Nat] /\ grants' \in [Routing!Targets -> Nat]
          /\ finish' \in [Routing!Targets -> Nat]
  <2>1. load \in [Routing!Targets -> Nat] /\ grants \in [Routing!Targets -> Nat]
            /\ finish \in [Routing!Targets -> Nat]
    BY DEF PolicyTypes
  <2>2. load' = [load EXCEPT ![t] = @ + 1] /\ load[t] + 1 \in Nat
    BY <2>1 DEF Granted
  <2>3. grants' = [grants EXCEPT ![t] = @ + 1] /\ grants[t] + 1 \in Nat
    BY <2>1 DEF Granted
  <2>4. finish' = [finish EXCEPT ![t] = @ + TurnOf(t)] /\ finish[t] + TurnOf(t) \in Nat
    BY <1>1, <2>1 DEF Granted
  <2>5. load' \in [Routing!Targets -> Nat]
    BY <2>1, <2>2
  <2>6. grants' \in [Routing!Targets -> Nat]
    BY <2>1, <2>3
  <2>7. finish' \in [Routing!Targets -> Nat]
    BY <2>1, <2>4
  <2> QED
    BY <2>5, <2>6, <2>7
<1>3. /\ used' \in [DOMAIN Accounts -> Int] /\ leases' \in [DOMAIN Accounts -> Nat]
      /\ dispatch' \in Nat
  <2>1. CASE Routing!Owner(t) = Routing!NoAccount
    BY <2>1 DEF PolicyTypes, Granted
  <2>2. CASE Routing!Owner(t) # Routing!NoAccount
    <3>1. Routing!Owner(t) \in DOMAIN Accounts
      BY <2>2, TargetFacts
    <3>2. used' = [used EXCEPT ![Routing!Owner(t)] = @ + 1] /\ used \in [DOMAIN Accounts -> Int]
      BY <2>2 DEF PolicyTypes, Granted
    <3>3. leases' = [leases EXCEPT ![Routing!Owner(t)] = @ + 1]
              /\ leases \in [DOMAIN Accounts -> Nat]
      BY <2>2 DEF PolicyTypes, Granted
    <3>4. dispatch' \in Nat
      BY <2>2 DEF PolicyTypes, Granted
    <3>5. used' \in [DOMAIN Accounts -> Int]
      BY <3>1, <3>2
    <3>6. leases' \in [DOMAIN Accounts -> Nat]
      BY <3>1, <3>3
    <3> QED
      BY <3>4, <3>5, <3>6
  <2> QED
    BY <2>1, <2>2
<1>4. account' \in [DOMAIN Accounts -> [finish : Nat, last : Nat]]
  <2>1. CASE Routing!Owner(t) = Routing!NoAccount
    BY <2>1 DEF PolicyTypes, Granted
  <2>2. CASE Routing!Owner(t) # Routing!NoAccount
    <3>1. Routing!Owner(t) \in DOMAIN Accounts
      BY <2>2, TargetFacts
    <3>2. Scale \div Accounts[Routing!Owner(t)].weight \in Nat
      BY <3>1, Fraction DEF Routing!PolicyAssumption
    <3>3. account[Routing!Owner(t)].finish \in Nat /\ dispatch \in Nat
      BY <3>1 DEF PolicyTypes
    <3>4. [finish |-> account[Routing!Owner(t)].finish + (Scale \div Accounts[Routing!Owner(t)].weight),
           last |-> dispatch + 1] \in [finish : Nat, last : Nat]
      BY <3>2, <3>3
    <3> QED
      BY <2>2, <3>4 DEF PolicyTypes, Granted
  <2> QED
    BY <2>1, <2>2
<1>5. steady' \in BOOLEAN
  BY DEF PolicyTypes, Granted
<1> QED
  BY <1>2, <1>3, <1>4, <1>5, SMTT(30) DEF PolicyTypes, Granted

LEMMA GrantedWeight ==
  ASSUME Routing!PolicyAssumption, PolicyInv, NEW affinity, NEW t, t = Routing!Choose(affinity),
         t \in Routing!Contenders(affinity), t \in Routing!Targets, Granted(t)
  PROVE  WeightedInv'
<1>1. PolicyTypes /\ WeightedInv
  BY DEF PolicyInv
<1>2. \A u \in Routing!Targets : TurnOf(u) \in Nat /\ finish[u] \in Nat /\ grants[u] \in Nat
  BY <1>1, TargetFacts, Fraction DEF TurnOf, Routing!PolicyAssumption, PolicyTypes
<1>3. \A u \in Routing!Targets : /\ finish'[u] = IF u = t THEN finish[t] + TurnOf(t)
                                      ELSE finish[u]
                                 /\ grants'[u] = IF u = t THEN grants[t] + 1 ELSE grants[u]
  BY <1>1 DEF PolicyTypes, Granted
<1>4. (grants[t] + 1) * TurnOf(t) = grants[t] * TurnOf(t) + TurnOf(t)
  BY <1>2
<1>5. \A u \in Routing!Targets : finish'[u] = grants'[u] * TurnOf(u)
  BY <1>1, <1>2, <1>3, <1>4 DEF WeightedInv
<1>6. ASSUME steady', type' = "weighted", prefs' = <<>>
      PROVE  \A v, u \in Routing!Targets : finish'[v] - finish'[u] <= TurnOf(v)
  <2>1. /\ steady /\ type = "weighted" /\ prefs = <<>> /\ \A u \in Routing!Targets :
             Routing!Free(u)
    BY <1>6 DEF Granted
  <2>2. \A u \in Routing!Targets : Routing!InPool(u, Routing!PoolPreferences(affinity))
    <3> TAKE u \in Routing!Targets
    <3>1. Candidates[u].provider \in Providers /\ type \in Ordered
      BY <2>1 DEF Providers, Ordered
    <3> QED
      BY <1>1, <3>1, PoolFacts DEF Routing!InPool
  <2>3. \A u \in Routing!Targets : u \in Routing!Contenders(affinity)
    BY <2>1, <2>2 DEF Routing!Contenders
  <2>4. \A u \in Routing!Targets : finish[t] <= finish[u]
    <3> TAKE u \in Routing!Targets
    <3>1. CASE u = t
      BY <1>2, <3>1
    <3>2. CASE u # t
      <4>1. t # 0
        BY TargetFacts
      <4>2. Routing!Better(t, u)
        BY <1>1, <2>3, <3>2, <4>1, ChooseFacts
      <4>3. Alike(t, u)
        BY <2>1 DEF Alike
      <4>4. Routing!Compare(t, u) = 0
        BY <1>1, <4>3, CompareFacts
      <4>5. Routing!Value(t) = finish[t] /\ Routing!Value(u) = finish[u]
        BY <2>1 DEF Routing!Value
      <4> QED
        BY <1>2, <4>2, <4>4, <4>5 DEF Routing!Better
    <3> QED
      BY <3>1, <3>2
  <2>5. \A v, u \in Routing!Targets : finish[v] - finish[u] <= TurnOf(v)
    BY <1>1, <2>1 DEF WeightedInv
  <2> TAKE v, u \in Routing!Targets
  <2>6. finish[v] - finish[u] <= TurnOf(v) /\ finish[t] <= finish[u]
    BY <2>4, <2>5
  <2>7. /\ finish[u] \in Nat /\ finish[v] \in Nat /\ finish[t] \in Nat
        /\ TurnOf(t) \in Nat /\ TurnOf(v) \in Nat
    BY <1>2
  <2>8. /\ finish'[u] = IF u = t THEN finish[t] + TurnOf(t) ELSE finish[u]
        /\ finish'[v] = IF v = t THEN finish[t] + TurnOf(t) ELSE finish[v]
    BY <1>3
  <2> QED
    BY <2>6, <2>7, <2>8
<1>7. \A u \in Routing!Targets : TurnOf(u)' = TurnOf(u)
  BY DEF TurnOf
<1> QED
  BY <1>5, <1>6, <1>7 DEF WeightedInv, TurnOf

LEMMA GrantedTurns ==
  ASSUME Routing!PolicyAssumption, PolicyInv, NEW affinity, NEW t, t = Routing!Choose(affinity),
         t \in Routing!Contenders(affinity), t \in Routing!Targets, Granted(t)
  PROVE  TurnsInv'
<1>1. PolicyTypes /\ TurnsInv
  BY DEF PolicyInv
<1>2. \A a \in DOMAIN Accounts : account[a].last \in Nat /\ leases[a] \in Nat
  BY <1>1 DEF PolicyTypes
<1>3. CASE Routing!Owner(t) = Routing!NoAccount
  <2>1. /\ account' = account /\ leases' = leases /\ dispatch' = dispatch
        /\ type' = type /\ strategy' = strategy /\ (steady' => steady)
    BY <1>3 DEF Granted
  <2> QED
    BY <1>1, <2>1 DEF TurnsInv, SamePool, Routing!Owner
<1>4. CASE Routing!Owner(t) # Routing!NoAccount
  <2> DEFINE a == Routing!Owner(t)
             p == Candidates[t].provider
  <2>1. a \in DOMAIN Accounts /\ p \in Providers /\ dispatch \in Nat
    BY <1>1, <1>4, TargetFacts DEF Providers, PolicyTypes
  <2>2. \A b \in DOMAIN Accounts :
           /\ account'[b].last = IF b = a THEN dispatch + 1 ELSE account[b].last
           /\ leases'[b] = IF b = a THEN leases[a] + 1 ELSE leases[b]
    <3>1. leases' = [leases EXCEPT ![a] = @ + 1] /\ leases \in [DOMAIN Accounts -> Nat]
      BY <1>1, <1>4 DEF PolicyTypes, Granted
    <3>2. PICK f : account' = [account EXCEPT ![a] = [finish |-> f, last |-> dispatch + 1]]
      BY <1>4 DEF Granted
    <3>3. DOMAIN account = DOMAIN Accounts
      BY <1>1 DEF PolicyTypes
    <3> HIDE DEF a
    <3>4. \A b \in DOMAIN Accounts :
             account'[b] = IF b = a THEN [finish |-> f, last |-> dispatch + 1] ELSE account[b]
      BY <3>2, <3>3
    <3>5. \A b \in DOMAIN Accounts : leases'[b] = IF b = a THEN leases[a] + 1 ELSE leases[b]
      BY <3>1
    <3> QED
      BY <3>4, <3>5
  <2>3. dispatch' = dispatch + 1
    BY <1>4 DEF Granted
  <2>4. \A b \in DOMAIN Accounts : account[b].last <= dispatch
    BY <1>1 DEF TurnsInv
  <2>5. \A b \in DOMAIN Accounts : account'[b].last <= dispatch'
    BY <1>2, <2>1, <2>2, <2>3, <2>4
  <2>6. ASSUME steady', strategy' = "round-robin", type' \notin Ordered,
               NEW v \in Routing!Targets, NEW u \in Routing!Targets, SamePool(v, u)
        PROVE  /\ leases'[Routing!Owner(v)] - leases'[Routing!Owner(u)] <= 1
               /\ leases'[Routing!Owner(v)] > leases'[Routing!Owner(u)] =>
                     account'[Routing!Owner(v)].last > account'[Routing!Owner(u)].last
    <3> DEFINE x == Routing!Owner(v)
               y == Routing!Owner(u)
    <3>1. /\ steady /\ strategy = "round-robin" /\ type \notin Ordered
          /\ \A w \in Routing!Targets : Routing!Free(w)
      BY <2>6 DEF Granted
    <3>2. \A w, z \in Routing!Targets : SamePool(w, z) =>
             /\ leases[Routing!Owner(w)] - leases[Routing!Owner(z)] <= 1
             /\ leases[Routing!Owner(w)] > leases[Routing!Owner(z)] =>
                   account[Routing!Owner(w)].last > account[Routing!Owner(z)].last
      BY <1>1, <3>1 DEF TurnsInv
    <3>3. x \in DOMAIN Accounts /\ y \in DOMAIN Accounts
      BY <2>6, TargetFacts DEF SamePool
    <3>4. \A w \in Routing!Targets : SamePool(t, w) =>
              account[a].last <= account[Routing!Owner(w)].last
      <4> SUFFICES ASSUME NEW w \in Routing!Targets, SamePool(t, w)
                   PROVE  account[a].last <= account[Routing!Owner(w)].last
        OBVIOUS
      <4>1. Routing!Usable(t) /\ Routing!Usable(w)
        BY <1>4, <3>1 DEF Routing!Free, Routing!Usable, SamePool
      <4> DEFINE P == Routing!PoolPreferences(affinity)
      <4>2. Pooled(P, Total, p)
        BY <1>1, <2>1, <3>1, PoolFacts
      <4>3. t <= Total /\ w <= Total
        BY TargetFacts
      <4>4. P[p] # Routing!NoAccount
        BY <4>1, <4>2, <4>3 DEF Pooled
      <4>5. Routing!InPool(t, P)
        BY DEF Routing!Contenders
      <4>6. P[p] = a
        BY <1>4, <4>4, <4>5 DEF Routing!InPool
      <4> QED
        BY <3>1, <4>1, <4>2, <4>3, <4>4, <4>6 DEF Pooled, SamePool
    <3>5. \A w \in Routing!Targets : SamePool(t, w) => leases[a] <= leases[Routing!Owner(w)]
      <4> SUFFICES ASSUME NEW w \in Routing!Targets, SamePool(t, w)
                       PROVE leases[a] <= leases[Routing!Owner(w)]
        OBVIOUS
      <4>1. Routing!Owner(w) \in DOMAIN Accounts
        BY TargetFacts DEF SamePool
      <4>2. account[a].last <= account[Routing!Owner(w)].last
        BY <3>4
      <4>3. leases[a] > leases[Routing!Owner(w)] =>
                account[a].last > account[Routing!Owner(w)].last
        BY <3>2
      <4> QED
        BY <1>2, <2>1, <4>1, <4>2, <4>3
    <3>6. /\ leases[x] - leases[y] <= 1
          /\ leases[x] > leases[y] => account[x].last > account[y].last
      BY <2>6, <3>2
    <3>7. x = a => SamePool(t, u)
      BY <1>4, <2>6 DEF SamePool, Routing!PolicyAssumption, Routing!Owner
    <3>8. y = a => SamePool(t, v)
      BY <1>4, <2>6 DEF SamePool, Routing!PolicyAssumption, Routing!Owner
    <3>9. x = a => leases[a] <= leases[y]
      BY <3>5, <3>7
    <3>10. y = a => leases[a] <= leases[x]
      BY <3>5, <3>8
    <3> HIDE DEF x, y, a
    <3>11. /\ leases[x] \in Nat /\ leases[y] \in Nat /\ leases[a] \in Nat
           /\ account[x].last \in Nat /\ account[y].last \in Nat
           /\ account[y].last <= dispatch
      BY <1>2, <2>1, <2>4, <3>3
    <3>12. /\ account'[x].last = IF x = a THEN dispatch + 1 ELSE account[x].last
           /\ account'[y].last = IF y = a THEN dispatch + 1 ELSE account[y].last
           /\ leases'[x] = IF x = a THEN leases[a] + 1 ELSE leases[x]
           /\ leases'[y] = IF y = a THEN leases[a] + 1 ELSE leases[y]
      BY <2>2, <3>3
    <3>13. /\ leases'[x] - leases'[y] <= 1
           /\ leases'[x] > leases'[y] => account'[x].last > account'[y].last
      <4>1. CASE x = a /\ y = a
        BY <3>11, <3>12, <4>1
      <4>2. CASE x = a /\ y # a
        BY <2>1, <3>9, <3>11, <3>12, <4>2
      <4>3. CASE x # a /\ y = a
        BY <2>1, <3>6, <3>10, <3>11, <3>12, <4>3
      <4>4. CASE x # a /\ y # a
        BY <3>6, <3>12, <4>4
      <4> QED
        BY <4>1, <4>2, <4>3, <4>4
    <3> QED
      BY <3>13 DEF x, y
  <2> QED
    BY <2>5, <2>6 DEF TurnsInv, SamePool, Routing!Owner
<1> QED
  BY <1>3, <1>4

LEMMA PolicyStep ==
  ASSUME Routing!PolicyAssumption, PolicyInv, [Routing!Next]_(Routing!vars)
  PROVE  PolicyInv'
<1>0. PolicyTypes
  BY DEF PolicyInv
<1>1. ASSUME NEW affinity \in Affinities, Routing!Dispatch(affinity) PROVE PolicyInv'
  <2> DEFINE t == Routing!Choose(affinity)
  <2>1. t \in Routing!Contenders(affinity) /\ t \in Routing!Targets /\ Granted(t)
    BY <1>0, <1>1, DispatchFacts
  <2> HIDE DEF t
  <2>2. t = Routing!Choose(affinity)
    BY DEF t
  <2>3. PolicyTypes'
    BY <1>0, <2>1, GrantedType
  <2>4. WeightedInv'
    BY <2>1, <2>2, GrantedWeight
  <2>5. TurnsInv'
    BY <2>1, <2>2, GrantedTurns
  <2> QED
    BY <2>3, <2>4, <2>5 DEF PolicyInv
<1>2. ASSUME NEW t \in Routing!Targets, Routing!Weather(t) PROVE PolicyInv'
  BY <1>2, WeatherInv
<1>3. ASSUME NEW t \in Routing!Targets, NEW took \in 0..Routing!Slow,
             NEW cools \in {"nothing", "source", "quota"}, Routing!Release(t, took, cools)
      PROVE  PolicyInv'
  BY <1>3, ReleaseInv
<1>4. CASE UNCHANGED Routing!vars
  <2>1. PolicyTypes'
    BY <1>0, <1>4 DEF PolicyTypes, Routing!vars, Routing!policy
  <2> QED
    BY <1>4, <2>1, NoGrant DEF Routing!vars
<1> QED
  BY <1>1, <1>2, <1>3, <1>4 DEF Routing!Next

LEMMA SharesAreFair ==
  ASSUME Routing!PolicyAssumption, PolicyInv
  PROVE  Routing!WeightedShare /\ Routing!PoolTakesTurns
<1>1. Routing!WeightedShare
  BY DEF PolicyInv, WeightedInv, Routing!WeightedShare, TurnOf
<1>2. Routing!PoolTakesTurns
  BY DEF PolicyInv, TurnsInv, Routing!PoolTakesTurns, SamePool, Ordered
<1> QED
  BY <1>1, <1>2

LEMMA PolicyIsKept ==
  ASSUME Routing!PolicyAssumption
  PROVE  Routing!Spec =>
      [](Routing!ChoosesBest /\ Routing!WorkConserving /\ Routing!WeightedShare
          /\ Routing!PoolTakesTurns)
<1>1. Routing!Init => PolicyInv
  BY PolicyInit
<1>2. PolicyInv /\ [Routing!Next]_(Routing!vars) => PolicyInv'
  BY PolicyStep
<1>3. PolicyInv =>
          Routing!ChoosesBest /\ Routing!WorkConserving /\ Routing!WeightedShare
              /\ Routing!PoolTakesTurns
  BY ChoiceIsBest, ConservesWork, SharesAreFair DEF PolicyInv
<1> QED
  BY <1>1, <1>2, <1>3, PTL DEF Routing!Spec
-----------------------------------------------------------------------------
(* The parts of a body                                                     *)

LEMMA LeastFacts ==
  ASSUME NEW T \in SUBSET Nat, T # {}
  PROVE  Reader!Min(T) \in T /\ \A y \in T : Reader!Min(T) <= y
<1>1. ~\A n \in T : \E m \in T : m < n
  BY NoLeast
<1>2. PICK n \in T : \A m \in T : ~(m < n)
  BY <1>1
<1>3. \A m \in T : n <= m
  BY <1>2
<1> QED
  BY <1>3 DEF Reader!Min

\* The bytes of the body after a, up to b
Part(a, b) == SubSeq(body, a + 1, b)

LEMMA PartFacts ==
  ASSUME body \in Seq(Reader!Bytes), NEW a \in Nat, NEW b \in Nat, a <= b, b <= Len(body)
  PROVE  /\ Part(a, b) \in Seq(Reader!Bytes) /\ Len(Part(a, b)) = b - a
         /\ \A i \in 1..(b - a) : Part(a, b)[i] = body[a + i]
<1>1. a + 1 \in Int /\ b \in Int /\ (a + 1 <= b => a + 1 \in 1..Len(body) /\ b \in 1..Len(body))
  OBVIOUS
<1>2. SubSeq(body, a + 1, b) = [i \in 1..(b - a) |-> body[a + i]]
  <2>1. SubSeq(body, a + 1, b) = [i \in 1..(b - (a + 1) + 1) |-> body[i + (a + 1) - 1]]
    BY <1>1
  <2> QED
    BY <2>1
<1>3. \A i \in 1..(b - a) : body[a + i] \in Reader!Bytes
  OBVIOUS
<1>4. b - a \in Nat
  OBVIOUS
<1> QED
  BY <1>2, <1>3, <1>4 DEF Part

(* Two parts that follow each other make one, and a part begins with its   *)
(* own parts.                                                              *)
LEMMA PartsJoin ==
  ASSUME body \in Seq(Reader!Bytes), NEW a \in Nat, NEW b \in Nat, NEW c \in Nat,
         a <= b, b <= c, c <= Len(body)
  PROVE  Part(a, b) \o Part(b, c) = Part(a, c)
<1>0. Len(body) \in Nat /\ a <= c /\ b <= Len(body)
  BY LenProperties
<1>1. /\ Part(a, b) \in Seq(Reader!Bytes) /\ Len(Part(a, b)) = b - a
      /\ \A i \in 1..(b - a) : Part(a, b)[i] = body[a + i]
  BY <1>0, PartFacts
<1>2. /\ Part(b, c) \in Seq(Reader!Bytes) /\ Len(Part(b, c)) = c - b
      /\ \A i \in 1..(c - b) : Part(b, c)[i] = body[b + i]
  BY <1>0, PartFacts
<1>3. /\ Part(a, c) \in Seq(Reader!Bytes) /\ Len(Part(a, c)) = c - a
      /\ \A i \in 1..(c - a) : Part(a, c)[i] = body[a + i]
  BY <1>0, PartFacts
<1> DEFINE q == Part(a, b) \o Part(b, c)
<1>4. q \in Seq(Reader!Bytes) /\ Len(q) = c - a
  <2>1. q \in Seq(Reader!Bytes) /\ Len(q) = Len(Part(a, b)) + Len(Part(b, c))
    BY <1>1, <1>2, ConcatProperties
  <2>2. (b - a) + (c - b) = c - a
    OBVIOUS
  <2> QED
    BY <1>1, <1>2, <2>1, <2>2
<1>5. ASSUME NEW i \in 1..(c - a) PROVE q[i] = Part(a, c)[i]
  <2>1. CASE i <= b - a
    <3>1. q[i] = Part(a, b)[i]
      BY <1>1, <1>2, <2>1
    <3> QED
      BY <1>1, <1>3, <2>1, <3>1
  <2>2. CASE i > b - a
    <3>1. q[i] = Part(b, c)[i - (b - a)]
      BY <1>1, <1>2, <2>2, SMTT(30)
    <3>2. i - (b - a) \in 1..(c - b) /\ b + (i - (b - a)) = a + i
      BY <2>2
    <3>3. Part(b, c)[i - (b - a)] = body[a + i]
      BY <1>2, <3>2
    <3> QED
      BY <1>3, <3>1, <3>3
  <2>3. i <= b - a \/ i > b - a
    OBVIOUS
  <2> QED
    BY <2>1, <2>2, <2>3
<1> HIDE DEF q
<1>6. q = Part(a, c)
  BY <1>3, <1>4, <1>5, SeqEqual
<1> QED
  BY <1>6 DEF q

LEMMA PartOfPart ==
  ASSUME body \in Seq(Reader!Bytes), NEW a \in Nat, NEW b \in Nat, NEW n \in Nat,
         a <= b, a + n <= b, b <= Len(body)
  PROVE  SubSeq(Part(a, b), 1, n) = Part(a, a + n)
<1>0. Len(body) \in Nat /\ a + n \in Nat /\ a <= a + n /\ a + n <= Len(body)
  BY LenProperties
<1>1. /\ Part(a, b) \in Seq(Reader!Bytes) /\ Len(Part(a, b)) = b - a
      /\ \A i \in 1..(b - a) : Part(a, b)[i] = body[a + i]
  BY PartFacts
<1>2. /\ Part(a, a + n) \in Seq(Reader!Bytes) /\ Len(Part(a, a + n)) = n
      /\ \A i \in 1..n : Part(a, a + n)[i] = body[a + i]
  <2>1. PICK e \in Nat : e = a + n /\ a <= e /\ e <= Len(body) /\ e - a = n
    BY <1>0
  <2>2. /\ Part(a, e) \in Seq(Reader!Bytes) /\ Len(Part(a, e)) = e - a
        /\ \A i \in 1..(e - a) : Part(a, e)[i] = body[a + i]
    BY <2>1, PartFacts
  <2> QED
    BY <2>1, <2>2
<1> DEFINE q == SubSeq(Part(a, b), 1, n)
<1>3. \A i \in 1..n : Part(a, b)[i] \in Reader!Bytes
  BY <1>1
<1>4. /\ q \in Seq(Reader!Bytes) /\ Len(q) = n
      /\ \A i \in 1..n : q[i] = Part(a, b)[i]
  <2>1. /\ q \in Seq(Reader!Bytes) /\ Len(q) = (IF 1 <= n THEN n - 1 + 1 ELSE 0)
        /\ \A i \in 1..(n - 1 + 1) : q[i] = Part(a, b)[1 + i - 1]
    BY <1>3, SubSeqProperties
  <2> QED
    BY <2>1
<1> HIDE DEF q
<1>5. ASSUME NEW i \in 1..n PROVE q[i] = Part(a, a + n)[i]
  <2>1. i \in 1..(b - a)
    OBVIOUS
  <2>2. q[i] = Part(a, b)[i] /\ Part(a, b)[i] = body[a + i] /\ Part(a, a + n)[i] = body[a + i]
    BY <1>1, <1>2, <1>4, <2>1
  <2> QED
    BY <2>2
<1>6. q = Part(a, a + n)
  BY <1>2, <1>4, <1>5, SeqEqual
<1> QED
  BY <1>6 DEF q

LEMMA SliceFacts ==
  ASSUME Reader!ReaderAssumption, body \in Seq(Reader!Bytes), at \in 0..Len(body)
  PROVE  \E n \in Nat :
            /\ at + n <= Len(body)
            /\ Reader!ReadSlice.slice = Part(at, at + n)
            /\ Reader!ReadSlice.full => n = Buffer /\ \A j \in (at + 1)..(at + n) : body[j] # "lf"
            /\ ~Reader!ReadSlice.full /\ Reader!ReadSlice.ends =>
                  at + n = Len(body) /\ \A j \in (at + 1)..(at + n) : body[j] # "lf"
            /\ ~Reader!ReadSlice.full /\ ~Reader!ReadSlice.ends =>
                  /\ n > 0 /\ body[at + n] = "lf"
                  /\ \A j \in (at + 1)..(at + n - 1) : body[j] # "lf"
<1> DEFINE rest == Part(at, Len(body))
           lfs == {i \in DOMAIN rest : rest[i] = "lf"}
           line == IF lfs = {} THEN Len(rest) ELSE Reader!Min(lfs)
           n == IF line > Buffer THEN Buffer ELSE line
<1>1. Reader!ReadSlice = [slice |-> SubSeq(rest, 1, n),
                          full |-> line > Buffer \/ (lfs = {} /\ line = Buffer),
                          ends |-> lfs = {} /\ line < Buffer]
  BY DEF Reader!ReadSlice, Part
<1>2. PICK b \in Nat : b = Len(body)
  BY LenProperties
<1>3. /\ rest \in Seq(Reader!Bytes) /\ Len(rest) = b - at /\ DOMAIN rest = 1..(b - at)
      /\ \A i \in 1..(b - at) : rest[i] = body[at + i]
  <2>1. at \in Nat /\ at <= b /\ b <= Len(body)
    BY <1>2
  <2>2. /\ Part(at, b) \in Seq(Reader!Bytes) /\ Len(Part(at, b)) = b - at
        /\ \A i \in 1..(b - at) : Part(at, b)[i] = body[at + i]
    BY <2>1, PartFacts
  <2> QED
    BY <1>2, <2>2, LenProperties
<1> HIDE DEF rest
<1>4. \A i : i \in lfs <=> i \in 1..(b - at) /\ body[at + i] = "lf"
  BY <1>3
<1> HIDE DEF lfs
<1>5. lfs \in SUBSET Nat
  BY <1>4
<1>6. line \in 0..(b - at) /\ (lfs # {} => line \in lfs /\ \A i \in lfs : line <= i)
  <2>1. CASE lfs = {}
    BY <1>2, <1>3, <2>1
  <2>2. CASE lfs # {}
    <3>1. Reader!Min(lfs) \in lfs /\ \A i \in lfs : Reader!Min(lfs) <= i
      BY <1>5, <2>2, LeastFacts
    <3>2. Reader!Min(lfs) \in 1..(b - at)
      BY <1>4, <3>1
    <3> QED
      BY <2>2, <3>1, <3>2
  <2> QED
    BY <2>1, <2>2
<1>0. lfs = {} => line = b - at
  BY <1>3
<1> HIDE DEF line
<1>7. n \in Nat /\ n <= line /\ n <= Buffer /\ at + n <= b
  BY <1>2, <1>6 DEF Reader!ReaderAssumption
<1>8. ASSUME NEW j \in (at + 1)..(at + n), j < at + line \/ lfs = {} PROVE body[j] # "lf"
  <2>1. j - at \in 1..(b - at) /\ at + (j - at) = j /\ j - at \in Nat
    BY <1>2, <1>6, <1>7
  <2>2. j - at \notin lfs
    BY <1>2, <1>6, <1>8, <2>1
  <2> QED
    BY <1>4, <2>1, <2>2
<1>9. Reader!ReadSlice.slice = Part(at, at + n)
  <2>1. Reader!ReadSlice.slice = SubSeq(rest, 1, n)
    BY <1>1
  <2>2. at \in Nat /\ at <= b
    BY <1>2
  <2>3. SubSeq(Part(at, b), 1, n) = Part(at, at + n)
    <3>1. b <= Len(body) /\ n \in Nat /\ at + n <= b
      BY <1>2, <1>7
    <3> HIDE DEF n
    <3> QED
      BY <2>2, <3>1, PartOfPart
  <2> QED
    BY <1>2, <2>1, <2>3 DEF rest
<1>10. /\ Reader!ReadSlice.full <=> (line > Buffer \/ (lfs = {} /\ line = Buffer))
       /\ Reader!ReadSlice.ends <=> (lfs = {} /\ line < Buffer)
  BY <1>1
<1>11. at \in Nat /\ line \in Nat /\ Buffer \in Nat
  BY <1>2, <1>6 DEF Reader!ReaderAssumption
<1>12. n = IF line > Buffer THEN Buffer ELSE line
  OBVIOUS
<1> HIDE DEF n
<1>14. Reader!ReadSlice.full => n = Buffer /\ \A j \in (at + 1)..(at + n) : body[j] # "lf"
  BY <1>7, <1>8, <1>10, <1>11, <1>12
<1>15. ~Reader!ReadSlice.full /\ Reader!ReadSlice.ends =>
          at + n = b /\ \A j \in (at + 1)..(at + n) : body[j] # "lf"
  BY <1>2, <1>7, <1>8, <1>10, <1>11, <1>12, <1>0
<1>16. ASSUME ~Reader!ReadSlice.full, ~Reader!ReadSlice.ends
       PROVE  /\ n > 0 /\ body[at + n] = "lf"
              /\ \A j \in (at + 1)..(at + n - 1) : body[j] # "lf"
  <2>1. lfs # {} /\ n = line
    BY <1>10, <1>11, <1>12, <1>16
  <2>2. n \in lfs
    BY <1>6, <2>1
  <2>3. n > 0 /\ body[at + n] = "lf"
    BY <1>4, <2>2
  <2>4. \A j \in (at + 1)..(at + n - 1) : j \in (at + 1)..(at + n) /\ j < at + line
    BY <1>11, <2>1
  <2> QED
    BY <1>8, <2>3, <2>4
<1> QED
  BY <1>2, <1>7, <1>9, <1>14, <1>15, <1>16

-----------------------------------------------------------------------------
(* The invariant                                                           *)

Last == Len(cuts)

\* The frames that were handed out
CutsInv ==
    /\ cuts \in Seq(Nat) /\ out \in Seq(Seq(Reader!Bytes)) /\ Len(out) = Last
    /\ \A k \in 1..Last :
         Reader!Begin(k) < cuts[k] /\ cuts[k] <= Reader!Cut
             /\ out[k] = Part(Reader!Begin(k), cuts[k])
    /\ \A k \in 1..Last : Len(out[k]) <= Limit
    /\ Reader!Cut \in 0..at
    /\ \A i \in 1..Reader!Cut : Reader!Blank(i) <=> \E k \in 1..Last : cuts[k] = i

\* The frame and the line that are being read.  A line that was begun and
\* not finished has filled the buffer, which holds more than a byte.
OpenInv ==
    /\ frame = Part(Reader!Cut, at)
    /\ lineBytes \in Nat /\ lineBytes # 1
    /\ at - lineBytes \in Reader!LineEnds /\ Reader!Cut <= at - lineBytes
    /\ \A j \in (at - lineBytes + 1)..at : body[j] # "lf"
    /\ \A i \in (Reader!Cut + 1)..at : ~Reader!Blank(i)

ReaderInv ==
    /\ body \in Seq(Reader!Bytes) /\ at \in 0..Len(body) /\ CutsInv
    /\ end \in {"open", "eof", "truncated", "limit"}
    /\ end = "open" => OpenInv
    /\ end \in {"eof", "truncated"} => \A i \in (Reader!Cut + 1)..Len(body) : ~Reader!Blank(i)
    /\ end = "eof" => Reader!Cut = Len(body) /\ ~breaks
    /\ end = "truncated" => Reader!Cut < Len(body) \/ breaks
    /\ end = "limit" => /\ Reader!Cut + Limit < Len(body)
                        /\ \A i \in (Reader!Cut + 1)..(Reader!Cut + Limit) : ~Reader!Blank(i)

LEMMA ReaderInit ==
  ASSUME Reader!ReaderAssumption, Reader!Init
  PROVE  ReaderInv
<1>1. PICK n \in 0..MaxBody : body \in [1..n -> Reader!Bytes]
  BY DEF Reader!Init, Reader!Bodies
<1>2. body \in Seq(Reader!Bytes) /\ Len(body) \in Nat
  BY <1>1 DEF Reader!ReaderAssumption
<1>3. /\ cuts = <<>> /\ out = <<>> /\ at = 0 /\ frame = <<>> /\ lineBytes = 0 /\ end = "open"
      /\ Len(cuts) = 0
  BY DEF Reader!Init
<1>4. Last = 0 /\ Reader!Cut = 0
  BY <1>3 DEF Last, Reader!Cut, Reader!Begin
<1>5. CutsInv
  BY <1>3, <1>4 DEF CutsInv
<1>6. Part(0, 0) = <<>>
  <2>1. Part(0, 0) \in Seq(Reader!Bytes) /\ Len(Part(0, 0)) = 0
    <3>1. Part(0, 0) \in Seq(Reader!Bytes) /\ Len(Part(0, 0)) = 0 - 0
      BY <1>2, PartFacts
    <3> QED
      BY <3>1
  <2> QED
    BY <2>1, EmptySeq
<1>7. OpenInv
  BY <1>3, <1>4, <1>6 DEF OpenInv, Reader!LineEnds
<1> QED
  BY <1>2, <1>3, <1>5, <1>7 DEF ReaderInv

(* A line end is a blank line exactly if EmptyLine says so.                *)
LEMMA BlankFacts ==
  ASSUME body \in Seq(Reader!Bytes), NEW e \in 1..Len(body), body[e] = "lf",
         NEW m \in Nat, m < e, m \in Reader!LineEnds, \A j \in (m + 1)..(e - 1) : body[j] # "lf"
  PROVE  Reader!Blank(e) <=> e - m = 1 \/ (e - m = 2 /\ body[e - 1] = "cr")
<1>1. \A j \in Nat : j \in Reader!LineEnds <=> j = 0 \/ (j \in 1..Len(body) /\ body[j] = "lf")
  BY DEF Reader!LineEnds
<1>2. e \in Reader!LineEnds \ {0}
  BY <1>1
<1>3. Reader!Blank(e) <=>
          e - 1 \in Reader!LineEnds \/ (e > 1 /\ body[e - 1] = "cr" /\ e - 2 \in Reader!LineEnds)
  BY <1>2 DEF Reader!Blank
<1>4. \A j \in Nat : m < j /\ j < e => j \notin Reader!LineEnds
  BY <1>1
<1>5. e - 1 \in Reader!LineEnds <=> e - m = 1
  <2>1. e - 1 \in Nat /\ e - 1 < e /\ (e - m = 1 <=> e - 1 = m) /\ m <= e - 1
    OBVIOUS
  <2> QED
    BY <1>4, <2>1
<1>6. e > 1 /\ body[e - 1] = "cr" => (e - 2 \in Reader!LineEnds <=> e - m = 2)
  <2> SUFFICES ASSUME e > 1, body[e - 1] = "cr" PROVE e - 2 \in Reader!LineEnds <=> e - m = 2
    OBVIOUS
  <2>1. e - 2 \in Nat /\ e - 1 \in Nat /\ e - 2 < e /\ (e - m = 2 <=> e - 2 = m)
    OBVIOUS
  <2>2. e - 1 # m
    <3>1. e - 1 \notin Reader!LineEnds
      BY <1>1, <2>1
    <3> QED
      BY <3>1
  <2>3. m <= e - 2
    BY <2>2
  <2> QED
    BY <1>4, <2>1, <2>3
<1>7. e - m = 2 => e > 1
  OBVIOUS
<1> QED
  BY <1>3, <1>5, <1>6, <1>7

LEMMA NotBlank ==
  ASSUME body \in Seq(Reader!Bytes), NEW i \in Nat, i > 0, body[i] # "lf"
  PROVE  ~Reader!Blank(i)
  BY DEF Reader!Blank, Reader!LineEnds

(* No frame is handed out.                                                 *)
LEMMA CutsKept ==
  ASSUME CutsInv, UNCHANGED <<body, out, cuts>>, at \in Nat, at' \in Nat, at <= at'
  PROVE  CutsInv' /\ Reader!Cut' = Reader!Cut
<1>1. Reader!Cut' = Reader!Cut /\ Last' = Last
  BY DEF Reader!Cut, Reader!Begin, Last
<1>2. Reader!LineEnds' = Reader!LineEnds
  BY DEF Reader!LineEnds
<1>3. /\ cuts' \in Seq(Nat) /\ out' \in Seq(Seq(Reader!Bytes)) /\ Len(out)' = Last'
      /\ Reader!Cut' \in 0..at'
  BY <1>1 DEF CutsInv
<1>4. \A k \in 1..Last' : /\ Reader!Begin(k)' < cuts'[k] /\ cuts'[k] <= Reader!Cut'
                          /\ out'[k] = Part(Reader!Begin(k), cuts[k])'
  BY <1>1 DEF CutsInv, Reader!Begin, Part
<1>5. \A k \in 1..Last' : Len(out'[k]) <= Limit
  BY <1>1 DEF CutsInv
<1>6. \A i \in 1..Reader!Cut' : Reader!Blank(i)' <=> \E k \in 1..Last' : cuts'[k] = i
  BY <1>1, <1>2 DEF CutsInv, Reader!Blank
<1> QED
  BY <1>1, <1>3, <1>4, <1>5, <1>6 DEF CutsInv, Reader!Begin, Part, Reader!Blank

(* A frame is handed out that ends at the place reached.                   *)
LEMMA CutsGrow ==
  ASSUME Reader!ReaderAssumption, body \in Seq(Reader!Bytes), CutsInv, body' = body, at \in Nat,
         NEW e \in Nat, at < e, at' = e, cuts' = Append(cuts, e), Reader!Blank(e),
         out' = Append(out, Part(Reader!Cut, e)), Part(Reader!Cut, e) \in Seq(Reader!Bytes),
             Len(Part(Reader!Cut, e)) <= Limit,
         \A i \in (Reader!Cut + 1)..(e - 1) : ~Reader!Blank(i)
  PROVE  CutsInv' /\ Reader!Cut' = e
<1>0. PICK n \in Nat : n = Last
  BY LenProperties DEF CutsInv, Last
<1>1. /\ n \in Nat /\ cuts \in Seq(Nat) /\ Len(cuts) = n
      /\ out \in Seq(Seq(Reader!Bytes)) /\ Len(out) = n /\ Reader!Cut \in Nat /\ Reader!Cut < e
  BY <1>0 DEF CutsInv, Last
<1>2. /\ cuts' \in Seq(Nat) /\ Len(cuts') = n + 1 /\ cuts'[n + 1] = e
      /\ \A k \in 1..n : cuts'[k] = cuts[k]
  BY <1>1, AppendProperties
<1>3. /\ out' \in Seq(Seq(Reader!Bytes)) /\ Len(out') = n + 1 /\ out'[n + 1] = Part(Reader!Cut, e)
      /\ \A k \in 1..n : out'[k] = out[k]
  BY <1>1, AppendProperties
<1>4. Last' = n + 1 /\ Reader!Cut' = e
  BY <1>1, <1>2 DEF Last, Reader!Cut, Reader!Begin
<1>5. \A k \in 1..n : Reader!Begin(k)' = Reader!Begin(k)
  BY <1>1, <1>2 DEF Reader!Begin
<1>6. Reader!Begin(n + 1)' = Reader!Cut
  <2>1. (n + 1 = 1 <=> n = 0) /\ (n + 1) - 1 = n
    BY <1>1
  <2>2. Reader!Cut = IF n = 0 THEN 0 ELSE cuts[n]
    BY <1>1, <2>1 DEF Reader!Begin, Reader!Cut
  <2>3. Reader!Begin(n + 1)' = IF n = 0 THEN 0 ELSE cuts'[n]
    BY <2>1 DEF Reader!Begin
  <2>4. n # 0 => cuts'[n] = cuts[n]
    BY <1>1, <1>2
  <2> QED
    BY <2>2, <2>3, <2>4
<1>7. Reader!LineEnds' = Reader!LineEnds
  BY DEF Reader!LineEnds
<1>8. ASSUME NEW k \in 1..(n + 1)
      PROVE  /\ Reader!Begin(k)' < cuts'[k] /\ cuts'[k] <= Reader!Cut'
             /\ out'[k] = Part(Reader!Begin(k), cuts[k])' /\ Len(out'[k]) <= Limit
  <2>1. CASE k \in 1..n
    <3>1. /\ Reader!Begin(k) < cuts[k] /\ cuts[k] <= Reader!Cut
          /\ out[k] = Part(Reader!Begin(k), cuts[k])
          /\ Len(out[k]) <= Limit /\ cuts[k] \in Nat
      BY <1>0, <1>1, <2>1 DEF CutsInv
    <3>2. Reader!Begin(k)' = Reader!Begin(k) /\ cuts'[k] = cuts[k] /\ out'[k] = out[k]
      BY <1>2, <1>3, <1>5, <2>1
    <3>3. cuts[k] <= e
      BY <1>1, <3>1
    <3> QED
      BY <1>4, <3>1, <3>2, <3>3 DEF Part
  <2>2. CASE k = n + 1
    <3>1. Reader!Begin(k)' = Reader!Cut /\ cuts'[k] = e /\ out'[k] = Part(Reader!Cut, e)
      BY <1>2, <1>3, <1>6, <2>2
    <3>2. Part(Reader!Begin(k), cuts[k])' = Part(Reader!Cut, e)
      BY <3>1 DEF Part
    <3>3. Reader!Cut < e /\ e <= Reader!Cut'
      BY <1>1, <1>4
    <3> QED
      BY <3>1, <3>2, <3>3
  <2> QED
    BY <1>1, <2>1, <2>2
<1>9. ASSUME NEW i \in 1..e
      PROVE  Reader!Blank(i)' <=> \E k \in 1..(n + 1) : cuts'[k] = i
  <2>1. Reader!Blank(i)' <=> Reader!Blank(i)
    BY <1>7 DEF Reader!Blank
  <2>2. CASE i = e
    BY <1>1, <1>2, <2>1, <2>2
  <2>3. CASE i <= Reader!Cut
    <3>1. i \in 1..Reader!Cut /\ i # e
      BY <1>1, <2>3
    <3>2. Reader!Blank(i) <=> \E k \in 1..n : cuts[k] = i
      BY <1>0, <3>1 DEF CutsInv
    <3>3. (\E k \in 1..(n + 1) : cuts'[k] = i) <=> \E k \in 1..n : cuts[k] = i
      BY <1>1, <1>2, <3>1
    <3> QED
      BY <2>1, <3>2, <3>3
  <2>4. CASE i > Reader!Cut /\ i < e
    <3>1. ~Reader!Blank(i)
      BY <1>1, <2>4
    <3>2. \A k \in 1..n : cuts[k] <= Reader!Cut /\ cuts[k] \in Nat
      BY <1>0, <1>1 DEF CutsInv
    <3>3. \A k \in 1..(n + 1) : cuts'[k] # i
      BY <1>1, <1>2, <2>4, <3>2
    <3> QED
      BY <2>1, <3>1, <3>3
  <2> QED
    BY <1>1, <2>2, <2>3, <2>4
<1>10. /\ cuts' \in Seq(Nat) /\ out' \in Seq(Seq(Reader!Bytes)) /\ Len(out)' = Last'
       /\ Reader!Cut' \in 0..at'
  BY <1>2, <1>3, <1>4
<1> QED
  BY <1>4, <1>8, <1>9, <1>10 DEF CutsInv

LEMMA ReadStep ==
  ASSUME Reader!ReaderAssumption, ReaderInv, Reader!Read
  PROVE  ReaderInv'
<1>1. /\ body \in Seq(Reader!Bytes) /\ at \in 0..Len(body) /\ CutsInv /\ OpenInv /\ end = "open"
      /\ body' = body /\ breaks' = breaks
  BY DEF ReaderInv, Reader!Read
<1>2. PICK b \in Nat : b = Len(body)
  BY <1>1, LenProperties
<1>3. PICK n \in Nat :
            /\ at + n <= Len(body)
            /\ Reader!ReadSlice.slice = Part(at, at + n)
            /\ Reader!ReadSlice.full => n = Buffer /\ \A j \in (at + 1)..(at + n) : body[j] # "lf"
            /\ ~Reader!ReadSlice.full /\ Reader!ReadSlice.ends =>
                  at + n = Len(body) /\ \A j \in (at + 1)..(at + n) : body[j] # "lf"
            /\ ~Reader!ReadSlice.full /\ ~Reader!ReadSlice.ends =>
                  /\ n > 0 /\ body[at + n] = "lf"
                  /\ \A j \in (at + 1)..(at + n - 1) : body[j] # "lf"
  BY <1>1, SliceFacts
<1>4. PICK e \in Nat : e = at + n
  BY <1>1, <1>2
<1>5. at \in Nat /\ at <= e /\ e <= b /\ Reader!Cut \in Nat /\ Reader!Cut <= at
          /\ Reader!Cut <= e /\ e - at = n
  BY <1>1, <1>2, <1>3, <1>4 DEF CutsInv
<1> DEFINE grown == frame \o Reader!ReadSlice.slice
           bytes == lineBytes + Len(Reader!ReadSlice.slice)
           m == at - lineBytes
<1>6. /\ Reader!ReadSlice.slice = Part(at, e) /\ Len(Reader!ReadSlice.slice) = n
      /\ \A i \in 1..n : Reader!ReadSlice.slice[i] = body[at + i]
  <2>1. Len(Part(at, e)) = e - at /\ \A i \in 1..(e - at) : Part(at, e)[i] = body[at + i]
    BY <1>1, <1>2, <1>5, PartFacts
  <2> QED
    BY <1>3, <1>4, <1>5, <2>1
<1>7. grown = Part(Reader!Cut, e)
  <2>1. Part(Reader!Cut, at) \o Part(at, e) = Part(Reader!Cut, e)
    BY <1>1, <1>2, <1>5, PartsJoin
  <2> QED
    BY <1>1, <1>6, <2>1 DEF OpenInv
<1>8. grown \in Seq(Reader!Bytes) /\ Len(grown) = e - Reader!Cut
  BY <1>1, <1>2, <1>5, <1>7, PartFacts
<1>9. /\ m \in Nat /\ m \in Reader!LineEnds /\ Reader!Cut <= m /\ lineBytes \in Nat /\ m <= at
      /\ lineBytes # 1 /\ at = m + lineBytes
      /\ \A j \in (m + 1)..at : body[j] # "lf"
      /\ \A i \in (Reader!Cut + 1)..at : ~Reader!Blank(i)
  BY <1>1, <1>5 DEF OpenInv
<1>10. bytes = e - m /\ bytes = lineBytes + n
  <2>1. bytes = lineBytes + n
    BY <1>6
  <2>2. e - m = lineBytes + n
    BY <1>4, <1>5, <1>9
  <2> QED
    BY <2>1, <2>2
<1>11. /\ at' = e
       /\ IF Len(grown) > Limit
          THEN end' = "limit" /\ UNCHANGED <<frame, lineBytes, out, cuts>>
          ELSE IF Reader!ReadSlice.full
          THEN frame' = grown /\ lineBytes' = bytes /\ UNCHANGED <<out, end, cuts>>
          ELSE IF Reader!ReadSlice.ends
          THEN end' = Reader!AtEnd(grown) /\ UNCHANGED <<frame, lineBytes, out, cuts>>
          ELSE IF Reader!EmptyLine(Reader!ReadSlice.slice, bytes)
          THEN /\ out' = Append(out, grown) /\ cuts' = Append(cuts, at')
               /\ frame' = <<>> /\ lineBytes' = 0 /\ UNCHANGED end
          ELSE frame' = grown /\ lineBytes' = 0 /\ UNCHANGED <<out, end, cuts>>
  BY <1>4, <1>6 DEF Reader!Read, Reader!TooLong
<1> HIDE DEF grown, bytes, m
<1>12. /\ body' \in Seq(Reader!Bytes) /\ at' \in 0..Len(body') /\ Len(body') = b
       /\ Reader!LineEnds' = Reader!LineEnds
       /\ at' \in Nat /\ at <= at'
  BY <1>1, <1>2, <1>5, <1>11 DEF Reader!LineEnds
<1>13. /\ Part(Reader!Cut, e)' = SubSeq(body, Reader!Cut' + 1, e)
       /\ Part(Reader!Cut, at)' = SubSeq(body, Reader!Cut' + 1, e)
  BY <1>1, <1>4, <1>11 DEF Part
<1>14. \A i \in (Reader!Cut + 1)..e : (i > at => body[i] # "lf") => ~Reader!Blank(i)
  <2> SUFFICES ASSUME NEW i \in (Reader!Cut + 1)..e, i > at => body[i] # "lf"
                   PROVE ~Reader!Blank(i)
    OBVIOUS
  <2>1. CASE i <= at
    BY <1>5, <1>9, <2>1
  <2>2. CASE i > at
    BY <1>1, <1>5, <2>2, NotBlank
  <2> QED
    BY <1>5, <2>1, <2>2
<1>15. CASE Len(grown) > Limit
  <2>1. end' = "limit" /\ UNCHANGED <<body, out, cuts>>
    BY <1>1, <1>11, <1>15
  <2>2. CutsInv' /\ Reader!Cut' = Reader!Cut
    BY <1>1, <1>5, <1>12, <2>1, CutsKept
  <2>3. Reader!Cut + Limit < e /\ Reader!Cut + Limit < b /\ Limit \in Nat
    BY <1>5, <1>8, <1>15 DEF Reader!ReaderAssumption
  <2>4. \A j \in (at + 1)..(e - 1) : body[j] # "lf"
    BY <1>3, <1>4, <1>5
  <2>5. \A i \in (Reader!Cut + 1)..(Reader!Cut + Limit) : ~Reader!Blank(i)
    BY <1>5, <1>14, <2>3, <2>4
  <2>6. \A i \in (Reader!Cut' + 1)..(Reader!Cut' + Limit) : ~Reader!Blank(i)'
    BY <1>1, <1>12, <2>2, <2>5 DEF Reader!Blank
  <2> QED
    BY <1>12, <2>1, <2>2, <2>3, <2>6 DEF ReaderInv
<1>16. CASE ~(Len(grown) > Limit) /\ Reader!ReadSlice.full
  <2>1. frame' = grown /\ lineBytes' = bytes /\ UNCHANGED <<body, out, end, cuts>>
    BY <1>1, <1>11, <1>16
  <2>2. CutsInv' /\ Reader!Cut' = Reader!Cut
    BY <1>1, <1>5, <1>12, <2>1, CutsKept
  <2>3. n = Buffer /\ \A j \in (at + 1)..e : body[j] # "lf"
    BY <1>3, <1>4, <1>16
  <2>4. lineBytes' \in Nat /\ lineBytes' # 1 /\ at' - lineBytes' = m
    BY <1>5, <1>9, <1>10, <1>11, <2>1, <2>3 DEF Reader!ReaderAssumption
  <2>5. \A j \in (m + 1)..e : body[j] # "lf"
    BY <1>5, <1>9, <2>3
  <2>6. \A i \in (Reader!Cut + 1)..e : ~Reader!Blank(i)
    BY <1>5, <1>14, <2>3
  <2>7. \A i \in (Reader!Cut' + 1)..at' : ~Reader!Blank(i)'
    BY <1>1, <1>11, <1>12, <2>2, <2>6 DEF Reader!Blank
  <2>8. frame' = Part(Reader!Cut, at)'
    BY <1>7, <1>13, <2>1, <2>2 DEF Part
  <2>9. OpenInv'
    BY <1>1, <1>9, <1>11, <1>12, <2>2, <2>4, <2>5, <2>7, <2>8 DEF OpenInv
  <2> QED
    BY <1>1, <1>12, <2>1, <2>2, <2>9 DEF ReaderInv
<1>17. CASE ~(Len(grown) > Limit) /\ ~Reader!ReadSlice.full /\ Reader!ReadSlice.ends
  <2>1. end' = Reader!AtEnd(grown) /\ UNCHANGED <<body, out, cuts>>
    BY <1>1, <1>11, <1>17
  <2>2. CutsInv' /\ Reader!Cut' = Reader!Cut
    BY <1>1, <1>5, <1>12, <2>1, CutsKept
  <2>3. e = b /\ \A j \in (at + 1)..e : body[j] # "lf"
    BY <1>2, <1>3, <1>4, <1>17
  <2>4. \A i \in (Reader!Cut + 1)..e : ~Reader!Blank(i)
    BY <1>5, <1>14, <2>3
  <2>5. \A i \in (Reader!Cut' + 1)..Len(body') : ~Reader!Blank(i)'
    BY <1>1, <1>12, <2>2, <2>3, <2>4 DEF Reader!Blank
  <2>6. grown = <<>> => Reader!Cut = b
    BY <1>5, <1>8, <2>3
  <2>7. grown # <<>> => Reader!Cut < b
    <3>1. Len(grown) = 0 => grown = <<>>
      BY <1>8, EmptySeq
    <3> QED
      BY <1>5, <1>8, <2>3, <3>1
  <2>8. end' \in {"eof", "truncated"} /\ (end' = "eof" <=> ~breaks /\ grown = <<>>)
    BY <2>1 DEF Reader!AtEnd
  <2> QED
    BY <1>1, <1>12, <2>2, <2>5, <2>6, <2>7, <2>8 DEF ReaderInv
<1>18. ASSUME ~(Len(grown) > Limit), ~Reader!ReadSlice.full, ~Reader!ReadSlice.ends
       PROVE  ReaderInv'
  <2>1. /\ n > 0 /\ body[e] = "lf" /\ e \in 1..Len(body)
        /\ \A j \in (at + 1)..(e - 1) : body[j] # "lf"
    BY <1>2, <1>3, <1>4, <1>5, <1>18
  <2>2. \A j \in (m + 1)..(e - 1) : body[j] # "lf"
    BY <1>5, <1>9, <2>1
  <2>3. \A i \in (Reader!Cut + 1)..(e - 1) : ~Reader!Blank(i)
    BY <1>5, <1>14, <2>1
  <2>4. Reader!Blank(e) <=> e - m = 1 \/ (e - m = 2 /\ body[e - 1] = "cr")
    <3>1. m < e
      BY <1>4, <1>5, <1>9, <2>1
    <3> QED
      BY <1>1, <1>9, <2>1, <2>2, <3>1, BlankFacts
  <2>5. e - m = 2 <=> bytes = 2 /\ n = 2
    BY <1>4, <1>5, <1>9, <1>10, <2>1
  <2>6. n = 2 => Reader!ReadSlice.slice[1] = body[e - 1]
    <3> SUFFICES ASSUME n = 2 PROVE Reader!ReadSlice.slice[1] = body[e - 1]
      OBVIOUS
    <3>1. 1 \in 1..n /\ at + 1 = e - 1
      BY <1>4, <1>5
    <3> QED
      BY <1>6, <3>1
  <2>7. Reader!EmptyLine(Reader!ReadSlice.slice, bytes) <=> Reader!Blank(e)
    BY <1>6, <1>10, <2>4, <2>5, <2>6 DEF Reader!EmptyLine
  <2>8. e \in Reader!LineEnds /\ at < e
    BY <1>4, <1>5, <2>1 DEF Reader!LineEnds
  <2>9. CASE Reader!Blank(e)
    <3>1. /\ out' = Append(out, grown) /\ cuts' = Append(cuts, e)
          /\ frame' = <<>> /\ lineBytes' = 0 /\ end' = end
      BY <1>11, <1>18, <2>7, <2>9
    <3>2. Len(grown) <= Limit
      BY <1>5, <1>8, <1>18 DEF Reader!ReaderAssumption
    <3>3. CutsInv' /\ Reader!Cut' = e
      BY <1>1, <1>5, <1>7, <1>8, <1>11, <2>3, <2>8, <2>9, <3>1, <3>2, CutsGrow
    <3>4. Part(Reader!Cut, at)' = <<>>
      <4>1. Part(e, e) \in Seq(Reader!Bytes) /\ Len(Part(e, e)) = e - e
        <5>1. body \in Seq(Reader!Bytes) /\ e <= e /\ e <= Len(body)
          BY <1>1, <1>2, <1>5
        <5> QED
          BY <5>1, PartFacts
      <4>2. Part(e, e) = <<>>
        BY <4>1, EmptySeq
      <4> QED
        BY <1>1, <1>11, <3>3, <4>2 DEF Part
    <3>5. OpenInv'
      BY <1>1, <1>5, <1>11, <1>12, <2>8, <3>1, <3>3, <3>4 DEF OpenInv
    <3> QED
      BY <1>1, <1>12, <3>1, <3>3, <3>5 DEF ReaderInv
  <2>10. CASE ~Reader!Blank(e)
    <3>1. frame' = grown /\ lineBytes' = 0 /\ UNCHANGED <<body, out, end, cuts>>
      BY <1>1, <1>11, <1>18, <2>7, <2>10
    <3>2. CutsInv' /\ Reader!Cut' = Reader!Cut
      BY <1>1, <1>5, <1>12, <3>1, CutsKept
    <3>3. \A i \in (Reader!Cut + 1)..e : ~Reader!Blank(i)
      BY <1>5, <2>3, <2>10
    <3>4. \A i \in (Reader!Cut' + 1)..at' : ~Reader!Blank(i)'
      BY <1>1, <1>11, <1>12, <3>2, <3>3 DEF Reader!Blank
    <3>5. frame' = Part(Reader!Cut, at)'
      BY <1>7, <1>13, <3>1, <3>2 DEF Part
    <3>6. OpenInv'
      BY <1>1, <1>5, <1>11, <1>12, <2>8, <3>1, <3>2, <3>4, <3>5 DEF OpenInv
    <3> QED
      BY <1>1, <1>12, <3>1, <3>2, <3>6 DEF ReaderInv
  <2> QED
    BY <2>9, <2>10
<1> QED
  BY <1>15, <1>16, <1>17, <1>18

LEMMA FramesStayEvents ==
  ASSUME Reader!ReaderAssumption
  PROVE  Reader!Spec => [](Reader!FramesAreEvents /\ Reader!EndIsHonest /\ Reader!WithinLimit)
<1>1. Reader!Init => ReaderInv
  BY ReaderInit
<1>2. ReaderInv /\ [Reader!Read]_(Reader!vars) => ReaderInv'
  <2>1. ASSUME ReaderInv, UNCHANGED Reader!vars PROVE ReaderInv'
    <3>1. /\ body' = body /\ breaks' = breaks /\ at' = at /\ frame' = frame
          /\ lineBytes' = lineBytes /\ out' = out /\ end' = end /\ cuts' = cuts
      BY <2>1 DEF Reader!vars
    <3>2. CutsInv' /\ Reader!Cut' = Reader!Cut
      BY <2>1, <3>1
         DEF ReaderInv, CutsInv, Reader!Cut, Reader!Begin, Last, Part, Reader!Blank,
             Reader!LineEnds
    <3> QED
      BY <2>1, <3>1, <3>2 DEF ReaderInv, OpenInv, Part, Reader!Blank, Reader!LineEnds
  <2> QED
    BY <2>1, ReadStep
<1>3. ReaderInv => Reader!FramesAreEvents /\ Reader!EndIsHonest /\ Reader!WithinLimit
  <2> SUFFICES ASSUME ReaderInv
                   PROVE Reader!FramesAreEvents /\ Reader!EndIsHonest /\ Reader!WithinLimit
    OBVIOUS
  <2>1. Len(cuts) \in Nat /\ Len(body) \in Nat /\ Reader!Cut \in Nat
    BY LenProperties DEF ReaderInv, CutsInv
  <2>2. Reader!FramesAreEvents
    BY <2>1 DEF ReaderInv, CutsInv, Reader!FramesAreEvents, Last, Part
  <2>3. Reader!EndIsHonest
    BY DEF ReaderInv, Reader!EndIsHonest
  <2>4. Reader!WithinLimit
    BY DEF ReaderInv, CutsInv, Reader!WithinLimit, Last
  <2> QED
    BY <2>2, <2>3, <2>4
<1> QED
  BY <1>1, <1>2, <1>3, PTL DEF Reader!Spec
-----------------------------------------------------------------------------
(* The verdict on a stream                                                 *)

Fields == {"in", "out", "total"}
Usages == [in : TokenCounts \cup {Observer!None}, out : TokenCounts \cup {Observer!None},
           total : Int]
Reasons == {"upstream_error", "invalid_sse_json", "upstream_incomplete", "upstream_blocked",
            "unexpected_completion_marker", "invalid_choice_index"}
Observers == [complete : BOOLEAN, terminal : BOOLEAN, output : BOOLEAN, error : Reasons \cup {""},
              choices : UNION {[D -> BOOLEAN] : D \in SUBSET Indices},
              usage : Usages, totalSeen : BOOLEAN]

\* The frames that declare a field, and that there is a last one
Declaring(field) == {i \in DOMAIN frames : frames[i].usage[field] # Observer!None}
HasLast(field) ==
    Declaring(field) # {} =>
        \E m \in Declaring(field) : \A i \in Declaring(field) : m >= i

\* What the observer has counted is what was declared, and it computes a
\* total only while none was.
CountInv ==
    /\ \A field \in Fields : HasLast(field)
    /\ observer.usage.in = Observer!LastDeclared("in")
    /\ observer.usage.out = Observer!LastDeclared("out")
    /\ observer.totalSeen <=> Observer!LastDeclared("total") # Observer!None
    /\ observer.totalSeen => observer.usage.total = Observer!LastDeclared("total")
    /\ ~observer.totalSeen =>
         observer.usage.total =
            IF Observer!None \in {observer.usage.in, observer.usage.out}
            THEN Observer!None
            ELSE observer.usage.in + observer.usage.out

\* The choices that have begun, and those that were finished
Started == {c \in Indices : Observer!Begun(c)}
Ended == {c \in Indices : Observer!Finished(c)}

\* While a stream runs, all its frames were passed on, none of them is an
\* end or a failure, and the observer knows which choices began and which
\* of them were finished.
RunInv ==
    /\ observer.error = "" /\ ~observer.terminal /\ sent = frames /\ fate = "open"
    /\ ~Observer!Reported /\ ~Observer!Marked
    /\ observer.complete <=> /\ DOMAIN observer.choices # {}
                             /\ Observer!AllFinished(observer.choices)
    /\ protocol \notin {"chat", "gemini"} => DOMAIN observer.choices = {}
    /\ protocol \in {"chat", "gemini"} =>
         /\ DOMAIN observer.choices = Started
         /\ \A c \in Started : observer.choices[c] <=> c \in Ended

ObserverInv ==
    /\ protocol \in {"chat", "messages", "responses", "gemini"}
    /\ observer \in Observers /\ frames \in Seq(Observer!Frames)
    /\ CountInv
    /\ result = Observer!Running => RunInv
    /\ result.state = "returned" => result.usage = observer.usage
    /\ Observer!SuccessIsExact

(* What the frames are                                                     *)
LEMMA FrameFacts ==
  ASSUME Observer!ObserverAssumption, NEW f \in Observer!Frames
  PROVE  /\ f = [kind |-> f.kind, choice |-> f.choice, usage |-> f.usage]
         /\ f.usage \in Usages /\ f.usage.total \in TokenCounts \cup {Observer!None}
         /\ f.kind \in Observer!Bare \cup {"text", "finish", "usage"}
         /\ f.kind # "usage" => f.usage = Observer!Nothing
         /\ f.kind \in {"text", "finish"} => f.choice \in Indices \cup {Invalid}
<1> USE DEF Observer!ObserverAssumption, Observer!Frame, Usages, Observer!Nothing, Observer!None
<1>1. CASE \E k \in Observer!Bare : f = Observer!Frame(k, Invalid, Observer!Nothing)
  BY <1>1
<1>2. CASE \E k \in {"text", "finish"}, c \in Indices \cup {Invalid} :
               f = Observer!Frame(k, c, Observer!Nothing)
  BY <1>2 DEF Observer!Bare
<1>3. CASE \E u \in Observer!Declared \ {Observer!Nothing} :
               f = Observer!Frame("usage", Invalid, u)
  <2>1. PICK u \in Observer!Declared \ {Observer!Nothing} :
                 f = Observer!Frame("usage", Invalid, u)
    BY <1>3
  <2>2. u \in Usages /\ u.total \in TokenCounts \cup {Observer!None}
    BY DEF Observer!Declared
  <2> QED
    BY <2>1, <2>2
<1> QED
  BY <1>1, <1>2, <1>3 DEF Observer!Frames

(* What one more frame changes                                             *)
LEMMA OneMore ==
  ASSUME frames \in Seq(Observer!Frames), NEW f \in Observer!Frames, frames' = Append(frames, f)
  PROVE  /\ frames' \in Seq(Observer!Frames) /\ Len(frames') = Len(frames) + 1
         /\ Len(frames) \in Nat /\ DOMAIN frames = 1..Len(frames)
         /\ DOMAIN frames' = DOMAIN frames \cup {Len(frames) + 1}
         /\ \A i \in DOMAIN frames : frames'[i] = frames[i]
         /\ frames'[Len(frames) + 1] = f
         /\ Len(frames) + 1 \notin DOMAIN frames
  BY AppendProperties, LenProperties

(* The latest declaration is that of the new frame, if it has one.         *)
LEMMA LastStep ==
  ASSUME Observer!ObserverAssumption, frames \in Seq(Observer!Frames), NEW f \in Observer!Frames,
         frames' = Append(frames, f), NEW field \in Fields, HasLast(field)
  PROVE  /\ HasLast(field)'
         /\ Observer!LastDeclared(field)' = IF f.usage[field] # Observer!None THEN f.usage[field]
                                            ELSE Observer!LastDeclared(field)
<1> DEFINE n == Len(frames) + 1
<1>1. /\ DOMAIN frames' = DOMAIN frames \cup {n} /\ n \notin DOMAIN frames
      /\ \A i \in DOMAIN frames : frames'[i] = frames[i] /\ i \in Nat /\ i < n
      /\ frames'[n] = f /\ n \in Nat
  BY OneMore
<1> HIDE DEF n
<1>2. \A i \in Declaring(field) : i \in Nat /\ i < n /\ i \in DOMAIN frames
  BY <1>1 DEF Declaring
<1>3. Observer!LastDeclared(field) = IF Declaring(field) = {} THEN Observer!None
                                    ELSE frames[Observer!Max(Declaring(field))].usage[field]
  BY DEF Observer!LastDeclared, Declaring
<1>4. Observer!LastDeclared(field)' = IF Declaring(field)' = {} THEN Observer!None
                                     ELSE frames'[Observer!Max(Declaring(field)')].usage[field]
  BY DEF Observer!LastDeclared, Declaring
<1>5. CASE f.usage[field] = Observer!None
  <2>1. Declaring(field)' = Declaring(field)
    BY <1>1, <1>5 DEF Declaring
  <2>2. HasLast(field)'
    BY <2>1 DEF HasLast
  <2>3. ASSUME Declaring(field) # {} PROVE Observer!Max(Declaring(field)) \in DOMAIN frames
    <3>1. PICK m \in Declaring(field) : \A i \in Declaring(field) : m >= i
      BY <2>3 DEF HasLast
    <3> QED
      BY <1>2, <3>1 DEF Observer!Max
  <2> QED
    BY <1>1, <1>3, <1>4, <1>5, <2>1, <2>2, <2>3
<1>6. CASE f.usage[field] # Observer!None
  <2>1. Declaring(field)' = Declaring(field) \cup {n}
    BY <1>1, <1>6 DEF Declaring
  <2>2. \A i \in Declaring(field)' : n >= i
    BY <1>1, <1>2, <2>1
  <2>3. HasLast(field)'
    BY <2>1, <2>2 DEF HasLast
  <2>4. Observer!Max(Declaring(field)') = n
    <3>1. \A x \in Declaring(field)' : (\A y \in Declaring(field)' : x >= y) => x = n
      BY <1>1, <1>2, <2>1
    <3> QED
      BY <2>1, <2>2, <3>1 DEF Observer!Max
  <2> QED
    BY <1>1, <1>4, <1>6, <2>1, <2>3, <2>4
<1> QED
  BY <1>5, <1>6

(* What the observer makes of the usage of a frame                         *)
LEMMA MergeFacts ==
  ASSUME Observer!ObserverAssumption, NEW o \in Observers, NEW u \in Usages,
         u.total \in TokenCounts \cup {Observer!None}
  PROVE  LET m == Observer!MergeUsage(o, u)
         IN /\ m \in Observers
            /\ m = [o EXCEPT !.usage = m.usage, !.totalSeen = m.totalSeen]
            /\ m.usage.in = IF u.in = Observer!None THEN o.usage.in ELSE u.in
            /\ m.usage.out = IF u.out = Observer!None THEN o.usage.out ELSE u.out
            /\ m.totalSeen = (o.totalSeen \/ u.total # Observer!None)
            /\ u.total # Observer!None => m.usage.total = u.total
            /\ u.total = Observer!None /\ o.totalSeen => m.usage.total = o.usage.total
            /\ u.total = Observer!None /\ ~o.totalSeen =>
                 \/ u.in = Observer!None /\ u.out = Observer!None /\ m.usage.total = o.usage.total
                 \/ m.usage.total = Observer!SumIfKnown(o, m.usage.in, m.usage.out)
<1> DEFINE input == IF u.in = Observer!None THEN o.usage.in ELSE u.in
           output == IF u.out = Observer!None THEN o.usage.out ELSE u.out
           declared == o.totalSeen \/ u.total # Observer!None
           total == IF u.total # Observer!None THEN u.total
                    ELSE IF declared THEN o.usage.total ELSE Observer!SumIfKnown(o, input, output)
<1>1. /\ o.usage \in Usages /\ o.totalSeen \in BOOLEAN
      /\ input \in TokenCounts \cup {Observer!None}
      /\ output \in TokenCounts \cup {Observer!None} /\ declared \in BOOLEAN
      /\ o = [o EXCEPT !.usage = o.usage, !.totalSeen = o.totalSeen]
  BY DEF Observers, Usages
<1>2. total \in Int
  BY <1>1 DEF Observer!ObserverAssumption, Observer!None, Usages, Observer!SumIfKnown
<1>3. CASE u = Observer!Nothing
  BY <1>1, <1>3 DEF Observer!MergeUsage, Observer!Nothing
<1>4. CASE u # Observer!Nothing
  <2>1. Observer!MergeUsage(o,
            u) = [o EXCEPT !.usage = [in |-> input, out |-> output, total |-> total],
                                              !.totalSeen = declared]
    BY <1>4 DEF Observer!MergeUsage
  <2>2. [in |-> input, out |-> output, total |-> total] \in Usages
    BY <1>1, <1>2 DEF Usages
  <2> HIDE DEF input, output, declared, total
  <2>3. /\ Observer!MergeUsage(o, u) \in Observers
        /\ Observer!MergeUsage(o, u).usage = [in |-> input, out |-> output, total |-> total]
        /\ Observer!MergeUsage(o, u).totalSeen = declared
    BY <1>1, <2>1, <2>2 DEF Observers
  <2>4. Observer!MergeUsage(o, u) = [o EXCEPT !.usage = Observer!MergeUsage(o, u).usage,
                                              !.totalSeen = Observer!MergeUsage(o, u).totalSeen]
    BY <2>1, <2>3
  <2> QED
    BY <2>3, <2>4 DEF input, output, declared, total
<1> QED
  BY <1>3, <1>4

\* A frame that is about a choice
OfChoice(f) == f.kind \in {"text", "finish"} /\ protocol \in {"chat", "gemini"}

NextChoices(choices, c, finished) ==
    [x \in DOMAIN choices \cup {c} |->
       (x \in DOMAIN choices /\ choices[x]) \/ (x = c /\ finished)]

(* The choices that are known form a function again.                       *)
LEMMA NextChoicesFacts ==
  ASSUME NEW o \in Observers, NEW c \in Indices, NEW finished \in BOOLEAN
  PROVE  /\ NextChoices(o.choices, c, finished)
              \in UNION {[D -> BOOLEAN] : D \in SUBSET Indices}
         /\ Observer!AllFinished(NextChoices(o.choices, c, finished)) \in BOOLEAN
<1>1. PICK D \in SUBSET Indices : o.choices \in [D -> BOOLEAN]
  BY DEF Observers
<1>2. NextChoices(o.choices, c, finished) \in [D \cup {c} -> BOOLEAN]
  BY <1>1 DEF NextChoices
<1>3. D \cup {c} \in SUBSET Indices
  OBVIOUS
<1> QED
  BY <1>2, <1>3 DEF Observer!AllFinished

(* A refusal has a reason and leaves the rest.                             *)
LEMMA RefusesFacts ==
  ASSUME NEW o \in Observers, NEW why \in Reasons
  PROVE  /\ Observer!Refuses(o, why) \in Observers /\ Observer!Refuses(o, why).error # ""
         /\ Observer!Refuses(o, why).usage = o.usage
         /\ Observer!Refuses(o, why).totalSeen = o.totalSeen
BY DEF Observer!Refuses, Observers, Reasons

(* What the observer makes of a frame                                      *)
LEMMA ObserveFacts ==
  ASSUME Observer!ObserverAssumption, protocol \in {"chat", "messages", "responses", "gemini"},
         NEW o \in Observers, o.error = "", ~o.terminal, NEW f \in Observer!Frames
  PROVE  LET m == Observer!MergeUsage(o, f.usage)
             r == Observer!Observe(o, f)
         IN /\ r \in Observers /\ r.usage = m.usage /\ r.totalSeen = m.totalSeen
            /\ r.error = "" <=> ~Observer!Fails(f)
            /\ r.error = "" =>
                 /\ r.terminal <=> Observer!IsMarker(f)
                 /\ r.terminal => r.complete
                 /\ OfChoice(f) =>
                      /\ f.choice \in Indices
                      /\ r.choices = NextChoices(o.choices, f.choice, f.kind = "finish")
                      /\ r.complete = Observer!AllFinished(r.choices)
                 /\ ~OfChoice(f) =>
                      r.choices = o.choices /\ (r.terminal \/ r.complete = o.complete)
<1> DEFINE m == Observer!MergeUsage(o, f.usage)
           r == Observer!Observe(o, f)
<1>1. /\ f.usage \in Usages /\ f.usage.total \in TokenCounts \cup {Observer!None}
      /\ f.kind \in Observer!Bare \cup {"text", "finish", "usage"}
      /\ f.kind # "usage" => f.usage = Observer!Nothing
      /\ f.kind \in {"text", "finish"} => f.choice \in Indices \cup {Invalid}
  BY FrameFacts
<1>2. f.kind # "usage" => m = o
  BY <1>1 DEF Observer!MergeUsage
<1>3. /\ m \in Observers /\ m.error = "" /\ ~m.terminal
      /\ m.choices = o.choices /\ m.complete = o.complete
  <2>1. m \in Observers /\ m = [o EXCEPT !.usage = m.usage, !.totalSeen = m.totalSeen]
    BY <1>1, MergeFacts
  <2> HIDE DEF m
  <2> QED
    BY <2>1 DEF Observers
<1> HIDE DEF m
<1>4. CASE f.kind \in {"comment", "usage"}
  <2>1. r = m
    BY <1>2, <1>4 DEF Observer!Observe, m
  <2> QED
    BY <1>3, <1>4, <2>1 DEF Observer!Fails, Observer!IsMarker, OfChoice, m
<1>5. CASE f.kind \in {"error_event", "invalid_json", "error_field", "failed"}
  <2>1. \E why \in {"upstream_error", "invalid_sse_json", "upstream_incomplete"} :
           r = Observer!Refuses(m, why)
    BY <1>2, <1>5 DEF Observer!Observe, Observer!Failed, m
  <2>2. r \in Observers /\ r.usage = m.usage /\ r.totalSeen = m.totalSeen /\ r.error # ""
    <3>1. PICK why \in Reasons : r = Observer!Refuses(m, why)
      BY <2>1 DEF Reasons
    <3> QED
      BY <1>3, <3>1, RefusesFacts, ZenonT(30)
  <2> QED
    BY <1>5, <2>2 DEF Observer!Fails, m
<1>6. CASE f.kind \in {"done", "stop", "blocked"}
  <2>1. \/ r = Observer!Ends(m) /\ ~Observer!Fails(f) /\ Observer!IsMarker(f)
        \/ r = m /\ ~Observer!Fails(f) /\ ~Observer!IsMarker(f)
        \/ /\ Observer!Fails(f)
           /\ \E why \in {"unexpected_completion_marker", "upstream_blocked"} :
                r = Observer!Refuses(m, why)
    BY <1>2, <1>6 DEF Observer!Observe, Observer!Done, Observer!IsMarker, Observer!Fails, m
  <2>2. CASE r = Observer!Ends(m) /\ ~Observer!Fails(f) /\ Observer!IsMarker(f)
    <3>1. /\ r \in Observers /\ r.usage = m.usage /\ r.totalSeen = m.totalSeen
          /\ r.terminal /\ r.complete /\ r.choices = m.choices /\ r.error = m.error
      BY <1>3, <2>2 DEF Observer!Ends, Observers
    <3> QED
      BY <1>3, <1>6, <2>2, <3>1 DEF OfChoice, m
  <2>3. CASE r = m /\ ~Observer!Fails(f) /\ ~Observer!IsMarker(f)
    BY <1>3, <1>6, <2>3 DEF OfChoice, m
  <2>4. CASE /\ Observer!Fails(f)
             /\ \E why \in {"unexpected_completion_marker", "upstream_blocked"} :
                  r = Observer!Refuses(m, why)
    <3>1. r \in Observers /\ r.usage = m.usage /\ r.totalSeen = m.totalSeen /\ r.error # ""
      <4>1. PICK why \in Reasons : r = Observer!Refuses(m, why)
        BY <2>4 DEF Reasons
      <4> QED
        BY <1>3, <4>1, RefusesFacts, ZenonT(30)
    <3> QED
      BY <2>4, <3>1 DEF m
  <2> QED
    BY <2>1, <2>2, <2>3, <2>4
<1>7. CASE f.kind \in {"text", "finish"} /\ protocol \notin {"chat", "gemini"}
  <2>1. r = m \/ r = Observer!Shows(m)
    BY <1>2, <1>7 DEF Observer!Observe, m
  <2>2. /\ r \in Observers /\ r.usage = m.usage /\ r.totalSeen = m.totalSeen
        /\ r.terminal = m.terminal /\ r.complete = m.complete /\ r.choices = m.choices
        /\ r.error = m.error
    BY <1>3, <2>1 DEF Observer!Shows, Observers
  <2> QED
    BY <1>3, <1>7, <2>2 DEF Observer!Fails, Observer!IsMarker, OfChoice, m
<1>8. CASE OfChoice(f)
  <2> DEFINE c == Observer!Choice(m, f.choice, f.kind = "finish")
             next == NextChoices(o.choices, f.choice, f.kind = "finish")
  <2>1. r = c \/ r = Observer!Shows(c)
    BY <1>2, <1>8 DEF Observer!Observe, OfChoice, m
  <2>2. CASE f.choice = Invalid
    <3>1. PICK why \in Reasons : c = Observer!Refuses(m, why)
      BY <2>2 DEF Observer!Choice, Reasons
    <3> HIDE DEF c
    <3>2. c \in Observers /\ c.usage = m.usage /\ c.totalSeen = m.totalSeen /\ c.error # ""
      BY <1>3, <3>1, RefusesFacts
    <3>3. r \in Observers /\ r.usage = m.usage /\ r.totalSeen = m.totalSeen /\ r.error # ""
      BY <2>1, <3>2 DEF Observer!Shows, Observers
    <3> QED
      BY <1>8, <2>2, <3>3 DEF Observer!Fails, OfChoice, m
  <2>3. CASE f.choice # Invalid
    <3>1. f.choice \in Indices
      BY <1>1, <1>8, <2>3 DEF OfChoice
    <3>2. c = [m EXCEPT !.choices = next, !.complete = Observer!AllFinished(next)]
      BY <1>3, <2>3 DEF Observer!Choice, NextChoices
    <3>3. /\ next \in UNION {[D -> BOOLEAN] : D \in SUBSET Indices}
          /\ Observer!AllFinished(next) \in BOOLEAN
      BY <3>1, NextChoicesFacts
    <3> HIDE DEF next, c
    <3>4. /\ c \in Observers /\ c.usage = m.usage /\ c.totalSeen = m.totalSeen
          /\ c.terminal = m.terminal /\ c.complete = Observer!AllFinished(next)
          /\ c.choices = next /\ c.error = m.error
      BY <1>3, <3>2, <3>3 DEF Observers
    <3>5. /\ r \in Observers /\ r.usage = m.usage /\ r.totalSeen = m.totalSeen
          /\ r.terminal = m.terminal /\ r.complete = Observer!AllFinished(next)
          /\ r.choices = next /\ r.error = m.error
      BY <2>1, <3>4 DEF Observer!Shows, Observers
    <3> QED
      BY <1>3, <1>8, <2>3, <3>1, <3>5 DEF Observer!Fails, Observer!IsMarker, OfChoice, m, next
  <2> QED
    BY <2>2, <2>3
<1> QED
  BY <1>1, <1>4, <1>5, <1>6, <1>7, <1>8 DEF Observer!Bare, OfChoice

(* What the frames say of kinds and choices grows by the new frame.        *)
LEMMA SaysMore ==
  ASSUME frames \in Seq(Observer!Frames), NEW f \in Observer!Frames, frames' = Append(frames, f)
  PROVE  /\ protocol' = protocol =>
              /\ Observer!Reported' <=> Observer!Reported \/ Observer!Fails(f)
              /\ Observer!Marked' <=> Observer!Marked \/ Observer!IsMarker(f)
         /\ Started' = Started \cup {c \in Indices :
              f.kind \in {"text", "finish"} /\ f.choice = c}
         /\ Ended' = Ended \cup {c \in Indices : f.kind = "finish" /\ f.choice = c}
<1> DEFINE n == Len(frames) + 1
<1>1. /\ DOMAIN frames' = DOMAIN frames \cup {n} /\ n \notin DOMAIN frames
      /\ \A i \in DOMAIN frames : frames'[i] = frames[i]
      /\ frames'[n] = f
  BY OneMore
<1> HIDE DEF n
<1>2. ASSUME protocol' = protocol
      PROVE  /\ Observer!Reported' <=> Observer!Reported \/ Observer!Fails(f)
             /\ Observer!Marked' <=> Observer!Marked \/ Observer!IsMarker(f)
  BY <1>1, <1>2 DEF Observer!Reported, Observer!Marked, Observer!Fails, Observer!IsMarker
<1>3. Started' = Started \cup {c \in Indices : f.kind \in {"text", "finish"} /\ f.choice = c}
  BY <1>1 DEF Started, Observer!Begun
<1>4. Ended' = Ended \cup {c \in Indices : f.kind = "finish" /\ f.choice = c}
  BY <1>1 DEF Ended, Observer!Finished
<1> QED
  BY <1>2, <1>3, <1>4

(* The counts stay the declared ones.                                      *)
LEMMA CountStep ==
  ASSUME Observer!ObserverAssumption, observer \in Observers, frames \in Seq(Observer!Frames),
         CountInv,
         NEW f \in Observer!Frames, frames' = Append(frames, f),
         observer'.usage = Observer!MergeUsage(observer, f.usage).usage,
         observer'.totalSeen = Observer!MergeUsage(observer, f.usage).totalSeen
  PROVE  CountInv'
<1> DEFINE u == f.usage
           was == observer.usage
           is == observer'.usage
<1>1. u \in Usages /\ u.total \in TokenCounts \cup {Observer!None}
  BY FrameFacts
<1> DEFINE m == Observer!MergeUsage(observer, u)
<1>2. is = m.usage /\ observer'.totalSeen = m.totalSeen /\ m \in Observers
  BY <1>1, MergeFacts
<1>3. is.in = IF u.in = Observer!None THEN was.in ELSE u.in
  BY <1>1, MergeFacts, ZenonT(30)
<1>4. is.out = IF u.out = Observer!None THEN was.out ELSE u.out
  BY <1>1, MergeFacts, ZenonT(30)
<1>5. m.totalSeen = (observer.totalSeen \/ u.total # Observer!None)
  BY <1>1, MergeFacts
<1>6. u.total # Observer!None => m.usage.total = u.total
  BY <1>1, MergeFacts
<1>7. u.total = Observer!None /\ observer.totalSeen => m.usage.total = was.total
  BY <1>1, MergeFacts
<1>8. u.total = Observer!None /\ ~observer.totalSeen =>
           \/ u.in = Observer!None /\ u.out = Observer!None /\ m.usage.total = was.total
           \/ m.usage.total = Observer!SumIfKnown(observer, m.usage.in, m.usage.out)
  BY <1>1, MergeFacts
<1> HIDE DEF m
<1>9. \A field \in Fields :
         /\ HasLast(field)'
         /\ Observer!LastDeclared(field)' = IF u[field] # Observer!None THEN u[field]
              ELSE Observer!LastDeclared(field)
  BY LastStep DEF CountInv
<1>10. /\ Observer!LastDeclared("in")' = IF u.in # Observer!None THEN u.in
            ELSE Observer!LastDeclared("in")
       /\ Observer!LastDeclared("out")' = IF u.out # Observer!None THEN u.out
            ELSE Observer!LastDeclared("out")
       /\ Observer!LastDeclared("total")' = IF u.total # Observer!None THEN u.total
            ELSE Observer!LastDeclared("total")
  BY <1>9 DEF Fields
<1>11. is.in = Observer!LastDeclared("in")' /\ is.out = Observer!LastDeclared("out")'
  BY <1>3, <1>4, <1>10 DEF CountInv
<1>12. /\ observer'.totalSeen <=> Observer!LastDeclared("total")' # Observer!None
       /\ observer'.totalSeen => is.total = Observer!LastDeclared("total")'
  BY <1>2, <1>5, <1>6, <1>7, <1>10 DEF CountInv
<1>13. ASSUME ~observer'.totalSeen
       PROVE  is.total = IF Observer!None \in {is.in, is.out} THEN Observer!None
           ELSE is.in + is.out
  <2>1. /\ u.total = Observer!None /\ ~observer.totalSeen
        /\ was.total = IF Observer!None \in {was.in, was.out} THEN Observer!None
             ELSE was.in + was.out
    BY <1>2, <1>5, <1>13 DEF CountInv
  <2>2. CASE u.in = Observer!None /\ u.out = Observer!None /\ is.total = was.total
    BY <1>3, <1>4, <2>1, <2>2
  <2>3. CASE is.total = Observer!SumIfKnown(observer, is.in, is.out)
    <3>1. is.total = IF is.in # Observer!None /\ is.out # Observer!None THEN is.in + is.out
              ELSE was.total
      BY <2>3 DEF Observer!SumIfKnown
    <3>2. (is.in = Observer!None => was.in = Observer!None)
              /\ (is.out = Observer!None => was.out = Observer!None)
      BY <1>3, <1>4
    <3> QED
      BY <2>1, <3>1, <3>2
  <2> QED
    BY <1>2, <1>8, <2>1, <2>2, <2>3
<1> QED
  BY <1>9, <1>11, <1>12, <1>13 DEF CountInv

(* A frame that does not end the stream keeps what is known while it runs. *)
LEMMA RunStep ==
  ASSUME Observer!ObserverAssumption, ObserverInv, RunInv, NEW f \in Observer!Frames,
         UNCHANGED protocol, frames' = Append(frames, f),
         observer' = Observer!Observe(observer, f), sent' = frames', observer'.error = ""
  PROVE  /\ ~Observer!Reported'
         /\ observer'.terminal => Observer!Marked' /\ observer'.complete
         /\ ~observer'.terminal /\ fate' = fate => RunInv'
<1> DEFINE r == observer'
<1>1. /\ observer \in Observers /\ observer.error = "" /\ ~observer.terminal
      /\ protocol \in {"chat", "messages", "responses", "gemini"}
      /\ frames \in Seq(Observer!Frames)
  BY DEF ObserverInv, RunInv
<1>2. /\ ~Observer!Fails(f)
      /\ r.terminal <=> Observer!IsMarker(f)
      /\ r.terminal => r.complete
      /\ OfChoice(f) =>
           /\ f.choice \in Indices
           /\ r.choices = NextChoices(observer.choices, f.choice, f.kind = "finish")
           /\ r.complete = Observer!AllFinished(r.choices)
      /\ ~OfChoice(f) =>
           r.choices = observer.choices /\ (r.terminal \/ r.complete = observer.complete)
  BY <1>1, ObserveFacts
<1>3. /\ Observer!Reported' <=> Observer!Reported \/ Observer!Fails(f)
      /\ Observer!Marked' <=> Observer!Marked \/ Observer!IsMarker(f)
      /\ Started' = Started \cup {c \in Indices : f.kind \in {"text", "finish"} /\ f.choice = c}
      /\ Ended' = Ended \cup {c \in Indices : f.kind = "finish" /\ f.choice = c}
  BY <1>1, SaysMore
<1>4. ~Observer!Reported'
  BY <1>2, <1>3 DEF RunInv
<1>5. r.terminal => Observer!Marked' /\ r.complete
  BY <1>2, <1>3
<1>6. ASSUME ~r.terminal, fate' = fate PROVE RunInv'
  <2>1. ~Observer!Marked'
    BY <1>2, <1>3, <1>6 DEF RunInv
  <2>2. CASE OfChoice(f)
    <3>1. /\ protocol \in {"chat", "gemini"} /\ f.kind \in {"text", "finish"}
          /\ f.choice \in Indices
          /\ r.complete = Observer!AllFinished(r.choices)
          /\ DOMAIN r.choices = DOMAIN observer.choices \cup {f.choice}
          /\ \A x \in DOMAIN r.choices :
               r.choices[x] = ((x \in DOMAIN observer.choices /\ observer.choices[x])
                               \/ (x = f.choice /\ f.kind = "finish"))
      BY <1>2, <2>2 DEF OfChoice, NextChoices
    <3>2. DOMAIN r.choices = Started'
      BY <1>3, <3>1 DEF RunInv
    <3>3. ASSUME NEW c \in Started' PROVE r.choices[c] <=> c \in Ended'
      <4>1. c \in Ended => c \in Started
        BY DEF Started, Ended, Observer!Begun, Observer!Finished
      <4>2. c \in Started => (observer.choices[c] <=> c \in Ended)
        BY <3>1 DEF RunInv
      <4> QED
        BY <1>3, <3>1, <3>2, <4>1, <4>2 DEF RunInv
    <3>4. r.complete <=> DOMAIN r.choices # {} /\ Observer!AllFinished(r.choices)
      BY <3>1
    <3> QED
      BY <1>4, <1>6, <2>1, <3>1, <3>2, <3>3, <3>4 DEF RunInv
  <2>3. CASE ~OfChoice(f)
    <3>1. r.choices = observer.choices /\ r.complete = observer.complete
      BY <1>2, <1>6, <2>3
    <3>2. protocol \in {"chat", "gemini"} => Started' = Started /\ Ended' = Ended
      BY <1>3, <2>3 DEF OfChoice
    <3> QED
      BY <1>4, <1>6, <2>1, <3>1, <3>2 DEF RunInv
  <2> QED
    BY <2>2, <2>3
<1> QED
  BY <1>4, <1>5, <1>6

(* Every frame keeps the invariant, whether or not it ends the stream.     *)
LEMMA ArriveStep ==
  ASSUME Observer!ObserverAssumption, ObserverInv, NEW f \in Observer!Frames,
         NEW written \in BOOLEAN,
         Observer!Arrive(f, written)
  PROVE  ObserverInv'
<1> DEFINE r == observer'
<1>1. /\ result = Observer!Running /\ RunInv /\ UNCHANGED protocol
      /\ observer \in Observers /\ observer.error = "" /\ ~observer.terminal
      /\ protocol \in {"chat", "messages", "responses", "gemini"}
      /\ frames \in Seq(Observer!Frames) /\ frames' = Append(frames, f)
      /\ r = Observer!Observe(observer, f)
  BY DEF Observer!Arrive, ObserverInv, RunInv
<1>2. /\ r \in Observers /\ r.usage = Observer!MergeUsage(observer, f.usage).usage
      /\ r.totalSeen = Observer!MergeUsage(observer, f.usage).totalSeen
  BY <1>1, ObserveFacts
<1>3. CountInv'
  BY <1>1, <1>2, CountStep DEF ObserverInv
<1>4. frames' \in Seq(Observer!Frames)
  BY <1>1, OneMore
<1>5. CASE r.error # ""
  <2>1. result' = [state |-> "returned", error |-> r.error, transport |-> FALSE,
                   complete |-> FALSE, canceled |-> FALSE, usage |-> r.usage]
    BY <1>5 DEF Observer!Arrive, Observer!Returns
  <2>2. Observer!Reported'
    BY <1>1, <1>5, ObserveFacts, SaysMore
  <2> QED
    BY <1>1, <1>2, <1>3, <1>4, <2>1, <2>2
       DEF ObserverInv, Observer!SuccessIsExact, Observer!Successful, Observer!Running
<1>6. CASE r.error = ""
  <2>1. sent' = frames'
    BY <1>1, <1>6 DEF Observer!Arrive, RunInv
  <2>2. /\ ~Observer!Reported'
        /\ r.terminal => Observer!Marked' /\ r.complete
        /\ ~r.terminal /\ fate' = fate => RunInv'
    BY <1>1, <1>6, <2>1, RunStep
  <2>6. fate' = (IF written THEN fate ELSE "gone") /\ fate = "open"
    BY <1>1, <1>6 DEF Observer!Arrive, RunInv
  <2>3. CASE ~written
    <3>1. result' = [state |-> "returned", error |-> "", transport |-> FALSE,
                     complete |-> FALSE, canceled |-> TRUE, usage |-> r.usage]
      BY <1>6, <2>3 DEF Observer!Arrive, Observer!Returns
    <3> QED
      BY <1>1, <1>2, <1>3, <1>4, <2>3, <2>6, <3>1
         DEF ObserverInv, Observer!SuccessIsExact, Observer!Successful, Observer!Running
  <2>4. CASE written /\ r.terminal
    <3>1. result' = [state |-> "returned", error |-> "", transport |-> TRUE,
                     complete |-> TRUE /\ r.complete, canceled |-> FALSE, usage |-> r.usage]
      BY <1>6, <2>4 DEF Observer!Arrive, Observer!Returns
    <3>2. /\ result'.state = "returned" /\ result'.usage = r.usage
          /\ Observer!Successful(result)'
      BY <2>2, <2>4, <3>1 DEF Observer!Successful
    <3>3. Observer!SuccessIsExact'
      BY <2>1, <2>2, <2>4, <2>6, <3>2 DEF Observer!SuccessIsExact
    <3>5. result' # Observer!Running
      BY <3>2 DEF Observer!Running
    <3> QED
      BY <1>1, <1>2, <1>3, <1>4, <3>2, <3>3, <3>5 DEF ObserverInv
  <2>5. CASE written /\ ~r.terminal
    <3>1. result' = Observer!Running
      BY <1>1, <1>6, <2>5 DEF Observer!Arrive
    <3>2. Observer!SuccessIsExact' /\ result'.state # "returned"
      BY <3>1 DEF Observer!SuccessIsExact, Observer!Successful, Observer!Running
    <3> QED
      BY <1>1, <1>2, <1>3, <1>4, <2>2, <2>5, <2>6, <3>2 DEF ObserverInv
  <2> QED
    BY <2>3, <2>4, <2>5
<1> QED
  BY <1>5, <1>6

(* So does the end of the body, and a body that breaks off.                *)
LEMMA EndStep ==
  ASSUME Observer!ObserverAssumption, ObserverInv,
         Observer!Eof \/ \E why \in {"truncated_stream", "output_limit"} : Observer!BreakOff(why)
  PROVE  ObserverInv'
<1>1. /\ result = Observer!Running /\ RunInv /\ observer \in Observers
      /\ frames \in Seq(Observer!Frames)
      /\ UNCHANGED <<protocol, observer, sent, frames>>
  BY DEF Observer!Eof, Observer!BreakOff, ObserverInv
<1>2. CountInv'
  BY <1>1 DEF ObserverInv, CountInv, HasLast, Declaring, Observer!LastDeclared
<1>3. CASE \E why \in {"truncated_stream", "output_limit"} : Observer!BreakOff(why)
  <2>1. PICK why : Observer!BreakOff(why)
    BY <1>3
  <2>2. /\ result'.state = "returned" /\ ~result'.transport
        /\ result'.usage = observer.usage /\ fate' = "broken"
    BY <2>1 DEF Observer!BreakOff, Observer!Returns
  <2>3. Observer!SuccessIsExact'
    BY <2>2 DEF Observer!SuccessIsExact, Observer!Successful
  <2>4. result' # Observer!Running
    BY <2>2 DEF Observer!Running
  <2> QED
    BY <1>1, <1>2, <2>2, <2>3, <2>4 DEF ObserverInv
<1>4. CASE Observer!Eof
  <2>1. /\ result'.state = "returned" /\ result'.usage = observer.usage /\ fate' = "eof"
        /\ Observer!Successful(result)' <=> observer.complete
    <3> DEFINE o == [observer EXCEPT !.complete = Observer!MissingCompletion(observer) = ""]
    <3>1. /\ o.usage = observer.usage /\ observer.complete \in BOOLEAN
          /\ o.complete <=> Observer!MissingCompletion(observer) = ""
      BY <1>1 DEF Observers
    <3>2. Observer!Returns(Observer!MissingCompletion(observer), TRUE, FALSE, o) /\ fate' = "eof"
      BY <1>4 DEF Observer!Eof
    <3> HIDE DEF o
    <3>3. /\ result'.state = "returned" /\ result'.usage = o.usage
          /\ result'.error = Observer!MissingCompletion(observer)
          /\ result'.transport /\ ~result'.canceled
          /\ result'.complete <=> o.complete
      BY <3>2 DEF Observer!Returns
    <3>4. Observer!MissingCompletion(observer) = "" <=> observer.complete
      BY <3>1 DEF Observer!MissingCompletion
    <3> QED
      BY <3>1, <3>2, <3>3, <3>4 DEF Observer!Successful
  <2>2. observer.complete <=> Observer!AllChoicesFinished
    <3>1. CASE protocol \in {"chat", "gemini"}
      <4>1. /\ DOMAIN observer.choices = Started
            /\ \A c \in Started : observer.choices[c] <=> c \in Ended
            /\ observer.complete <=> /\ DOMAIN observer.choices # {}
                                     /\ Observer!AllFinished(observer.choices)
        BY <1>1, <3>1 DEF RunInv
      <4>2. observer.complete <=> Started # {} /\ \A c \in Started : c \in Ended
        BY <4>1 DEF Observer!AllFinished
      <4> QED
        BY <3>1, <4>2 DEF Observer!AllChoicesFinished, Started, Ended
    <3>2. CASE protocol \notin {"chat", "gemini"}
      BY <1>1, <3>2 DEF RunInv, Observer!AllChoicesFinished
    <3> QED
      BY <3>1, <3>2
  <2>3. Observer!SuccessIsExact'
    <3>1. ~Observer!Reported' /\ ~Observer!Marked' /\ sent' = frames'
      BY <1>1 DEF RunInv, Observer!Reported, Observer!Marked, Observer!Fails, Observer!IsMarker
    <3>2. Observer!AllChoicesFinished' <=> Observer!AllChoicesFinished
      BY <1>1 DEF Observer!AllChoicesFinished, Observer!Begun, Observer!Finished
    <3> QED
      BY <2>1, <2>2, <3>1, <3>2 DEF Observer!SuccessIsExact
  <2>4. result' # Observer!Running
    BY <2>1 DEF Observer!Running
  <2> QED
    BY <1>1, <1>2, <2>1, <2>2, <2>3, <2>4 DEF ObserverInv
<1> QED
  BY <1>3, <1>4

(* The verdict on a stream is right.                                       *)
LEMMA ObserverIsRight ==
  ASSUME Observer!ObserverAssumption
  PROVE  Observer!Spec =>
      [](Observer!SuccessIsExact /\ Observer!UsageIsDeclared)
<1>1. Observer!Init => ObserverInv
  <2> SUFFICES ASSUME Observer!Init PROVE ObserverInv
    OBVIOUS
  <2>0. DOMAIN <<>> = {} /\ <<>> \in [{} -> BOOLEAN] /\ <<>> \in Seq(Observer!Frames)
    <3>1. <<>> \in Seq(BOOLEAN) /\ <<>> \in Seq(Observer!Frames) /\ Len(<<>>) = 0
      BY EmptySeq
    <3>2. <<>> \in [1..0 -> BOOLEAN]
      BY <3>1, LenProperties
    <3> QED
      BY <3>1, <3>2
  <2>1. /\ frames = <<>> /\ sent = <<>> /\ result = Observer!Running /\ fate = "open"
        /\ frames \in Seq(Observer!Frames)
        /\ DOMAIN frames = {}
    BY <2>0 DEF Observer!Init
  <2>9. protocol \in {"chat", "messages", "responses", "gemini"}
    BY DEF Observer!Init, Observer!ObserverAssumption
  <2>2. /\ observer.usage = Observer!Nothing /\ ~observer.totalSeen /\ observer.error = ""
        /\ ~observer.terminal /\ ~observer.complete /\ observer.choices = <<>>
    BY DEF Observer!Init
  <2>3. DOMAIN observer.choices = {} /\ observer.choices \in [{} -> BOOLEAN]
    BY <2>0, <2>2
  <2>4. observer.choices \in UNION {[D -> BOOLEAN] : D \in SUBSET Indices}
    BY <2>3
  <2>5. observer \in Observers
    <3>1. Observer!Nothing \in Usages
      BY DEF Usages, Observer!Nothing, Observer!None
    <3>2. observer = [complete |-> FALSE, terminal |-> FALSE, output |-> FALSE, error |-> "",
                      choices |-> <<>>, usage |-> Observer!Nothing, totalSeen |-> FALSE]
      BY DEF Observer!Init
    <3>3. <<>> \in UNION {[D -> BOOLEAN] : D \in SUBSET Indices}
      BY <2>2, <2>4
    <3> QED
      BY <3>1, <3>2, <3>3 DEF Observers
  <2>6. CountInv
    <3>1. \A field \in Fields :
              Declaring(field) = {} /\ Observer!LastDeclared(field) = Observer!None
      BY <2>1 DEF Declaring, Observer!LastDeclared
    <3>2. /\ Observer!LastDeclared("in") = Observer!None
          /\ Observer!LastDeclared("out") = Observer!None
          /\ Observer!LastDeclared("total") = Observer!None /\ \A field \in Fields :
               HasLast(field)
      BY <3>1 DEF Fields, HasLast
    <3>3. observer.usage.in = Observer!None /\ observer.usage.out = Observer!None
              /\ observer.usage.total = Observer!None
      <4>1. Observer!Nothing.in = Observer!None /\ Observer!Nothing.out = Observer!None
                /\ Observer!Nothing.total = Observer!None
        BY DEF Observer!Nothing
      <4> QED
        BY <2>2, <4>1
    <3> QED
      BY <2>2, <3>2, <3>3 DEF CountInv
  <2>7. RunInv
    BY <2>1, <2>2, <2>3
       DEF RunInv, Observer!Reported, Observer!Marked, Started, Observer!Begun,
           Observer!AllFinished
  <2>8. Observer!SuccessIsExact /\ result.state # "returned"
    BY <2>1 DEF Observer!SuccessIsExact, Observer!Successful, Observer!Running
  <2> QED
    BY <2>1, <2>5, <2>6, <2>7, <2>8, <2>9 DEF ObserverInv
<1>2. ObserverInv /\ [Observer!Next]_(Observer!vars) => ObserverInv'
  <2>1. ASSUME ObserverInv, UNCHANGED Observer!vars PROVE ObserverInv'
    <3>1. UNCHANGED <<protocol, observer, sent, result, frames, fate>>
      BY <2>1 DEF Observer!vars
    <3>2. CountInv'
      BY <2>1, <3>1 DEF ObserverInv, CountInv, HasLast, Declaring, Observer!LastDeclared
    <3>3. Started' = Started /\ Ended' = Ended
      BY <3>1 DEF Started, Ended, Observer!Begun, Observer!Finished
    <3>6. /\ Observer!Reported' <=> Observer!Reported
          /\ Observer!Marked' <=> Observer!Marked
      BY <3>1 DEF Observer!Reported, Observer!Marked, Observer!Fails, Observer!IsMarker
    <3>4. RunInv' <=> RunInv
      BY <3>1, <3>3, <3>6 DEF RunInv
    <3>5. Observer!SuccessIsExact'
      BY <2>1, <3>1, <3>6
         DEF ObserverInv, Observer!SuccessIsExact, Observer!AllChoicesFinished, Observer!Begun,
             Observer!Finished
    <3> QED
      BY <2>1, <3>1, <3>2, <3>4, <3>5 DEF ObserverInv
  <2> QED
    BY <2>1, ArriveStep, EndStep DEF Observer!Next
<1>3. ObserverInv => Observer!SuccessIsExact /\ Observer!UsageIsDeclared
  BY DEF ObserverInv, CountInv, Observer!UsageIsDeclared
<1> QED
  BY <1>1, <1>2, <1>3, PTL DEF Observer!Spec

-----------------------------------------------------------------------------
(* Theorems about routing and streams                                      *)

(* choose finds the best of the targets that are free and preferred, and   *)
(* finds none only if no target is free at all (choose, poolPreferences,   *)
(* comparePreferences).                                                    *)
THEOREM BestIsChosen ==
  ASSUME Routing!PolicyAssumption
  PROVE  Routing!Spec => []ChoosesBest
  BY PolicyIsKept, PTL DEF ChoosesBest

(* While all targets were free, no target of a weighted group and no       *)
(* account of a round-robin pool gets ahead of another (virtualFinish,     *)
(* lastDispatch).                                                          *)
THEOREM SharesStayFair ==
  ASSUME Routing!PolicyAssumption
  PROVE  Routing!Spec => []FairShares
  BY PolicyIsKept, PTL DEF FairShares

(* The frames that SSEReader.Next returns are the events of the body,      *)
(* wherever the buffer's boundaries fall; only a body that ended between   *)
(* two events is called ended, and the limit stops only longer events.     *)
THEOREM FramesStayWhole ==
  ASSUME Reader!ReaderAssumption
  PROVE  Reader!Spec => []FramesAreEvents
  BY FramesStayEvents, PTL DEF FramesAreEvents

(* CompletionObserver and streamResponse call exactly the streams a        *)
(* success that are complete in the terms of their protocol, whatever      *)
(* frames arrive and wherever the stream breaks off.                       *)
THEOREM VerdictStaysRight ==
  ASSUME Observer!ObserverAssumption
  PROVE  Observer!Spec => []VerdictIsRight
  BY ObserverIsRight, PTL DEF VerdictIsRight
=============================================================================
