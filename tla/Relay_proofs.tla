---------------------------- MODULE Relay_proofs ----------------------------
(***************************************************************************)
(* Theorems about the breaker and the forwarding loop.                     *)
(*                                                                         *)
(* First about ChannelBreaker, for every threshold, window, lease and set  *)
(* of requests.  BreakerInv is inductive together with TypeOK; the spacing *)
(* of probes follows from it.  With the order of the failures and the age  *)
(* of a half-open breaker (Settled) it carries the simulation that shows   *)
(* ChannelBreaker to implement CircuitSpec.                                *)
(*                                                                         *)
(* Then about Relay, for every set of requests and of channels, every      *)
(* priority and every setting of the breakers: probes are accounted for, a *)
(* request is answered once, a healthy channel is never blamed, and the    *)
(* breaker of every channel keeps the promise of CircuitSpec.  The facts   *)
(* about the breaker's methods come from the first part, whose theorems    *)
(* about its own variables ch and at play no part here.                    *)
(***************************************************************************)
EXTENDS MCRelay, ChannelBreaker, TLAPS, FiniteSetTheorems, SequenceTheorems

Ages == 0..(FailWindow + 1)

Sound(s) == s \in Channel /\ WellShaped(s)

------------------------------------------------------------------------------
(* The operators of Breaker *)

\* Trimming returns a list of failures no longer than the one it was given.
LEMMA TrimType ==
  ASSUME NEW f \in Seq(Ages)
  PROVE  Trim(f) \in Seq(Ages) /\ Len(Trim(f)) <= Len(f)
<1>1. Len(f) \in Nat /\ DOMAIN f = 1..Len(f) /\ \A i \in 1..Len(f) : f[i] \in Ages
  BY LenProperties, ElementOfSeq
<1>2. IsFiniteSet(1..Len(f)) /\ Cardinality(1..Len(f)) = Len(f)
  <2>1. /\ IsFiniteSet(1..Len(f))
        /\ Cardinality(1..Len(f)) = IF 1 > Len(f) THEN 0 ELSE Len(f) - 1 + 1
    BY <1>1, 1 \in Int, Len(f) \in Int, FS_Interval, Zenon
  <2> QED BY <1>1, <2>1
<1>3. Expired(f) \in SUBSET (1..Len(f))
  BY <1>1 DEF Expired
<1>4. IsFiniteSet(Expired(f)) /\ Cardinality(Expired(f)) <= Len(f)
  BY <1>2, <1>3, FS_Subset
<1>5. Cardinality(Expired(f)) \in Nat
  BY <1>4, FS_CardinalityType
<1> DEFINE m == Cardinality(Expired(f)) + 1
<1>6. m \in Int /\ m >= 1 /\ \A i \in m..Len(f) : f[i] \in Ages
  BY <1>1, <1>5
<1>7. /\ SubSeq(f, m, Len(f)) \in Seq(Ages)
      /\ Len(SubSeq(f, m, Len(f))) = IF m <= Len(f) THEN Len(f) - m + 1 ELSE 0
  <2> HIDE DEF m
  <2> QED BY <1>1, <1>6, SubSeqProperties
<1>8. QED
  BY <1>1, <1>6, <1>7 DEF Trim

\* A failure list survives a tick: same length, ages still in range.
LEMMA AgedFails ==
  ASSUME NEW f \in Seq(Ages)
  PROVE  LET g == [i \in DOMAIN f |-> Older(f[i], FailWindow + 1)]
         IN  g \in Seq(Ages) /\ Len(g) = Len(f) /\ (f = <<>> => g = <<>>)
<1> DEFINE g == [i \in DOMAIN f |-> Older(f[i], FailWindow + 1)]
<1>1. Len(f) \in Nat /\ DOMAIN f = 1..Len(f) /\ \A i \in 1..Len(f) : f[i] \in Ages
  BY LenProperties, ElementOfSeq
<1>2. \A i \in 1..Len(f) : Older(f[i], FailWindow + 1) \in Ages
  BY <1>1, BreakerAssumption DEF Older, Ages
<1>3. g \in [1..Len(f) -> Ages]
  BY <1>1, <1>2
<1>4. g \in Seq(Ages)
  BY <1>1, <1>3, SeqDef
<1>5. Len(g) = Len(f)
  BY <1>1, <1>3, <1>4, LenProperties
<1>6. f = <<>> => g = <<>>
  BY <1>4, <1>5, EmptySeq
<1>7. QED
  BY <1>4, <1>5, <1>6

\* The values the methods write are in range, and nobody is called NoProbe.
LEMMA Ranges ==
  /\ 0 \in 0..ProbeTimeout /\ 0 \in 0..OpenDuration /\ <<>> \in Seq(Ages)
  /\ BreakerStates = {"closed", "open", "half-open"}
  /\ FailThreshold > 0 /\ FailThreshold \in Nat
  /\ NoProbe \notin Holders
  BY BreakerAssumption, EmptySeq DEF BreakerStates

\* A fresh breaker is well formed.
LEMMA NewStateShape == NewState \in Channel /\ WellShaped(NewState)
  BY BreakerAssumption, EmptySeq DEF NewState, Channel, BreakerStates, WellShaped

\* The lazy transition keeps a breaker well formed.
LEMMA TransitionShape ==
  ASSUME NEW s \in Channel, WellShaped(s)
  PROVE  Transition(s) \in Channel /\ WellShaped(Transition(s))
<1>1. CASE s.state = "open" /\ s.openAge >= OpenDuration
  <2> DEFINE t == [s EXCEPT !.state = "half-open", !.probe = NoProbe, !.probeAge = 0]
  <2>1. Transition(s) = t
    BY <1>1 DEF Transition, ClearProbe, Channel
  <2>2. t \in Channel
    BY Ranges DEF Channel
  <2>3. WellShaped(t)
    BY <1>1 DEF WellShaped, Channel
  <2> QED BY <2>1, <2>2, <2>3
<1>2. CASE ~(s.state = "open" /\ s.openAge >= OpenDuration)
  BY <1>2 DEF Transition
<1> QED BY <1>1, <1>2

\* Admission keeps a breaker well formed.
LEMMA AllowShape ==
  ASSUME NEW s \in Channel, WellShaped(s), NEW h \in Holders
  PROVE  Allow(s, h) \in Channel /\ WellShaped(Allow(s, h))
<1>1. Transition(s) \in Channel /\ WellShaped(Transition(s))
  BY TransitionShape
<1> DEFINE t == Transition(s)
<1> HIDE DEF t
<1>2. t \in Channel /\ WellShaped(t) /\ t = Transition(s)
  BY <1>1 DEF t
<1>3. CASE IssuesProbe(s)
  <2>1. t.state = "half-open"
    BY <1>2, <1>3 DEF IssuesProbe
  <2>2. [t EXCEPT !.probe = h, !.probeAge = 0] \in Channel
    BY <1>2, Ranges DEF Channel
  <2>3. WellShaped([t EXCEPT !.probe = h, !.probeAge = 0])
    BY <1>2, <2>1 DEF WellShaped, Channel
  <2> QED BY <1>2, <1>3, <2>2, <2>3 DEF Allow
<1>4. CASE ~IssuesProbe(s)
  BY <1>1, <1>4 DEF Allow
<1> QED BY <1>3, <1>4

\* The lazy transition moves no outstanding probe: an open breaker has none.
LEMMA TransitionProbe ==
  ASSUME NEW s \in Channel, WellShaped(s)
  PROVE  /\ Transition(s).probe = s.probe
         /\ s.probe # NoProbe => Transition(s) = s
<1>1. CASE s.state = "open" /\ s.openAge >= OpenDuration
  BY <1>1 DEF Transition, ClearProbe, Channel, WellShaped
<1>2. CASE ~(s.state = "open" /\ s.openAge >= OpenDuration)
  BY <1>2 DEF Transition
<1> QED BY <1>1, <1>2

\* A probe is issued over an outstanding one only when that one's lease is over.
LEMMA AllowProbe ==
  ASSUME NEW s \in Channel, WellShaped(s), NEW h \in Holders
  PROVE  /\ IssuesProbe(s) =>
              /\ Allow(s, h).probe = h /\ Allow(s, h).probeAge = 0
              /\ s.probe # NoProbe => s.probeAge = ProbeTimeout
         /\ ~IssuesProbe(s) =>
              /\ Allow(s, h).probe = s.probe
              /\ s.probe # NoProbe => Allow(s, h) = s
<1>1. Transition(s).probe = s.probe /\ (s.probe # NoProbe => Transition(s) = s)
  BY TransitionProbe
<1>2. Transition(s) \in Channel
  BY TransitionShape
<1>3. s.probe # NoProbe /\ IssuesProbe(s) => s.probeAge = ProbeTimeout
  BY <1>1, BreakerAssumption DEF IssuesProbe, LeaseLive, Channel
<1>4. IssuesProbe(s) => Allow(s, h).probe = h /\ Allow(s, h).probeAge = 0
  BY <1>2 DEF Allow, Channel
<1> QED BY <1>1, <1>3, <1>4 DEF Allow

\* A success or a reset leaves a well-formed closed breaker.
LEMMA ConvergeShape ==
  ASSUME NEW s \in Channel
  PROVE  /\ Converge(s) \in Channel /\ WellShaped(Converge(s))
         /\ Converge(s).state = "closed" /\ Converge(s).fails = <<>>
         /\ Converge(s).probe = NoProbe
<1> DEFINE t == [s EXCEPT !.state = "closed", !.fails = <<>>,
                          !.probe = NoProbe, !.probeAge = 0]
<1>1. Converge(s) = t
  BY DEF Converge, ClearProbe, Channel
<1>2. t \in Channel
  BY Ranges DEF Channel, Ages
<1>3. WellShaped(t) /\ t.state = "closed" /\ t.fails = <<>> /\ t.probe = NoProbe
  BY Ranges, Len(<<>>) = 0 DEF WellShaped, Channel
<1> QED BY <1>1, <1>2, <1>3

\* A trip leaves a well-formed open breaker.
LEMMA TripShape ==
  ASSUME NEW s \in Channel
  PROVE  /\ Trip(s) \in Channel /\ WellShaped(Trip(s))
         /\ Trip(s).state = "open" /\ Trip(s).probe = NoProbe
<1> DEFINE t == [s EXCEPT !.state = "open", !.openAge = 0, !.fails = <<>>,
                          !.probe = NoProbe, !.probeAge = 0]
<1>1. Trip(s) = t
  BY DEF Trip, ClearProbe, Channel
<1>2. t \in Channel
  BY Ranges DEF Channel, Ages
<1>3. WellShaped(t) /\ t.state = "open" /\ t.probe = NoProbe
  BY DEF WellShaped, Channel
<1> QED BY <1>1, <1>2, <1>3

\* A failure keeps a breaker well formed; it changes the probe only by tripping.
LEMMA OnFailureShape ==
  ASSUME NEW s \in Channel, WellShaped(s)
  PROVE  /\ OnFailure(s) \in Channel /\ WellShaped(OnFailure(s))
         /\ \/ OnFailure(s).probe = NoProbe
            \/ /\ OnFailure(s).probe = s.probe
               /\ OnFailure(s).probeAge = s.probeAge
         /\ s.state # "open" \/ OnFailure(s) = s
<1> DEFINE kept == Trim(Append(s.fails, 0))
<1>1. s.fails \in Seq(Ages) /\ 0 \in Ages
  BY BreakerAssumption DEF Channel, Ages
<1>2. Append(s.fails, 0) \in Seq(Ages)
  BY <1>1, AppendProperties
<1>3. kept \in Seq(Ages)
  BY <1>2, TrimType
<1> HIDE DEF kept
<1>4. CASE s.state = "half-open"
  BY <1>4, TripShape DEF OnFailure
<1>5. CASE s.state = "open"
  BY <1>5 DEF OnFailure
<1>6. CASE s.state = "closed"
  <2>1. CASE Len(kept) >= FailThreshold
    BY <1>6, <2>1, TripShape DEF OnFailure, kept
  <2>2. CASE ~(Len(kept) >= FailThreshold)
    <3>1. OnFailure(s) = [s EXCEPT !.fails = kept]
      BY <1>6, <2>2 DEF OnFailure, kept
    <3>2. Len(kept) \in Nat
      BY <1>3, LenProperties
    <3>3. [s EXCEPT !.fails = kept] \in Channel
      BY <1>3 DEF Channel, Ages
    <3>4. WellShaped([s EXCEPT !.fails = kept])
      BY <1>6, <2>2, <3>2, BreakerAssumption DEF WellShaped, Channel
    <3> QED BY <1>6, <3>1, <3>3, <3>4 DEF Channel
  <2> QED BY <2>1, <2>2
<1> QED BY <1>4, <1>5, <1>6 DEF Channel, BreakerStates

\* Returning a token keeps a breaker well formed.
LEMMA ReleaseShape ==
  ASSUME NEW s \in Channel, WellShaped(s), NEW h \in Holders
  PROVE  /\ ReleaseOne(s, h) \in Channel /\ WellShaped(ReleaseOne(s, h))
         /\ ReleaseOne(s, h).state = s.state /\ ReleaseOne(s, h).fails = s.fails
         /\ s.probe = h => ReleaseOne(s, h).probe = NoProbe
         /\ s.probe # h => ReleaseOne(s, h) = s
<1> DEFINE t == [s EXCEPT !.probe = NoProbe, !.probeAge = 0]
<1>1. t \in Channel
  BY Ranges DEF Channel
<1>2. WellShaped(t) /\ t.probe = NoProbe /\ t.state = s.state /\ t.fails = s.fails
  BY DEF WellShaped, Channel
<1>3. ReleaseOne(s, h) = IF s.probe = h THEN t ELSE s
  BY DEF ReleaseOne, ClearProbe
<1> QED BY <1>1, <1>2, <1>3

\* A tick keeps a breaker well formed.
LEMMA AgedShape ==
  ASSUME NEW s \in Channel, WellShaped(s)
  PROVE  /\ Aged(s) \in Channel /\ WellShaped(Aged(s))
         /\ Aged(s).probe = s.probe /\ Aged(s).state = s.state
         /\ s.fails = <<>> => Aged(s).fails = <<>>
         /\ s.probe # NoProbe => Aged(s).probeAge = Older(s.probeAge, ProbeTimeout)
<1> DEFINE g == [i \in DOMAIN s.fails |-> Older(s.fails[i], FailWindow + 1)]
<1>1. s.fails \in Seq(Ages)
  BY DEF Channel, Ages
<1>2. g \in Seq(Ages) /\ Len(g) = Len(s.fails) /\ (s.fails = <<>> => g = <<>>)
  BY <1>1, AgedFails
<1> DEFINE o == Older(s.openAge, OpenDuration)
           p == IF s.probe = NoProbe THEN 0 ELSE Older(s.probeAge, ProbeTimeout)
<1>3. o \in 0..OpenDuration /\ p \in 0..ProbeTimeout
  BY BreakerAssumption DEF Channel, Older
<1>4. Aged(s) = [s EXCEPT !.fails = g, !.openAge = o, !.probeAge = p]
  BY DEF Aged
<1>5. s.probe # NoProbe => p = Older(s.probeAge, ProbeTimeout)
  OBVIOUS
<1> HIDE DEF g, o, p
<1> QED BY <1>2, <1>3, <1>4, <1>5 DEF Channel, WellShaped, Ages

------------------------------------------------------------------------------
(* The window: what trimming and ageing make of the failures counted by age *)

\* The failures that are at most k ticks old.
Young(f, k) == {i \in DOMAIN f : f[i] <= k}

\* The list the methods keep: ages in range, oldest first.
Timeline(f) == f \in Seq(Ages) /\ \A i, j \in DOMAIN f : i <= j => f[j] <= f[i]

LEMMA TimelineIs ==
  ASSUME NEW f, Timeline(f)
  PROVE  /\ Len(f) \in Nat /\ DOMAIN f = 1..Len(f)
         /\ \A i \in 1..Len(f) : f[i] \in Ages /\ f[i] \in Int
         /\ \A i, j \in 1..Len(f) : i <= j => f[j] <= f[i]
         /\ FailWindow \in Nat /\ FailWindow > 0
<1>1. f \in Seq(Ages) /\ \A i, j \in DOMAIN f : i <= j => f[j] <= f[i]
  BY DEF Timeline
<1>2. Len(f) \in Nat /\ DOMAIN f = 1..Len(f) /\ \A i \in 1..Len(f) : f[i] \in Ages
  BY <1>1, LenProperties, ElementOfSeq
<1>3. FailWindow \in Nat /\ FailWindow > 0
  BY BreakerAssumption
<1>4. \A i \in 1..Len(f) : f[i] \in Int
  BY <1>2 DEF Ages
<1>5. \A i, j \in 1..Len(f) : i <= j => f[j] <= f[i]
  BY <1>1, <1>2
<1> QED BY <1>2, <1>3, <1>4, <1>5

\* Counting is always possible.
LEMMA YoungFinite ==
  ASSUME NEW f, Timeline(f), NEW k
  PROVE  IsFiniteSet(Young(f, k)) /\ Cardinality(Young(f, k)) \in Nat
<1>1. Len(f) \in Nat /\ DOMAIN f = 1..Len(f)
  BY TimelineIs
<1>2. IsFiniteSet(1..Len(f))
  BY <1>1, 1 \in Int, Len(f) \in Int, FS_Interval
<1>3. Young(f, k) \in SUBSET (1..Len(f))
  BY <1>1 DEF Young
<1> QED BY <1>2, <1>3, FS_Subset, FS_CardinalityType

\* The expired failures of a timeline are a prefix: dropping as many from the front
\* drops exactly these.
LEMMA ExpiredPrefix ==
  ASSUME NEW f, Timeline(f), Len(f) > 0, f[Len(f)] = 0
  PROVE  /\ Cardinality(Expired(f)) \in 0..(Len(f) - 1)
         /\ Expired(f) = 1..Cardinality(Expired(f))
<1> DEFINE n == Len(f)
           E == Expired(f)
           m == Cardinality(E)
<1>0. /\ n \in Nat /\ n > 0 /\ DOMAIN f = 1..n
      /\ \A i \in 1..n : f[i] \in Int
      /\ \A i, j \in 1..n : i <= j => f[j] <= f[i]
      /\ FailWindow \in Nat /\ f[n] = 0
  BY TimelineIs
<1>1. \A i : i \in E <=> i \in 1..n /\ f[i] > FailWindow
  BY <1>0 DEF Expired
<1> HIDE DEF E, n
<1>2. E \in SUBSET (1..(n - 1))
  BY <1>0, <1>1
<1>3. \A a \in Nat : IsFiniteSet(1..a) /\ Cardinality(1..a) = a
  <2>1. SUFFICES ASSUME NEW a \in Nat PROVE IsFiniteSet(1..a) /\ Cardinality(1..a) = a
    OBVIOUS
  <2>2. /\ IsFiniteSet(1..a)
        /\ Cardinality(1..a) = IF 1 > a THEN 0 ELSE a - 1 + 1
    BY 1 \in Int, a \in Int, FS_Interval, Zenon
  <2> QED BY <2>2
<1>4. IsFiniteSet(E) /\ m <= n - 1 /\ m \in Nat
  <2>1. n - 1 \in Nat
    BY <1>0
  <2>2. IsFiniteSet(E) /\ m <= Cardinality(1..(n - 1)) /\ m \in Nat
    BY <1>2, <1>3, <2>1, FS_Subset, FS_CardinalityType
  <2> QED BY <1>3, <2>1, <2>2
<1>5. E \in SUBSET (1..m)
  <2>1. SUFFICES ASSUME NEW i \in E PROVE i \in 1..m
    OBVIOUS
  <2>2. i \in 1..(n - 1) /\ i \in Nat /\ i >= 1
    BY <1>2
  <2>3. 1..i \in SUBSET E
    BY <1>0, <1>1, <2>2
  <2>4. Cardinality(1..i) <= m
    BY <1>4, <2>3, FS_Subset
  <2> QED BY <1>3, <1>4, <2>2, <2>4
<1>6. E = 1..m
  BY <1>3, <1>4, <1>5, FS_Subset
<1> QED BY <1>0, <1>4, <1>6 DEF E, n

\* Sets of positions that differ by a shift have as many elements.
LEMMA Shifted ==
  ASSUME NEW S \in SUBSET Nat, NEW T \in SUBSET Nat, NEW m \in Nat, IsFiniteSet(S),
         \A i \in S : i + m \in T,
         \A j \in T : j - m \in S
  PROVE  Cardinality(T) = Cardinality(S)
<1> DEFINE b == [i \in S |-> i + m]
<1>1. b \in [S -> T]
  OBVIOUS
<1>2. \A i, j \in S : b[i] = b[j] => i = j
  OBVIOUS
<1>3. \A j \in T : \E i \in S : b[i] = j
  <2>1. SUFFICES ASSUME NEW j \in T PROVE \E i \in S : b[i] = j
    OBVIOUS
  <2>2. j - m \in S /\ b[j - m] = j
    OBVIOUS
  <2> QED BY <2>2
<1>4. b \in Bijection(S, T)
  BY <1>1, <1>2, <1>3 DEF Bijection, Injection, Surjection, IsInjective
<1> QED BY <1>4, FS_Bijection DEF ExistsBijection

\* A failure that is reported: after trimming, the window holds one failure more of
\* every age, and nothing but the window is left.
LEMMA ReportedFailure ==
  ASSUME NEW f, Timeline(f)
  PROVE  LET kept == Trim(Append(f, 0)) IN
         /\ Timeline(kept)
         /\ Recent(kept) = [k \in 0..FailWindow |-> Recent(f)[k] + 1]
         /\ Len(kept) = Recent(f)[FailWindow] + 1
<1> DEFINE n == Len(f)
           g == Append(f, 0)
           m == Cardinality(Expired(g))
           kept == Trim(g)
<1>0. /\ n \in Nat /\ DOMAIN f = 1..n /\ f \in Seq(Ages)
      /\ \A i \in 1..n : f[i] \in Ages /\ f[i] \in Int
      /\ \A i, j \in 1..n : i <= j => f[j] <= f[i]
      /\ FailWindow \in Nat /\ FailWindow > 0 /\ 0 \in Ages
  BY TimelineIs, BreakerAssumption DEF Timeline, Ages
<1>1. /\ g \in Seq(Ages) /\ Len(g) = n + 1
      /\ \A i \in 1..n : g[i] = f[i]
      /\ g[n + 1] = 0
  BY <1>0, AppendProperties
<1>2. DOMAIN g = 1..(n + 1)
  BY <1>1, LenProperties
<1>m. m = Cardinality(Expired(g))
  OBVIOUS
<1>k. kept = SubSeq(g, m + 1, Len(g))
  BY DEF Trim
<1> HIDE DEF g, n, m, kept
<1>3. \A i, j \in DOMAIN g : i <= j => g[j] <= g[i]
  <2>1. \A i \in 1..(n + 1) : g[i] \in Ages
    BY <1>1, <1>0
  <2> QED BY <1>0, <1>1, <1>2, <2>1 DEF Ages
<1>4. Timeline(g)
  BY <1>1, <1>3 DEF Timeline
<1>5. /\ m \in 0..n
      /\ Expired(g) = 1..m
  BY <1>0, <1>1, <1>4, <1>m, ExpiredPrefix
<1>6. /\ kept \in Seq(Ages) /\ Len(kept) = n + 1 - m
      /\ \A i \in 1..(n + 1 - m) : kept[i] = g[i + m]
  <2>1. m + 1 \in Int /\ n + 1 \in Int /\ m + 1 <= n + 1
    BY <1>0, <1>5
  <2>2. \A i \in (m + 1)..(n + 1) : g[i] \in Ages
    BY <1>0, <1>1, <1>5
  <2>3. /\ SubSeq(g, m + 1, n + 1) \in Seq(Ages)
        /\ Len(SubSeq(g, m + 1, n + 1)) = (n + 1) - (m + 1) + 1
        /\ \A i \in 1..((n + 1) - (m + 1) + 1) :
             SubSeq(g, m + 1, n + 1)[i] = g[(m + 1) + i - 1]
    BY <2>1, <2>2, SubSeqProperties
  <2>4. kept = SubSeq(g, m + 1, n + 1)
    BY <1>1, <1>k
  <2>5. (n + 1) - (m + 1) + 1 = n + 1 - m
    BY <1>0, <1>5
  <2>6. kept \in Seq(Ages) /\ Len(kept) = n + 1 - m
    BY <2>3, <2>4, <2>5
  <2>7. ASSUME NEW i \in 1..(n + 1 - m) PROVE kept[i] = g[i + m]
    <3>1. kept[i] = g[(m + 1) + i - 1]
      BY <2>3, <2>4, <2>5
    <3>2. (m + 1) + i - 1 = i + m
      BY <1>5
    <3> QED BY <3>1, <3>2
  <2> QED BY <2>6, <2>7
<1>7. DOMAIN kept = 1..(n + 1 - m)
  BY <1>6, LenProperties
<1>8. Timeline(kept)
  <2>1. \A i, j \in DOMAIN kept : i <= j => kept[j] <= kept[i]
    <3>1. SUFFICES ASSUME NEW i \in 1..(n + 1 - m), NEW j \in 1..(n + 1 - m), i <= j
                   PROVE  kept[j] <= kept[i]
      BY <1>7
    <3>2. i + m \in 1..(n + 1) /\ j + m \in 1..(n + 1) /\ i + m <= j + m
      BY <1>0, <1>5, <3>1
    <3>3. g[j + m] <= g[i + m]
      BY <1>2, <1>3, <3>2
    <3> QED BY <1>6, <3>3
  <2> QED BY <1>6, <2>1 DEF Timeline
<1>9. \A i \in 1..(n + 1) : i > m <=> g[i] <= FailWindow
  <2>1. \A i \in 1..(n + 1) : i \in Expired(g) <=> g[i] > FailWindow
    BY <1>2 DEF Expired
  <2>2. \A i \in 1..(n + 1) : g[i] \in Int
    BY <1>1, <1>0
  <2> QED BY <1>0, <1>5, <2>1, <2>2
<1>10. ASSUME NEW k \in 0..FailWindow
       PROVE  Cardinality(Young(kept, k)) = Cardinality(Young(f, k)) + 1
  <2>1. Young(g, k) = Young(f, k) \cup {n + 1}
    BY <1>0, <1>1, <1>2 DEF Young
  <2>2. n + 1 \notin Young(f, k)
    BY <1>0 DEF Young
  <2>3. Cardinality(Young(g, k)) = Cardinality(Young(f, k)) + 1
    BY <2>1, <2>2, YoungFinite, FS_AddElement
  <2>4. \A i \in Young(kept, k) : i + m \in Young(g, k)
    BY <1>0, <1>2, <1>5, <1>6, <1>7 DEF Young
  <2>5. \A j \in Young(g, k) : j - m \in Young(kept, k)
    <3>1. SUFFICES ASSUME NEW j \in Young(g, k) PROVE j - m \in Young(kept, k)
      OBVIOUS
    <3>2. j \in 1..(n + 1) /\ g[j] <= k /\ g[j] \in Int
      BY <1>0, <1>1, <1>2 DEF Young
    <3>3. j > m
      BY <1>0, <1>9, <3>2
    <3>4. j - m \in 1..(n + 1 - m) /\ (j - m) + m = j
      BY <1>0, <1>5, <3>2, <3>3
    <3> QED BY <1>6, <1>7, <3>2, <3>4 DEF Young
  <2>6. Young(kept, k) \in SUBSET Nat /\ Young(g, k) \in SUBSET Nat
    BY <1>0, <1>2, <1>5, <1>7 DEF Young
  <2>7. IsFiniteSet(Young(kept, k)) /\ m \in Nat
    BY <1>5, <1>8, YoungFinite
  <2>8. Cardinality(Young(g, k)) = Cardinality(Young(kept, k))
    BY <2>4, <2>5, <2>6, <2>7, Shifted
  <2> QED BY <2>3, <2>8
<1>11. Len(kept) = Cardinality(Young(kept, FailWindow))
  <2>1. Young(kept, FailWindow) = 1..(n + 1 - m)
    <3>1. \A i \in 1..(n + 1 - m) : i + m \in 1..(n + 1) /\ i + m > m
      BY <1>0, <1>5
    <3> QED BY <1>6, <1>7, <1>9, <3>1 DEF Young
  <2>2. Cardinality(1..(n + 1 - m)) = IF 1 > n + 1 - m THEN 0 ELSE (n + 1 - m) - 1 + 1
    BY <1>0, <1>5, 1 \in Int, n + 1 - m \in Int, FS_Interval
  <2> QED BY <1>0, <1>5, <1>6, <2>1, <2>2
<1>12. FailWindow \in 0..FailWindow
  BY <1>0
<1>13. Recent(kept) = [k \in 0..FailWindow |-> Recent(f)[k] + 1]
  BY <1>10 DEF Recent, Young
<1>14. Len(kept) = Recent(f)[FailWindow] + 1
  BY <1>10, <1>11, <1>12 DEF Recent, Young
<1> QED BY <1>8, <1>13, <1>14 DEF kept, g

\* A tick makes every failure one tick older.
LEMMA AgedWindow ==
  ASSUME NEW f, Timeline(f)
  PROVE  LET g == [i \in DOMAIN f |-> Older(f[i], FailWindow + 1)] IN
         /\ Timeline(g)
         /\ Recent(g) = [k \in 0..FailWindow |-> IF k = 0 THEN 0 ELSE Recent(f)[k - 1]]
<1> DEFINE g == [i \in DOMAIN f |-> Older(f[i], FailWindow + 1)]
<1>0. /\ Len(f) \in Nat /\ DOMAIN f = 1..Len(f) /\ FailWindow \in Nat
      /\ \A i \in 1..Len(f) : f[i] \in Ages /\ f[i] \in Int
      /\ \A i, j \in 1..Len(f) : i <= j => f[j] <= f[i]
  BY TimelineIs
<1>1. g \in [1..Len(f) -> Ages]
  BY <1>0 DEF Older, Ages
<1>2. \A i, j \in DOMAIN g : i <= j => g[j] <= g[i]
  BY <1>0 DEF Older, Ages
<1>3. Timeline(g)
  BY <1>0, <1>1, <1>2, SeqDef DEF Timeline
<1>4. ASSUME NEW k \in 0..FailWindow
      PROVE  Young(g, k) = IF k = 0 THEN {} ELSE Young(f, k - 1)
  BY <1>0 DEF Young, Older, Ages
<1>5. Cardinality({}) = 0
  BY FS_EmptySet
<1> HIDE DEF g
<1>6. \A k \in 0..FailWindow : k # 0 => k - 1 \in 0..FailWindow
  BY <1>0
<1>7. ASSUME NEW k \in 0..FailWindow
      PROVE  Recent(g)[k] = IF k = 0 THEN 0 ELSE Recent(f)[k - 1]
  BY <1>4, <1>5, <1>6 DEF Recent, Young
<1>8. Recent(g) = [k \in 0..FailWindow |-> IF k = 0 THEN 0 ELSE Recent(f)[k - 1]]
  BY <1>7 DEF Recent
<1> QED BY <1>3, <1>8 DEF g

\* An empty window.
LEMMA NoFailures ==
  /\ Timeline(<<>>)
  /\ Recent(<<>>) = [k \in 0..FailWindow |-> 0]
<1>1. <<>> \in Seq(Ages) /\ Len(<<>>) = 0
  BY EmptySeq
<1>2. \A k : {i \in DOMAIN <<>> : <<>>[i] <= k} = {}
  BY <1>1
<1> QED BY <1>1, <1>2, FS_EmptySet DEF Timeline, Recent

------------------------------------------------------------------------------
(* What the methods do to what CircuitSpec reads off the record *)

\* Failures are kept oldest first, a half-open breaker has cooled, and the age of a
\* probe is that of an outstanding one: what the promise needs of a record.
Settled(s) ==
  /\ Timeline(s.fails)
  /\ s.state = "half-open" => s.openAge = OpenDuration
  /\ s.probe = NoProbe => s.probeAge = 0

Quiet == [k \in 0..FailWindow |-> 0]

LEMMA NewStateSettled ==
  Settled(NewState) /\ Recent(NewState.fails) = Quiet /\ CutAge(NewState) = 0
  BY NoFailures DEF NewState, Settled, Quiet, CutAge

\* A look at the breaker is not seen.
LEMMA TransitionUnseen ==
  ASSUME NEW s, Sound(s), Settled(s)
  PROVE  /\ Settled(Transition(s))
         /\ Transition(s).state = "closed" <=> s.state = "closed"
         /\ Transition(s).state = "half-open" => CutAge(s) = OpenDuration
         /\ Transition(s).fails = s.fails
         /\ CutAge(Transition(s)) = CutAge(s)
         /\ Transition(s).probe = s.probe
         /\ Transition(s).probeAge = s.probeAge
<1>0. s \in Channel /\ WellShaped(s) /\ Settled(s) /\ OpenDuration \in Nat
  BY BreakerAssumption DEF Sound
<1>1. CASE s.state = "open" /\ s.openAge >= OpenDuration
  <2> DEFINE t == [s EXCEPT !.state = "half-open", !.probe = NoProbe, !.probeAge = 0]
  <2>1. Transition(s) = t
    BY <1>0, <1>1 DEF Transition, ClearProbe, Channel
  <2>2. s.probe = NoProbe /\ s.probeAge = 0 /\ s.openAge = OpenDuration
    BY <1>0, <1>1 DEF WellShaped, Settled, Channel
  <2>3. /\ t.state = "half-open" /\ t.fails = s.fails /\ t.openAge = s.openAge
        /\ t.probe = NoProbe /\ t.probeAge = 0
    BY <1>0 DEF Channel
  <2> QED BY <1>0, <1>1, <2>1, <2>2, <2>3 DEF Settled, CutAge
<1>2. CASE ~(s.state = "open" /\ s.openAge >= OpenDuration)
  <2>1. Transition(s) = s
    BY <1>2 DEF Transition
  <2> QED BY <1>0, <2>1 DEF Settled, CutAge
<1> QED BY <1>1, <1>2

\* Admission is seen only when it lends the probe, and then it may.
LEMMA AllowSeen ==
  ASSUME NEW s, Sound(s), Settled(s), NEW h \in Holders
  PROVE  /\ Settled(Allow(s, h))
         /\ Allow(s, h).state = "closed" <=> s.state = "closed"
         /\ Allow(s, h).fails = s.fails
         /\ CutAge(Allow(s, h)) = CutAge(s)
         /\ ~IssuesProbe(s) =>
              Allow(s, h).probe = s.probe /\ Allow(s, h).probeAge = s.probeAge
         /\ IssuesProbe(s) =>
              /\ s.state # "closed" /\ CutAge(s) >= OpenDuration
              /\ s.probe = NoProbe \/ s.probeAge >= ProbeTimeout
              /\ Allow(s, h).probe = h /\ Allow(s, h).probeAge = 0
<1> DEFINE t == Transition(s)
<1>0. s \in Channel /\ WellShaped(s) /\ t \in Channel /\ h # NoProbe
  BY TransitionShape, BreakerAssumption DEF Sound
<1>1. /\ Settled(t) /\ t.fails = s.fails /\ CutAge(t) = CutAge(s)
      /\ t.state = "closed" <=> s.state = "closed"
      /\ t.state = "half-open" => CutAge(s) = OpenDuration
      /\ t.probe = s.probe /\ t.probeAge = s.probeAge
  BY TransitionUnseen
<1>2. IssuesProbe(s) <=> t.state = "half-open" /\ ~LeaseLive(t)
  BY DEF IssuesProbe
<1>3. Allow(s, h) = IF IssuesProbe(s) THEN [t EXCEPT !.probe = h, !.probeAge = 0] ELSE t
  BY DEF Allow
<1> HIDE DEF t
<1>4. CASE ~IssuesProbe(s)
  BY <1>1, <1>3, <1>4
<1>5. CASE IssuesProbe(s)
  <2>1. /\ Allow(s, h).state = t.state /\ Allow(s, h).fails = t.fails
        /\ Allow(s, h).openAge = t.openAge
        /\ Allow(s, h).probe = h /\ Allow(s, h).probeAge = 0
    BY <1>0, <1>3, <1>5 DEF Channel
  <2>2. Settled(Allow(s, h)) /\ CutAge(Allow(s, h)) = CutAge(t)
    BY <1>0, <1>1, <2>1 DEF Settled, CutAge
  <2>3. t.state = "half-open" /\ ~LeaseLive(t)
    BY <1>2, <1>5
  <2>4. s.state # "closed" /\ CutAge(s) >= OpenDuration
    BY <1>1, <2>3, BreakerAssumption
  <2>5. s.probe = NoProbe \/ s.probeAge >= ProbeTimeout
    BY <1>0, <1>1, <2>3, BreakerAssumption DEF LeaseLive, Channel
  <2> QED BY <1>1, <1>5, <2>1, <2>2, <2>4, <2>5
<1> QED BY <1>4, <1>5

\* What a success or a reset leaves: a channel that serves and remembers nothing.
LEMMA ConvergeSeen ==
  ASSUME NEW s \in Channel
  PROVE  /\ Settled(Converge(s)) /\ Converge(s).state = "closed"
         /\ Recent(Converge(s).fails) = Quiet /\ CutAge(Converge(s)) = 0
         /\ Converge(s).probe = NoProbe /\ Converge(s).probeAge = 0
<1>1. /\ Converge(s).state = "closed" /\ Converge(s).fails = <<>>
      /\ Converge(s).probe = NoProbe /\ Converge(s).probeAge = 0
  BY DEF Converge, ClearProbe, Channel
<1> QED BY <1>1, NoFailures DEF Settled, Quiet, CutAge

\* What a trip leaves: a channel cut just now.
LEMMA TripSeen ==
  ASSUME NEW s \in Channel
  PROVE  /\ Settled(Trip(s)) /\ Trip(s).state = "open"
         /\ Recent(Trip(s).fails) = Quiet /\ CutAge(Trip(s)) = 0
         /\ Trip(s).probe = NoProbe /\ Trip(s).probeAge = 0
<1>1. /\ Trip(s).state = "open" /\ Trip(s).fails = <<>> /\ Trip(s).openAge = 0
      /\ Trip(s).probe = NoProbe /\ Trip(s).probeAge = 0
  BY DEF Trip, ClearProbe, Channel
<1> QED BY <1>1, NoFailures DEF Settled, Quiet, CutAge

\* A failure cuts the channel when it fills the window or when the channel has
\* cooled, is counted when it does neither, and is not seen by an open breaker.
LEMMA FailureSeen ==
  ASSUME NEW s, Sound(s), Settled(s)
  PROVE  \/ OnFailure(s) = s
         \/ /\ OnFailure(s) = Trip(s)
            /\ IF s.state = "closed" THEN Recent(s.fails)[FailWindow] + 1 >= FailThreshold
                                     ELSE CutAge(s) >= OpenDuration
         \/ /\ Settled(OnFailure(s))
            /\ s.state = "closed" /\ OnFailure(s).state = "closed"
            /\ Recent(s.fails)[FailWindow] + 1 < FailThreshold
            /\ Recent(OnFailure(s).fails)
                 = [k \in 0..FailWindow |-> Recent(s.fails)[k] + 1]
            /\ CutAge(OnFailure(s)) = CutAge(s)
            /\ OnFailure(s).probe = s.probe /\ OnFailure(s).probeAge = s.probeAge
<1> DEFINE kept == Trim(Append(s.fails, 0))
<1>0. s \in Channel /\ WellShaped(s) /\ Settled(s)
  BY DEF Sound
<1>1. /\ Timeline(kept)
      /\ Recent(kept) = [k \in 0..FailWindow |-> Recent(s.fails)[k] + 1]
      /\ Len(kept) = Recent(s.fails)[FailWindow] + 1
  BY <1>0, ReportedFailure DEF Settled
<1>2. /\ s.state = "half-open" => OnFailure(s) = Trip(s)
      /\ s.state = "open" => OnFailure(s) = s
      /\ s.state = "closed" =>
           OnFailure(s) = IF Len(kept) >= FailThreshold THEN Trip(s)
                          ELSE [s EXCEPT !.fails = kept]
  BY DEF OnFailure
<1> HIDE DEF kept
<1>3. CASE s.state = "half-open"
  BY <1>0, <1>2, <1>3, BreakerAssumption DEF Settled, CutAge
<1>4. CASE s.state = "open"
  BY <1>2, <1>4
<1>5. CASE s.state = "closed"
  <2>1. CASE Len(kept) >= FailThreshold
    BY <1>1, <1>2, <1>5, <2>1
  <2>2. CASE ~(Len(kept) >= FailThreshold)
    <3>1. /\ OnFailure(s).fails = kept /\ OnFailure(s).state = s.state
          /\ OnFailure(s).openAge = s.openAge
          /\ OnFailure(s).probe = s.probe /\ OnFailure(s).probeAge = s.probeAge
      BY <1>0, <1>2, <1>5, <2>2 DEF Channel
    <3>2. Settled(OnFailure(s)) /\ CutAge(OnFailure(s)) = CutAge(s)
      BY <1>0, <1>1, <1>5, <3>1 DEF Settled, CutAge
    <3>3. Len(kept) \in Nat /\ FailThreshold \in Nat
      BY <1>1, TimelineIs, BreakerAssumption
    <3>4. Recent(s.fails)[FailWindow] + 1 < FailThreshold
      BY <1>1, <2>2, <3>3
    <3> QED BY <1>1, <1>5, <3>1, <3>2, <3>4
  <2> QED BY <2>1, <2>2
<1> QED BY <1>0, <1>3, <1>4, <1>5 DEF Channel, BreakerStates

\* A token that comes back frees the probe it is, or is not seen.
LEMMA ReleaseSeen ==
  ASSUME NEW s, Sound(s), Settled(s), NEW h \in Holders
  PROVE  \/ ReleaseOne(s, h) = s
         \/ /\ Settled(ReleaseOne(s, h)) /\ s.probe # NoProbe
            /\ ReleaseOne(s, h).state = s.state /\ ReleaseOne(s, h).fails = s.fails
            /\ CutAge(ReleaseOne(s, h)) = CutAge(s)
            /\ ReleaseOne(s, h).probe = NoProbe /\ ReleaseOne(s, h).probeAge = 0
<1>0. s \in Channel /\ Settled(s) /\ h # NoProbe
  BY BreakerAssumption DEF Sound
<1>1. CASE s.probe # h
  BY <1>1 DEF ReleaseOne
<1>2. CASE s.probe = h
  <2>1. /\ ReleaseOne(s, h).state = s.state /\ ReleaseOne(s, h).fails = s.fails
        /\ ReleaseOne(s, h).openAge = s.openAge
        /\ ReleaseOne(s, h).probe = NoProbe /\ ReleaseOne(s, h).probeAge = 0
    BY <1>0, <1>2 DEF ReleaseOne, ClearProbe, Channel
  <2> QED BY <1>0, <1>2, <2>1 DEF Settled, CutAge
<1> QED BY <1>1, <1>2

\* A tick of the clock is a tick of the promise.
LEMMA AgedSeen ==
  ASSUME NEW s, Sound(s), Settled(s)
  PROVE  /\ Settled(Aged(s))
         /\ Aged(s).state = s.state /\ Aged(s).probe = s.probe
         /\ Recent(Aged(s).fails)
              = [k \in 0..FailWindow |-> IF k = 0 THEN 0 ELSE Recent(s.fails)[k - 1]]
         /\ CutAge(Aged(s)) = IF s.state = "closed" THEN 0 ELSE Older(CutAge(s), OpenDuration)
         /\ Aged(s).probeAge = IF s.probe = NoProbe THEN 0
                               ELSE Older(s.probeAge, ProbeTimeout)
<1> DEFINE g == [i \in DOMAIN s.fails |-> Older(s.fails[i], FailWindow + 1)]
<1>0. s \in Channel /\ Settled(s) /\ OpenDuration \in Nat
  BY BreakerAssumption DEF Sound
<1>1. /\ Timeline(g)
      /\ Recent(g) = [k \in 0..FailWindow |-> IF k = 0 THEN 0 ELSE Recent(s.fails)[k - 1]]
  BY <1>0, AgedWindow DEF Settled
<1>2. Aged(s) = [s EXCEPT !.fails = g,
                          !.openAge = Older(s.openAge, OpenDuration),
                          !.probeAge = IF s.probe = NoProbe THEN 0
                                       ELSE Older(s.probeAge, ProbeTimeout)]
  BY DEF Aged
<1> HIDE DEF g
<1>3. /\ Aged(s).state = s.state /\ Aged(s).probe = s.probe /\ Aged(s).fails = g
      /\ Aged(s).openAge = Older(s.openAge, OpenDuration)
      /\ Aged(s).probeAge = IF s.probe = NoProbe THEN 0 ELSE Older(s.probeAge, ProbeTimeout)
  BY <1>0, <1>2 DEF Channel
<1>4. Older(OpenDuration, OpenDuration) = OpenDuration
  BY <1>0 DEF Older
<1> QED BY <1>0, <1>1, <1>3, <1>4 DEF Settled, CutAge

------------------------------------------------------------------------------
(* The specification *)

\* What is inductive: types, the shape of the record and the lease bookkeeping.
IndInv == TypeOK /\ BreakerInv

LEMMA InitIndInv == ChInit => IndInv
  BY NewStateShape, Ranges
     DEF ChInit, IndInv, TypeOK, BreakerInv, LeaseInv, Away, Attempt, NewState

\* The breaker record stays typed and well formed, whoever moves.
LEMMA RecordStep ==
  ASSUME TypeOK, WellShaped(ch), [ChNext]_chVars
  PROVE  ch' \in Channel /\ WellShaped(ch')
<1> USE DEF TypeOK
<1>1. ASSUME NEW h \in Holders, Admit(h) \/ Deny(h) PROVE ch' \in Channel /\ WellShaped(ch')
  BY <1>1, AllowShape DEF Admit, Deny
<1>2. ASSUME NEW h \in Holders, Succeed(h) PROVE ch' \in Channel /\ WellShaped(ch')
  BY <1>2, ConvergeShape DEF Succeed, OnSuccess
<1>3. ASSUME NEW h \in Holders, Fail(h) PROVE ch' \in Channel /\ WellShaped(ch')
  BY <1>3, OnFailureShape DEF Fail
<1>4. ASSUME NEW h \in Holders, Abstain(h) PROVE ch' \in Channel /\ WellShaped(ch')
  BY <1>4 DEF Abstain
<1>5. ASSUME NEW h \in Holders, Leave(h) PROVE ch' \in Channel /\ WellShaped(ch')
  BY <1>5, ReleaseShape DEF Leave
<1>6. ASSUME ResetByAdmin PROVE ch' \in Channel /\ WellShaped(ch')
  BY <1>6, ConvergeShape DEF ResetByAdmin, Reset
<1>7. ASSUME Inspect PROVE ch' \in Channel /\ WellShaped(ch')
  BY <1>7, TransitionShape DEF Inspect
<1>8. ASSUME ChTick PROVE ch' \in Channel /\ WellShaped(ch')
  BY <1>8, AgedShape DEF ChTick
<1>9. CASE UNCHANGED chVars
  BY <1>9 DEF chVars
<1> QED BY <1>1, <1>2, <1>3, <1>4, <1>5, <1>6, <1>7, <1>8, <1>9 DEF ChNext, Use

\* The requests' records stay typed.
LEMMA AttemptStep ==
  ASSUME TypeOK, [ChNext]_chVars
  PROVE  at' \in [Holders -> Attempt]
<1> USE DEF TypeOK, Attempt
<1>0. \A h \in Holders : at[h] \in Attempt
  OBVIOUS
<1>1. \A h \in Holders : Reported(h) \in [Holders -> Attempt]
  BY <1>0 DEF Reported
<1>2. ASSUME NEW a \in [Holders -> Attempt] PROVE Forget(a) \in [Holders -> Attempt]
  BY DEF Forget
<1>3. ASSUME NEW h \in Holders, Admit(h) PROVE at' \in [Holders -> Attempt]
  BY <1>3, Ranges DEF Admit, IssuesProbe
<1>4. ASSUME NEW h \in Holders, Succeed(h) \/ Fail(h) \/ Abstain(h)
      PROVE  at' \in [Holders -> Attempt]
  BY <1>1, <1>2, <1>4 DEF Succeed, Fail, Abstain
<1>5. ASSUME NEW h \in Holders, Leave(h) PROVE at' \in [Holders -> Attempt]
  BY <1>5, Ranges DEF Leave, Away
<1>6. ASSUME ResetByAdmin PROVE at' \in [Holders -> Attempt]
  BY <1>2, <1>6 DEF ResetByAdmin
<1>7. ASSUME ChTick PROVE at' \in [Holders -> Attempt]
  <2>1. \A h \in Holders : Older(at[h].since, ProbeTimeout) \in 0..ProbeTimeout
    BY <1>0, BreakerAssumption DEF Older
  <2> QED BY <1>0, <1>7, <2>1 DEF ChTick
<1>8. CASE UNCHANGED at
  BY <1>8
<1> QED BY <1>3, <1>4, <1>5, <1>6, <1>7, <1>8 DEF ChNext, Use, Deny, Inspect, chVars

\* Types hold in every reachable state.
THEOREM BreakerTyped == ChSpec => []TypeOK
<1>1. ChInit => TypeOK /\ WellShaped(ch)
  BY InitIndInv DEF IndInv, BreakerInv
<1>2. (TypeOK /\ WellShaped(ch)) /\ [ChNext]_chVars => (TypeOK /\ WellShaped(ch))'
  BY RecordStep, AttemptStep DEF TypeOK
<1> QED BY <1>1, <1>2, PTL DEF ChSpec

\* The lease bookkeeping survives every step.
LEMMA LeaseStep ==
  ASSUME IndInv, [ChNext]_chVars
  PROVE  LeaseInv'
<1> USE DEF IndInv, BreakerInv, LeaseInv, TypeOK
<1>0. /\ \A h \in Holders : at[h] \in Attempt
      /\ ch \in Channel /\ WellShaped(ch)
      /\ ch.probe \in Holders \cup {NoProbe}
      /\ ProbeTimeout \in Nat /\ NoProbe \notin Holders
  BY BreakerAssumption DEF Channel
<1>1. ASSUME NEW h \in Holders, Admit(h) PROVE LeaseInv'
  <2>1. /\ at[h].pc = "idle"
        /\ ch' = Allow(ch, h)
        /\ at' = [at EXCEPT ![h] = [pc |-> "working", token |-> IssuesProbe(ch),
                                   since |-> 0, same |-> TRUE]]
    BY <1>1 DEF Admit
  <2>2. \A g \in Holders \ {h} : at'[g] = at[g]
    BY <2>1
  <2>3. /\ at'[h].pc = "working" /\ at'[h].since = 0 /\ at'[h].same
        /\ at'[h].token <=> IssuesProbe(ch)
    BY <2>1
  <2>4. ch.probe # h
    BY <1>0, <2>1
  <2>5. CASE IssuesProbe(ch)
    BY <1>0, <2>1, <2>2, <2>3, <2>5, AllowProbe
  <2>6. CASE ~IssuesProbe(ch)
    BY <1>0, <2>1, <2>2, <2>3, <2>4, <2>6, AllowProbe
  <2> QED BY <2>5, <2>6
<1>2. ASSUME NEW h \in Holders, Deny(h) PROVE LeaseInv'
  <2>1. ~IssuesProbe(ch) /\ ch' = Allow(ch, h) /\ at' = at
    BY <1>2 DEF Deny, Allows
  <2> QED BY <1>0, <2>1, AllowProbe
<1>3. ASSUME \A g \in Holders : ~at'[g].same, ch'.probe = NoProbe
      PROVE  LeaseInv'
  BY <1>3
<1>a. \A a \in [Holders -> Attempt] : \A g \in Holders : ~Forget(a)[g].same
  BY DEF Forget, Attempt
<1>b. \A h \in Holders : Reported(h) \in [Holders -> Attempt]
  BY <1>0 DEF Reported, Attempt
<1>4. ASSUME NEW h \in Holders, at[h].pc = "working", at' = Reported(h),
             ch'.probe = ch.probe, ch'.probeAge = ch.probeAge
      PROVE  LeaseInv'
  <2>1. \A g \in Holders : /\ at'[g].pc # "idle" <=> at[g].pc # "idle"
                           /\ at'[g].token = at[g].token
                           /\ at'[g].same = at[g].same
                           /\ at'[g].since = at[g].since
    BY <1>0, <1>4 DEF Reported, Attempt
  <2> QED BY <1>0, <1>4, <2>1
<1>5. ASSUME NEW h \in Holders, Succeed(h) PROVE LeaseInv'
  <2>1. at' = Forget(Reported(h)) /\ ch' = Converge(ch)
    BY <1>5 DEF Succeed, OnSuccess
  <2> QED BY <1>0, <1>3, <1>a, <1>b, <2>1, ConvergeShape
<1>6. ASSUME NEW h \in Holders, Fail(h) PROVE LeaseInv'
  <2>1. at[h].pc = "working" /\ ch' = OnFailure(ch)
    BY <1>6 DEF Fail
  <2>2. CASE OnFailure(ch).state # ch.state \/ ch.state = "half-open"
    <3>1. at' = Forget(Reported(h))
      BY <1>6, <2>2 DEF Fail
    <3>2. OnFailure(ch).probe = NoProbe
      BY <1>0, <2>2, OnFailureShape, TripShape DEF OnFailure, WellShaped, Channel, BreakerStates
    <3> QED BY <1>3, <1>a, <1>b, <2>1, <3>1, <3>2
  <2>3. CASE ~(OnFailure(ch).state # ch.state \/ ch.state = "half-open")
    <3>1. at' = Reported(h)
      BY <1>6, <2>3 DEF Fail
    <3>2. ch.probe = NoProbe
      BY <1>0, <2>3 DEF WellShaped
    <3>3. OnFailure(ch).probe = NoProbe
      BY <1>0, <3>2, OnFailureShape
    <3>4. \A g \in Holders : /\ at'[g].pc # "idle" <=> at[g].pc # "idle"
                             /\ at'[g].token = at[g].token
                             /\ at'[g].same = at[g].same
                             /\ at'[g].since = at[g].since
      BY <1>0, <2>1, <3>1 DEF Reported, Attempt
    <3> QED BY <1>0, <2>1, <3>2, <3>3, <3>4
  <2> QED BY <2>2, <2>3
<1>7. ASSUME NEW h \in Holders, Abstain(h) PROVE LeaseInv'
  BY <1>4, <1>7 DEF Abstain
<1>8. ASSUME NEW h \in Holders, Leave(h) PROVE LeaseInv'
  <2>1. /\ at'[h].pc = "idle"
        /\ \A g \in Holders \ {h} : at'[g] = at[g]
        /\ ch' = IF at[h].token THEN ReleaseOne(ch, h) ELSE ch
    BY <1>8 DEF Leave, Away
  <2>2. ch'.probe # h
    BY <1>0, <2>1, ReleaseShape
  <2>3. ch.probe # h => ch' = ch
    BY <1>0, <2>1, ReleaseShape
  <2>4. ch.probe = h => ch'.probe = NoProbe
    BY <1>0, <2>1, ReleaseShape
  <2> QED BY <1>0, <2>1, <2>2, <2>3, <2>4
<1>9. ASSUME ResetByAdmin PROVE LeaseInv'
  <2>1. at' = Forget(at) /\ ch' = Converge(ch)
    BY <1>9 DEF ResetByAdmin, Reset
  <2> QED BY <1>0, <1>3, <1>a, <2>1, ConvergeShape
<1>10. ASSUME Inspect PROVE LeaseInv'
  BY <1>0, <1>10, TransitionProbe DEF Inspect
<1>11. ASSUME ChTick PROVE LeaseInv'
  <2>1. /\ ch'.probe = ch.probe
        /\ ch.probe # NoProbe => ch'.probeAge = Older(ch.probeAge, ProbeTimeout)
    BY <1>0, <1>11, AgedShape DEF ChTick
  <2>2. \A g \in Holders :
          /\ at'[g].pc = at[g].pc /\ at'[g].token = at[g].token
          /\ at'[g].same = at[g].same
          /\ at[g].pc # "idle" => at'[g].since = Older(at[g].since, ProbeTimeout)
    BY <1>0, <1>11 DEF ChTick, Attempt
  <2>3. Older(ProbeTimeout, ProbeTimeout) = ProbeTimeout
    BY <1>0 DEF Older
  <2> QED BY <1>0, <2>1, <2>2, <2>3
<1>12. CASE UNCHANGED chVars
  BY <1>12 DEF chVars
<1> QED BY <1>1, <1>2, <1>5, <1>6, <1>7, <1>8, <1>9, <1>10, <1>11, <1>12
        DEF ChNext, Use

\* BreakerInv holds in every reachable state, whatever the parameters.
THEOREM BreakerSafe == ChSpec => []BreakerInv
<1>1. IndInv /\ [ChNext]_chVars => IndInv'
  BY RecordStep, AttemptStep, LeaseStep DEF IndInv, BreakerInv, TypeOK
<1>2. IndInv => BreakerInv
  BY DEF IndInv
<1> QED BY InitIndInv, <1>1, <1>2, PTL DEF ChSpec

\* No two requests probe a channel inside one lease: what the next step of an
\* inductive state may do.
LEMMA SpacingStep ==
  ASSUME IndInv, [ChNext]_chVars,
         NEW h \in Holders, at[h].pc = "idle", at'[h].pc = "working", at'[h].token,
         NEW g \in Holders \ {h}, at[g].pc # "idle", at[g].token, at[g].same
  PROVE  at[g].since = ProbeTimeout
<1> USE DEF IndInv, BreakerInv, LeaseInv, TypeOK
<1>0. /\ \A k \in Holders : at[k] \in Attempt
      /\ ch \in Channel /\ WellShaped(ch) /\ NoProbe \notin Holders
  BY BreakerAssumption
<1>1. Admit(h)
  <2>1. ASSUME NEW k \in Holders, Succeed(k) \/ Fail(k) \/ Abstain(k) PROVE FALSE
    <3>1. at[k].pc = "working" /\ (at' = Reported(k) \/ at' = Forget(Reported(k)))
      BY <2>1 DEF Succeed, Fail, Abstain
    <3>2. h # k
      BY <3>1
    <3> QED BY <1>0, <3>1, <3>2 DEF Reported, Forget, Attempt
  <2>2. ASSUME NEW k \in Holders, Leave(k) PROVE FALSE
    BY <1>0, <2>2 DEF Leave, Away
  <2>3. ASSUME ResetByAdmin \/ ChTick PROVE FALSE
    BY <1>0, <2>3 DEF ResetByAdmin, ChTick, Forget, Attempt
  <2>4. ASSUME UNCHANGED at PROVE FALSE
    BY <2>4
  <2>5. ASSUME NEW k \in Holders, Admit(k) PROVE k = h
    BY <1>0, <2>5 DEF Admit
  <2> QED BY <2>1, <2>2, <2>3, <2>4, <2>5 DEF ChNext, Use, Deny, Inspect, chVars
<1>2. IssuesProbe(ch)
  BY <1>0, <1>1 DEF Admit
<1>3. ch.probe = g => ch.probeAge = ProbeTimeout
  BY <1>0, <1>2, AllowProbe
<1> QED BY <1>0, <1>3

\* Probes are spaced by the lease in every behaviour (state.go:117-118).
THEOREM ProbesSpaced == ChSpec => ProbeSpacing
<1>1. IndInv /\ [ChNext]_chVars => IndInv'
  BY RecordStep, AttemptStep, LeaseStep DEF IndInv, BreakerInv, TypeOK
<1>2. IndInv /\ [ChNext]_chVars =>
        [\A h \in Holders :
           (at[h].pc = "idle" /\ at'[h].pc = "working" /\ at'[h].token) =>
             \A g \in Holders \ {h} :
               (at[g].pc # "idle" /\ at[g].token /\ at[g].same) =>
                 at[g].since = ProbeTimeout]_chVars
  BY SpacingStep
<1> QED BY InitIndInv, <1>1, <1>2, PTL DEF ChSpec, ProbeSpacing

------------------------------------------------------------------------------
(* ChannelBreaker implements CircuitSpec *)

\* What the record must show for the steps of the promise.
LEMMA Stutters ==
  ASSUME ch'.state = "closed" <=> ch.state = "closed", ch'.fails = ch.fails,
         CutAge(ch') = CutAge(ch), ch'.probe = ch.probe, ch'.probeAge = ch.probeAge
  PROVE  UNCHANGED Circuit!cvars
  BY DEF Circuit!cvars, CutAge

LEMMA Cuts ==
  ASSUME ch'.state # "closed", Recent(ch'.fails) = Quiet, CutAge(ch') = 0,
         ch'.probe = NoProbe, ch'.probeAge = 0,
         IF ch.state = "closed" THEN Recent(ch.fails)[FailWindow] + 1 >= FailThreshold
                                ELSE CutAge(ch) >= OpenDuration
  PROVE  Circuit!CutOff
  BY DEF Circuit!CutOff, Circuit!Cut, Circuit!Quiet, Circuit!InWindow, Circuit!Cooled,
         Quiet, CutAge, Recent

LEMMA Restores ==
  ASSUME ch'.state = "closed", Recent(ch'.fails) = Quiet, CutAge(ch') = 0,
         ch'.probe = NoProbe, ch'.probeAge = 0
  PROVE  Circuit!Restore
  BY DEF Circuit!Restore, Circuit!Quiet, Quiet, CutAge, Recent

LEMMA Tolerates ==
  ASSUME ch.state = "closed", ch'.state = "closed",
         Recent(ch.fails)[FailWindow] + 1 < FailThreshold,
         Recent(ch'.fails) = [k \in 0..FailWindow |-> Recent(ch.fails)[k] + 1],
         CutAge(ch') = CutAge(ch), ch'.probe = ch.probe, ch'.probeAge = ch.probeAge
  PROVE  Circuit!Tolerate
  BY DEF Circuit!Tolerate, Circuit!InWindow, CutAge, Recent

LEMMA Lends ==
  ASSUME NEW h \in Holders, ch.state # "closed", ch'.state # "closed",
         CutAge(ch) >= OpenDuration, ch.probe = NoProbe \/ ch.probeAge >= ProbeTimeout,
         ch'.fails = ch.fails, CutAge(ch') = CutAge(ch),
         ch'.probe = h, ch'.probeAge = 0
  PROVE  Circuit!Lend(h)
  BY DEF Circuit!Lend, Circuit!Cooled, CutAge, Recent

LEMMA GivesBack ==
  ASSUME ch.probe # NoProbe, ch'.state = ch.state, ch'.fails = ch.fails,
         CutAge(ch') = CutAge(ch), ch'.probe = NoProbe, ch'.probeAge = 0
  PROVE  Circuit!GiveBack
  BY DEF Circuit!GiveBack, CutAge, Recent

LEMMA Passes ==
  ASSUME ch'.state = ch.state, ch'.probe = ch.probe,
         Recent(ch'.fails)
           = [k \in 0..FailWindow |-> IF k = 0 THEN 0 ELSE Recent(ch.fails)[k - 1]],
         CutAge(ch') = IF ch.state = "closed" THEN 0 ELSE Older(CutAge(ch), OpenDuration),
         ch'.probeAge = IF ch.probe = NoProbe THEN 0 ELSE Older(ch.probeAge, ProbeTimeout)
  PROVE  Circuit!Pass
  BY DEF Circuit!Pass, Circuit!Plus1, Older, CutAge, Recent

\* Every step of the requests, of the operator and of time keeps the record sound
\* and is a step of the promise or none.
LEMMA CircuitStep ==
  ASSUME Sound(ch), Settled(ch), at \in [Holders -> Attempt], [ChNext]_chVars
  PROVE  Settled(ch') /\ [Circuit!CNext]_(Circuit!cvars)
<1> DEFINE Goal == Settled(ch') /\ [Circuit!CNext]_(Circuit!cvars)
<1>0. ch \in Channel /\ WellShaped(ch) /\ Settled(ch)
  BY DEF Sound
<1> HIDE DEF Goal
<1>1. ASSUME ch' = ch PROVE Goal
  BY <1>0, <1>1, Stutters DEF Goal
<1>2. ASSUME NEW h \in Holders, Admit(h) \/ Deny(h) PROVE Goal
  <2>1. ch' = Allow(ch, h)
    BY <1>2 DEF Admit, Deny
  <2>2. CASE IssuesProbe(ch)
    <3>1. Settled(ch') /\ Circuit!Lend(h)
      BY <2>1, <2>2, AllowSeen, Lends
    <3> QED BY <3>1 DEF Goal, Circuit!CNext
  <2>3. CASE ~IssuesProbe(ch)
    <3>1. Settled(ch') /\ UNCHANGED Circuit!cvars
      BY <2>1, <2>3, AllowSeen, Stutters
    <3> QED BY <3>1 DEF Goal
  <2> QED BY <2>2, <2>3
<1>3. ASSUME ch' = Converge(ch) PROVE Goal
  <2>1. Settled(ch') /\ Circuit!Restore
    BY <1>0, <1>3, ConvergeSeen, Restores
  <2> QED BY <2>1 DEF Goal, Circuit!CNext
<1>4. ASSUME NEW h \in Holders, Fail(h) PROVE Goal
  <2>1. ch' = OnFailure(ch)
    BY <1>4 DEF Fail
  <2>2. CASE OnFailure(ch) = ch
    BY <1>1, <2>1, <2>2
  <2>3. CASE /\ OnFailure(ch) = Trip(ch)
             /\ IF ch.state = "closed"
                  THEN Recent(ch.fails)[FailWindow] + 1 >= FailThreshold
                  ELSE CutAge(ch) >= OpenDuration
    <3>1. Settled(ch') /\ Circuit!CutOff
      BY <1>0, <2>1, <2>3, TripSeen, Cuts
    <3> QED BY <3>1 DEF Goal, Circuit!CNext
  <2>4. CASE /\ Settled(OnFailure(ch))
             /\ ch.state = "closed" /\ OnFailure(ch).state = "closed"
             /\ Recent(ch.fails)[FailWindow] + 1 < FailThreshold
             /\ Recent(OnFailure(ch).fails)
                  = [k \in 0..FailWindow |-> Recent(ch.fails)[k] + 1]
             /\ CutAge(OnFailure(ch)) = CutAge(ch)
             /\ OnFailure(ch).probe = ch.probe /\ OnFailure(ch).probeAge = ch.probeAge
    <3>1. Settled(ch') /\ Circuit!Tolerate
      BY <2>1, <2>4, Tolerates
    <3> QED BY <3>1 DEF Goal, Circuit!CNext
  <2> QED BY <2>2, <2>3, <2>4, FailureSeen
<1>5. ASSUME NEW h \in Holders, Leave(h) PROVE Goal
  <2>1. ch' = ch \/ ch' = ReleaseOne(ch, h)
    BY <1>5 DEF Leave
  <2>2. CASE ch' = ch
    BY <1>1, <2>2
  <2>3. CASE ch' = ReleaseOne(ch, h) /\ ch' # ch
    <3>1. Settled(ch') /\ Circuit!GiveBack
      BY <2>3, ReleaseSeen, GivesBack
    <3> QED BY <3>1 DEF Goal, Circuit!CNext
  <2> QED BY <2>1, <2>2, <2>3
<1>6. ASSUME Inspect PROVE Goal
  <2>1. ch' = Transition(ch)
    BY <1>6 DEF Inspect
  <2>2. Settled(ch') /\ UNCHANGED Circuit!cvars
    BY <2>1, TransitionUnseen, Stutters
  <2> QED BY <2>2 DEF Goal
<1>7. ASSUME ChTick PROVE Goal
  <2>1. ch' = Aged(ch)
    BY <1>7 DEF ChTick
  <2>2. Settled(ch') /\ Circuit!Pass
    BY <2>1, AgedSeen, Passes
  <2> QED BY <2>2 DEF Goal, Circuit!CNext
<1>8. Goal
  BY <1>1, <1>2, <1>3, <1>4, <1>5, <1>6, <1>7
     DEF ChNext, Use, Succeed, OnSuccess, Abstain, ResetByAdmin, Reset, chVars
<1> QED BY <1>8 DEF Goal

\* The code's breaker keeps the promise CircuitSpec in every behaviour, whatever its
\* parameters and however many requests use it: every step of it is a step of the
\* promise or is not seen there.
THEOREM KeepsPromise == ChSpec => RefinesCircuit
<1> DEFINE Inv == Sound(ch) /\ Settled(ch) /\ at \in [Holders -> Attempt]
<1>1. ChInit => Inv
  BY InitIndInv, NewStateSettled DEF IndInv, TypeOK, BreakerInv, ChInit, Sound
<1>2. ChInit => Circuit!CInit
  BY NewStateSettled DEF ChInit, Circuit!CInit, Circuit!Quiet, Quiet, NewState, CutAge
<1>3. Inv /\ [ChNext]_chVars => Inv'
  <2>1. SUFFICES ASSUME Inv, [ChNext]_chVars PROVE Inv'
    OBVIOUS
  <2>2. TypeOK /\ WellShaped(ch)
    BY <2>1 DEF Sound, TypeOK
  <2>3. ch' \in Channel /\ WellShaped(ch') /\ at' \in [Holders -> Attempt]
    BY <2>1, <2>2, RecordStep, AttemptStep
  <2>4. Settled(ch')
    BY <2>1, CircuitStep
  <2> QED BY <2>3, <2>4 DEF Sound
<1>4. Inv /\ [ChNext]_chVars => [Circuit!CNext]_(Circuit!cvars)
  BY CircuitStep
<1> QED BY <1>1, <1>2, <1>3, <1>4, PTL DEF ChSpec, RefinesCircuit, Circuit!CSpec
------------------------------------------------------------------------------
(* The forwarding loop *)

\* The candidate of a request on its way is the head of its queue, and a stream's
\* head has been written.
OnItsWay(q) ==
  /\ q.pc \in {"preparing", "calling", "streaming"} => q.queue # <<>>
  /\ q.pc = "streaming" => q.sent # <<>>

Breakers ==
  /\ breaker \in [Channels -> Channel]
  /\ \A c \in Channels : WellShaped(breaker[c])

Typed ==
  /\ Breakers
  /\ req \in [Requests -> Request]
  /\ \A r \in Requests : OnItsWay(req[r])

\* Token c is among the calls that request q has deferred.
Deferred(q, c) == \E i \in DOMAIN q.probes : q.probes[i] = c

\* What the breaker of one channel owes and is owed.
AccountOf(c) ==
  /\ breaker[c].probe # NoProbe => Deferred(req[breaker[c].probe], c)
  /\ c \notin Checked => Untouched(breaker[c])

Accounted == \A c \in Channels : AccountOf(c)

\* Nothing is written before a stream begins or the request is over; a stream begins
\* with a 2xx where no upstream redirects.
AnsweredOnce(q) ==
  /\ q.pc \in {"idle", "trying", "preparing", "calling"} => q.sent = <<>>
  /\ q.pc = "streaming" => Len(q.sent) = 1 /\ Head(q.sent) = "2xx"
  /\ q.pc = "over" => Len(q.sent) <= 1 /\ (~q.gone => Len(q.sent) = 1)

Answered == \A r \in Requests : AnsweredOnce(req[r])

\* What the upstreams must not do for a request to be answered once: end a stream that
\* began with a 3xx, or fail with a text that reads like the client's departure.
PlainUpstreams == \A c \in Channels : Upstream[c] \cap {"redirect", "cancelText"} = {}

\* What a healthy channel must not be: one whose token is refreshed inside a request.
NoBailout == \A c \in Healthy : "refresh" \notin Faults[c]
------------------------------------------------------------------------------
(* The breaker's methods: what each makes of a sound record *)

LEMMA ConvergeSound ==
  ASSUME NEW s \in Channel
  PROVE  Sound(Converge(s)) /\ Untouched(Converge(s))
  BY ConvergeShape DEF Sound, Untouched

LEMMA AllowSound ==
  ASSUME NEW s, Sound(s), NEW h \in Holders
  PROVE  /\ Sound(Allow(s, h))
         /\ IF IssuesProbe(s) THEN Allow(s, h).probe = h
                              ELSE Allow(s, h).probe = s.probe
  BY AllowShape, AllowProbe DEF Sound

LEMMA OnFailureSound ==
  ASSUME NEW s, Sound(s)
  PROVE  Sound(OnFailure(s)) /\ OnFailure(s).probe \in {NoProbe, s.probe}
  BY OnFailureShape DEF Sound

LEMMA ReleaseSound ==
  ASSUME NEW s, Sound(s), NEW h \in Holders
  PROVE  /\ Sound(ReleaseOne(s, h)) /\ ReleaseOne(s, h).probe \in {NoProbe, s.probe} \ {h}
         /\ ReleaseOne(s, h).state = s.state /\ ReleaseOne(s, h).fails = s.fails
  BY ReleaseShape, Ranges DEF Sound

LEMMA AgedSound ==
  ASSUME NEW s, Sound(s)
  PROVE  /\ Sound(Aged(s)) /\ Aged(s).probe = s.probe /\ Aged(s).state = s.state
         /\ s.fails = <<>> => Aged(s).fails = <<>>
  BY AgedShape DEF Sound

\* A breaker that counts nothing is left alone by Allow and by the return of a token.
LEMMA UntouchedStays ==
  ASSUME NEW s, s.state = "closed", NEW h \in Holders
  PROVE  Allow(s, h) = s /\ (Untouched(s) => ReleaseOne(s, h) = s)
<1>1. Transition(s) = s
  BY DEF Transition
<1>2. Allow(s, h) = s
  BY <1>1 DEF Allow, IssuesProbe
<1>3. Untouched(s) => ReleaseOne(s, h) = s
  BY Ranges DEF Untouched, ReleaseOne
<1> QED BY <1>2, <1>3

------------------------------------------------------------------------------
(* The requests: what each step makes of one *)

Becomes(r, q) == req' = [req EXCEPT ![r] = q]

\* Where a step takes request r, with its probes kept unless the step is about them.
Advances(r, q) ==
  /\ q \in Request /\ Becomes(r, q) /\ OnItsWay(q)
  /\ PlainUpstreams /\ AnsweredOnce(req[r]) => AnsweredOnce(q)

Keeps(r, q) == Advances(r, q) /\ q.probes = req[r].probes

LEMMA IdleIs ==
  /\ Idle \in Request /\ Idle.pc = "idle" /\ Idle.sent = <<>> /\ Idle.probes = <<>>
  /\ OnItsWay(Idle)
<1>1. Idle \in Request
  BY EmptySeq DEF Idle, Request, Statuses
<1> QED BY <1>1 DEF Idle, OnItsWay

LEMMA NextCandidateIs ==
  ASSUME NEW q \in Request, q.queue # <<>>
  PROVE  /\ NextCandidate(q) \in Request /\ NextCandidate(q).pc = "trying"
         /\ NextCandidate(q).probes = q.probes /\ NextCandidate(q).sent = q.sent
         /\ NextCandidate(q).gone = q.gone
<1>1. Tail(q.queue) \in Seq(Channels)
  BY HeadTailProperties DEF Request
<1> QED BY <1>1 DEF NextCandidate, Request

LEMMA OverIs ==
  ASSUME NEW q \in Request
  PROVE  /\ Over(q) \in Request /\ Over(q).pc = "over"
         /\ Over(q).probes = q.probes /\ Over(q).sent = q.sent /\ Over(q).gone = q.gone
<1>1. Idle \in Request
  BY IdleIs
<1> QED BY <1>1 DEF Over, Idle, Request

\* A request on its way and its current candidate.
LEMMA AtWork ==
  ASSUME Typed, NEW r \in Requests
  PROVE  /\ req[r] \in Request /\ OnItsWay(req[r]) /\ req[r].sent \in Seq(Statuses)
         /\ req[r].queue # <<>> => Current(r) \in Channels
         /\ req[r].probes \in Seq(Channels)
<1>1. req[r] \in Request /\ OnItsWay(req[r])
  BY DEF Typed
<1>2. req[r].queue # <<>> => Head(req[r].queue) \in Channels
  BY <1>1, HeadTailProperties DEF Request
<1> QED BY <1>1, <1>2 DEF Current, Request

LEMMA OthersStay ==
  ASSUME Typed, NEW r \in Requests, NEW q, Becomes(r, q)
  PROVE  req'[r] = q /\ \A s \in Requests \ {r} : req'[s] = req[s]
  BY DEF Typed, Becomes

\* FailOver leaves the request as it is given, but for the channels it has failed on.
LEMMA FailOverIs ==
  ASSUME Typed, NEW r \in Requests, Current(r) \in Channels, NEW q \in Request, FailOver(r, q)
  PROVE  \E p \in Request :
           /\ Becomes(r, p)
           /\ p.pc = q.pc /\ p.queue = q.queue /\ p.probes = q.probes /\ p.sent = q.sent
           /\ p.gone = q.gone
<1> DEFINE p == [q EXCEPT !.failed = @ \cup {Current(r)}]
<1>1. /\ p \in Request /\ p.pc = q.pc /\ p.queue = q.queue /\ p.probes = q.probes
      /\ p.sent = q.sent /\ p.gone = q.gone
  BY DEF Request
<1>2. Becomes(r, q) \/ Becomes(r, p)
  BY DEF FailOver, Becomes
<1> HIDE DEF p
<1> QED BY <1>1, <1>2

\* One more head after none: the response is complete.
LEMMA FirstHead ==
  ASSUME NEW sent, sent = <<>>, NEW head \in Statuses
  PROVE  /\ Append(sent, head) \in Seq(Statuses) /\ Len(Append(sent, head)) = 1
         /\ Head(Append(sent, head)) = head /\ Append(sent, head) # <<>>
<1>1. sent \in Seq(Statuses) /\ Len(sent) = 0
  BY EmptySeq
<1>2. Append(sent, head) \in Seq(Statuses) /\ Len(Append(sent, head)) = 1
      /\ Append(sent, head)[1] = head
  BY <1>1, AppendProperties
<1> QED BY <1>2, HeadTailProperties, EmptySeq

\* The candidates are put in an order: a sequence of channels.
LEMMA OrdersAre ==
  ASSUME NEW S \in SUBSET Channels, NEW q \in Orders(S)
  PROVE  q \in Seq(Channels)
<1>1. Cardinality(S) \in Nat
  BY RelayAssumption, FS_Subset, FS_CardinalityType
<1>2. q \in [1..Cardinality(S) -> Channels]
  BY DEF Orders
<1> QED BY <1>1, <1>2, SeqDef

LEMMA OverWithOne ==
  ASSUME NEW q, q.pc = "over", Len(q.sent) = 1
  PROVE  AnsweredOnce(q) /\ OnItsWay(q)
  BY DEF AnsweredOnce, OnItsWay

LEMMA NothingWritten ==
  ASSUME NEW q, q.pc \in {"idle", "trying", "preparing", "calling"}, q.sent = <<>>
  PROVE  AnsweredOnce(q)
  BY DEF AnsweredOnce

LEMMA ArriveMoves ==
  ASSUME Typed, NEW r \in Requests, Arrive(r)
  PROVE  \E q : Keeps(r, q)
<1>0. req[r] \in Request /\ req[r].pc = "idle"
  BY DEF Typed, Arrive, Refuse, Route
<1>1. ASSUME NEW status \in {"4xx", "5xx"}, Refuse(r, status) PROVE \E q : Keeps(r, q)
  <2> DEFINE one == <<status>>
             q == [req[r] EXCEPT !.pc = "over", !.sent = one]
  <2>1. one \in Seq(Statuses) /\ Len(one) = 1
    BY DEF Statuses
  <2>2. Becomes(r, q)
    BY <1>1 DEF Refuse, Becomes
  <2> HIDE DEF one
  <2>3. q \in Request /\ q.pc = "over" /\ q.sent = one /\ q.probes = req[r].probes
    BY <1>0, <2>1 DEF Request
  <2> HIDE DEF q
  <2> QED BY <2>1, <2>2, <2>3, OverWithOne DEF Keeps, Advances
<1>2. ASSUME NEW S \in SUBSET Channels \ {{}}, NEW isStream \in BOOLEAN, Route(r, S, isStream)
      PROVE  \E q : Keeps(r, q)
  <2>1. PICK o \in Orders(S) : req' = [req EXCEPT ![r].pc = "trying", ![r].queue = o,
                                                ![r].stream = isStream]
    BY <1>2 DEF Route
  <2> DEFINE q == [req[r] EXCEPT !.pc = "trying", !.queue = o, !.stream = isStream]
  <2>2. Becomes(r, q)
    BY <2>1 DEF Becomes
  <2>3. o \in Seq(Channels)
    BY OrdersAre
  <2>4. q \in Request /\ q.pc = "trying" /\ q.sent = req[r].sent /\ q.probes = req[r].probes
    BY <1>0, <2>3 DEF Request
  <2> HIDE DEF q
  <2> QED BY <1>0, <2>2, <2>4 DEF Keeps, Advances, OnItsWay, AnsweredOnce
<1> QED BY <1>1, <1>2 DEF Arrive

\* A request that goes on to its next candidate, nothing having been written.
LEMMA NextMoves ==
  ASSUME Typed, NEW r \in Requests, NEW p \in Request, Becomes(r, p),
         p.pc = "trying", p.probes = req[r].probes, p.sent = req[r].sent,
         req[r].pc \in {"trying", "preparing", "calling"}
  PROVE  Keeps(r, p)
<1>1. OnItsWay(p)
  BY DEF OnItsWay
<1>2. AnsweredOnce(req[r]) => AnsweredOnce(p)
  BY DEF AnsweredOnce
<1> QED BY <1>1, <1>2 DEF Keeps, Advances

LEMMA CandidateMoves ==
  ASSUME Typed, NEW r \in Requests,
         CircuitOpen(r) \/ Prepared(r) \/ PrepareFails(r)
           \/ (\E error \in UpstreamErrors : CallFails(r, error))
  PROVE  \E q : Keeps(r, q)
<1>0. /\ req[r] \in Request /\ OnItsWay(req[r])
      /\ req[r].queue # <<>> => Current(r) \in Channels
  BY AtWork
<1>1. CASE CircuitOpen(r)
  <2>1. Becomes(r, NextCandidate(req[r])) /\ req[r].pc = "trying" /\ req[r].queue # <<>>
    BY <1>1 DEF CircuitOpen, Becomes
  <2> QED BY <1>0, <2>1, NextCandidateIs, NextMoves
<1>2. CASE Prepared(r)
  <2> DEFINE q == [req[r] EXCEPT !.pc = "calling"]
  <2>1. Becomes(r, q) /\ req[r].pc = "preparing"
    BY <1>2 DEF Prepared, Becomes
  <2>2. /\ q \in Request /\ q.pc = "calling" /\ q.sent = req[r].sent /\ q.queue = req[r].queue
        /\ q.probes = req[r].probes
    BY <1>0 DEF Request
  <2> HIDE DEF q
  <2> QED BY <1>0, <2>1, <2>2 DEF Keeps, Advances, OnItsWay, AnsweredOnce
<1>3. CASE PrepareFails(r)
  <2> DEFINE n == NextCandidate(req[r])
  <2>1. req[r].pc = "preparing" /\ req[r].queue # <<>> /\ FailOver(r, n)
    BY <1>0, <1>3 DEF PrepareFails, OnItsWay
  <2>2. n \in Request /\ n.pc = "trying" /\ n.probes = req[r].probes /\ n.sent = req[r].sent
    BY <1>0, <2>1, NextCandidateIs
  <2> HIDE DEF n
  <2>3. PICK p \in Request : /\ Becomes(r, p) /\ p.pc = n.pc /\ p.probes = n.probes
                             /\ p.sent = n.sent
    BY <1>0, <2>1, <2>2, FailOverIs
  <2> QED BY <2>1, <2>2, <2>3, NextMoves
<1>4. ASSUME NEW error \in UpstreamErrors, CallFails(r, error) PROVE \E q : Keeps(r, q)
  <2> DEFINE n == NextCandidate(req[r])
             q == [n EXCEPT !.last = ErrorStatus(error)]
  <2>1. /\ req[r].pc = "calling" /\ req[r].queue # <<>>
        /\ FailOver(r, q) \/ Becomes(r, q)
    BY <1>0, <1>4 DEF CallFails, OnItsWay, Becomes
  <2>2. n \in Request /\ n.pc = "trying" /\ n.probes = req[r].probes /\ n.sent = req[r].sent
    BY <1>0, <2>1, NextCandidateIs
  <2>3. ErrorStatus(error) \in Statuses \cup {"none"}
    <3>1. error \in {"refused", "rejected", "overloaded", "peeked", "inband", "cancelText"}
      BY <1>4 DEF CallFails, UpstreamErrors
    <3> QED BY <3>1 DEF ErrorStatus, Statuses
  <2> HIDE DEF n
  <2>4. q \in Request /\ q.pc = "trying" /\ q.probes = req[r].probes /\ q.sent = req[r].sent
    BY <2>2, <2>3 DEF Request
  <2> HIDE DEF q
  <2>5. CASE FailOver(r, q)
    <3>1. PICK p \in Request : /\ Becomes(r, p) /\ p.pc = q.pc /\ p.probes = q.probes
                               /\ p.sent = q.sent
      BY <1>0, <2>1, <2>4, <2>5, FailOverIs
    <3> QED BY <2>1, <2>4, <3>1, NextMoves
  <2>6. CASE Becomes(r, q)
    BY <2>1, <2>4, <2>6, NextMoves
  <2> QED BY <2>1, <2>5, <2>6
<1> QED BY <1>1, <1>2, <1>3, <1>4

LEMMA HeadsAre ==
  ASSUME NEW c \in Channels
  PROVE  /\ Heads(c) \subseteq {"2xx", "3xx"} /\ {"2xx", "3xx"} \subseteq Statuses
         /\ PlainUpstreams => Heads(c) = {"2xx"}
  BY DEF Heads, PlainUpstreams, Statuses

\* The request is over and its response is what it was, or has got its first head.
LEMMA OverMoves ==
  ASSUME Typed, NEW r \in Requests, NEW p \in Request, Becomes(r, p),
         p.pc = "over", p.probes = req[r].probes,
         PlainUpstreams /\ AnsweredOnce(req[r]) => Len(p.sent) = 1
  PROVE  Keeps(r, p)
<1>1. OnItsWay(p)
  BY DEF OnItsWay
<1>2. PlainUpstreams /\ AnsweredOnce(req[r]) => AnsweredOnce(p)
  BY OverWithOne
<1> QED BY <1>1, <1>2 DEF Keeps, Advances

LEMMA AnswerIs ==
  ASSUME NEW q \in Request, NEW head \in Statuses
  PROVE  /\ Answer(q, head) \in Request /\ Answer(q, head).pc = "over"
         /\ Answer(q, head).probes = q.probes
         /\ q.sent = <<>> => Len(Answer(q, head).sent) = 1
<1> DEFINE o == Over(q)
           more == Append(q.sent, head)
<1>1. o \in Request /\ o.pc = "over" /\ o.probes = q.probes
  BY OverIs
<1>2. more \in Seq(Statuses) /\ (q.sent = <<>> => Len(more) = 1)
  BY AppendProperties, FirstHead DEF Request
<1>3. Answer(q, head) = [o EXCEPT !.sent = more]
  BY DEF Answer
<1> HIDE DEF o, more
<1>4. /\ [o EXCEPT !.sent = more] \in Request /\ [o EXCEPT !.sent = more].pc = "over"
      /\ [o EXCEPT !.sent = more].probes = q.probes /\ [o EXCEPT !.sent = more].sent = more
  BY <1>1, <1>2 DEF Request
<1> QED BY <1>2, <1>3, <1>4

LEMMA AnswerMoves ==
  ASSUME Typed, NEW r \in Requests, Complete(r) \/ OpenStream(r) \/ EndStream(r)
  PROVE  \E q : Keeps(r, q)
<1>0. /\ req[r] \in Request /\ OnItsWay(req[r]) /\ req[r].sent \in Seq(Statuses)
      /\ req[r].queue # <<>> => Current(r) \in Channels
  BY AtWork
<1>1. CASE Complete(r)
  <2>1. PICK head \in Heads(Current(r)) : Becomes(r, Answer(req[r], head))
    BY <1>1 DEF Complete, Becomes
  <2>2. req[r].pc = "calling" /\ head \in Statuses
    BY <1>0, <1>1, HeadsAre DEF Complete, OnItsWay
  <2> DEFINE p == Answer(req[r], head)
  <2>3. /\ p \in Request /\ p.pc = "over" /\ p.probes = req[r].probes
        /\ req[r].sent = <<>> => Len(p.sent) = 1
    BY <1>0, <2>2, AnswerIs
  <2>4. AnsweredOnce(req[r]) => Len(p.sent) = 1
    BY <2>2, <2>3 DEF AnsweredOnce
  <2>5. Becomes(r, p)
    BY <2>1
  <2> HIDE DEF p
  <2> QED BY <2>3, <2>4, <2>5, OverMoves
<1>2. CASE OpenStream(r)
  <2>1. PICK head \in Heads(Current(r)) :
          req' = [req EXCEPT ![r].pc = "streaming", ![r].sent = Append(@, head)]
    BY <1>2 DEF OpenStream
  <2>2. /\ req[r].pc = "calling" /\ head \in Statuses /\ req[r].queue # <<>>
        /\ PlainUpstreams => head = "2xx"
    BY <1>0, <1>2, HeadsAre DEF OpenStream, OnItsWay
  <2> DEFINE more == Append(req[r].sent, head)
             q == [req[r] EXCEPT !.pc = "streaming", !.sent = more]
  <2>3. Becomes(r, q)
    BY <2>1 DEF Becomes
  <2>4. more \in Seq(Statuses) /\ Len(more) = Len(req[r].sent) + 1
    BY <1>0, <2>2, AppendProperties
  <2>5. more # <<>>
    BY <1>0, <2>4, LenProperties, EmptySeq
  <2>6. AnsweredOnce(req[r]) => Len(more) = 1 /\ Head(more) = head
    BY <2>2, FirstHead DEF AnsweredOnce
  <2> HIDE DEF more
  <2>7. /\ q \in Request /\ q.pc = "streaming" /\ q.probes = req[r].probes /\ q.sent = more
        /\ q.queue = req[r].queue
    BY <1>0, <2>4 DEF Request
  <2> HIDE DEF q
  <2>8. OnItsWay(q)
    BY <2>2, <2>5, <2>7 DEF OnItsWay
  <2>9. PlainUpstreams /\ AnsweredOnce(req[r]) => AnsweredOnce(q)
    <3> SUFFICES ASSUME PlainUpstreams, AnsweredOnce(req[r]) PROVE AnsweredOnce(q)
      OBVIOUS
    <3>1. Len(q.sent) = 1 /\ Head(q.sent) = "2xx"
      BY <2>2, <2>6, <2>7
    <3> QED BY <2>7, <3>1 DEF AnsweredOnce
  <2> QED BY <2>3, <2>7, <2>8, <2>9 DEF Keeps, Advances
<1>3. CASE EndStream(r)
  <2>1. Becomes(r, Over(req[r])) /\ req[r].pc = "streaming"
    BY <1>3 DEF EndStream, Becomes
  <2>2. AnsweredOnce(req[r]) => Len(req[r].sent) = 1
    BY <2>1 DEF AnsweredOnce
  <2>3. /\ Over(req[r]) \in Request /\ Over(req[r]).pc = "over"
        /\ Over(req[r]).probes = req[r].probes /\ Over(req[r]).sent = req[r].sent
    BY <1>0, OverIs
  <2> DEFINE p == Over(req[r])
  <2>4. Becomes(r, p) /\ p \in Request /\ p.pc = "over" /\ p.probes = req[r].probes
    BY <2>1, <2>3
  <2>5. AnsweredOnce(req[r]) => Len(p.sent) = 1
    BY <2>2, <2>3
  <2> HIDE DEF p
  <2> QED BY <2>4, <2>5, OverMoves
<1> QED BY <1>1, <1>2, <1>3

LEMMA CutMoves ==
  ASSUME Typed, NEW r \in Requests, CutStream(r)
  PROVE  \E q : Keeps(r, q)
<1> DEFINE head == Head(req[r].sent)
           q == [req[r] EXCEPT !.last = head]
<1>1. /\ req[r].pc = "streaming"
      /\ FailOver(r, IF Final(head) THEN Over(q) ELSE NextCandidate(q))
  BY DEF CutStream
<1>2. /\ req[r] \in Request /\ Current(r) \in Channels /\ req[r].queue # <<>>
      /\ req[r].sent \in Seq(Statuses) /\ req[r].sent # <<>>
  BY <1>1, AtWork DEF OnItsWay
<1>3. head \in Statuses
  BY <1>2, HeadTailProperties
<1>4. AnsweredOnce(req[r]) => Final(head) /\ Len(req[r].sent) = 1
  BY <1>1 DEF AnsweredOnce, Final
<1> HIDE DEF head
<1>5. /\ q \in Request /\ q.queue = req[r].queue /\ q.probes = req[r].probes
      /\ q.sent = req[r].sent /\ q.gone = req[r].gone
  BY <1>2, <1>3 DEF Request
<1> HIDE DEF q
<1>6. CASE Final(head)
  <2>1. /\ Over(q) \in Request /\ Over(q).pc = "over" /\ Over(q).probes = req[r].probes
        /\ Over(q).sent = req[r].sent
    BY <1>5, OverIs
  <2>2. PICK p \in Request : /\ Becomes(r, p) /\ p.pc = "over" /\ p.probes = req[r].probes
                             /\ p.sent = req[r].sent
    BY <1>1, <1>2, <1>6, <2>1, FailOverIs
  <2> QED BY <1>4, <2>2, OverMoves
<1>7. CASE ~Final(head)
  <2> DEFINE n == NextCandidate(q)
  <2>1. n \in Request /\ n.pc = "trying" /\ n.probes = req[r].probes
    BY <1>2, <1>5, NextCandidateIs
  <2>2. FailOver(r, n)
    BY <1>1, <1>7
  <2> HIDE DEF n
  <2>3. PICK p \in Request : Becomes(r, p) /\ p.pc = "trying" /\ p.probes = req[r].probes
    BY <1>2, <2>1, <2>2, FailOverIs
  <2>4. OnItsWay(p) /\ ~AnsweredOnce(req[r])
    BY <1>4, <1>7, <2>3 DEF OnItsWay
  <2> QED BY <2>3, <2>4 DEF Keeps, Advances
<1> QED BY <1>6, <1>7

LEMMA EndMoves ==
  ASSUME Typed, NEW r \in Requests, GiveUp(r) \/ Exhausted(r) \/ Finish(r) \/ Disconnect(r)
  PROVE  \E q : Keeps(r, q)
<1>0. req[r] \in Request
  BY AtWork
<1>1. CASE GiveUp(r)
  <2> DEFINE p == Over(req[r])
  <2>1. /\ Becomes(r, p) /\ req[r].pc \in {"calling", "streaming"}
        /\ \/ req[r].gone
           \/ \E error \in Upstream[Current(r)] : error = "cancelText"
    BY <1>1 DEF GiveUp, Becomes, LooksGone
  <2>2. /\ p \in Request /\ p.pc = "over" /\ p.probes = req[r].probes
        /\ p.sent = req[r].sent /\ p.gone = req[r].gone
    BY <1>0, OverIs
  <2>3. PlainUpstreams => p.gone
    <3>1. req[r].queue # <<>>
      BY <2>1, AtWork DEF OnItsWay
    <3>2. Current(r) \in Channels
      BY <3>1, AtWork
    <3> QED BY <2>1, <2>2, <3>2 DEF PlainUpstreams
  <2> HIDE DEF p
  <2>4. ASSUME AnsweredOnce(req[r]) PROVE Len(p.sent) <= 1
    <3>1. p.sent = <<>> \/ Len(p.sent) = 1
      BY <2>1, <2>2, <2>4 DEF AnsweredOnce
    <3>2. CASE p.sent = <<>>
      <4>1. Len(p.sent) = 0
        BY <3>2, EmptySeq
      <4> QED BY <4>1
    <3>3. CASE Len(p.sent) = 1
      BY <3>3
    <3> QED BY <3>1, <3>2, <3>3
  <2>5. PlainUpstreams /\ AnsweredOnce(req[r]) => AnsweredOnce(p)
    BY <2>2, <2>3, <2>4, Zenon DEF AnsweredOnce
  <2>6. OnItsWay(p)
    BY <2>2 DEF OnItsWay
  <2> QED BY <2>1, <2>2, <2>5, <2>6 DEF Keeps, Advances
<1>2. CASE Exhausted(r)
  <2> DEFINE last == IF req[r].last = "none" THEN "5xx" ELSE req[r].last
             p == Answer(req[r], last)
  <2>1. Becomes(r, p) /\ req[r].pc = "trying"
    BY <1>2 DEF Exhausted, Becomes
  <2>2. last \in Statuses
    BY <1>0 DEF Request, Statuses
  <2> HIDE DEF last
  <2>3. /\ p \in Request /\ p.pc = "over" /\ p.probes = req[r].probes
        /\ req[r].sent = <<>> => Len(p.sent) = 1
    BY <1>0, <2>2, AnswerIs
  <2>4. AnsweredOnce(req[r]) => Len(p.sent) = 1
    BY <2>1, <2>3 DEF AnsweredOnce
  <2> HIDE DEF p
  <2> QED BY <2>1, <2>3, <2>4, OverMoves
<1>3. CASE Finish(r)
  <2>1. Becomes(r, Idle) /\ req[r].probes = <<>>
    BY <1>3 DEF Finish, Becomes
  <2> QED BY <2>1, IdleIs, NothingWritten DEF Keeps, Advances
<1>4. CASE Disconnect(r)
  <2> DEFINE q == [req[r] EXCEPT !.gone = TRUE]
  <2>1. Becomes(r, q) /\ req[r].pc \notin {"idle", "over"}
    BY <1>4 DEF Disconnect, Becomes
  <2>2. /\ q \in Request /\ q.pc = req[r].pc /\ q.probes = req[r].probes
        /\ q.sent = req[r].sent /\ q.queue = req[r].queue
    BY <1>0 DEF Request
  <2> HIDE DEF q
  <2>3. OnItsWay(q) /\ (AnsweredOnce(req[r]) => AnsweredOnce(q))
    BY <2>1, <2>2, AtWork DEF OnItsWay, AnsweredOnce
  <2> QED BY <2>1, <2>2, <2>3 DEF Keeps, Advances
<1> QED BY <1>1, <1>2, <1>3, <1>4

\* A probe that the breaker issues is noted with the request.
LEMMA EnterMoves ==
  ASSUME Typed, NEW r \in Requests, Enter(r)
  PROVE  \E q : /\ Advances(r, q)
                /\ q.probes = IF Current(r) \in Checked /\ IssuesProbe(breaker[Current(r)])
                                THEN Append(req[r].probes, Current(r)) ELSE req[r].probes
<1> DEFINE more == IF Current(r) \in Checked /\ IssuesProbe(breaker[Current(r)])
                     THEN Append(req[r].probes, Current(r)) ELSE req[r].probes
           q == [req[r] EXCEPT !.pc = "preparing", !.probes = more]
<1>1. Becomes(r, q) /\ req[r].pc = "trying" /\ req[r].queue # <<>>
  BY DEF Enter, Becomes
<1>2. req[r] \in Request /\ Current(r) \in Channels /\ req[r].probes \in Seq(Channels)
  BY <1>1, AtWork
<1>3. more \in Seq(Channels)
  BY <1>2, AppendProperties
<1> HIDE DEF more
<1>4. /\ q \in Request /\ q.pc = "preparing" /\ q.probes = more
      /\ q.sent = req[r].sent /\ q.queue = req[r].queue
  BY <1>2, <1>3 DEF Request
<1> HIDE DEF q
<1>5. OnItsWay(q) /\ (AnsweredOnce(req[r]) => AnsweredOnce(q))
  BY <1>1, <1>4 DEF OnItsWay, AnsweredOnce
<1>6. Advances(r, q) /\ q.probes = more
  BY <1>1, <1>4, <1>5 DEF Advances
<1> QED BY <1>6 DEF more

\* The last of a request's tokens is taken from it.
LEMMA ReturnMoves ==
  ASSUME Typed, NEW r \in Requests, Return(r)
  PROVE  LET n == Len(req[r].probes)
         IN  /\ n \in Nat \ {0} /\ req[r].probes[n] \in Channels
             /\ \E q : Advances(r, q) /\ q.probes = SubSeq(req[r].probes, 1, n - 1)
<1> DEFINE n == Len(req[r].probes)
           less == SubSeq(req[r].probes, 1, n - 1)
           q == [req[r] EXCEPT !.probes = less]
<1>1. req[r] \in Request /\ req[r].probes \in Seq(Channels) /\ OnItsWay(req[r])
  BY AtWork
<1>2. req[r].pc = "over" /\ req[r].probes # <<>> /\ Becomes(r, q)
  BY DEF Return, Becomes
<1>3. n \in Nat \ {0} /\ req[r].probes[n] \in Channels
  <2>1. n \in Nat /\ n # 0
    BY <1>1, <1>2, LenProperties, EmptySeq
  <2> QED BY <1>1, <2>1, ElementOfSeq
<1>4. less \in Seq(Channels)
  <2>1. \A i \in 1..(n - 1) : req[r].probes[i] \in Channels
    BY <1>1, <1>3, ElementOfSeq
  <2> HIDE DEF n
  <2> QED BY <1>1, <1>3, <2>1, SubSeqProperties
<1> HIDE DEF less
<1>5. /\ q \in Request /\ q.pc = "over" /\ q.probes = less /\ q.sent = req[r].sent
      /\ q.gone = req[r].gone
  BY <1>1, <1>2, <1>4 DEF Request
<1> HIDE DEF q
<1>6. OnItsWay(q)
  BY <1>5 DEF OnItsWay
<1>7. AnsweredOnce(req[r]) => AnsweredOnce(q)
  BY <1>2, <1>5, Zenon DEF AnsweredOnce
<1>8. Advances(r, q) /\ q.probes = less
  BY <1>2, <1>5, <1>6, <1>7 DEF Advances
<1> QED BY <1>3, <1>8 DEF less

LEMMA RequestMoves ==
  ASSUME Typed, NEW r \in Requests, Arrive(r) \/ Step(r) \/ Disconnect(r)
  PROVE  \E q : Advances(r, q)
  BY ArriveMoves, CandidateMoves, AnswerMoves, CutMoves, EndMoves, EnterMoves, ReturnMoves
     DEF Step, Keeps

------------------------------------------------------------------------------
(* The breakers: what each step makes of one *)

LastToken(r) == req[r].probes[Len(req[r].probes)]

Put(c, s) == breaker' = [breaker EXCEPT ![c] = s]

\* The steps that blame a channel, and why.
Blames(r) ==
  \/ PrepareFails(r) \/ CutStream(r)
  \/ \E error \in UpstreamErrors : CallFails(r, error) /\ ChannelFailure(error)

LEMMA FailOverTouches ==
  ASSUME NEW r \in Requests, NEW q, FailOver(r, q)
  PROVE  \/ breaker' = breaker
         \/ Current(r) \in Checked /\ Put(Current(r), OnFailure(breaker[Current(r)]))
  BY DEF FailOver, Blame, Put

\* A step of a request touches the breaker of its candidate, if that is checked, or
\* returns a token.
LEMMA StepTouches ==
  ASSUME Typed, NEW r \in Requests, Arrive(r) \/ Step(r) \/ Disconnect(r)
  PROVE  \/ breaker' = breaker
         \/ /\ Current(r) \in Checked
            /\ \/ (Enter(r) \/ CircuitOpen(r)) /\ Put(Current(r), Allow(breaker[Current(r)], r))
               \/ Blames(r) /\ Put(Current(r), OnFailure(breaker[Current(r)]))
               \/ Put(Current(r), Converge(breaker[Current(r)]))
         \/ Return(r) /\ Put(LastToken(r), ReleaseOne(breaker[LastToken(r)], r))
<1>1. CASE Enter(r) \/ CircuitOpen(r)
  BY <1>1 DEF Enter, CircuitOpen, Put
<1>2. CASE Blames(r)
  BY <1>2, FailOverTouches DEF Blames, PrepareFails, CutStream, CallFails
<1>3. CASE Complete(r) \/ EndStream(r)
  BY <1>3 DEF Complete, EndStream, Success, OnSuccess, Put
<1>4. CASE Return(r)
  BY <1>4 DEF Return, Put, LastToken
<1>5. ASSUME NEW error \in UpstreamErrors, CallFails(r, error), ~ChannelFailure(error)
      PROVE  breaker' = breaker
  BY <1>5 DEF CallFails
<1>6. CASE Arrive(r) \/ Prepared(r) \/ OpenStream(r) \/ GiveUp(r) \/ Exhausted(r) \/ Finish(r)
           \/ Disconnect(r)
  BY <1>6 DEF Arrive, Refuse, Route, Prepared, OpenStream, GiveUp, Exhausted, Finish, Disconnect
<1> QED BY <1>1, <1>2, <1>3, <1>4, <1>5, <1>6 DEF Step, Blames

------------------------------------------------------------------------------
(* Type correctness *)

LEMMA PutIs ==
  ASSUME Breakers, NEW c \in Channels, NEW s, Sound(s), Put(c, s)
  PROVE  Breakers' /\ breaker'[c] = s /\ \A d \in Channels \ {c} : breaker'[d] = breaker[d]
<1>1. /\ breaker' \in [Channels -> Channel]
      /\ breaker'[c] = s /\ \A d \in Channels \ {c} : breaker'[d] = breaker[d]
  BY DEF Breakers, Put, Sound
<1>2. \A d \in Channels : WellShaped(breaker'[d])
  BY <1>1 DEF Breakers, Sound
<1>3. \A d \in Channels : WellShaped(breaker[d])'
  BY <1>2 DEF WellShaped
<1> QED BY <1>1, <1>3 DEF Breakers

LEMMA SoundBreaker ==
  ASSUME Breakers, NEW c \in Channels
  PROVE  Sound(breaker[c])
  BY DEF Breakers, Sound

\* A step that looks at the breaker of the candidate has a candidate.
LEMMA CandidateIs ==
  ASSUME NEW r \in Requests, Current(r) \in Checked
  PROVE  Current(r) \in Channels
  BY RelayAssumption

LEMMA BreakersStay ==
  ASSUME Typed, NEW r \in Requests, Arrive(r) \/ Step(r) \/ Disconnect(r)
  PROVE  Breakers'
<1>0. Breakers
  BY DEF Typed
<1>1. CASE breaker' = breaker
  BY <1>0, <1>1 DEF Breakers, WellShaped
<1>2. CASE Current(r) \in Checked /\ Put(Current(r), Allow(breaker[Current(r)], r))
  BY <1>0, <1>2, CandidateIs, SoundBreaker, AllowSound, PutIs DEF Requests
<1>3. CASE Current(r) \in Checked /\ Put(Current(r), OnFailure(breaker[Current(r)]))
  BY <1>0, <1>3, CandidateIs, SoundBreaker, OnFailureSound, PutIs
<1>4. CASE Current(r) \in Checked /\ Put(Current(r), Converge(breaker[Current(r)]))
  BY <1>0, <1>4, CandidateIs, SoundBreaker, ConvergeSound, PutIs DEF Sound
<1>5. CASE Return(r) /\ Put(LastToken(r), ReleaseOne(breaker[LastToken(r)], r))
  <2>1. LastToken(r) \in Channels
    BY <1>5, ReturnMoves DEF LastToken
  <2> QED BY <1>0, <1>5, <2>1, SoundBreaker, ReleaseSound, PutIs DEF Requests
<1> QED BY <1>1, <1>2, <1>3, <1>4, <1>5, StepTouches

LEMMA TickAges ==
  ASSUME Breakers, Tick
  PROVE  Breakers' /\ \A c \in Channels : breaker'[c] = Aged(breaker[c])
<1>1. \A c \in Channels : breaker'[c] = Aged(breaker[c])
  BY DEF Tick
<1>2. \A c \in Channels : Sound(Aged(breaker[c]))
  BY SoundBreaker, AgedSound
<1>3. breaker' \in [Channels -> Channel]
  BY <1>2 DEF Tick, Sound
<1>4. \A c \in Channels : WellShaped(breaker[c])'
  BY <1>1, <1>2 DEF Sound, WellShaped
<1> QED BY <1>1, <1>3, <1>4 DEF Breakers

LEMMA NewStateIs == Sound(NewState) /\ Untouched(NewState)
  BY NewStateShape DEF Sound, NewState, Untouched

LEMMA TypedInit == Init => Typed
<1> SUFFICES ASSUME Init PROVE Typed
  OBVIOUS
<1>1. Breakers
  BY NewStateIs DEF Init, Breakers, Sound
<1>2. req \in [Requests -> Request] /\ \A r \in Requests : OnItsWay(req[r])
  BY IdleIs DEF Init
<1> QED BY <1>1, <1>2 DEF Typed

LEMMA TypedNext == Typed /\ [Next]_vars => Typed'
<1> SUFFICES ASSUME Typed, [Next]_vars PROVE Typed'
  OBVIOUS
<1>1. ASSUME NEW r \in Requests, Arrive(r) \/ Step(r) \/ Disconnect(r) PROVE Typed'
  <2>1. Breakers'
    BY <1>1, BreakersStay
  <2>2. PICK q : q \in Request /\ Becomes(r, q) /\ OnItsWay(q)
    BY <1>1, RequestMoves DEF Advances
  <2>3. req'[r] = q /\ \A s \in Requests \ {r} : req'[s] = req[s]
    BY <2>2, OthersStay
  <2>4. req' \in [Requests -> Request]
    BY <2>2 DEF Typed, Becomes
  <2>5. \A s \in Requests : OnItsWay(req[s])'
    BY <2>2, <2>3 DEF Typed, OnItsWay
  <2> QED BY <2>1, <2>4, <2>5 DEF Typed
<1>2. CASE Tick
  <2>1. Breakers' /\ req' = req
    BY <1>2, TickAges DEF Typed, Tick
  <2> QED BY <2>1 DEF Typed, OnItsWay
<1>3. CASE UNCHANGED vars
  BY <1>3 DEF vars, Typed, Breakers, WellShaped, OnItsWay
<1> QED BY <1>1, <1>2, <1>3 DEF Next

\* The breakers are sound records and the requests are where relayCore can be.
THEOREM TypeCorrect == Spec => []Typed
<1> QED BY TypedInit, TypedNext, PTL DEF Spec

------------------------------------------------------------------------------
(* Probes are accounted for *)

LEMMA HolderIs ==
  ASSUME Breakers, NEW c \in Channels
  PROVE  breaker[c].probe # NoProbe => breaker[c].probe \in Requests
  BY DEF Breakers, Channel, Requests

\* A new token is deferred, and the older ones still are.
LEMMA DeferOne ==
  ASSUME NEW q, NEW p, q.probes \in Seq(Channels), NEW c \in Channels,
         p.probes = Append(q.probes, c)
  PROVE  Deferred(p, c) /\ \A d \in Channels : Deferred(q, d) => Deferred(p, d)
<1> DEFINE n == Len(q.probes)
<1>1. n \in Nat /\ DOMAIN q.probes = 1..n
  BY LenProperties
<1>2. /\ DOMAIN p.probes = 1..(n + 1) /\ p.probes[n + 1] = c
      /\ \A i \in 1..n : p.probes[i] = q.probes[i]
  BY AppendProperties, LenProperties
<1> HIDE DEF n
<1>3. n + 1 \in DOMAIN p.probes /\ \A i \in 1..n : i \in DOMAIN p.probes
  BY <1>1, <1>2
<1> QED BY <1>1, <1>2, <1>3 DEF Deferred

\* Without its last token a request still has the tokens of the other channels.
LEMMA DropLast ==
  ASSUME NEW q, NEW p, q.probes \in Seq(Channels), Len(q.probes) # 0,
         p.probes = SubSeq(q.probes, 1, Len(q.probes) - 1), NEW d \in Channels,
         d # q.probes[Len(q.probes)], Deferred(q, d)
  PROVE  Deferred(p, d)
<1> DEFINE n == Len(q.probes)
<1>1. n \in Nat \ {0} /\ DOMAIN q.probes = 1..n
  BY LenProperties
<1>2. PICK i \in 1..n : q.probes[i] = d
  BY <1>1 DEF Deferred
<1>3. i # n
  BY <1>2
<1>4. \A j \in 1..(n - 1) : q.probes[j] \in Channels
  BY <1>1, ElementOfSeq
<1> HIDE DEF n
<1>5. i \in 1..(n - 1)
  BY <1>1, <1>2, <1>3
<1>6. /\ DOMAIN SubSeq(q.probes, 1, n - 1) = 1..(n - 1)
      /\ SubSeq(q.probes, 1, n - 1)[i] = q.probes[i]
  <2>1. /\ SubSeq(q.probes, 1, n - 1) \in Seq(Channels)
        /\ Len(SubSeq(q.probes, 1, n - 1)) = n - 1
        /\ SubSeq(q.probes, 1, n - 1)[i] = q.probes[1 + i - 1]
    BY <1>1, <1>4, <1>5, SubSeqProperties
  <2>2. 1 + i - 1 = i
    BY <1>5
  <2> QED BY <2>1, <2>2, LenProperties
<1> QED BY <1>2, <1>5, <1>6 DEF Deferred, n

\* No step loses a deferred return but Return itself.
LEMMA KeepsDeferred ==
  ASSUME Typed, NEW r \in Requests, NEW q, Keeps(r, q)
  PROVE  \A s \in Requests, c \in Channels : Deferred(req[s], c) => Deferred(req'[s], c)
<1>1. req'[r] = q /\ (\A s \in Requests \ {r} : req'[s] = req[s]) /\ q.probes = req[r].probes
  BY OthersStay DEF Keeps, Advances
<1> QED BY <1>1 DEF Deferred

\* A channel keeps its account when its breaker issues nothing and nobody loses a token.
LEMMA AccountStays ==
  ASSUME Breakers, NEW c \in Channels, AccountOf(c),
         breaker'[c].probe \in {NoProbe, breaker[c].probe},
         c \notin Checked => breaker'[c] = breaker[c],
         \A s \in Requests : Deferred(req[s], c) => Deferred(req'[s], c)
  PROVE  AccountOf(c)'
<1>1. breaker'[c].probe # NoProbe => Deferred(req'[breaker'[c].probe], c)
  BY HolderIs DEF AccountOf
<1>2. c \notin Checked => Untouched(breaker'[c])
  BY DEF AccountOf
<1> QED BY <1>1, <1>2 DEF AccountOf, Deferred, Untouched

\* Put on a checked channel, with no new token: every account stays.
LEMMA PutKeepsAccounts ==
  ASSUME Typed, Accounted, NEW c \in Checked, NEW s, Sound(s), Put(c, s),
         s.probe \in {NoProbe, breaker[c].probe},
         \A t \in Requests, d \in Channels : Deferred(req[t], d) => Deferred(req'[t], d)
  PROVE  Accounted'
<1>1. c \in Channels /\ Breakers
  BY RelayAssumption DEF Typed
<1>2. breaker'[c] = s /\ \A d \in Channels \ {c} : breaker'[d] = breaker[d]
  BY <1>1, PutIs
<1>3. ASSUME NEW d \in Channels PROVE AccountOf(d)'
  <2>1. breaker'[d].probe \in {NoProbe, breaker[d].probe} /\ (d \notin Checked => breaker'[d] = breaker[d])
    BY <1>2
  <2>2. AccountOf(d)
    BY DEF Accounted
  <2> QED BY <1>1, <2>1, <2>2, AccountStays
<1> QED BY <1>3 DEF Accounted

\* The token that Enter takes is deferred by the request that holds it.
LEMMA EnterAccounts ==
  ASSUME Typed, Accounted, NEW r \in Requests, Enter(r)
  PROVE  Accounted'
<1>0. PICK c \in Channels : c = Current(r)
  BY AtWork DEF Typed, Enter
<1> DEFINE issues == c \in Checked /\ IssuesProbe(breaker[c])
<1>1. PICK q : Advances(r, q) /\ q.probes = IF issues THEN Append(req[r].probes, c) ELSE req[r].probes
  BY <1>0, EnterMoves
<1>2. req'[r] = q /\ \A s \in Requests \ {r} : req'[s] = req[s]
  BY <1>1, OthersStay DEF Advances
<1>3. Breakers /\ req[r].probes \in Seq(Channels)
  BY AtWork DEF Typed, Enter
<1>4. IF c \in Checked THEN Put(c, Allow(breaker[c], r)) ELSE breaker' = breaker
  BY <1>0 DEF Enter, Put
<1>5. r \in Holders /\ r # NoProbe
  BY Ranges DEF Requests
<1>6. /\ Sound(Allow(breaker[c], r))
      /\ IF IssuesProbe(breaker[c]) THEN Allow(breaker[c], r).probe = r
         ELSE Allow(breaker[c], r).probe \in {NoProbe, breaker[c].probe}
  BY <1>3, <1>5, SoundBreaker, AllowSound
<1>7. \A s \in Requests, d \in Channels : Deferred(req[s], d) => Deferred(req'[s], d)
  <2>1. \A d \in Channels : Deferred(req[r], d) => Deferred(q, d)
    <3>1. CASE issues
      <4>1. q.probes = Append(req[r].probes, c)
        BY <1>1, <3>1
      <4> QED BY <1>3, <4>1, DeferOne
    <3>2. CASE ~issues
      <4>1. q.probes = req[r].probes
        BY <1>1, <3>2
      <4> QED BY <4>1 DEF Deferred
    <3> QED BY <3>1, <3>2
  <2> QED BY <1>2, <2>1
<1>8. CASE issues
  <2>1. c \in Checked /\ Put(c, Allow(breaker[c], r)) /\ Allow(breaker[c], r).probe = r
    BY <1>4, <1>6, <1>8
  <2>2. breaker'[c].probe = r /\ \A d \in Channels \ {c} : breaker'[d] = breaker[d]
    BY <1>3, <1>6, <2>1, PutIs
  <2>3. Deferred(q, c)
    <3>1. q.probes = Append(req[r].probes, c)
      BY <1>1, <1>8
    <3> QED BY <1>3, <3>1, DeferOne
  <2>4. AccountOf(c)'
    <3>1. Deferred(req'[breaker'[c].probe], c)
      BY <1>2, <2>2, <2>3
    <3>2. c \in Checked
      BY <2>1
    <3> QED BY <3>1, <3>2 DEF AccountOf, Deferred
  <2>5. ASSUME NEW d \in Channels \ {c} PROVE AccountOf(d)'
    BY <1>3, <1>7, <2>2, AccountStays DEF Accounted
  <2> QED BY <2>4, <2>5 DEF Accounted
<1>9. CASE ~issues /\ c \in Checked
  BY <1>4, <1>6, <1>7, <1>9, PutKeepsAccounts
<1>10. CASE c \notin Checked
  <2>1. \A d \in Channels : breaker'[d] = breaker[d]
    BY <1>4, <1>10
  <2>2. ASSUME NEW d \in Channels PROVE AccountOf(d)'
    BY <1>3, <1>7, <2>1, AccountStays DEF Accounted
  <2> QED BY <2>2 DEF Accounted
<1> QED BY <1>8, <1>9, <1>10

\* A token that Return takes from a request is the breaker's no more.
LEMMA ReturnAccounts ==
  ASSUME Typed, Accounted, NEW r \in Requests, Return(r)
  PROVE  Accounted'
<1>0. PICK c \in Channels : c = LastToken(r)
  BY ReturnMoves DEF LastToken
<1>1. PICK q : Advances(r, q) /\ q.probes = SubSeq(req[r].probes, 1, Len(req[r].probes) - 1)
  BY ReturnMoves
<1>2. req'[r] = q /\ \A s \in Requests \ {r} : req'[s] = req[s]
  BY <1>1, OthersStay DEF Advances
<1>3. Breakers /\ req[r].probes \in Seq(Channels) /\ Len(req[r].probes) # 0
  BY AtWork, ReturnMoves DEF Typed, LastToken
<1>4. Put(c, ReleaseOne(breaker[c], r)) /\ r \in Holders
  BY <1>0 DEF Return, Put, LastToken, Requests
<1>5. /\ Sound(ReleaseOne(breaker[c], r))
      /\ ReleaseOne(breaker[c], r).probe \in {NoProbe, breaker[c].probe} \ {r}
  BY <1>3, <1>4, SoundBreaker, ReleaseSound
<1>6. /\ breaker'[c] = ReleaseOne(breaker[c], r)
      /\ \A d \in Channels \ {c} : breaker'[d] = breaker[d]
  BY <1>3, <1>4, <1>5, PutIs
<1>7. c = req[r].probes[Len(req[r].probes)]
  BY <1>0 DEF LastToken
<1>8. AccountOf(c)'
  <2>1. AccountOf(c)
    BY <1>3 DEF Accounted
  <2>2. ASSUME breaker'[c].probe # NoProbe PROVE Deferred(req'[breaker'[c].probe], c)
    <3>1. breaker'[c].probe = breaker[c].probe /\ breaker[c].probe # r
      BY <1>5, <1>6, <2>2
    <3>2. breaker[c].probe \in Requests
      BY <1>3, <2>2, <3>1, HolderIs
    <3>3. req'[breaker[c].probe] = req[breaker[c].probe]
      BY <1>2, <3>1, <3>2
    <3> QED BY <2>1, <2>2, <3>1, <3>3 DEF AccountOf
  <2>3. ASSUME c \notin Checked PROVE Untouched(breaker'[c])
    <3>1. Untouched(breaker[c])
      BY <2>1, <2>3 DEF AccountOf
    <3>2. ReleaseOne(breaker[c], r) = breaker[c]
      BY <1>4, <3>1, UntouchedStays DEF Untouched
    <3> QED BY <1>6, <3>1, <3>2
  <2> QED BY <2>2, <2>3 DEF AccountOf, Deferred, Untouched
<1>9. ASSUME NEW d \in Channels \ {c} PROVE AccountOf(d)'
  <2>1. \A s \in Requests : Deferred(req[s], d) => Deferred(req'[s], d)
    BY <1>1, <1>2, <1>3, <1>7, DropLast
  <2>2. breaker'[d] = breaker[d] /\ AccountOf(d)
    BY <1>6 DEF Accounted
  <2> QED BY <1>3, <2>1, <2>2, AccountStays
<1> QED BY <1>8, <1>9 DEF Accounted

LEMMA OthersAccount ==
  ASSUME Typed, Accounted, NEW r \in Requests, Arrive(r) \/ Step(r) \/ Disconnect(r),
         ~Enter(r), ~Return(r)
  PROVE  Accounted'
<1>1. \E q : Keeps(r, q)
  BY ArriveMoves, CandidateMoves, AnswerMoves, CutMoves, EndMoves DEF Step
<1>2. \A s \in Requests, d \in Channels : Deferred(req[s], d) => Deferred(req'[s], d)
  BY <1>1, KeepsDeferred
<1>3. Breakers /\ r \in Holders
  BY DEF Typed, Requests
<1>4. CASE breaker' = breaker
  <2>1. ASSUME NEW d \in Channels PROVE AccountOf(d)'
    BY <1>2, <1>3, <1>4, AccountStays DEF Accounted
  <2> QED BY <2>1 DEF Accounted
<1>5. CASE CircuitOpen(r) /\ Current(r) \in Checked /\ Put(Current(r), Allow(breaker[Current(r)], r))
  <2>1. ~IssuesProbe(breaker[Current(r)])
    BY <1>5 DEF CircuitOpen, Allows
  <2>2. /\ Sound(Allow(breaker[Current(r)], r))
        /\ Allow(breaker[Current(r)], r).probe \in {NoProbe, breaker[Current(r)].probe}
    BY <1>3, <1>5, <2>1, CandidateIs, SoundBreaker, AllowSound
  <2> QED BY <1>2, <1>5, <2>2, PutKeepsAccounts
<1>6. CASE Current(r) \in Checked /\ Put(Current(r), OnFailure(breaker[Current(r)]))
  BY <1>2, <1>3, <1>6, CandidateIs, SoundBreaker, OnFailureSound, PutKeepsAccounts
<1>7. CASE Current(r) \in Checked /\ Put(Current(r), Converge(breaker[Current(r)]))
  BY <1>2, <1>3, <1>7, CandidateIs, SoundBreaker, ConvergeSound, PutKeepsAccounts
     DEF Sound, Untouched
<1> QED BY <1>4, <1>5, <1>6, <1>7, StepTouches

LEMMA AccountedNext == Typed /\ Accounted /\ [Next]_vars => Accounted'
<1> SUFFICES ASSUME Typed, Accounted, [Next]_vars PROVE Accounted'
  OBVIOUS
<1>1. ASSUME NEW r \in Requests, Arrive(r) \/ Step(r) \/ Disconnect(r) PROVE Accounted'
  BY <1>1, EnterAccounts, ReturnAccounts, OthersAccount
<1>2. CASE Tick
  <2>1. ASSUME NEW c \in Channels PROVE AccountOf(c)'
    <3>1. /\ breaker'[c].probe = breaker[c].probe /\ breaker'[c].state = breaker[c].state
          /\ breaker[c].fails = <<>> => breaker'[c].fails = <<>>
      BY <1>2, TickAges, SoundBreaker, AgedSound DEF Typed
    <3>2. req' = req /\ AccountOf(c)
      BY <1>2 DEF Tick, Accounted
    <3> QED BY <3>1, <3>2 DEF AccountOf, Deferred, Untouched
  <2> QED BY <2>1 DEF Accounted
<1>3. CASE UNCHANGED vars
  BY <1>3 DEF vars, Accounted, AccountOf, Deferred, Untouched
<1> QED BY <1>1, <1>2, <1>3 DEF Next

\* An outstanding probe token always belongs to a request that will return it: no
\* path through relayCore's loop lets a channel wait for a probe nobody holds, and a
\* breaker its channel did not opt into counts nothing.
THEOREM TokensReturn == Spec => []ProbesAccounted
<1>1. Init => Accounted
  BY NewStateIs DEF Init, Accounted, AccountOf, Untouched
<1>2. Typed /\ Accounted => ProbesAccounted
  BY DEF Typed, Breakers, Accounted, AccountOf, Deferred, ProbesAccounted
<1> QED BY <1>1, <1>2, AccountedNext, TypedInit, TypedNext, PTL DEF Spec

------------------------------------------------------------------------------
(* One response *)

LEMMA AnsweredNext ==
  ASSUME PlainUpstreams
  PROVE  Typed /\ Answered /\ [Next]_vars => Answered'
<1> SUFFICES ASSUME Typed, Answered, [Next]_vars PROVE Answered'
  OBVIOUS
<1>1. ASSUME NEW r \in Requests, Arrive(r) \/ Step(r) \/ Disconnect(r) PROVE Answered'
  <2>1. PICK q : Advances(r, q)
    BY <1>1, RequestMoves
  <2>2. AnsweredOnce(q)
    BY <2>1 DEF Advances, Answered
  <2>3. req'[r] = q /\ \A s \in Requests \ {r} : req'[s] = req[s]
    BY <2>1, OthersStay DEF Advances
  <2> QED BY <2>2, <2>3 DEF Answered, AnsweredOnce
<1>2. CASE req' = req
  BY <1>2 DEF Answered, AnsweredOnce
<1> QED BY <1>1, <1>2 DEF Next, Tick, vars

\* With upstreams that answer their streams with a 2xx and whose errors do not read
\* like a cancelled context, a request writes one response head, and it writes one
\* unless its client left: whatever it fails over, whoever else is served.
THEOREM AnsweredExactlyOnce == ASSUME PlainUpstreams PROVE Spec => []OneResponse
<1>1. Init => Answered
  BY IdleIs, NothingWritten DEF Init, Answered
<1>2. Typed /\ Answered => OneResponse
  <2> SUFFICES ASSUME Typed, Answered, NEW r \in Requests
               PROVE  /\ Len(req[r].sent) <= 1
                      /\ req[r].pc = "over" /\ ~req[r].gone => Len(req[r].sent) = 1
    BY DEF OneResponse
  <2>1. /\ req[r].pc \in {"idle", "trying", "preparing", "calling", "streaming", "over"}
        /\ AnsweredOnce(req[r])
    BY AtWork DEF Request, Answered
  <2>2. CASE req[r].sent = <<>> /\ req[r].pc # "over"
    <3>1. Len(req[r].sent) = 0
      BY <2>2, EmptySeq
    <3> QED BY <2>2, <3>1
  <2>3. CASE req[r].pc = "streaming"
    <3>1. Len(req[r].sent) = 1
      BY <2>1, <2>3, Zenon DEF AnsweredOnce
    <3> QED BY <2>3, <3>1
  <2>4. CASE req[r].pc = "over"
    BY <2>1, <2>4, Zenon DEF AnsweredOnce
  <2> QED BY <2>1, <2>2, <2>3, <2>4 DEF AnsweredOnce
<1> QED BY <1>1, <1>2, AnsweredNext, TypedInit, TypedNext, PTL DEF Spec

------------------------------------------------------------------------------
(* Healthy channels *)

\* The only step that blames a channel without its upstream's help is the refresh of
\* its token under a request whose client has left.
LEMMA NeverBlamed ==
  ASSUME NoBailout, NEW r \in Requests, Current(r) \in Healthy
  PROVE  ~Blames(r)
<1>1. /\ Upstream[Current(r)] \subseteq {"rejected"}
      /\ "settings" \notin Faults[Current(r)] /\ "refresh" \notin Faults[Current(r)]
  BY DEF Healthy, NoBailout
<1>2. ~PrepareFails(r)
  BY <1>1 DEF PrepareFails
<1>3. ~CutStream(r)
  BY <1>1 DEF CutStream
<1>4. \A error : CallFails(r, error) => ~ChannelFailure(error)
  BY <1>1 DEF CallFails, ChannelFailure
<1> QED BY <1>2, <1>3, <1>4 DEF Blames

ClosedAndEmpty(s) == s.state = "closed" /\ s.fails = <<>>

\* A step that puts a closed and empty record where a healthy channel is concerned.
LEMMA PutKeepsHealthy ==
  ASSUME Breakers, HealthyStaysClosed, NEW c \in Channels, NEW s, Sound(s), Put(c, s),
         c \in Healthy => ClosedAndEmpty(s)
  PROVE  HealthyStaysClosed'
<1>1. breaker'[c] = s /\ \A d \in Channels \ {c} : breaker'[d] = breaker[d]
  BY PutIs
<1>2. ASSUME NEW d \in Healthy PROVE ClosedAndEmpty(breaker'[d])
  BY <1>1 DEF HealthyStaysClosed, ClosedAndEmpty, Healthy
<1> QED BY <1>2 DEF HealthyStaysClosed, ClosedAndEmpty, Healthy

LEMMA HealthyNext ==
  ASSUME NoBailout
  PROVE  Typed /\ HealthyStaysClosed /\ [Next]_vars => HealthyStaysClosed'
<1> SUFFICES ASSUME Typed, HealthyStaysClosed, [Next]_vars PROVE HealthyStaysClosed'
  OBVIOUS
<1>0. Breakers
  BY DEF Typed
<1>1. ASSUME NEW r \in Requests, Arrive(r) \/ Step(r) \/ Disconnect(r) PROVE HealthyStaysClosed'
  <2>0. r \in Holders
    BY DEF Requests
  <2>1. CASE breaker' = breaker
    BY <2>1 DEF HealthyStaysClosed, Healthy
  <2>2. CASE Current(r) \in Checked /\ Put(Current(r), Allow(breaker[Current(r)], r))
    <3> DEFINE s == Allow(breaker[Current(r)], r)
    <3>1. Current(r) \in Channels /\ Sound(s)
      BY <1>0, <2>0, <2>2, CandidateIs, SoundBreaker, AllowSound
    <3>2. Current(r) \in Healthy => ClosedAndEmpty(s)
      BY <2>0, UntouchedStays DEF HealthyStaysClosed, ClosedAndEmpty
    <3> QED BY <1>0, <2>2, <3>1, <3>2, PutKeepsHealthy
  <2>3. CASE /\ Blames(r) /\ Current(r) \in Checked
             /\ Put(Current(r), OnFailure(breaker[Current(r)]))
    <3>1. Current(r) \in Channels /\ Sound(OnFailure(breaker[Current(r)]))
      BY <1>0, <2>3, CandidateIs, SoundBreaker, OnFailureSound
    <3>2. Current(r) \notin Healthy
      BY <2>3, NeverBlamed
    <3> QED BY <1>0, <2>3, <3>1, <3>2, PutKeepsHealthy
  <2>4. CASE Current(r) \in Checked /\ Put(Current(r), Converge(breaker[Current(r)]))
    <3> DEFINE s == Converge(breaker[Current(r)])
    <3>1. Current(r) \in Channels /\ Sound(s) /\ ClosedAndEmpty(s)
      BY <1>0, <2>4, CandidateIs, SoundBreaker, ConvergeSound DEF Sound, Untouched, ClosedAndEmpty
    <3> QED BY <1>0, <2>4, <3>1, PutKeepsHealthy
  <2>5. CASE Return(r) /\ Put(LastToken(r), ReleaseOne(breaker[LastToken(r)], r))
    <3> DEFINE s == ReleaseOne(breaker[LastToken(r)], r)
    <3>1. LastToken(r) \in Channels
      BY <2>5, ReturnMoves DEF LastToken
    <3>2. /\ Sound(s) /\ s.state = breaker[LastToken(r)].state
          /\ s.fails = breaker[LastToken(r)].fails
      BY <1>0, <2>0, <3>1, SoundBreaker, ReleaseSound
    <3>3. LastToken(r) \in Healthy => ClosedAndEmpty(s)
      BY <3>2 DEF HealthyStaysClosed, ClosedAndEmpty
    <3> QED BY <1>0, <2>5, <3>1, <3>2, <3>3, PutKeepsHealthy
  <2> QED BY <1>1, <2>1, <2>2, <2>3, <2>4, <2>5, StepTouches
<1>2. CASE Tick
  <2>1. ASSUME NEW c \in Healthy PROVE breaker'[c].state = "closed" /\ breaker'[c].fails = <<>>
    <3>1. c \in Channels /\ breaker[c].state = "closed" /\ breaker[c].fails = <<>>
      BY DEF Healthy, HealthyStaysClosed
    <3> QED BY <1>0, <1>2, <3>1, TickAges, SoundBreaker, AgedSound
  <2> QED BY <2>1 DEF HealthyStaysClosed, Healthy
<1>3. CASE UNCHANGED vars
  BY <1>3 DEF vars, HealthyStaysClosed, Healthy
<1> QED BY <1>1, <1>2, <1>3 DEF Next

\* Bad requests and clients that hang up never trip a channel whose upstream answers
\* every call: true as long as no access token is refreshed inside a request, whose
\* cancellation the code takes for the channel's failure.
THEOREM HealthyNeverTrips == ASSUME NoBailout PROVE Spec => []HealthyStaysClosed
<1>1. Init => HealthyStaysClosed
  BY DEF Init, NewState, HealthyStaysClosed, Healthy
<1>2. Typed /\ HealthyStaysClosed /\ [Next]_vars => HealthyStaysClosed'
  BY HealthyNext
<1> QED BY <1>1, <1>2, TypedInit, TypedNext, PTL DEF Spec

------------------------------------------------------------------------------
(* The circuit of a channel *)

\* A step of a request calls at most one method of a channel's breaker.
LEMMA OneMethod ==
  ASSUME Typed, NEW r \in Requests, Arrive(r) \/ Step(r) \/ Disconnect(r), NEW c \in Channels
  PROVE  breaker'[c] \in {breaker[c], Allow(breaker[c], r), OnFailure(breaker[c]),
                          Converge(breaker[c]), ReleaseOne(breaker[c], r)}
<1>1. \A d, s : Put(d, s) => breaker'[c] = IF d = c THEN s ELSE breaker[c]
  BY DEF Put, Typed, Breakers
<1> QED BY <1>1, StepTouches

\* Each method is a step of the channel's circuit or is not seen there.
LEMMA FlakyStep ==
  ASSUME Sound(breaker[flaky]), Settled(breaker[flaky]),
         \/ \E r \in Requests :
              breaker'[flaky] \in
                {breaker[flaky], Allow(breaker[flaky], r), OnFailure(breaker[flaky]),
                 Converge(breaker[flaky]), ReleaseOne(breaker[flaky], r)}
         \/ breaker'[flaky] = Aged(breaker[flaky])
  PROVE  Settled(breaker'[flaky]) /\ [FlakyCircuit!CNext]_(FlakyCircuit!cvars)
<1> DEFINE s == breaker[flaky]
           t == breaker'[flaky]
           Goal == Settled(t) /\ [FlakyCircuit!CNext]_(FlakyCircuit!cvars)
<1>0. s \in Channel
  BY DEF Sound
<1>1. ASSUME t.state = "closed" <=> s.state = "closed", t.fails = s.fails,
             CutAge(t) = CutAge(s), t.probe = s.probe, t.probeAge = s.probeAge, Settled(t)
      PROVE  Goal
  BY <1>1 DEF FlakyCircuit!cvars, CutAge
<1>2. CASE t = s
  BY <1>1, <1>2
<1>3. ASSUME NEW r \in Requests, t = Allow(s, r) PROVE Goal
  <2>1. r \in Holders
    BY DEF Requests
  <2>2. CASE IssuesProbe(s)
    <3>1. /\ Settled(t) /\ s.state # "closed" /\ t.state # "closed" /\ t.fails = s.fails
          /\ CutAge(t) = CutAge(s) /\ CutAge(s) >= OpenDuration
          /\ s.probe = NoProbe \/ s.probeAge >= ProbeTimeout
          /\ t.probe = r /\ t.probeAge = 0
      BY <1>3, <2>1, <2>2, AllowSeen
    <3>2. FlakyCircuit!Lend(r)
      BY <3>1 DEF FlakyCircuit!Lend, FlakyCircuit!Cooled, CutAge, Recent
    <3> QED BY <2>1, <3>1, <3>2 DEF FlakyCircuit!CNext
  <2>3. CASE ~IssuesProbe(s)
    BY <1>1, <1>3, <2>1, <2>3, AllowSeen
  <2> QED BY <2>2, <2>3
<1>4. CASE t = OnFailure(s)
  <2>1. CASE /\ OnFailure(s) = Trip(s)
             /\ IF s.state = "closed" THEN Recent(s.fails)[FailWindow] + 1 >= FailThreshold
                                      ELSE CutAge(s) >= OpenDuration
    <3>1. /\ Settled(t) /\ t.state # "closed" /\ Recent(t.fails) = Quiet
          /\ CutAge(t) = 0 /\ t.probe = NoProbe /\ t.probeAge = 0
      BY <1>0, <1>4, <2>1, TripSeen
    <3>2. FlakyCircuit!CutOff
      BY <2>1, <3>1 DEF FlakyCircuit!CutOff, FlakyCircuit!Cut, FlakyCircuit!Quiet,
           FlakyCircuit!InWindow, FlakyCircuit!Cooled, Quiet, CutAge, Recent
    <3> QED BY <3>1, <3>2 DEF FlakyCircuit!CNext
  <2>2. CASE /\ Settled(OnFailure(s))
             /\ s.state = "closed" /\ OnFailure(s).state = "closed"
             /\ Recent(s.fails)[FailWindow] + 1 < FailThreshold
             /\ Recent(OnFailure(s).fails)
                  = [k \in 0..FailWindow |-> Recent(s.fails)[k] + 1]
             /\ CutAge(OnFailure(s)) = CutAge(s)
             /\ OnFailure(s).probe = s.probe /\ OnFailure(s).probeAge = s.probeAge
    <3>1. FlakyCircuit!Tolerate
      BY <1>4, <2>2 DEF FlakyCircuit!Tolerate, FlakyCircuit!InWindow, CutAge, Recent
    <3> QED BY <1>4, <2>2, <3>1 DEF FlakyCircuit!CNext
  <2> QED BY <1>2, <1>4, <2>1, <2>2, FailureSeen
<1>5. CASE t = Converge(s)
  <2>1. /\ Settled(t) /\ t.state = "closed" /\ Recent(t.fails) = Quiet
        /\ CutAge(t) = 0 /\ t.probe = NoProbe /\ t.probeAge = 0
    BY <1>0, <1>5, ConvergeSeen
  <2>2. FlakyCircuit!Restore
    BY <2>1 DEF FlakyCircuit!Restore, FlakyCircuit!Quiet, Quiet, CutAge, Recent
  <2> QED BY <2>1, <2>2 DEF FlakyCircuit!CNext
<1>6. ASSUME NEW r \in Requests, t = ReleaseOne(s, r), t # s PROVE Goal
  <2>1. /\ Settled(t) /\ s.probe # NoProbe /\ t.state = s.state /\ t.fails = s.fails
        /\ CutAge(t) = CutAge(s) /\ t.probe = NoProbe /\ t.probeAge = 0
    BY <1>6, ReleaseSeen DEF Requests
  <2>2. FlakyCircuit!GiveBack
    BY <2>1 DEF FlakyCircuit!GiveBack, CutAge, Recent
  <2> QED BY <2>1, <2>2 DEF FlakyCircuit!CNext
<1>7. CASE t = Aged(s)
  <2>1. /\ Settled(t) /\ t.state = s.state /\ t.probe = s.probe
        /\ Recent(t.fails)
             = [k \in 0..FailWindow |-> IF k = 0 THEN 0 ELSE Recent(s.fails)[k - 1]]
        /\ CutAge(t) = IF s.state = "closed" THEN 0 ELSE Older(CutAge(s), OpenDuration)
        /\ t.probeAge = IF s.probe = NoProbe THEN 0 ELSE Older(s.probeAge, ProbeTimeout)
    BY <1>7, AgedSeen
  <2>2. FlakyCircuit!Pass
    BY <2>1 DEF FlakyCircuit!Pass, FlakyCircuit!Plus1, Older, CutAge, Recent
  <2> QED BY <2>1, <2>2 DEF FlakyCircuit!CNext
<1> QED BY <1>2, <1>3, <1>4, <1>5, <1>6, <1>7

\* Under the requests relayCore makes every channel keeps the promise CircuitSpec,
\* whichever channel flaky is: it is cut exactly when its window fills, at least for
\* the cool-down, and lends one probe at a time.
THEOREM ChannelKeepsPromise ==
  ASSUME flaky \in Channels PROVE Spec => FlakyKeepsPromise
<1> DEFINE Inv == Typed /\ Settled(breaker[flaky])
<1>1. Init => Settled(breaker[flaky]) /\ FlakyCircuit!CInit
  <2>1. Init => breaker[flaky] = NewState
    BY DEF Init
  <2>2. /\ NewState.state = "closed" /\ NewState.probe = NoProbe /\ NewState.probeAge = 0
        /\ Settled(NewState) /\ Recent(NewState.fails) = Quiet /\ CutAge(NewState) = 0
    BY NewStateSettled DEF NewState
  <2> QED BY <2>1, <2>2 DEF FlakyCircuit!CInit, FlakyCircuit!Quiet, Quiet, CutAge, Recent
<1>2. Inv /\ [Next]_vars =>
        Settled(breaker'[flaky]) /\ [FlakyCircuit!CNext]_(FlakyCircuit!cvars)
  <2>1. SUFFICES ASSUME Inv, [Next]_vars
                 PROVE  Settled(breaker'[flaky]) /\ [FlakyCircuit!CNext]_(FlakyCircuit!cvars)
    OBVIOUS
  <2>2. Typed /\ Sound(breaker[flaky]) /\ Settled(breaker[flaky])
    BY <2>1, SoundBreaker DEF Typed
  <2>3. CASE UNCHANGED vars
    <3>1. breaker' = breaker
      BY <2>3 DEF vars
    <3> QED BY <2>2, <3>1 DEF FlakyCircuit!cvars, CutAge
  <2>4. ASSUME NEW r \in Requests, Arrive(r) \/ Step(r) \/ Disconnect(r)
        PROVE  Settled(breaker'[flaky]) /\ [FlakyCircuit!CNext]_(FlakyCircuit!cvars)
    BY <2>2, <2>4, OneMethod, FlakyStep
  <2>5. CASE Tick
    <3>1. breaker'[flaky] = Aged(breaker[flaky])
      BY <2>5 DEF Tick
    <3> QED BY <2>2, <3>1, FlakyStep
  <2> QED BY <2>1, <2>3, <2>4, <2>5 DEF Next
<1>3. Inv /\ [Next]_vars => Inv'
  BY <1>2, TypedNext
<1> QED BY <1>1, <1>2, <1>3, TypedInit, PTL DEF Spec, FlakyKeepsPromise, FlakyCircuit!CSpec
=============================================================================
