------------------------- MODULE Bookkeeping_proofs -------------------------
(***************************************************************************)
(* Theorems about what the relay keeps beside the answers it forwards:     *)
(* the limits of an API key (RateLimiter), and the usage snapshots and     *)
(* diagnostics of the channels (ChannelSignals).                           *)
(*                                                                         *)
(* The first part is for every limit, set of requests and number of        *)
(* faults.  The counter of running requests is compared with the number of *)
(* requests that will still decrement it; a client that hung up is a fault *)
(* already paid for and not yet felt (Leak).  The second part is for every *)
(* number of calls and channels, every interval, window and queue.         *)
(***************************************************************************)
EXTENDS RateLimiter, ChannelSignals, TLAPS, FunctionTheorems, FiniteSetTheorems

------------------------------------------------------------------------------
(* The limits of a key: the invariant *)

\* TypeOK without the bounds that keep TLC's state space finite.
Typed ==
  /\ conc \in Int
  /\ pc \in [Requests -> Places]
  /\ gone \subseteq Requests
  /\ faults \in [Faults -> Nat]

CountedN == Cardinality(Counted)
RunningN == Cardinality(Running)
GoneN == Cardinality(gone)

\* The faults that may take a place of the key.
Costly == faults["decr"] + faults["lost"] + faults["hangup"]

\* What only a fault brings about.
Caused ==
  /\ gone # {} => ~Faultless
  /\ Faultless => ttl = FALSE /\ \A r \in Requests : pc[r] # "healing"

CapKept == Faultless => conc = CountedN /\ RunningN <= ConcurrencyPerKey

Leak ==
  faults["crash"] = 0 =>
    GoneN <= faults["hangup"] /\ conc + GoneN <= CountedN + Costly

IndInv == Typed /\ Caused /\ CapKept /\ Leak

------------------------------------------------------------------------------
(* Counting *)

\* The three sets are finite, and who runs is counted.
LEMMA Finite ==
  ASSUME Typed
  PROVE  /\ IsFiniteSet(Counted) /\ IsFiniteSet(Running) /\ IsFiniteSet(gone)
         /\ CountedN \in Nat /\ RunningN \in Nat /\ GoneN \in Nat
         /\ RunningN <= CountedN
<1>1. Counted \subseteq Requests /\ Running \subseteq Counted
  BY DEF Counted, Running
<1>2. gone \subseteq Requests /\ IsFiniteSet(Requests)
  BY LimiterAssumption DEF Typed
<1>3. IsFiniteSet(Counted) /\ IsFiniteSet(gone)
  BY <1>1, <1>2, FS_Subset
<1>4. IsFiniteSet(Running) /\ Cardinality(Running) <= Cardinality(Counted)
  BY <1>1, <1>3, FS_Subset
<1> QED BY <1>3, <1>4, FS_CardinalityType DEF CountedN, RunningN, GoneN

\* Adding an element to a finite set, removing one.
LEMMA OneMore ==
  ASSUME NEW S, IsFiniteSet(S), NEW x
  PROVE  Cardinality(S \cup {x}) = IF x \in S THEN Cardinality(S) ELSE Cardinality(S) + 1
  BY FS_AddElement

LEMMA OneLess ==
  ASSUME NEW S, IsFiniteSet(S), NEW x
  PROVE  Cardinality(S \ {x}) = IF x \in S THEN Cardinality(S) - 1 ELSE Cardinality(S)
  BY FS_RemoveElement

\* How one request's move changes the three counts.
LEMMA Moves ==
  ASSUME Typed, NEW r \in Requests, NEW place \in Places, Goto(r, place)
  PROVE  /\ pc' \in [Requests -> Places] /\ gone' \subseteq gone
         /\ CountedN' = (IF r \in Counted THEN CountedN - 1 ELSE CountedN)
                          + (IF place \in {"running", "over"} THEN 1 ELSE 0)
         /\ RunningN' = (IF r \in Running THEN RunningN - 1 ELSE RunningN)
                          + (IF place = "running" THEN 1 ELSE 0)
         /\ GoneN' = IF place = "idle" /\ r \in gone THEN GoneN - 1 ELSE GoneN
<1>1. pc' = [pc EXCEPT ![r] = place] /\ pc' \in [Requests -> Places]
  BY DEF Goto, Typed
<1>2. Counted' = IF place \in {"running", "over"} THEN (Counted \ {r}) \cup {r}
                                                  ELSE Counted \ {r}
  BY <1>1 DEF Counted, Typed
<1>3. Running' = IF place = "running" THEN (Running \ {r}) \cup {r} ELSE Running \ {r}
  BY <1>1 DEF Running, Typed
<1>4. gone' = IF place = "idle" THEN gone \ {r} ELSE gone
  BY DEF Goto
<1>5. IsFiniteSet(Counted \ {r}) /\ IsFiniteSet(Running \ {r})
  BY Finite, FS_RemoveElement
<1>6. CountedN' = (IF r \in Counted THEN CountedN - 1 ELSE CountedN)
                    + (IF place \in {"running", "over"} THEN 1 ELSE 0)
  <2>1. Cardinality(Counted \ {r}) = IF r \in Counted THEN CountedN - 1 ELSE CountedN
    BY Finite, OneLess DEF CountedN
  <2>2. Cardinality((Counted \ {r}) \cup {r}) = Cardinality(Counted \ {r}) + 1
    BY <1>5, OneMore
  <2> QED BY <1>2, <2>1, <2>2, Finite DEF CountedN
<1>7. RunningN' = (IF r \in Running THEN RunningN - 1 ELSE RunningN)
                    + (IF place = "running" THEN 1 ELSE 0)
  <2>1. Cardinality(Running \ {r}) = IF r \in Running THEN RunningN - 1 ELSE RunningN
    BY Finite, OneLess DEF RunningN
  <2>2. Cardinality((Running \ {r}) \cup {r}) = Cardinality(Running \ {r}) + 1
    BY <1>5, OneMore
  <2> QED BY <1>3, <2>1, <2>2, Finite DEF RunningN
<1>8. GoneN' = IF place = "idle" /\ r \in gone THEN GoneN - 1 ELSE GoneN
  BY <1>4, Finite, OneLess DEF GoneN
<1> QED BY <1>1, <1>4, <1>6, <1>7, <1>8

\* A counted request makes the count positive.
LEMMA Positive ==
  ASSUME Typed, NEW r \in Counted
  PROVE  CountedN > 0
  BY Finite, FS_EmptySet DEF CountedN

\* Without a fault the counts of the faults stay; a fault adds one to its kind.
LEMMA FaultCounts ==
  ASSUME Typed, NEW kind \in Faults, Fault(kind)
  PROVE  /\ faults' \in [Faults -> Nat] /\ Costly \in Nat
         /\ ~Faultless'
         /\ faults'["crash"] = IF kind = "crash" THEN faults["crash"] + 1
                                                 ELSE faults["crash"]
         /\ faults'["hangup"] = IF kind = "hangup" THEN faults["hangup"] + 1
                                                   ELSE faults["hangup"]
         /\ Costly' = IF kind \in {"decr", "lost", "hangup"} THEN Costly + 1 ELSE Costly
<1>1. faults' = [faults EXCEPT ![kind] = faults[kind] + 1]
  BY DEF Fault
<1>2. /\ \A k \in Faults : faults[k] \in Nat
      /\ \A k \in Faults : faults'[k] = IF k = kind THEN faults[k] + 1 ELSE faults[k]
      /\ faults' \in [Faults -> Nat]
  BY <1>1 DEF Typed
<1>3. {"decr", "lost", "hangup", "crash"} \subseteq Faults
  BY DEF Faults
<1>4. ~Faultless'
  <2>1. faults'[kind] # 0
    BY <1>2
  <2> QED BY <2>1 DEF Faultless
<1> QED BY <1>2, <1>3, <1>4 DEF Costly

\* The counts of the faults, seen from a step without any.
LEMMA NoFault ==
  ASSUME Typed
  PROVE  /\ \A k \in {"decr", "lost", "hangup", "crash"} : faults[k] \in Nat
         /\ Costly \in Nat /\ faults["hangup"] <= Costly
         /\ UNCHANGED faults => Costly' = Costly /\ (Faultless' <=> Faultless)
<1>1. \A k \in Faults : faults[k] \in Nat
  BY DEF Typed
<1>2. {"decr", "lost", "hangup", "crash"} \subseteq Faults
  BY DEF Faults
<1>3. UNCHANGED faults => Costly' = Costly /\ (Faultless' <=> Faultless)
  BY DEF Costly, Faultless
<1> QED BY <1>1, <1>2, <1>3 DEF Costly

\* The kinds that have an action.
LEMMA Kinds == {"incr", "decr", "set", "lost", "hangup", "crash"} \subseteq Faults
  BY DEF Faults

------------------------------------------------------------------------------
(* The steps of a request *)

\* The minute's bucket lets a request pass, with or without an answer of Redis.
LEMMA Entering ==
  ASSUME IndInv, NEW r \in Requests, CountMinute(r) \/ CountMinuteFails(r)
  PROVE  IndInv'
<1> USE DEF IndInv
<1>1. pc[r] = "idle" /\ UNCHANGED <<conc, ttl>>
  BY DEF CountMinute, CountMinuteFails
<1>2. UNCHANGED faults \/ Fault("incr")
  BY DEF CountMinute, CountMinuteFails
<1>3. /\ pc' \in [Requests -> Places] /\ gone' \subseteq gone
      /\ CountedN' = CountedN /\ RunningN' = RunningN /\ GoneN' = GoneN
      /\ \A q \in Requests : pc'[q] = "healing" => pc[q] = "healing"
  <2>1. CASE Goto(r, "counting")
    <3>1. "counting" \in Places
      BY DEF Places
    <3>2. r \notin Counted /\ r \notin Running
      BY <1>1 DEF Counted, Running
    <3>3. \A q \in Requests : pc'[q] = "healing" => pc[q] = "healing"
      BY <2>1 DEF Goto, Typed
    <3> QED BY <2>1, <3>1, <3>2, <3>3, Moves, Finite
  <2>2. CASE UNCHANGED <<pc, gone>>
    BY <2>2 DEF Typed, CountedN, RunningN, GoneN, Counted, Running
  <2> QED BY <2>1, <2>2 DEF CountMinute, CountMinuteFails
<1>4. CASE UNCHANGED faults
  BY <1>1, <1>3, <1>4, NoFault, Finite DEF Typed, Caused, CapKept, Leak
<1>5. CASE Fault("incr")
  BY <1>1, <1>3, <1>5, FaultCounts, NoFault, Kinds, Finite DEF Typed, Caused, CapKept, Leak
<1> QED BY <1>2, <1>4, <1>5

\* INCR and the comparison admit a request only below the cap.
LEMMA Admitting ==
  ASSUME IndInv, NEW r \in Requests, CountRunning(r)
  PROVE  IndInv'
<1> USE DEF IndInv
<1> DEFINE place == IF Admits(conc + 1) THEN "running" ELSE "over"
<1>1. /\ pc[r] = "counting" /\ conc' = conc + 1 /\ Goto(r, place)
      /\ UNCHANGED <<ttl, faults>>
  BY DEF CountRunning
<1>2. place \in {"running", "over"} /\ place \in Places
  BY DEF Places
<1>3. place = "running" => conc + 1 <= ConcurrencyPerKey
  BY DEF Admits
<1>4. \A q \in Requests : pc'[q] = "healing" => pc[q] = "healing"
  BY <1>1 DEF Goto, Typed
<1>5. r \notin Counted /\ r \notin Running
  BY <1>1 DEF Counted, Running
<1> HIDE DEF place
<1>6. /\ pc' \in [Requests -> Places] /\ gone' \subseteq gone
      /\ CountedN' = CountedN + 1 /\ GoneN' = GoneN
      /\ RunningN' = IF place = "running" THEN RunningN + 1 ELSE RunningN
  BY <1>1, <1>2, <1>5, Moves, Finite
<1>7. Typed' /\ Caused'
  BY <1>1, <1>4, <1>6, NoFault DEF Typed, Caused
<1>8. CapKept' /\ Leak'
  BY <1>1, <1>3, <1>6, NoFault, Finite, LimiterAssumption DEF CapKept, Leak, Typed
<1> QED BY <1>7, <1>8

\* Without an answer the request runs, counted by Redis or not.
LEMMA Passing ==
  ASSUME IndInv, NEW r \in Requests, CountRunningFails(r)
  PROVE  IndInv'
<1> USE DEF IndInv
<1>1. pc[r] = "counting" /\ Goto(r, "running") /\ ttl' = ttl
  BY DEF CountRunningFails
<1>2. \/ conc' \in {conc, conc + 1} /\ Fault("incr")
      \/ r \in gone /\ UNCHANGED <<conc, faults>>
  BY DEF CountRunningFails
<1>3. \A q \in Requests : pc'[q] = "healing" => pc[q] = "healing"
  BY <1>1 DEF Goto, Typed
<1>4. r \notin Counted /\ r \notin Running /\ "running" \in Places
  BY <1>1 DEF Counted, Running, Places
<1>5. /\ pc' \in [Requests -> Places] /\ gone' \subseteq gone
      /\ CountedN' = CountedN + 1 /\ GoneN' = GoneN /\ RunningN' = RunningN + 1
  BY <1>1, <1>4, Moves, Finite
<1>6. ~Faultless' /\ faults' \in [Faults -> Nat]
  <2>1. CASE Fault("incr")
    BY <2>1, FaultCounts, Kinds
  <2>2. CASE r \in gone /\ UNCHANGED faults
    BY <2>2, NoFault DEF Caused, Typed
  <2> QED BY <1>2, <2>1, <2>2
<1>7. Typed' /\ Caused' /\ CapKept'
  BY <1>2, <1>5, <1>6 DEF Typed, Caused, CapKept
<1>8. Leak'
  <2>1. CASE conc' \in {conc, conc + 1} /\ Fault("incr")
    BY <1>5, <2>1, FaultCounts, NoFault, Kinds, Finite DEF Leak, Typed
  <2>2. CASE UNCHANGED <<conc, faults>>
    BY <1>5, <2>2, NoFault, Finite DEF Leak, Typed
  <2> QED BY <1>2, <2>1, <2>2
<1> QED BY <1>7, <1>8

\* A request beyond the limit takes itself back, or fails to.
LEMMA Undoing ==
  ASSUME IndInv, NEW r \in Requests, Undo(r) \/ UndoFails(r)
  PROVE  IndInv'
<1> USE DEF IndInv
<1>1. pc[r] = "over" /\ Goto(r, "idle") /\ ttl' = ttl
  BY DEF Undo, UndoFails
<1>2. \/ conc' = conc - 1 /\ r \notin gone /\ UNCHANGED faults
      \/ conc' \in {conc, conc - 1} /\ Fault("decr")
      \/ r \in gone /\ UNCHANGED <<conc, faults>>
  BY DEF Undo, UndoFails, Undone
<1>3. \A q \in Requests : pc'[q] = "healing" => pc[q] = "healing"
  BY <1>1 DEF Goto, Typed
<1>4. r \in Counted /\ r \notin Running /\ "idle" \in Places
  BY <1>1 DEF Counted, Running, Places
<1>5. /\ pc' \in [Requests -> Places] /\ gone' \subseteq gone
      /\ CountedN' = CountedN - 1 /\ RunningN' = RunningN
      /\ GoneN' = IF r \in gone THEN GoneN - 1 ELSE GoneN
  BY <1>1, <1>4, Moves, Finite
<1>6. CASE conc' = conc - 1 /\ r \notin gone /\ UNCHANGED faults
  <2>1. Typed' /\ Caused'
    BY <1>1, <1>3, <1>5, <1>6, NoFault DEF Typed, Caused
  <2>2. CapKept' /\ Leak'
    BY <1>5, <1>6, NoFault, Finite DEF CapKept, Leak, Typed
  <2> QED BY <2>1, <2>2
<1>7. CASE conc' \in {conc, conc - 1} /\ Fault("decr")
  <2>1. Typed' /\ Caused' /\ CapKept'
    BY <1>5, <1>7, FaultCounts, Kinds DEF Typed, Caused, CapKept
  <2>2. Leak'
    BY <1>5, <1>7, FaultCounts, NoFault, Kinds, Finite DEF Leak, Typed
  <2> QED BY <2>1, <2>2
<1>8. CASE r \in gone /\ UNCHANGED <<conc, faults>>
  <2>1. ~Faultless'
    BY <1>8, NoFault DEF Caused
  <2>2. Typed' /\ Caused' /\ CapKept'
    BY <1>5, <1>8, <2>1 DEF Typed, Caused, CapKept
  <2>3. Leak'
    BY <1>5, <1>8, NoFault, Finite DEF Leak, Typed
  <2> QED BY <2>2, <2>3
<1> QED BY <1>2, <1>6, <1>7, <1>8

\* A request ends.  A counter below zero, seen only after a fault, is to be healed.
LEMMA Releasing ==
  ASSUME IndInv, NEW r \in Requests, Release(r) \/ ReleaseFails(r)
  PROVE  IndInv'
<1> USE DEF IndInv
<1>1. pc[r] = "running" /\ ttl' = ttl
  BY DEF Release, ReleaseFails
<1>2. r \in Counted /\ r \in Running /\ CountedN > 0
  BY <1>1, Positive DEF Counted, Running
<1>3. PICK place \in {"idle", "healing"} :
        /\ Goto(r, place)
        /\ \/ /\ conc' = conc - 1 /\ UNCHANGED faults
              /\ place = "healing" => conc - 1 < 0
           \/ /\ place = "idle" /\ conc' \in {conc, conc - 1}
              /\ Fault("decr")
  <2>1. CASE Release(r)
    BY <2>1 DEF Release
  <2>2. CASE ReleaseFails(r)
    BY <2>2 DEF ReleaseFails
  <2> QED BY <2>1, <2>2
<1>4. /\ pc' \in [Requests -> Places] /\ gone' \subseteq gone
      /\ CountedN' = CountedN - 1 /\ RunningN' = RunningN - 1
      /\ GoneN' \in {GoneN, GoneN - 1}
  <2>1. place \in Places /\ place \notin {"running", "over"}
    BY DEF Places
  <2> QED BY <1>2, <1>3, <2>1, Moves, Finite
<1>5. CASE Fault("decr")
  <2>1. Typed' /\ Caused' /\ CapKept'
    BY <1>3, <1>4, <1>5, FaultCounts, Kinds DEF Typed, Caused, CapKept
  <2>2. Leak'
    BY <1>3, <1>4, <1>5, FaultCounts, NoFault, Kinds, Finite DEF Leak, Typed
  <2> QED BY <2>1, <2>2
<1>6. CASE /\ conc' = conc - 1 /\ UNCHANGED faults
           /\ place = "healing" => conc - 1 < 0
  <2>1. ASSUME Faultless
        PROVE  place = "idle" /\ \A q \in Requests : pc'[q] # "healing"
    <3>1. place = "idle"
      BY <1>2, <1>6, <2>1, Finite DEF CapKept, Typed
    <3> QED BY <1>3, <2>1, <3>1 DEF Goto, Typed, Caused
  <2>2. Typed' /\ Caused'
    BY <1>1, <1>4, <1>6, <2>1, NoFault DEF Typed, Caused
  <2>3. CapKept' /\ Leak'
    BY <1>4, <1>6, NoFault, Finite, LimiterAssumption DEF CapKept, Leak, Typed
  <2> QED BY <2>2, <2>3
<1> QED BY <1>3, <1>5, <1>6

\* SET 0 is never above the requests that are counted.
LEMMA Healing ==
  ASSUME IndInv, NEW r \in Requests, Heal(r) \/ HealFails(r)
  PROVE  IndInv'
<1> USE DEF IndInv
<1>1. /\ pc[r] = "healing" /\ Goto(r, "idle")
      /\ \/ conc' = 0 /\ UNCHANGED faults
         \/ conc' = conc /\ Fault("set")
  BY DEF Heal, HealFails
<1>2. r \notin Counted /\ r \notin Running /\ "idle" \in Places
  BY <1>1 DEF Counted, Running, Places
<1>3. /\ pc' \in [Requests -> Places] /\ gone' \subseteq gone
      /\ CountedN' = CountedN /\ RunningN' = RunningN
      /\ GoneN' \in {GoneN, GoneN - 1}
  BY <1>1, <1>2, Moves, Finite
<1>4. CASE conc' = 0 /\ UNCHANGED faults
  <2>1. ~Faultless'
    BY <1>1, <1>4, NoFault DEF Caused
  <2>2. Typed' /\ Caused' /\ CapKept'
    BY <1>3, <1>4, <2>1 DEF Typed, Caused, CapKept
  <2>3. Leak'
    BY <1>3, <1>4, NoFault, Finite DEF Leak, Typed
  <2> QED BY <2>2, <2>3
<1>5. CASE conc' = conc /\ Fault("set")
  <2>1. Typed' /\ Caused' /\ CapKept'
    BY <1>3, <1>5, FaultCounts, Kinds DEF Typed, Caused, CapKept
  <2>2. Leak'
    BY <1>3, <1>5, FaultCounts, NoFault, Kinds, Finite DEF Leak, Typed
  <2> QED BY <2>1, <2>2
<1> QED BY <1>1, <1>4, <1>5

\* A command sent again: at most one place more, and one lost reply.
LEMMA SendingAgain ==
  ASSUME IndInv, NEW r \in Requests, Resent(r)
  PROVE  IndInv'
<1> USE DEF IndInv
<1>1. Fault("lost") /\ UNCHANGED <<pc, gone>> /\ conc' \in {conc, conc + 1, conc - 1, 0}
  BY DEF Resent, Undone
<1>2. CountedN' = CountedN /\ RunningN' = RunningN /\ GoneN' = GoneN
  BY <1>1 DEF CountedN, RunningN, GoneN, Counted, Running
<1>3. Typed' /\ Caused' /\ CapKept'
  BY <1>1, <1>2, FaultCounts, Kinds DEF Typed, Caused, CapKept
<1>4. Leak'
  BY <1>1, <1>2, FaultCounts, NoFault, Kinds, Finite DEF Leak, Typed
<1> QED BY <1>3, <1>4

\* A client hangs up: one fault, one client.
LEMMA Leaving ==
  ASSUME IndInv, NEW r \in Requests, HangUp(r)
  PROVE  IndInv'
<1> USE DEF IndInv
<1>1. /\ r \notin gone /\ gone' = gone \cup {r} /\ UNCHANGED <<conc, pc>>
      /\ Fault("hangup")
  BY DEF HangUp
<1>2. CountedN' = CountedN /\ RunningN' = RunningN
  BY <1>1 DEF CountedN, RunningN, Counted, Running
<1>3. GoneN' = GoneN + 1
  BY <1>1, Finite, OneMore DEF GoneN
<1>4. Typed' /\ Caused' /\ CapKept'
  BY <1>1, <1>2, FaultCounts, Kinds DEF Typed, Caused, CapKept
<1>5. Leak'
  BY <1>1, <1>2, <1>3, FaultCounts, NoFault, Kinds, Finite DEF Leak, Typed
<1> QED BY <1>4, <1>5

------------------------------------------------------------------------------
(* Redis and the process *)

\* A new minute, the TTL of a healed counter, a crash, or nothing.
LEMMA World ==
  ASSUME IndInv, NewMinute \/ Expire \/ Crash \/ UNCHANGED vars
  PROVE  IndInv'
<1> USE DEF IndInv
<1>1. CASE NewMinute \/ UNCHANGED vars
  <2>1. UNCHANGED <<conc, ttl, pc, gone, faults>>
    BY <1>1 DEF NewMinute, vars
  <2>2. CountedN' = CountedN /\ RunningN' = RunningN /\ GoneN' = GoneN
    BY <2>1 DEF CountedN, RunningN, GoneN, Counted, Running
  <2> QED BY <2>1, <2>2, NoFault DEF Typed, Caused, CapKept, Leak
<1>2. CASE Crash
  <2>1. pc' = [q \in Requests |-> "idle"] /\ gone' = {} /\ conc' = conc /\ Fault("crash")
    BY <1>2 DEF Crash
  <2>2. ~Faultless' /\ faults' \in [Faults -> Nat] /\ faults'["crash"] # 0
    BY <2>1, FaultCounts, NoFault, Kinds
  <2>3. Typed' /\ Caused'
    BY <2>1, <2>2 DEF Typed, Caused, Places
  <2> QED BY <2>2, <2>3 DEF CapKept, Leak
<1>3. CASE Expire
  <2>1. ttl /\ conc' = 0 /\ UNCHANGED <<pc, gone, faults>>
    BY <1>3 DEF Expire
  <2>2. CountedN' = CountedN /\ RunningN' = RunningN /\ GoneN' = GoneN
    BY <2>1 DEF CountedN, RunningN, GoneN, Counted, Running
  <2>3. ~Faultless'
    BY <2>1, NoFault DEF Caused
  <2>4. Typed' /\ Caused' /\ CapKept'
    BY <2>1, <2>2, <2>3 DEF Typed, Caused, CapKept
  <2>5. Leak'
    BY <2>1, <2>2, NoFault, Finite DEF Leak, Typed
  <2> QED BY <2>4, <2>5
<1> QED BY <1>1, <1>2, <1>3

\* Everything starts at zero.
LEMMA InitInv == Init => IndInv
<1> SUFFICES ASSUME Init PROVE IndInv
  OBVIOUS
<1>1. Typed /\ Caused
  BY DEF Init, Typed, Caused, Places, Faults
<1>2. Counted = {} /\ Running = {} /\ gone = {}
  BY DEF Init, Counted, Running
<1>3. CountedN = 0 /\ RunningN = 0 /\ GoneN = 0
  BY <1>2, FS_EmptySet DEF CountedN, RunningN, GoneN
<1>4. CapKept /\ Leak
  BY <1>1, <1>3, NoFault, LimiterAssumption DEF Init, CapKept, Leak
<1> QED BY <1>1, <1>4 DEF IndInv

\* Every step keeps the invariant.
LEMMA NextInv == IndInv /\ [Next]_vars => IndInv'
<1> SUFFICES ASSUME IndInv, [Next]_vars PROVE IndInv'
  OBVIOUS
<1>1. CASE \E r \in Requests : Request(r) \/ Failure(r)
  <2>1. PICK r \in Requests : Request(r) \/ Failure(r)
    BY <1>1
  <2> QED BY <2>1, Entering, Admitting, Passing, Undoing, Releasing, Healing,
             SendingAgain, Leaving
          DEF Request, Failure
<1>2. CASE NewMinute \/ Expire \/ Crash \/ UNCHANGED vars
  BY <1>2, World
<1> QED BY <1>1, <1>2 DEF Next

\* The invariant holds in every behaviour.
LEMMA Invariance == Spec => []IndInv
  BY InitInv, NextInv, PTL DEF Spec

\* Never more than ConcurrencyPerKey requests of a key run while nothing has failed,
\* though INCR, comparison and DECR are separate commands (ratelimit.go:57-62).
THEOREM CapIsHeld == Spec => []CapHeld
<1>1. IndInv => CapHeld
  BY DEF IndInv, CapKept, CapHeld, CountedN, RunningN
<1> QED BY <1>1, Invariance, PTL

\* Without a crash the key loses at most one place per failed DECR, per reply lost and
\* command sent again, and per client that hung up inside Check; failed INCRs and a
\* failed healing cost it none (ratelimit.go:57-72).
THEOREM LeakIsBounded == Spec => []BoundedLeak
<1>1. IndInv => BoundedLeak
  <2> SUFFICES ASSUME IndInv, faults["crash"] = 0
             PROVE  conc <= CountedN + Costly
    <3>1. ASSUME IndInv, faults["crash"] = 0
          PROVE  Cardinality(Counted) + faults["decr"] + faults["lost"] + faults["hangup"]
                   = CountedN + Costly
      BY <3>1, NoFault, Finite DEF IndInv, CountedN, Costly
    <3> QED BY <3>1 DEF BoundedLeak
  <2> QED BY NoFault, Finite DEF IndInv, Typed, Leak
<1> QED BY <1>1, Invariance, PTL

------------------------------------------------------------------------------
(* What the relay notes about its channels *)

\* A step of the whole is a step of each part, or none.
SStep == SNext \/ STick \/ SRestart \/ UNCHANGED svars
DStep == DNext \/ DTick \/ DRestart \/ UNCHANGED dvars

LEMMA Parts == [SignalsNext]_cvars => SStep /\ DStep
  BY DEF SignalsNext, cvars, Tick, Restart, SStep, DStep

------------------------------------------------------------------------------
(* The snapshot: types *)

CallPlaces == {"idle", "probe", "store", "mark", "create", "merge"}

Call == [pc : CallPlaces, age : Nat, credits : Nat, late : BOOLEAN]

SnapshotTyped ==
  /\ row \in [status : {"none", "ok", "error"}, credits : Nat]
  /\ attempt \in 0..MinInterval
  /\ call \in [Calls -> Call]
  /\ probes \in Nat /\ probed \in Nat

LEMMA SilentTyped == Silent \in Call
  BY DEF Silent, Call, CallPlaces

LEMMA CallMoves ==
  ASSUME SnapshotTyped, NEW k \in Calls, NEW c \in Call, Move(k, c)
  PROVE  /\ call' \in [Calls -> Call] /\ call'[k] = c
         /\ \A j \in Calls \ {k} : call'[j] = call[j]
  BY DEF SnapshotTyped, Move

\* The records a call may become.
LEMMA CallForms ==
  /\ [Silent EXCEPT !.pc = "probe"] \in Call
  /\ [Silent EXCEPT !.pc = "mark"] \in Call
  /\ [Silent EXCEPT !.pc = "create"] \in Call
  /\ \A n \in Nat : [Silent EXCEPT !.pc = "store", !.credits = n] \in Call
  /\ \A n \in Nat : [Silent EXCEPT !.pc = "merge", !.credits = n] \in Call
  BY DEF Silent, Call, CallPlaces

LEMMA SnapshotInitTyped == SInit => SnapshotTyped
  BY SnapshotAssumption, SilentTyped DEF SInit, SnapshotTyped

\* After a probe is stored the merges under way are late; nothing else changes of them.
LEMMA OthersLate ==
  ASSUME SnapshotTyped, NEW k \in Calls, Store(k)
  PROVE  /\ call' \in [Calls -> Call] /\ call'[k] = Silent
         /\ \A j \in Calls \ {k} :
              /\ call'[j].pc = call[j].pc /\ call'[j].age = call[j].age
              /\ call'[j].late <=> call[j].pc = "merge"
  BY SilentTyped DEF Store, SnapshotTyped, Call

\* Time passes for the probes under way.
LEMMA ProbesAge ==
  ASSUME SnapshotTyped, STick
  PROVE  /\ call' \in [Calls -> Call]
         /\ \A j \in Calls :
              /\ call'[j].pc = call[j].pc /\ call'[j].credits = call[j].credits
              /\ call'[j].late = call[j].late
              /\ call'[j].age = IF call[j].pc = "probe" THEN call[j].age + 1 ELSE call[j].age
  BY DEF STick, SnapshotTyped, Call

LEMMA SnapshotStepTyped == SnapshotTyped /\ SStep => SnapshotTyped'
<1> SUFFICES ASSUME SnapshotTyped, SStep PROVE SnapshotTyped'
  OBVIOUS
<1> USE DEF SnapshotTyped
<1>1. ASSUME NEW k \in Calls, RefreshProvider(k) \/ ProbeFails(k)
      PROVE  SnapshotTyped'
  <2>1. call' \in [Calls -> Call]
    BY <1>1, CallForms, CallMoves DEF RefreshProvider, ProbeFails
  <2>2. attempt' \in 0..MinInterval
    BY <1>1, SnapshotAssumption DEF RefreshProvider, ProbeFails, Reserved
  <2> QED BY <1>1, <2>1, <2>2 DEF RefreshProvider, ProbeFails
<1>2. ASSUME NEW k \in Calls, ProbeAnswered(k)
      PROVE  SnapshotTyped'
  <2>1. probes + 1 \in Nat
    OBVIOUS
  <2>2. call' \in [Calls -> Call]
    BY <1>2, <2>1, CallForms, CallMoves DEF ProbeAnswered
  <2> QED BY <1>2, <2>1, <2>2 DEF ProbeAnswered
<1>3. ASSUME NEW k \in Calls, Store(k)
      PROVE  SnapshotTyped'
  BY <1>3, OthersLate DEF Store, Call
<1>4. ASSUME NEW k \in Calls, Mark(k) \/ Create(k)
      PROVE  SnapshotTyped'
  <2>1. call' \in [Calls -> Call]
    BY <1>4, CallForms, SilentTyped, CallMoves DEF Mark, Create
  <2>2. row' \in [status : {"none", "ok", "error"}, credits : Nat]
    BY <1>4 DEF Mark, Create, Marked
  <2> QED BY <1>4, <2>1, <2>2 DEF Mark, Create
<1>5. ASSUME NEW k \in Calls, Observe(k)
      PROVE  SnapshotTyped'
  <2>1. row.credits \in Nat
    OBVIOUS
  <2>2. call' \in [Calls -> Call]
    BY <1>5, <2>1, CallForms, SilentTyped, CallMoves DEF Observe
  <2> QED BY <1>5, <2>2 DEF Observe
<1>6. ASSUME NEW k \in Calls, Merge(k)
      PROVE  SnapshotTyped'
  BY <1>6, SilentTyped, CallMoves DEF Merge, Call
<1>7. CASE STick
  BY <1>7, ProbesAge, SnapshotAssumption DEF STick
<1>8. CASE SRestart
  BY <1>8, SilentTyped, SnapshotAssumption DEF SRestart
<1>9. CASE UNCHANGED svars
  BY <1>9 DEF svars
<1> QED BY <1>1, <1>2, <1>3, <1>4, <1>5, <1>6, <1>7, <1>8, <1>9 DEF SStep, SNext

------------------------------------------------------------------------------
(* The snapshot: one probe *)

\* A probe is as old as the attempt that took the interval for it.
Timed ==
  \A k \in Calls : call[k].pc = "probe" => call[k].age = attempt /\ attempt <= Timeout

LEMMA TimedStep == SnapshotTyped /\ Timed /\ OneProbe /\ SStep => (Timed /\ OneProbe)'
<1> SUFFICES ASSUME SnapshotTyped, Timed, OneProbe, SStep
             PROVE  (Timed /\ OneProbe)'
  OBVIOUS
<1> USE DEF Timed, OneProbe
<1>1. ASSUME NEW k \in Calls, RefreshProvider(k)
      PROVE  (Timed /\ OneProbe)'
  <2>1. \A j \in Calls : call[j].pc # "probe"
    BY <1>1, SnapshotAssumption DEF RefreshProvider, SnapshotTyped
  <2>2. /\ call'[k] = [Silent EXCEPT !.pc = "probe"]
        /\ \A j \in Calls \ {k} : call'[j] = call[j]
    BY <1>1, CallForms, CallMoves DEF RefreshProvider
  <2>3. call'[k].age = 0 /\ attempt' = 0
    BY <1>1, <2>2 DEF RefreshProvider, Reserved, Silent
  <2>4. \A j \in Calls : call'[j].pc = "probe" => j = k
    BY <2>1, <2>2
  <2>5. attempt' <= Timeout
    BY <2>3, SnapshotAssumption
  <2> QED BY <2>3, <2>4, <2>5
<1>2. ASSUME NEW k \in Calls, ProbeAnswered(k) \/ ProbeFails(k) \/ Mark(k) \/ Create(k)
                              \/ Observe(k) \/ Merge(k)
      PROVE  (Timed /\ OneProbe)'
  <2>1. row.credits \in Nat /\ probes + 1 \in Nat
    BY DEF SnapshotTyped
  <2>2. PICK c \in Call : Move(k, c) /\ c.pc # "probe"
    <3>1. CASE ProbeAnswered(k)
      BY <2>1, <3>1, CallForms DEF ProbeAnswered, Silent
    <3>2. CASE ProbeFails(k)
      BY <3>2, CallForms DEF ProbeFails, Silent
    <3>3. CASE Mark(k) \/ Create(k) \/ Merge(k)
      BY <3>3, CallForms, SilentTyped DEF Mark, Create, Merge, Silent
    <3>4. CASE Observe(k)
      <4>1. PICK n \in {0, row.credits} :
              Move(k, Silent) \/ Move(k, [Silent EXCEPT !.pc = "merge", !.credits = n])
        BY <3>4 DEF Observe
      <4>2. /\ n \in Nat /\ Silent.pc # "probe"
            /\ [Silent EXCEPT !.pc = "merge", !.credits = n].pc # "probe"
        BY <2>1, <4>1 DEF Silent
      <4> QED BY <4>1, <4>2, CallForms, SilentTyped
    <3> QED BY <1>2, <3>1, <3>2, <3>3, <3>4
  <2>3. attempt' = attempt
    BY <1>2 DEF ProbeAnswered, ProbeFails, Mark, Create, Observe, Merge
  <2>4. call'[k].pc # "probe" /\ \A j \in Calls \ {k} : call'[j] = call[j]
    BY <2>2, CallMoves
  <2> QED BY <2>3, <2>4
<1>3. ASSUME NEW k \in Calls, Store(k)
      PROVE  (Timed /\ OneProbe)'
  BY <1>3, OthersLate DEF Store, Silent
<1>4. CASE STick
  <2>1. \A j \in Calls : call'[j].pc = call[j].pc
    BY <1>4, ProbesAge
  <2>2. ASSUME NEW j \in Calls, call[j].pc = "probe"
        PROVE  call'[j].age = attempt' /\ attempt' <= Timeout
    BY <1>4, <2>2, ProbesAge, SnapshotAssumption DEF STick, InTime, SnapshotTyped
  <2> QED BY <2>1, <2>2
<1>5. CASE SRestart
  BY <1>5 DEF SRestart, Silent
<1>6. CASE UNCHANGED svars
  BY <1>6 DEF svars
<1> QED BY <1>1, <1>2, <1>3, <1>4, <1>5, <1>6 DEF SStep, SNext

\* The provider is not asked about a channel twice at once, because the interval is
\* taken before the probe and is longer than its timeout (sync.go:68-75).
THEOREM ProbesOneByOne == SignalsSpec => []OneProbe
<1>1. SignalsInit => SnapshotTyped /\ Timed /\ OneProbe
  BY SnapshotInitTyped DEF SignalsInit, SInit, Timed, OneProbe, Silent
<1>2. SnapshotTyped /\ Timed /\ OneProbe /\ [SignalsNext]_cvars => (SnapshotTyped /\ Timed /\ OneProbe)'
  BY Parts, SnapshotStepTyped, TimedStep
<1> QED BY <1>1, <1>2, PTL DEF SignalsSpec

------------------------------------------------------------------------------
(* The snapshot: its credits *)

\* Without a row there are no credits, and a merge in time carries those of the row.
Carried ==
  /\ ~Exists => row.credits = 0
  /\ \A k \in Calls : call[k].pc = "merge" => call[k].credits = probed \/ call[k].late \/ passed

LEMMA CreditsStep == SnapshotTyped /\ Carried /\ CreditsKept /\ SStep => (Carried /\ CreditsKept)'
<1> SUFFICES ASSUME SnapshotTyped, Carried, CreditsKept, SStep
             PROVE  (Carried /\ CreditsKept)'
  OBVIOUS
<1> USE DEF Carried, CreditsKept
<1>1. ASSUME NEW k \in Calls, RefreshProvider(k) \/ ProbeAnswered(k) \/ ProbeFails(k)
      PROVE  (Carried /\ CreditsKept)'
  <2>1. probes + 1 \in Nat
    BY DEF SnapshotTyped
  <2>2. PICK c \in Call : Move(k, c) /\ c.pc # "merge"
    BY <1>1, <2>1, CallForms DEF RefreshProvider, ProbeAnswered, ProbeFails, Silent
  <2>3. call'[k].pc # "merge" /\ \A j \in Calls \ {k} : call'[j] = call[j]
    BY <2>2, CallMoves
  <2>4. UNCHANGED <<row, probed, passed>>
    BY <1>1 DEF RefreshProvider, ProbeAnswered, ProbeFails
  <2> QED BY <2>3, <2>4 DEF Exists
<1>2. ASSUME NEW k \in Calls, Mark(k) \/ Create(k)
      PROVE  (Carried /\ CreditsKept)'
  <2>1. PICK c \in Call : Move(k, c) /\ c.pc # "merge"
    BY <1>2, CallForms, SilentTyped DEF Mark, Create, Silent
  <2>2. call'[k].pc # "merge" /\ \A j \in Calls \ {k} : call'[j] = call[j]
    BY <2>1, CallMoves
  <2>3. row'.credits = row.credits /\ row'.status \in {row.status, "error"}
    BY <1>2 DEF Mark, Create, Marked, Exists, SnapshotTyped
  <2>4. UNCHANGED <<probed, passed>>
    BY <1>2 DEF Mark, Create
  <2> QED BY <2>2, <2>3, <2>4 DEF Exists
<1>3. ASSUME NEW k \in Calls, Store(k)
      PROVE  (Carried /\ CreditsKept)'
  BY <1>3, OthersLate DEF Store, Silent, Exists
<1>4. ASSUME NEW k \in Calls, Observe(k)
      PROVE  (Carried /\ CreditsKept)'
  <2>1. row.credits \in Nat
    BY DEF SnapshotTyped
  <2>2. PICK c \in Call : Move(k, c) /\ (c.pc = "merge" => c.credits = row.credits)
    BY <1>4, <2>1, CallForms, SilentTyped DEF Observe, GoesOn, Silent
  <2>3. call'[k] = c /\ \A j \in Calls \ {k} : call'[j] = call[j]
    BY <2>2, CallMoves
  <2>4. UNCHANGED <<row, probed, passed>>
    BY <1>4 DEF Observe
  <2> QED BY <2>2, <2>3, <2>4 DEF Exists
<1>5. ASSUME NEW k \in Calls, Merge(k)
      PROVE  (Carried /\ CreditsKept)'
  <2>1. call'[k] = Silent /\ \A j \in Calls \ {k} : call'[j] = call[j]
    BY <1>5, SilentTyped, CallMoves DEF Merge
  <2>2. /\ row'.credits = call[k].credits /\ row'.status = "ok" /\ probed' = probed
        /\ call[k].pc = "merge"
    BY <1>5 DEF Merge
  <2>3. passed' <=> passed \/ call[k].late
    BY <1>5 DEF Merge
  <2>4. CreditsKept'
    BY <2>2, <2>3
  <2>5. Carried'
    BY <2>1, <2>2, <2>3 DEF Silent, Exists
  <2> QED BY <2>4, <2>5
<1>6. CASE STick
  BY <1>6, ProbesAge DEF STick, Exists
<1>7. CASE SRestart
  BY <1>7 DEF SRestart, Silent, Exists
<1>8. CASE UNCHANGED svars
  BY <1>8 DEF svars, Exists
<1> QED BY <1>1, <1>2, <1>3, <1>4, <1>5, <1>6, <1>7, <1>8 DEF SStep, SNext

\* Observations and failures keep the credits of the last probe stored, unless a merge
\* that had read the row before is written after it (sync.go:100-113).
THEOREM CreditsStay == SignalsSpec => []CreditsKept
<1>1. SignalsInit => SnapshotTyped /\ Carried /\ CreditsKept
  BY SnapshotInitTyped DEF SignalsInit, SInit, Carried, CreditsKept, Silent, Exists
<1>2. SnapshotTyped /\ Carried /\ CreditsKept /\ [SignalsNext]_cvars
        => (SnapshotTyped /\ Carried /\ CreditsKept)'
  BY Parts, SnapshotStepTyped, CreditsStep
<1> QED BY <1>1, <1>2, PTL DEF SignalsSpec

------------------------------------------------------------------------------
(* The diagnostics: where they are *)

Diags == DOMAIN stored

Distinct(s) == \A i, j \in DOMAIN s : s[i] = s[j] => i = j

Within(s, d) == \E i \in DOMAIN s : s[i] = d

\* A diagnostic that waits is neither stored nor lost, and waits once.
Waiting(s) ==
  /\ s \in Seq(Diags) /\ Distinct(s)
  /\ \A i \in DOMAIN s : stored[s[i]] = 0 /\ s[i] \notin lost

Placed ==
  /\ stored \in Seq({0, 1}) /\ lost \subseteq Diags
  /\ Waiting(queue) /\ Waiting(batch)
  /\ \A i \in DOMAIN queue : ~Within(batch, queue[i])
  /\ \A d \in lost : stored[d] = 0
  /\ \A d \in Diags : stored[d] = 1 \/ d \in lost \/ Within(queue, d) \/ Within(batch, d)

\* In a sequence without repetition a diagnostic has one place or none.
LEMMA OnePlace ==
  ASSUME NEW s, Distinct(s), NEW d
  PROVE  Cardinality(Where(s, d)) = IF Within(s, d) THEN 1 ELSE 0
<1>1. CASE Within(s, d)
  <2>1. PICK i \in DOMAIN s : s[i] = d
    BY <1>1 DEF Within
  <2>2. Where(s, d) = {i}
    BY <2>1 DEF Where, Distinct
  <2> QED BY <1>1, <2>2, FS_Singleton
<1>2. CASE ~Within(s, d)
  <2>1. Where(s, d) = {}
    BY <1>2 DEF Where, Within
  <2> QED BY <1>2, <2>1, FS_EmptySet
<1> QED BY <1>1, <1>2

LEMMA PlacedConserved == Placed => Conserved
<1> SUFFICES ASSUME Placed, NEW d \in Diags
             PROVE  stored[d] + Cardinality(Where(queue, d)) + Cardinality(Where(batch, d))
                              + (IF d \in lost THEN 1 ELSE 0) = 1
  BY DEF Conserved, Diags
<1>1. Cardinality(Where(queue, d)) = IF Within(queue, d) THEN 1 ELSE 0
  BY OnePlace DEF Placed, Waiting
<1>2. Cardinality(Where(batch, d)) = IF Within(batch, d) THEN 1 ELSE 0
  BY OnePlace DEF Placed, Waiting
<1>3. Within(queue, d) => stored[d] = 0 /\ d \notin lost /\ ~Within(batch, d)
  BY DEF Placed, Waiting, Within
<1>4. Within(batch, d) => stored[d] = 0 /\ d \notin lost
  BY DEF Placed, Waiting, Within
<1>5. stored[d] \in {0, 1} /\ (d \in lost => stored[d] = 0)
  BY DEF Placed, Diags
<1>6. stored[d] = 1 \/ d \in lost \/ Within(queue, d) \/ Within(batch, d)
  BY DEF Placed
<1> QED BY <1>1, <1>2, <1>3, <1>4, <1>5, <1>6

\* A new diagnostic at the end of a sequence that has not met it.
LEMMA JoinsLast ==
  ASSUME NEW T, NEW s \in Seq(T), NEW d \in T, Distinct(s), ~Within(s, d)
  PROVE  /\ Append(s, d) \in Seq(T) /\ Distinct(Append(s, d))
         /\ \A e : Within(Append(s, d), e) <=> Within(s, e) \/ e = d
         /\ \A i \in DOMAIN Append(s, d) :
              Append(s, d)[i] = d \/ \E j \in DOMAIN s : Append(s, d)[i] = s[j]
<1>1. /\ Append(s, d) \in Seq(T) /\ DOMAIN Append(s, d) = 1..Len(s) + 1
      /\ Append(s, d)[Len(s) + 1] = d /\ DOMAIN s = 1..Len(s) /\ Len(s) \in Nat
      /\ \A i \in 1..Len(s) : Append(s, d)[i] = s[i]
  OBVIOUS
<1>2. Distinct(Append(s, d))
  BY <1>1 DEF Distinct, Within
<1>3. \A e : Within(Append(s, d), e) <=> Within(s, e) \/ e = d
  BY <1>1 DEF Within
<1>4. \A i \in DOMAIN Append(s, d) :
        Append(s, d)[i] = d \/ \E j \in DOMAIN s : Append(s, d)[i] = s[j]
  BY <1>1
<1> QED BY <1>1, <1>2, <1>3, <1>4

\* What leaves a sequence at its head is in it no more.
LEMMA LeavesFirst ==
  ASSUME NEW S, NEW s \in Seq(S), s # <<>>, Distinct(s)
  PROVE  /\ Head(s) \in S /\ Within(s, Head(s))
         /\ Tail(s) \in Seq(S) /\ Distinct(Tail(s)) /\ ~Within(Tail(s), Head(s))
         /\ \A e : Within(s, e) <=> Within(Tail(s), e) \/ e = Head(s)
<1>1. /\ Len(s) \in Nat \ {0} /\ DOMAIN s = 1..Len(s) /\ Head(s) = s[1]
      /\ Tail(s) \in Seq(S) /\ DOMAIN Tail(s) = 1..Len(s) - 1
      /\ \A i \in 1..Len(s) - 1 : Tail(s)[i] = s[i + 1]
  OBVIOUS
<1>2. Head(s) \in S /\ Within(s, Head(s))
  BY <1>1 DEF Within
<1>3. Distinct(Tail(s)) /\ ~Within(Tail(s), Head(s))
  BY <1>1 DEF Distinct, Within
<1>4. \A e : Within(s, e) <=> Within(Tail(s), e) \/ e = Head(s)
  <2>1. ASSUME NEW i \in DOMAIN s
        PROVE  i = 1 \/ (i - 1 \in DOMAIN Tail(s) /\ Tail(s)[i - 1] = s[i])
    BY <1>1
  <2>2. ASSUME NEW i \in DOMAIN Tail(s)
        PROVE  i + 1 \in DOMAIN s /\ Tail(s)[i] = s[i + 1]
    BY <1>1
  <2>3. ASSUME NEW e, Within(s, e)
        PROVE  Within(Tail(s), e) \/ e = Head(s)
    BY <1>1, <2>1, <2>3 DEF Within
  <2>4. ASSUME NEW e, Within(Tail(s), e)
        PROVE  Within(s, e)
    BY <2>2, <2>4 DEF Within
  <2> QED BY <1>2, <2>3, <2>4
<1> QED BY <1>1, <1>2, <1>3, <1>4

LEMMA InitPlaced == DInit => Placed
  BY DEF DInit, Placed, Waiting, Distinct, Within, Diags

LEMMA RecordPlaced ==
  ASSUME Placed, NEW c \in Channels, Record(c)
  PROVE  Placed'
<1> DEFINE d == Len(stored) + 1
<1>1. /\ stored' \in Seq({0, 1}) /\ Diags' = Diags \cup {d} /\ d \notin Diags
      /\ stored'[d] = 0 /\ \A e \in Diags : stored'[e] = stored[e]
  BY DEF Record, Placed, Diags
<1>2. batch' = batch
  BY DEF Record
<1>3. ~Within(queue, d) /\ ~Within(batch, d) /\ d \notin lost
  BY <1>1 DEF Placed, Waiting, Within
<1>4. CASE Len(queue) < QueueSize
  <2>1. queue' = Append(queue, d) /\ lost' = lost
    BY <1>4 DEF Record
  <2>2. /\ queue' \in Seq(Diags') /\ Distinct(queue')
        /\ \A e : Within(queue', e) <=> Within(queue, e) \/ e = d
        /\ \A i \in DOMAIN queue' : queue'[i] = d \/ \E j \in DOMAIN queue : queue'[i] = queue[j]
    <3>1. queue \in Seq(Diags') /\ Distinct(queue)
      BY <1>1 DEF Placed, Waiting
    <3>2. d \in Diags'
      BY <1>1
    <3> DEFINE q == Append(queue, d)
    <3>3. ~Within(queue, d)
      BY <1>3
    <3>4. /\ q \in Seq(Diags') /\ Distinct(q)
          /\ \A e : Within(q, e) <=> Within(queue, e) \/ e = d
          /\ \A i \in DOMAIN q : q[i] = d \/ \E j \in DOMAIN queue : q[i] = queue[j]
      <4> HIDE DEF d
      <4> QED BY <3>1, <3>2, <3>3, JoinsLast
    <3>5. queue' = q
      BY <2>1
    <3> HIDE DEF d, q
    <3> QED BY <3>4, <3>5 DEF Distinct, Within
  <2>3. Waiting(queue)'
    <3>1. \A i \in DOMAIN queue' : stored'[queue'[i]] = 0 /\ queue'[i] \notin lost'
      BY <1>1, <1>3, <2>1, <2>2 DEF Placed, Waiting
    <3> QED BY <2>2, <3>1 DEF Waiting, Distinct
  <2>4. Waiting(batch)'
    BY <1>1, <1>2, <2>1 DEF Placed, Waiting, Distinct
  <2>5. \A i \in DOMAIN queue' : ~Within(batch, queue'[i])
    BY <1>3, <2>2 DEF Placed
  <2>6. \A e \in Diags' : stored'[e] = 1 \/ e \in lost \/ Within(queue', e) \/ Within(batch, e)
    BY <1>1, <2>2 DEF Placed
  <2>7. lost \subseteq Diags' /\ \A e \in lost : stored'[e] = 0
    BY <1>1 DEF Placed
  <2> QED BY <1>1, <1>2, <2>1, <2>3, <2>4, <2>5, <2>6, <2>7 DEF Placed, Within
<1>5. CASE ~(Len(queue) < QueueSize)
  <2>1. queue' = queue /\ lost' = lost \cup {d}
    BY <1>5 DEF Record
  <2>2. ASSUME NEW s, Waiting(s), ~Within(s, d)
        PROVE  /\ s \in Seq(Diags')
               /\ \A i \in DOMAIN s : stored'[s[i]] = 0 /\ s[i] \notin lost'
    BY <1>1, <2>1, <2>2 DEF Waiting, Within
  <2>3. Waiting(queue)' /\ Waiting(batch)'
    BY <1>2, <1>3, <2>1, <2>2 DEF Placed, Waiting, Distinct
  <2>4. \A e \in Diags' : stored'[e] = 1 \/ e \in lost' \/ Within(queue, e) \/ Within(batch, e)
    BY <1>1, <2>1 DEF Placed
  <2>5. lost' \subseteq Diags' /\ \A e \in lost' : stored'[e] = 0
    BY <1>1, <2>1 DEF Placed
  <2> QED BY <1>1, <1>2, <2>1, <2>3, <2>4, <2>5 DEF Placed, Within
<1> QED BY <1>4, <1>5

LEMMA TakePlaced == Placed /\ Take => Placed'
<1> SUFFICES ASSUME Placed, Take PROVE Placed'
  OBVIOUS
<1>1. /\ queue # <<>> /\ queue' = Tail(queue) /\ batch' = Append(batch, Head(queue))
      /\ UNCHANGED <<stored, lost>>
  BY DEF Take
<1>2. /\ Head(queue) \in Diags /\ Within(queue, Head(queue))
      /\ queue' \in Seq(Diags) /\ Distinct(queue') /\ ~Within(queue', Head(queue))
      /\ \A e : Within(queue, e) <=> Within(queue', e) \/ e = Head(queue)
  BY <1>1, LeavesFirst DEF Placed, Waiting
<1>3. ~Within(batch, Head(queue))
  BY <1>2 DEF Placed, Within
<1>4. /\ batch' \in Seq(Diags) /\ Distinct(batch')
      /\ \A e : Within(batch', e) <=> Within(batch, e) \/ e = Head(queue)
  BY <1>1, <1>2, <1>3, JoinsLast DEF Placed, Waiting
<1>5. \A e : Within(queue, e) => stored[e] = 0 /\ e \notin lost /\ ~Within(batch, e)
  BY DEF Placed, Waiting, Within
<1>6. \A e : Within(batch, e) => stored[e] = 0 /\ e \notin lost
  BY DEF Placed, Waiting, Within
<1>7. \A i \in DOMAIN queue' : Within(queue', queue'[i])
  BY DEF Within
<1>8. \A i \in DOMAIN batch' : Within(batch', batch'[i])
  BY DEF Within
<1>9. Waiting(queue)' /\ Waiting(batch)'
  BY <1>1, <1>2, <1>4, <1>5, <1>6, <1>7, <1>8 DEF Waiting, Distinct, Diags
<1>10. \A i \in DOMAIN queue' : ~Within(batch', queue'[i])
  BY <1>2, <1>4, <1>5, <1>7
<1>11. \A e \in Diags : stored[e] = 1 \/ e \in lost \/ Within(queue', e) \/ Within(batch', e)
  BY <1>2, <1>4 DEF Placed
<1> QED BY <1>1, <1>9, <1>10, <1>11 DEF Placed, Within, Diags

LEMMA FlushPlaced == Placed /\ Flush => Placed'
<1> SUFFICES ASSUME Placed, Flush PROVE Placed'
  OBVIOUS
<1>1. batch' = <<>> /\ queue' = queue
  BY DEF Flush, LeftAfter
<1>2. \A e : Contains(batch, e) <=> Within(batch, e)
  BY DEF Contains, Within, Placed, Waiting
<1>3. \A e : e \in ToSet(batch) <=> Within(batch, e)
  BY DEF ToSet, Within
<1>4. \A e : Within(queue, e) => stored[e] = 0 /\ e \notin lost /\ ~Within(batch, e)
  BY DEF Placed, Waiting, Within
<1>5. \A e : Within(batch, e) => e \in Diags /\ stored[e] = 0 /\ e \notin lost
  BY DEF Placed, Waiting, Within
<1>6. \A i \in DOMAIN queue : Within(queue, queue[i])
  BY DEF Within
<1>7. Waiting(batch)'
  BY <1>1 DEF Waiting, Distinct
<1>8. CASE stored' = stored /\ lost' = lost \cup ToSet(batch)
  <2>1. Waiting(queue)'
    BY <1>1, <1>3, <1>4, <1>6, <1>8 DEF Placed, Waiting, Distinct, Diags
  <2>2. \A e \in Diags : stored[e] = 1 \/ e \in lost' \/ Within(queue, e)
    BY <1>3, <1>8 DEF Placed
  <2>3. lost' \subseteq Diags /\ \A e \in lost' : stored[e] = 0
    BY <1>3, <1>5, <1>8 DEF Placed
  <2> QED BY <1>1, <1>7, <1>8, <2>1, <2>2, <2>3 DEF Placed, Within, Diags
<1>9. CASE /\ stored' = [e \in DOMAIN stored |-> IF Contains(batch, e) THEN stored[e] + 1
                                                                       ELSE stored[e]]
           /\ lost' = lost
  <2>1. /\ stored' \in [Diags -> {0, 1}] /\ Diags' = Diags
        /\ \A e \in Diags : stored'[e] = IF Within(batch, e) THEN 1 ELSE stored[e]
    BY <1>2, <1>5, <1>9 DEF Placed, Diags
  <2>2. stored' \in Seq({0, 1})
    <3>1. Len(stored) \in Nat /\ Diags = 1..Len(stored)
      BY DEF Placed, Diags
    <3> QED BY <2>1, <3>1
  <2>3. Waiting(queue)'
    BY <1>1, <1>4, <1>6, <1>9, <2>1 DEF Placed, Waiting, Distinct
  <2>4. \A e \in Diags : stored'[e] = 1 \/ e \in lost \/ Within(queue, e)
    BY <2>1 DEF Placed
  <2>5. \A e \in lost : stored'[e] = 0
    BY <1>5, <2>1 DEF Placed
  <2>6. lost' \subseteq Diags' /\ \A e \in lost' : stored'[e] = 0
    BY <1>9, <2>1, <2>5 DEF Placed
  <2>7. \A e \in Diags' : stored'[e] = 1 \/ e \in lost' \/ Within(queue', e)
    BY <1>1, <1>9, <2>1, <2>4
  <2>8. \A i \in DOMAIN queue' : ~Within(batch', queue'[i])
    BY <1>1 DEF Within
  <2> QED BY <1>7, <2>2, <2>3, <2>6, <2>7, <2>8 DEF Placed, Within
<1> QED BY <1>8, <1>9 DEF Flush

LEMMA RestartPlaced == Placed /\ DRestart => Placed'
<1> SUFFICES ASSUME Placed, DRestart PROVE Placed'
  OBVIOUS
<1>1. /\ queue' = <<>> /\ batch' = <<>> /\ stored' = stored
      /\ lost' = lost \cup ToSet(queue) \cup ToSet(batch)
  BY DEF DRestart
<1>2. \A e : e \in lost' <=> e \in lost \/ Within(queue, e) \/ Within(batch, e)
  BY <1>1 DEF ToSet, Within
<1>3. \A e : Within(queue, e) \/ Within(batch, e) => e \in Diags /\ stored[e] = 0
  BY DEF Placed, Waiting, Within
<1>4. Waiting(queue)' /\ Waiting(batch)'
  BY <1>1 DEF Waiting, Distinct
<1>5. \A e \in Diags : stored[e] = 1 \/ e \in lost'
  BY <1>2 DEF Placed
<1>6. lost' \subseteq Diags /\ \A e \in lost' : stored[e] = 0
  BY <1>2, <1>3 DEF Placed
<1> QED BY <1>1, <1>4, <1>5, <1>6 DEF Placed, Within, Diags

LEMMA PlacedStep == Placed /\ DStep => Placed'
<1>1. ASSUME Placed, Ticker \/ DTick \/ UNCHANGED dvars
      PROVE  Placed'
  BY <1>1 DEF Ticker, DTick, dvars, Placed, Waiting, Distinct, Within, Diags
<1> QED BY <1>1, RecordPlaced, TakePlaced, FlushPlaced, RestartPlaced DEF DStep, DNext

\* Every diagnostic that was sampled is on its way, stored once, or lost by a full
\* queue, a failed insert or the end of the process (reqerr.go:224-272).
THEOREM NoneTwice == SignalsSpec => []Conserved
<1>1. SignalsInit => Placed
  BY InitPlaced DEF SignalsInit
<1>2. Placed /\ [SignalsNext]_cvars => Placed'
  BY Parts, PlacedStep
<1> QED BY <1>1, <1>2, PlacedConserved, PTL DEF SignalsSpec

------------------------------------------------------------------------------
(* The diagnostics: how many are sampled *)

Sample == [diag : Nat, chan : Channels, age : 0..Minute - 1]

\* Of a channel's recent samples, those of the present window and those before it.
Newer(c) == {r \in recent : r.chan = c /\ r.age <= window}
Older(c) == {r \in recent : r.chan = c /\ r.age > window}

SampleTyped ==
  /\ window \in 0..Minute
  /\ count \in [Channels -> Nat]
  /\ recent \subseteq Sample /\ IsFiniteSet(recent)
  /\ stored \in Seq(Nat)
  /\ \A r \in recent : r.diag <= Len(stored)

\* The present window's samples are counted, as long as none of them is too old to be
\* recent; those before it are all of one window.  A window that is over has had none
\* in the present tick, for it would have been turned.
Bounded ==
  \A c \in Channels :
    /\ count[c] <= Cap
    /\ Cardinality(Newer(c)) <= count[c] /\ Cardinality(Older(c)) <= Cap
    /\ ~Fresh => Cardinality(Newer(c)) = count[c]

Settled == Fresh => \A r \in recent : r.age > 0

SampleInv == SampleTyped /\ Bounded /\ Settled

LEMMA PartsFinite ==
  ASSUME SampleTyped, NEW c
  PROVE  /\ IsFiniteSet(Newer(c)) /\ IsFiniteSet(Older(c))
         /\ Cardinality(Newer(c)) \in Nat /\ Cardinality(Older(c)) \in Nat
<1>1. Newer(c) \subseteq recent /\ Older(c) \subseteq recent
  BY DEF Newer, Older
<1>2. IsFiniteSet(Newer(c)) /\ IsFiniteSet(Older(c))
  BY <1>1, FS_Subset DEF SampleTyped
<1> QED BY <1>2, FS_CardinalityType

LEMMA RecentParts ==
  ASSUME SampleTyped, NEW c
  PROVE  Recent(c) = Cardinality(Newer(c)) + Cardinality(Older(c))
<1>1. {r \in recent : r.chan = c} = Newer(c) \cup Older(c)
  BY DEF Newer, Older, SampleTyped, Sample
<1>2. Newer(c) \cap Older(c) = {}
  BY DEF Newer, Older, SampleTyped, Sample
<1>3. Cardinality(Newer(c) \cap Older(c)) = 0
  BY <1>2, FS_EmptySet
<1>4. Cardinality(Newer(c) \cup Older(c)) = Cardinality(Newer(c)) + Cardinality(Older(c)) - 0
  BY <1>3, PartsFinite, FS_Union
<1>5. Cardinality(Newer(c)) \in Nat /\ Cardinality(Older(c)) \in Nat
  BY PartsFinite
<1>6. Recent(c) = Cardinality(Newer(c) \cup Older(c))
  BY <1>1 DEF Recent
<1> QED BY <1>4, <1>5, <1>6

LEMMA BoundedSampled == SampleInv => Sampled
<1> SUFFICES ASSUME SampleInv, NEW c \in Channels
             PROVE  Recent(c) <= 2 * Cap /\ (Recent(c) < Cap => Allows(c))
  BY DEF Sampled
<1>1. Recent(c) = Cardinality(Newer(c)) + Cardinality(Older(c))
  BY RecentParts DEF SampleInv
<1>2. Cardinality(Newer(c)) \in Nat /\ Cardinality(Older(c)) \in Nat /\ count[c] \in Nat
  BY PartsFinite DEF SampleInv, SampleTyped
<1>3. Recent(c) <= 2 * Cap
  BY <1>1, <1>2, DiagnosticsAssumption DEF SampleInv, Bounded
<1>4. Recent(c) < Cap => Allows(c)
  BY <1>1, <1>2, DiagnosticsAssumption DEF SampleInv, Bounded, Allows, Noted
<1> QED BY <1>3, <1>4

\* Samples grow older together, and stay as many.
Grown(r) == [r EXCEPT !.age = @ + 1]

Aged(S) == {Grown(r) : r \in S}

LEMMA GrownForm ==
  ASSUME NEW r \in Sample
  PROVE  /\ Grown(r).diag = r.diag /\ Grown(r).chan = r.chan /\ Grown(r).age = r.age + 1
         /\ r.age \in Nat /\ r.age < Minute
         /\ r.age + 1 < Minute => Grown(r) \in Sample
  BY DiagnosticsAssumption DEF Grown, Sample

\* Those that have grown out of a part are known by what they were.
LEMMA AgedPart ==
  ASSUME NEW S, NEW T \in SUBSET S, NEW R \in SUBSET Aged(S),
         \A r \in S : Grown(r) \in R <=> r \in T
  PROVE  R = Aged(T)
  BY DEF Aged

LEMMA AgedMany ==
  ASSUME NEW S \in SUBSET Sample, IsFiniteSet(S)
  PROVE  IsFiniteSet(Aged(S)) /\ Cardinality(Aged(S)) = Cardinality(S)
<1> DEFINE f == [r \in S |-> Grown(r)]
<1>1. f \in [S -> Aged(S)]
  BY DEF Aged
<1>2. \A t \in Aged(S) : \E r \in S : f[r] = t
  BY DEF Aged
<1>3. ASSUME NEW q \in S, NEW r \in S, f[q] = f[r]
      PROVE  q = r
  <2>1. q \in Sample /\ r \in Sample
    OBVIOUS
  <2>2. Grown(q) = Grown(r)
    BY <1>3
  <2>3. q.diag = r.diag /\ q.chan = r.chan /\ q.age + 1 = r.age + 1
    BY <2>1, <2>2, GrownForm
  <2>4. q = [diag |-> q.diag, chan |-> q.chan, age |-> q.age]
    BY <2>1 DEF Sample
  <2>5. r = [diag |-> r.diag, chan |-> r.chan, age |-> r.age]
    BY <2>1 DEF Sample
  <2>6. q.age = r.age
    BY <2>1, <2>3 DEF Sample
  <2> QED BY <2>3, <2>4, <2>5, <2>6
<1>4. f \in Bijection(S, Aged(S))
  BY <1>1, <1>2, <1>3 DEF Bijection, Injection, Surjection, IsInjective
<1> QED BY <1>4, FS_Bijection DEF ExistsBijection

LEMMA AgedLess ==
  ASSUME NEW S \in SUBSET Sample, IsFiniteSet(S), NEW T \in SUBSET S
  PROVE  /\ IsFiniteSet(Aged(T)) /\ Cardinality(Aged(T)) <= Cardinality(S)
         /\ Cardinality(Aged(T)) \in Nat /\ Cardinality(S) \in Nat
<1>1. IsFiniteSet(T) /\ Cardinality(T) <= Cardinality(S)
  BY FS_Subset
<1>2. T \in SUBSET Sample
  OBVIOUS
<1>3. IsFiniteSet(Aged(T)) /\ Cardinality(Aged(T)) = Cardinality(T)
  BY <1>1, <1>2, AgedMany
<1> QED BY <1>1, <1>3, FS_CardinalityType

LEMMA InitSample == DInit => SampleInv
<1> SUFFICES ASSUME DInit PROVE SampleInv
  OBVIOUS
<1>1. SampleTyped
  BY DiagnosticsAssumption, FS_EmptySet DEF DInit, SampleTyped, None
<1>2. \A c \in Channels : Newer(c) = {} /\ Older(c) = {} /\ count[c] = 0
  BY DEF DInit, Newer, Older, None
<1>3. Fresh
  BY DiagnosticsAssumption DEF DInit, Fresh
<1>4. Bounded
  BY <1>2, <1>3, FS_EmptySet, DiagnosticsAssumption DEF Bounded
<1>5. Settled
  BY DEF DInit, Settled
<1> QED BY <1>1, <1>4, <1>5 DEF SampleInv

\* A new sample belongs to the window, which is turned first if it was over.
LEMMA RecordSample ==
  ASSUME SampleInv, NEW c \in Channels, Record(c)
  PROVE  SampleInv'
<1> USE DEF SampleInv, SampleTyped, Bounded
<1> DEFINE new == [diag |-> Len(stored) + 1, chan |-> c, age |-> 0]
<1>1. /\ recent' = recent \cup {new} /\ stored' = Append(stored, 0)
      /\ window' = IF Fresh THEN 0 ELSE window
      /\ count' = [(IF Fresh THEN None ELSE count) EXCEPT ![c] = @ + 1]
      /\ Allows(c)
  BY DEF Record, Start
<1>2. new \in Sample /\ new \notin recent
  BY DiagnosticsAssumption DEF Sample
<1>3. SampleTyped'
  <2>1. window' \in 0..Minute /\ count' \in [Channels -> Nat] /\ stored' \in Seq(Nat)
    BY <1>1, DiagnosticsAssumption DEF None
  <2>2. recent' \subseteq Sample /\ IsFiniteSet(recent')
    BY <1>1, <1>2, FS_AddElement
  <2>3. \A r \in recent' : r.diag <= Len(stored')
    BY <1>1 DEF Sample
  <2> QED BY <2>1, <2>2, <2>3
<1>4. ~Fresh'
  BY <1>1, DiagnosticsAssumption DEF Fresh
<1>5. ASSUME NEW e \in Channels
      PROVE  /\ count'[e] <= Cap /\ Cardinality(Newer(e)') = count'[e]
             /\ Cardinality(Older(e)') <= Cap
  <2>1. CASE Fresh
    <3>1. count'[e] = IF e = c THEN 1 ELSE 0
      BY <1>1, <2>1 DEF None
    <3>2. Newer(e)' = IF e = c THEN {new} ELSE {}
      BY <1>1, <2>1, DiagnosticsAssumption DEF Newer, Settled, Sample
    <3>3. Older(e)' = Newer(e)
      BY <1>1, <2>1, DiagnosticsAssumption DEF Newer, Older, Settled, Sample, Fresh
    <3>4. Cardinality(Newer(e)') = count'[e]
      BY <3>1, <3>2, FS_EmptySet, FS_Singleton
    <3>5. Cardinality(Newer(e)) <= Cap
      BY PartsFinite, DiagnosticsAssumption
    <3> QED BY <3>1, <3>3, <3>4, <3>5, DiagnosticsAssumption
  <2>2. CASE ~Fresh
    <3>1. Older(e)' = Older(e)
      BY <1>1, <2>2 DEF Older, Fresh
    <3>2. CASE e = c
      <4>1. Newer(e)' = Newer(e) \cup {new}
        BY <1>1, <2>2, <3>2 DEF Newer, Fresh
      <4>2. new \notin Newer(e)
        BY <1>2 DEF Newer
      <4>3. Cardinality(Newer(e)') = Cardinality(Newer(e)) + 1
        BY <4>1, <4>2, PartsFinite, FS_AddElement
      <4>4. count'[e] = count[e] + 1 /\ count[e] < Cap
        BY <1>1, <2>2, <3>2 DEF Allows, Noted
      <4>5. count'[e] <= Cap
        BY <4>4, DiagnosticsAssumption
      <4> QED BY <2>2, <3>1, <4>3, <4>4, <4>5
    <3>3. CASE e # c
      <4>1. Newer(e)' = Newer(e)
        BY <1>1, <2>2, <3>3 DEF Newer, Fresh
      <4>2. count'[e] = count[e]
        BY <1>1, <2>2, <3>3
      <4> QED BY <2>2, <3>1, <4>1, <4>2
    <3> QED BY <3>2, <3>3
  <2> QED BY <2>1, <2>2
<1>6. Bounded'
  BY <1>3, <1>5
<1>7. Settled'
  BY <1>4 DEF Settled
<1> QED BY <1>3, <1>6, <1>7

\* With the clock, both parts grow older, the newer into a window that may be over,
\* and those a minute old are recent no more.
LEMMA TickSample == SampleInv /\ DTick => SampleInv'
<1> SUFFICES ASSUME SampleInv, DTick PROVE SampleInv'
  OBVIOUS
<1> USE DEF SampleInv, SampleTyped, Bounded
<1> DEFINE Young(S) == {r \in S : r.age + 1 < Minute}
<1>1. /\ recent' = Aged(Young(recent)) /\ UNCHANGED <<count, stored>>
      /\ window' = IF Fresh THEN window ELSE window + 1
  BY DEF DTick, Aged, Grown
<1>2. /\ \A r \in recent : r \in Sample
      /\ \A r \in recent' : \E q \in Young(recent) : r = Grown(q)
  BY <1>1 DEF Aged
<1>3. \A r \in recent' : r \in Sample /\ r.age > 0 /\ r.diag <= Len(stored)
  BY <1>2, GrownForm
<1>4. SampleTyped'
  <2>1. IsFiniteSet(recent')
    BY <1>1, AgedLess
  <2>2. window' \in 0..Minute
    BY <1>1, DiagnosticsAssumption DEF Fresh
  <2> QED BY <1>1, <1>3, <2>1, <2>2
<1>5. Settled'
  BY <1>3 DEF Settled
<1>6. ASSUME NEW c \in Channels
      PROVE  /\ Cardinality(Newer(c)') <= count[c] /\ Cardinality(Older(c)') <= Cap
             /\ ~Fresh' => Cardinality(Newer(c)') = count[c]
  <2>1. /\ Newer(c) \in SUBSET Sample /\ IsFiniteSet(Newer(c)) /\ count[c] \in Nat
        /\ Older(c) \in SUBSET Sample /\ IsFiniteSet(Older(c))
    BY PartsFinite DEF Newer, Older
  <2>2. ASSUME NEW S \in SUBSET Sample, IsFiniteSet(S)
        PROVE  /\ Cardinality(Aged(Young(S))) <= Cardinality(S)
               /\ Cardinality(Aged(Young(S))) \in Nat /\ Cardinality(S) \in Nat
    BY <2>2, AgedLess
  <2>3. Newer(c)' \subseteq Aged(Young(recent)) /\ Older(c)' \subseteq Aged(Young(recent))
    BY <1>1 DEF Newer, Older
  <2>4. Young(Newer(c)) \subseteq Young(recent) /\ Young(Older(c)) \subseteq Young(recent)
    BY DEF Newer, Older
  <2>5. Newer(c)' = Aged(Young(Newer(c)))
    <3>1. ASSUME NEW r \in Young(recent)
          PROVE  Grown(r) \in Newer(c)' <=> r \in Young(Newer(c))
      <4>1. Grown(r) \in recent'
        BY <1>1 DEF Aged
      <4>2. r.age <= window <=> r.age + 1 <= window'
        BY <1>1, <1>2, GrownForm, DiagnosticsAssumption DEF Fresh
      <4> QED BY <1>2, <4>1, <4>2, GrownForm DEF Newer
    <3>2. \A r \in Young(recent) : Grown(r) \in Newer(c)' <=> r \in Young(Newer(c))
      BY <3>1
    <3> DEFINE S == Young(recent)
               T == Young(Newer(c))
               R == Newer(c)'
    <3>3. T \in SUBSET S /\ R \in SUBSET Aged(S) /\ \A r \in S : Grown(r) \in R <=> r \in T
      BY <2>3, <2>4, <3>2
    <3>4. R = Aged(T)
      <4> HIDE DEF R, S, T
      <4> QED BY <3>3, AgedPart
    <3> QED BY <3>4
  <2>6. Older(c)' \subseteq Aged(Young(Older(c)))
    <3>1. ASSUME NEW r \in Young(recent), Grown(r) \in Older(c)'
          PROVE  r \in Young(Older(c))
      BY <1>1, <1>2, <3>1, GrownForm, DiagnosticsAssumption DEF Fresh, Older
    <3> HIDE DEF Young
    <3> QED BY <2>3, <3>1 DEF Aged
  <2>7. Cardinality(Older(c)') <= Cap
    <3>1. IsFiniteSet(Aged(Young(Older(c))))
      BY <2>1, AgedLess
    <3>2. /\ Cardinality(Older(c)') <= Cardinality(Aged(Young(Older(c))))
          /\ Cardinality(Older(c)') \in Nat
      BY <2>6, <3>1, FS_Subset, FS_CardinalityType
    <3> QED BY <2>1, <2>2, <3>2, DiagnosticsAssumption
  <2>8. Cardinality(Newer(c)') <= count[c]
    BY <2>1, <2>2, <2>5
  <2>9. ASSUME ~Fresh'
        PROVE  Cardinality(Newer(c)') = count[c]
    <3>1. ~Fresh /\ window' = window + 1 /\ window + 1 < Minute
      BY <1>1, <2>9, DiagnosticsAssumption DEF Fresh
    <3>2. ASSUME NEW r \in Newer(c)
          PROVE  r.age + 1 < Minute
      <4>1. r \in Sample /\ r.age <= window
        BY <1>2 DEF Newer
      <4>2. r.age \in Nat
        BY <4>1, GrownForm
      <4> QED BY <3>1, <4>1, <4>2, DiagnosticsAssumption
    <3>3. Young(Newer(c)) = Newer(c)
      BY <3>2
    <3> QED BY <2>1, <2>5, <3>1, <3>3, AgedMany
  <2> QED BY <2>7, <2>8, <2>9
<1>7. Bounded'
  BY <1>1, <1>6
<1> QED BY <1>4, <1>5, <1>7

LEMMA RestartSample == SampleInv /\ DRestart => SampleInv'
<1> SUFFICES ASSUME SampleInv, DRestart PROVE SampleInv'
  OBVIOUS
<1>1. /\ recent' = {} /\ window' = Minute /\ count' = None /\ stored' = stored
  BY DEF DRestart
<1>2. SampleTyped'
  BY <1>1, FS_EmptySet, DiagnosticsAssumption DEF SampleInv, SampleTyped, None
<1>3. Fresh'
  BY <1>1, DiagnosticsAssumption DEF Fresh
<1>4. \A c \in Channels : Newer(c)' = {} /\ Older(c)' = {} /\ count'[c] = 0
  BY <1>1 DEF Newer, Older, None
<1>5. Bounded'
  BY <1>3, <1>4, FS_EmptySet, DiagnosticsAssumption DEF Bounded
<1>6. Settled'
  BY <1>1 DEF Settled
<1> QED BY <1>2, <1>5, <1>6 DEF SampleInv

LEMMA SampleStep == SampleInv /\ DStep => SampleInv'
<1>1. ASSUME SampleInv, Take \/ Ticker \/ Flush \/ UNCHANGED dvars
      PROVE  SampleInv'
  <2>1. UNCHANGED <<window, count, recent>>
    BY <1>1 DEF Take, Ticker, Flush, dvars
  <2>2. stored' \in Seq(Nat) /\ Len(stored') = Len(stored)
    <3>1. CASE stored' = stored
      BY <1>1, <3>1 DEF SampleInv, SampleTyped
    <3>2. CASE stored' = [d \in DOMAIN stored |-> IF Contains(batch, d) THEN stored[d] + 1
                                                                        ELSE stored[d]]
      <4>1. Len(stored) \in Nat /\ DOMAIN stored = 1..Len(stored) /\ stored \in Seq(Nat)
        BY <1>1 DEF SampleInv, SampleTyped
      <4> QED BY <3>2, <4>1
    <3> QED BY <1>1, <3>1, <3>2 DEF Take, Ticker, Flush, dvars
  <2>3. SampleTyped'
    BY <1>1, <2>1, <2>2 DEF SampleInv, SampleTyped
  <2> QED BY <1>1, <2>1, <2>3 DEF SampleInv, Bounded, Settled, Newer, Older, Fresh
<1> QED BY <1>1, RecordSample, TickSample, RestartSample DEF DStep, DNext

\* Although windows turn only when the next failure comes, no channel has more than two
\* windows' samples within a minute, and one that has had less than a window's is heard,
\* whatever the others do (reqerr.go:208-222).
THEOREM SampledFairly == SignalsSpec => []Sampled
<1>1. SignalsInit => SampleInv
  BY InitSample DEF SignalsInit
<1>2. SampleInv /\ [SignalsNext]_cvars => SampleInv'
  BY Parts, SampleStep
<1> QED BY <1>1, <1>2, BoundedSampled, PTL DEF SignalsSpec
==============================================================================
