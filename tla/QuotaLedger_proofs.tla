--------------------------- MODULE QuotaLedger_proofs ---------------------------
(***************************************************************************)
(* Theorems about QuotaLedger for every limit, queue, batch, set of        *)
(* requests and disturbance.  What the database is certain to hold one day *)
(* and what resets have waived never exceed what was spent (Covered), so   *)
(* neither does anything a refill can have read, unless a reset came in    *)
(* between (ReadsFresh).                                                   *)
(***************************************************************************)
EXTENDS QuotaLedger, TLAPS, FiniteSetTheorems

\* TypeOK without the bounds that keep TLC's state space finite.
Typed ==
  /\ redis \in {Absent} \cup Nat
  /\ db \in Nat /\ queue \in Nat /\ batch \in Nat
  /\ pc \in [Requests -> Places]
  /\ read \in [Requests -> Nat]
  /\ owner \in {"idle", "loaded", "saved", "reset"}
  /\ form \in Nat
  /\ spent \in Nat /\ lost \in Nat /\ waived \in Nat
  /\ clean \in BOOLEAN
  /\ events \in [Disturbances -> Nat]

Recorders == Cardinality(At("recording"))

\* The costs the database does not show: on their way to it, or lost.
Missing == queue + batch + Recorders + lost

\* Every cost the database shows, misses or has waived was spent once.
Covered == db + Missing + waived <= spent

Exact == events["edit"] = 0 => db + Missing + waived = spent

\* An update of the owner is an edit, and its form is older than the row.
Editing ==
  /\ owner # "idle" => events["edit"] > 0
  /\ owner = "loaded" => form <= db

\* What requests have read from the database was spent.
ReadsSpent == \A r \in Requests : read[r] <= spent

\* Only a request about to refill keeps what it has read.
ReadsOwn == \A r \in Requests : pc[r] # "filling" => read[r] = 0

\* While no reset was half undone, what requests have read was spent since the last one.
ReadsFresh == clean => \A r \in Requests : read[r] <= spent - waived

\* Whatever resets did, Redis shows no more than was spent and sent again.
Ceiling == redis # Absent => redis <= spent + events["lost"]

Books == Typed /\ Covered /\ Exact /\ Editing
Reads == ReadsSpent /\ ReadsOwn /\ ReadsFresh
Charges == Ceiling /\ NeverOvercharged

IndInv == Books /\ Reads /\ Charges

------------------------------------------------------------------------------
(* Counting the requests between the two halves of recordUsage *)

\* There are finitely many.
LEMMA RecordersType == Recorders \in Nat /\ IsFiniteSet(At("recording"))
<1>1. At("recording") \subseteq Requests
  BY DEF At
<1>2. IsFiniteSet(At("recording"))
  BY <1>1, LedgerAssumption, FS_Subset
<1> QED BY <1>2, FS_CardinalityType DEF Recorders

\* Nothing negative is missing.
LEMMA MissingType == Typed => Missing \in Nat
  BY RecordersType DEF Typed, Missing

\* A request that goes anywhere but to or from "recording" does not change the count.
LEMMA RecordersSame ==
  ASSUME Typed, NEW r \in Requests, NEW place \in Places,
         pc[r] # "recording", place # "recording",
         pc' = [pc EXCEPT ![r] = place]
  PROVE  Recorders' = Recorders
<1>1. At("recording")' = At("recording")
  BY DEF At, Typed
<1> QED BY <1>1 DEF Recorders

\* A request that has added its cost in Redis counts once more.
LEMMA RecordersMore ==
  ASSUME Typed, NEW r \in Requests, pc[r] # "recording",
         pc' = [pc EXCEPT ![r] = "recording"]
  PROVE  Recorders' = Recorders + 1
<1>1. At("recording")' = At("recording") \cup {r}
  BY DEF At, Typed
<1>2. r \notin At("recording")
  BY DEF At
<1>3. IsFiniteSet(At("recording"))
  BY RecordersType
<1>4. Cardinality(At("recording") \cup {r}) = Cardinality(At("recording")) + 1
  BY <1>2, <1>3, FS_AddElement
<1> QED BY <1>1, <1>4 DEF Recorders

\* One that has handed its record to the writer counts no more.
LEMMA RecordersLess ==
  ASSUME Typed, NEW r \in Requests, pc[r] = "recording",
         pc' = [pc EXCEPT ![r] = "idle"]
  PROVE  Recorders' = Recorders - 1
<1>1. At("recording")' = At("recording") \ {r}
  BY DEF At, Typed
<1>2. r \in At("recording")
  BY DEF At
<1>3. IsFiniteSet(At("recording"))
  BY RecordersType
<1>4. Cardinality(At("recording") \ {r}) = Cardinality(At("recording")) - 1
  BY <1>2, <1>3, FS_RemoveElement
<1> QED BY <1>1, <1>4 DEF Recorders

\* None is left after a crash.
LEMMA RecordersNone ==
  ASSUME pc' = [r \in Requests |-> "idle"]
  PROVE  Recorders' = 0
<1>1. At("recording")' = {}
  BY DEF At
<1> QED BY <1>1, FS_EmptySet DEF Recorders

------------------------------------------------------------------------------
(* Groups of steps *)

\* What a step adds to the disturbances the invariant looks at.
LEMMA Disturbing ==
  ASSUME Typed, NEW kind \in Disturbances, Disturb(kind)
  PROVE  /\ events' \in [Disturbances -> Nat]
         /\ events'["edit"] = IF kind = "edit" THEN events["edit"] + 1 ELSE events["edit"]
         /\ events'["lost"] = IF kind = "lost" THEN events["lost"] + 1 ELSE events["lost"]
  BY DEF Disturb, Typed, Disturbances

LEMMA EventsType ==
  ASSUME Typed
  PROVE  events["edit"] \in Nat /\ events["lost"] \in Nat
  BY DEF Typed, Disturbances

\* The kinds that have an action.
LEMMA Kinded ==
  {"get", "setnx", "add", "del", "lost", "db", "flush", "evict", "crash", "edit", "reset"}
    \subseteq Disturbances
  BY DEF Disturbances

\* A step without an edit and without a resent command.
Plain ==
  /\ events' \in [Disturbances -> Nat]
  /\ events'["edit"] = events["edit"] /\ events'["lost"] = events["lost"]

LEMMA PlainSteps ==
  ASSUME Typed,
         events' = events \/ \E kind \in Disturbances \ {"edit", "lost"} : Disturb(kind)
  PROVE  Plain
<1>1. CASE events' = events
  BY <1>1 DEF Plain, Typed
<1>2. CASE \E kind \in Disturbances \ {"edit", "lost"} : Disturb(kind)
  BY <1>2, Disturbing DEF Plain
<1> QED BY <1>1, <1>2

\* The spent costs that are not waived.
LEMMA Owed ==
  ASSUME Books
  PROVE  /\ db <= spent /\ db <= spent - waived /\ 0 <= spent - waived
         /\ Missing \in Nat /\ 0 <= spent - (waived + db)
  BY MissingType DEF Books, Covered, Typed

\* A request looks at its quota: the costs stay, one read comes or goes.
LEMMA Looking ==
  ASSUME IndInv, NEW r \in Requests,
         Get(r) \/ GetFails(r) \/ ReadDB(r) \/ ReadDBFails(r)
  PROVE  IndInv'
<1> USE DEF IndInv, Books, Reads, Charges
<1>1. PICK place \in Places \ {"recording"} :
        /\ pc' = [pc EXCEPT ![r] = place]
        /\ \/ place # "filling" /\ read' = read
           \/ place = "filling" /\ read' = [read EXCEPT ![r] = db]
  BY DEF Get, GetFails, ReadDB, ReadDBFails, Goto, Decide, Places
<1>2. pc[r] \in {"idle", "missed", "fallback"}
  BY DEF Get, GetFails, ReadDB, ReadDBFails, Admissible
<1>3. Recorders' = Recorders /\ Recorders \in Nat
  BY <1>1, <1>2, RecordersSame, RecordersType
<1>4. UNCHANGED <<ledgers, account, update, history>>
  BY DEF Get, GetFails, ReadDB, ReadDBFails
<1>5. Plain
  BY PlainSteps, Kinded DEF Get, GetFails, ReadDB, ReadDBFails
<1>6. pc' \in [Requests -> Places] /\ read' \in [Requests -> Nat]
  BY <1>1 DEF Typed
<1>7. Typed'
  BY <1>4, <1>5, <1>6 DEF Typed, Plain, ledgers, account, update, history
<1>8. Covered' /\ Exact' /\ Editing'
  BY <1>3, <1>4, <1>5
     DEF Covered, Exact, Missing, Editing, Plain, ledgers, account, update, history
<1>9. Reads'
  <2>1. ReadsSpent' /\ ReadsFresh'
    BY <1>1, <1>4, Owed DEF ReadsSpent, ReadsFresh, Typed, history
  <2>2. ReadsOwn'
    BY <1>1, <1>2 DEF ReadsOwn, Typed
  <2> QED BY <2>1, <2>2
<1>10. Charges'
  BY <1>4, <1>5 DEF Ceiling, NeverOvercharged, Plain, ledgers, update, history
<1> QED BY <1>7, <1>8, <1>9, <1>10

\* A refill writes what was read, and that was spent.
LEMMA Filling ==
  ASSUME IndInv, NEW r \in Requests, SetNX(r) \/ SetNXFails(r)
  PROVE  IndInv'
<1> USE DEF IndInv, Books, Reads, Charges
<1>1. PICK place \in {"idle", "running"} : pc' = [pc EXCEPT ![r] = place]
  BY DEF SetNX, SetNXFails
<1>2. Recorders' = Recorders
  BY <1>1, RecordersSame DEF SetNX, SetNXFails, Places
<1>3. UNCHANGED <<db, account, update, history>>
  BY DEF SetNX, SetNXFails
<1>4. redis' \in {redis, read[r]} /\ read' = [read EXCEPT ![r] = 0]
  BY DEF SetNX, SetNXFails, Refill
<1>5. Plain
  BY PlainSteps, Kinded DEF SetNX, SetNXFails
<1>6. /\ read[r] \in Nat /\ read[r] <= spent
      /\ clean => read[r] <= spent - waived
  BY DEF ReadsSpent, ReadsFresh, Typed
<1>7. pc' \in [Requests -> Places] /\ read' \in [Requests -> Nat]
  BY <1>1, <1>4 DEF Typed, Places
<1>8. Typed'
  BY <1>3, <1>4, <1>5, <1>6, <1>7 DEF Typed, Plain, account, update, history
<1>9. Covered' /\ Exact' /\ Editing'
  BY <1>2, <1>3, <1>5 DEF Covered, Exact, Missing, Editing, Plain, account, update, history
<1>10. Reads'
  BY <1>1, <1>3, <1>4, Owed DEF ReadsSpent, ReadsFresh, ReadsOwn, Typed, history
<1>11. Charges'
  BY <1>3, <1>4, <1>5, <1>6, EventsType
     DEF Ceiling, NeverOvercharged, Plain, Typed, update, history
<1> QED BY <1>8, <1>9, <1>10, <1>11

\* A charge that returns is spent, and reached Redis at most once since it was last sent.
LEMMA Charging ==
  ASSUME IndInv, NEW r \in Requests, Add(r) \/ AddFails(r)
  PROVE  IndInv'
<1> USE DEF IndInv, Books, Reads, Charges
<1>1. /\ pc[r] \in {"running", "charging"}
      /\ pc' = [pc EXCEPT ![r] = "recording"] /\ read' = read
  BY DEF Add, AddFails, Goto, InFlight, At
<1>2. Recorders' = Recorders + 1 /\ Recorders \in Nat
  BY <1>1, RecordersMore, RecordersType
<1>3. UNCHANGED <<db, account, update, waived, clean>> /\ spent' = spent + 1
  BY DEF Add, AddFails
<1>4. redis' \in {redis, Increased}
  BY DEF Add, AddFails
<1>5. Plain
  BY PlainSteps, Kinded DEF Add, AddFails
<1>6. pc' \in [Requests -> Places] /\ redis' \in {Absent} \cup Nat
  BY <1>1, <1>4 DEF Typed, Places, Increased
<1>7. Typed'
  BY <1>1, <1>3, <1>5, <1>6 DEF Typed, Plain, account, update
<1>8. Covered' /\ Exact' /\ Editing'
  BY <1>2, <1>3, <1>5 DEF Covered, Exact, Missing, Editing, Plain, Typed, account, update
<1>9. Reads'
  BY <1>1, <1>3 DEF ReadsSpent, ReadsFresh, ReadsOwn, Typed
<1>10. Charges'
  <2>1. CASE redis' = redis
    BY <1>3, <1>5, <2>1, EventsType, LedgerAssumption
       DEF Ceiling, NeverOvercharged, Plain, Typed, update
  <2>2. CASE redis' = Increased
    BY <1>3, <1>5, <2>2, EventsType, Owed, LedgerAssumption
       DEF Ceiling, NeverOvercharged, Plain, Typed, Increased, update
  <2> QED BY <1>4, <2>1, <2>2
<1> QED BY <1>7, <1>8, <1>9, <1>10

\* A command sent again: a refill is the same refill, a charge is one lost reply more.
LEMMA SendingAgain ==
  ASSUME IndInv, NEW r \in Requests, Resent(r)
  PROVE  IndInv'
<1> USE DEF IndInv, Books, Reads, Charges
<1>1. /\ UNCHANGED <<db, account, read, update, history>>
      /\ \/ pc[r] = "filling" /\ redis' \in {redis, read[r]} /\ pc' = pc
         \/ /\ pc[r] \in {"running", "charging"} /\ redis' = Increased
            /\ pc' = [pc EXCEPT ![r] = "charging"]
  BY DEF Resent, Refill, InFlight, At
<1>2. /\ events' \in [Disturbances -> Nat]
      /\ events'["edit"] = events["edit"] /\ events'["lost"] = events["lost"] + 1
  BY Disturbing, Kinded DEF Resent
<1>3. Recorders' = Recorders
  <2>1. CASE pc' = pc
    BY <2>1 DEF Recorders, At
  <2>2. CASE pc[r] \in {"running", "charging"} /\ pc' = [pc EXCEPT ![r] = "charging"]
    BY <2>2, RecordersSame DEF Places
  <2> QED BY <1>1, <2>1, <2>2
<1>4. /\ read[r] \in Nat /\ read[r] <= spent
      /\ clean => read[r] <= spent - waived
  BY DEF ReadsSpent, ReadsFresh, Typed
<1>5. pc' \in [Requests -> Places] /\ redis' \in {Absent} \cup Nat
  BY <1>1, <1>4 DEF Typed, Places, Increased
<1>6. Typed'
  BY <1>1, <1>2, <1>5 DEF Typed, account, update, history
<1>7. Covered' /\ Exact' /\ Editing'
  BY <1>1, <1>2, <1>3 DEF Covered, Exact, Missing, Editing, account, update, history
<1>8. Reads'
  BY <1>1 DEF ReadsSpent, ReadsFresh, ReadsOwn, Typed, history
<1>9. Charges'
  <2>1. CASE redis' \in {redis, read[r]}
    BY <1>1, <1>2, <1>4, <2>1, EventsType, LedgerAssumption
       DEF Ceiling, NeverOvercharged, Typed, update, history
  <2>2. CASE redis' = Increased
    BY <1>1, <1>2, <2>2, EventsType, Owed, LedgerAssumption
       DEF Ceiling, NeverOvercharged, Typed, Increased, update, history
  <2> QED BY <1>1, <2>1, <2>2
<1> QED BY <1>6, <1>7, <1>8, <1>9

\* A free request ends; a record goes to the writer or is dropped.
LEMMA Ending ==
  ASSUME IndInv, NEW r \in Requests, Free(r) \/ Record(r)
  PROVE  IndInv'
<1> USE DEF IndInv, Books, Reads, Charges
<1>1. /\ pc[r] # "filling" /\ pc' = [pc EXCEPT ![r] = "idle"] /\ read' = read
      /\ UNCHANGED <<ledgers, batch, update, history, events>>
  BY DEF Free, Record, Goto, account
<1>2. queue' \in Nat /\ lost' \in Nat /\ Missing' = Missing
  <2>1. CASE Free(r)
    <3>1. Recorders' = Recorders
      BY <1>1, <2>1, RecordersSame DEF Free, Places
    <3> QED BY <2>1, <3>1 DEF Free, account, Typed, Missing
  <2>2. CASE Record(r)
    <3>1. Recorders' = Recorders - 1 /\ Recorders \in Nat
      BY <1>1, <2>2, RecordersLess, RecordersType DEF Record
    <3>2. batch' = batch
      BY <1>1
    <3>3. CASE queue' = queue + 1 /\ lost' = lost
      BY <3>1, <3>2, <3>3 DEF Typed, Missing
    <3>4. CASE lost' = lost + 1 /\ queue' = queue
      BY <3>1, <3>2, <3>4 DEF Typed, Missing
    <3> QED BY <2>2, <3>3, <3>4 DEF Record
  <2> QED BY <2>1, <2>2
<1>3. pc' \in [Requests -> Places]
  BY <1>1 DEF Typed, Places
<1>4. Typed'
  BY <1>1, <1>2, <1>3 DEF Typed, ledgers, update, history
<1>5. Covered' /\ Exact'
  BY <1>1, <1>2 DEF Covered, Exact, ledgers, history
<1>6. Editing' /\ Charges'
  BY <1>1 DEF Editing, Ceiling, NeverOvercharged, ledgers, update, history
<1>7. Reads'
  BY <1>1 DEF ReadsSpent, ReadsFresh, ReadsOwn, Typed, history
<1> QED BY <1>4, <1>5, <1>6, <1>7

\* The writer moves records on, to the database or into nowhere, and keeps none.
LEMMA Writing ==
  ASSUME IndInv, Take \/ Tick
  PROVE  IndInv'
<1> USE DEF IndInv, Books, Reads, Charges
<1>1. UNCHANGED <<redis, request, update, history>>
  BY DEF Take, Tick
<1>2. Recorders' = Recorders /\ Recorders \in Nat
  <2>1. At("recording")' = At("recording")
    BY <1>1 DEF At, request
  <2> QED BY <2>1, RecordersType DEF Recorders
<1>3. Plain
  BY PlainSteps, Kinded DEF Take, Tick, Flush
<1>4. /\ db' \in Nat /\ queue' \in Nat /\ batch' \in Nat /\ lost' \in Nat
      /\ db' >= db /\ db' + Missing' = db + Missing
  <2> DEFINE Flushed(records) ==
        /\ batch' = 0
        /\ \/ db' = db + records /\ lost' = lost
           \/ db' = db /\ lost' = lost + records
  <2>1. CASE Take
    <3>1. queue \in Nat \ {0} /\ queue' = queue - 1
      BY <2>1 DEF Take, Typed
    <3>2. CASE batch' = batch + 1 /\ db' = db /\ lost' = lost
      BY <1>2, <3>1, <3>2 DEF Typed, Missing
    <3>3. CASE Flushed(batch + 1)
      <4>1. CASE db' = db + (batch + 1) /\ lost' = lost
        BY <1>2, <3>1, <3>3, <4>1 DEF Typed, Missing
      <4>2. CASE db' = db /\ lost' = lost + (batch + 1)
        BY <1>2, <3>1, <3>3, <4>2 DEF Typed, Missing
      <4> QED BY <3>3, <4>1, <4>2
    <3> QED BY <2>1, <3>2, <3>3 DEF Take, Flush, Rest
  <2>2. CASE Tick
    <3>1. Flushed(batch) /\ queue' = queue
      BY <2>2 DEF Tick, Flush, Rest
    <3>2. CASE db' = db + batch /\ lost' = lost
      BY <1>2, <3>1, <3>2 DEF Typed, Missing
    <3>3. CASE db' = db /\ lost' = lost + batch
      BY <1>2, <3>1, <3>3 DEF Typed, Missing
    <3> QED BY <3>1, <3>2, <3>3
  <2> QED BY <2>1, <2>2
<1>5. Typed'
  BY <1>1, <1>3, <1>4 DEF Typed, Plain, request, update, history
<1>6. Covered' /\ Exact'
  BY <1>1, <1>3, <1>4, MissingType DEF Covered, Exact, Plain, Typed, history
<1>7. Editing' /\ Charges'
  BY <1>1, <1>3, <1>4
     DEF Editing, Ceiling, NeverOvercharged, Plain, Typed, update, history
<1>8. Reads'
  BY <1>1 DEF ReadsSpent, ReadsFresh, ReadsOwn, request, history
<1> QED BY <1>5, <1>6, <1>7, <1>8

\* The owner's update puts back an older row, a reset waives what the row shows.
LEMMA Owning ==
  ASSUME IndInv, Load \/ Save \/ Saved \/ Reset \/ Del \/ DelResent
  PROVE  IndInv'
<1> USE DEF IndInv, Books, Reads, Charges
<1>1. UNCHANGED <<account, request, spent>>
  BY DEF Load, Save, Saved, Reset, Del, DelResent, history
<1>2. Recorders' = Recorders /\ Recorders \in Nat
  <2>1. At("recording")' = At("recording")
    BY <1>1 DEF At, request
  <2> QED BY <2>1, RecordersType DEF Recorders
<1>3. ReadsSpent' /\ ReadsOwn'
  BY <1>1 DEF ReadsSpent, ReadsOwn, request
<1>4. ASSUME UNCHANGED <<waived, clean>> PROVE ReadsFresh'
  BY <1>1, <1>4 DEF ReadsFresh, request
<1>5. CASE Load
  <2>1. /\ owner = "idle" /\ owner' = "loaded" /\ form' = db
        /\ UNCHANGED <<redis, db, waived, clean>>
    BY <1>5 DEF Load, ledgers, history
  <2>2. /\ events' \in [Disturbances -> Nat] /\ events'["edit"] > 0
        /\ events'["lost"] = events["lost"]
    BY <1>5, Disturbing, Kinded, EventsType DEF Load
  <2>3. Typed'
    BY <1>1, <2>1, <2>2 DEF Typed, account, request
  <2>4. Covered' /\ Exact' /\ Editing'
    BY <1>1, <1>2, <2>1, <2>2 DEF Typed, Covered, Exact, Missing, Editing, account
  <2>5. Charges'
    BY <1>1, <2>1, <2>2 DEF Ceiling, NeverOvercharged
  <2> QED BY <1>3, <1>4, <2>1, <2>3, <2>4, <2>5
<1>6. CASE Save
  <2>1. /\ owner = "loaded" /\ owner' = "saved" /\ db' = form /\ form' = 0
        /\ UNCHANGED <<redis, waived, clean, events>>
    BY <1>6 DEF Save, history
  <2>2. Typed'
    BY <1>1, <2>1 DEF Typed, account, request
  <2>3. Covered' /\ Exact' /\ Editing'
    BY <1>1, <1>2, <2>1, EventsType DEF Typed, Covered, Exact, Missing, Editing, account
  <2>4. Charges'
    BY <1>1, <2>1 DEF Ceiling, NeverOvercharged
  <2> QED BY <1>3, <1>4, <2>1, <2>2, <2>3, <2>4
<1>7. CASE Saved
  <2>1. /\ owner = "saved" /\ owner' = "idle"
        /\ UNCHANGED <<redis, db, form, waived, clean, events>>
    BY <1>7 DEF Saved, ledgers, history
  <2>2. Typed'
    BY <1>1, <2>1 DEF Typed, account, request
  <2>3. Covered' /\ Exact' /\ Editing'
    BY <1>1, <1>2, <2>1 DEF Covered, Exact, Missing, Editing, account
  <2>4. Charges'
    BY <1>1, <2>1 DEF Ceiling, NeverOvercharged
  <2> QED BY <1>3, <1>4, <2>1, <2>2, <2>3, <2>4
<1>8. CASE Reset
  <2>1. /\ owner = "saved" /\ owner' = "reset" /\ waived' = waived + db /\ db' = 0
        /\ clean' = (clean /\ At("filling") = {})
        /\ UNCHANGED <<redis, form>>
    BY <1>8 DEF Reset
  <2>2. Plain
    BY <1>8, PlainSteps, Kinded DEF Reset
  <2>3. Typed'
    BY <1>1, <2>1, <2>2 DEF Typed, Plain, account, request
  <2>4. Covered' /\ Exact' /\ Editing'
    BY <1>1, <1>2, <2>1, <2>2 DEF Typed, Covered, Exact, Missing, Editing, Plain, account
  <2>5. Charges'
    BY <1>1, <2>1, <2>2 DEF Ceiling, NeverOvercharged, Plain
  <2>6. ReadsFresh'
    <3> SUFFICES ASSUME clean', NEW q \in Requests
                 PROVE  read'[q] <= spent' - waived'
      BY DEF ReadsFresh
    <3>1. pc[q] # "filling"
      BY <2>1 DEF At
    <3>2. read[q] = 0
      BY <3>1 DEF ReadsOwn
    <3> QED BY <1>1, <2>1, <3>2, Owed DEF request
  <2> QED BY <1>3, <2>3, <2>4, <2>5, <2>6
<1>9. CASE Del
  <2>1. /\ owner = "reset" /\ owner' = "idle" /\ UNCHANGED <<db, form, waived>>
        /\ \/ redis' = Absent /\ UNCHANGED <<clean, events>>
           \/ redis' = redis /\ clean' = FALSE
    BY <1>9 DEF Del
  <2>2. Plain
    BY <1>9, PlainSteps, Kinded DEF Del
  <2>3. Typed'
    BY <1>1, <2>1, <2>2 DEF Typed, Plain, account, request
  <2>4. Covered' /\ Exact' /\ Editing'
    BY <1>1, <1>2, <2>1, <2>2 DEF Covered, Exact, Missing, Editing, Plain, account
  <2>5. Charges'
    BY <1>1, <2>1, <2>2 DEF Ceiling, NeverOvercharged, Plain
  <2>6. ReadsFresh'
    BY <1>1, <2>1 DEF ReadsFresh, request
  <2> QED BY <1>3, <2>3, <2>4, <2>5, <2>6
<1>10. CASE DelResent
  <2>1. redis' = Absent /\ UNCHANGED <<db, update, waived, clean>>
    BY <1>10 DEF DelResent, history
  <2>2. /\ events' \in [Disturbances -> Nat]
        /\ events'["edit"] = events["edit"]
    BY <1>10, Disturbing, Kinded DEF DelResent
  <2>3. Typed'
    BY <1>1, <2>1, <2>2 DEF Typed, account, request, update
  <2>4. Covered' /\ Exact' /\ Editing'
    BY <1>1, <1>2, <2>1, <2>2 DEF Covered, Exact, Missing, Editing, account, update
  <2>5. Charges'
    BY <2>1 DEF Ceiling, NeverOvercharged
  <2> QED BY <1>3, <1>4, <2>1, <2>3, <2>4, <2>5
<1> QED BY <1>5, <1>6, <1>7, <1>8, <1>9, <1>10

\* Redis loses the key, or the gateway what it holds.
LEMMA Losing ==
  ASSUME IndInv, Evict \/ Crash
  PROVE  IndInv'
<1> USE DEF IndInv, Books, Reads, Charges
<1>1. Plain
  BY PlainSteps, Kinded DEF Evict, Crash
<1>2. CASE Evict
  <2>1. Recorders' = Recorders
    <3>1. At("recording")' = At("recording")
      BY <1>2 DEF Evict, At, request
    <3> QED BY <3>1 DEF Recorders
  <2>2. redis' = Absent /\ UNCHANGED <<db, account, request, update, history>>
    BY <1>2 DEF Evict
  <2>3. Typed'
    BY <1>1, <2>2 DEF Typed, Plain, account, request, update, history
  <2>4. Covered' /\ Exact' /\ Editing'
    BY <1>1, <2>1, <2>2
       DEF Covered, Exact, Missing, Editing, Plain, account, update, history
  <2>5. Reads' /\ Charges'
    BY <2>2 DEF ReadsSpent, ReadsFresh, ReadsOwn, Ceiling, NeverOvercharged, request, history
  <2> QED BY <2>3, <2>4, <2>5
<1>3. CASE Crash
  <2>1. Recorders' = 0 /\ Recorders \in Nat
    BY <1>3, RecordersNone, RecordersType DEF Crash
  <2>2. /\ lost' = lost + queue + batch + Recorders /\ queue' = 0 /\ batch' = 0
        /\ pc' = [r \in Requests |-> "idle"] /\ read' = [r \in Requests |-> 0]
        /\ owner' = "idle" /\ form' = 0 /\ clean' = (clean /\ owner # "reset")
        /\ UNCHANGED <<redis, db, spent, waived>>
    BY <1>3 DEF Crash, Recorders, ledgers
  <2>3. Typed'
    BY <1>1, <2>1, <2>2 DEF Typed, Plain, Places
  <2>4. Covered' /\ Exact' /\ Editing'
    BY <1>1, <2>1, <2>2 DEF Covered, Exact, Missing, Editing, Plain, Typed
  <2>5. Reads'
    BY <2>2, Owed DEF ReadsSpent, ReadsFresh, ReadsOwn, Typed
  <2>6. Charges'
    BY <1>1, <2>2 DEF Ceiling, NeverOvercharged, Plain
  <2> QED BY <2>3, <2>4, <2>5, <2>6
<1> QED BY <1>2, <1>3

------------------------------------------------------------------------------

\* Nothing has been spent yet.
LEMMA InitInv == Init => IndInv
<1> SUFFICES ASSUME Init PROVE IndInv
  OBVIOUS
<1>1. At("recording") = {}
  BY DEF Init, At
<1>2. Recorders = 0
  BY <1>1, FS_EmptySet DEF Recorders
<1>3. Typed
  BY DEF Init, Typed, Places, Disturbances
<1> QED BY <1>2, <1>3
        DEF Init, IndInv, Books, Reads, Charges, Covered, Exact, Missing, Editing,
            ReadsSpent, ReadsOwn, ReadsFresh, Ceiling, NeverOvercharged

\* Every step keeps the books.
LEMMA NextInv == IndInv /\ [Next]_vars => IndInv'
<1> SUFFICES ASSUME IndInv, [Next]_vars PROVE IndInv'
  OBVIOUS
<1>1. CASE \E r \in Requests : Step(r)
  <2>1. PICK r \in Requests : Step(r)
    BY <1>1
  <2> QED BY <2>1, Looking, Filling, Charging, SendingAgain, Ending DEF Step
<1>2. CASE Take \/ Tick
  BY <1>2, Writing
<1>3. CASE Load \/ Save \/ Saved \/ Reset \/ Del \/ DelResent
  BY <1>3, Owning
<1>4. CASE Evict \/ Crash
  BY <1>4, Losing
<1>5. CASE UNCHANGED vars
  <2>1. UNCHANGED <<redis, db, queue, batch, lost, pc, read, owner, form,
                    spent, waived, clean, events>>
    BY <1>5 DEF vars, ledgers, account, request, update, history
  <2>2. Recorders' = Recorders
    BY <2>1 DEF Recorders, At
  <2> QED BY <2>1, <2>2
          DEF IndInv, Books, Reads, Charges, Typed, Covered, Exact, Missing, Editing,
              ReadsSpent, ReadsOwn, ReadsFresh, Ceiling, NeverOvercharged
<1> QED BY <1>1, <1>2, <1>3, <1>4, <1>5 DEF Next

\* The invariant holds in every behaviour.
LEMMA Invariance == Spec => []IndInv
  BY InitInv, NextInv, PTL DEF Spec

\* No key is charged twice, nor for what a reset has waived: whatever commands fail with
\* or without effect, whatever is dropped, lost, refilled or overwritten, the counter in
\* Redis shows no more than was spent since the last reset, and one cost per command sent
\* again after a lost reply (quota.go:88-124, usage.go:67).  Resets that Redis did not
\* follow are left out: see NeverOvercharged.
THEOREM NoDoubleCharge == Spec => []NeverOvercharged
<1>1. IndInv => NeverOvercharged
  BY DEF IndInv, Charges
<1> QED BY <1>1, Invariance, PTL

\* The database is exact as long as no edit writes an old row back: every cost is
\* stored, on its way, waived by a reset or known to be lost, and none of it twice.
THEOREM BooksBalance == Spec => []LedgerExact
<1>1. IndInv => LedgerExact
  <2>1. ASSUME IndInv PROVE LedgerExact
    BY <2>1, RecordersType
       DEF IndInv, Books, Typed, Exact, Missing, LedgerExact, Lag, Recorders
  <2> QED BY <2>1
<1> QED BY <1>1, Invariance, PTL
------------------------------------------------------------------------------
(* Counting the disturbances *)

Tallied == \A kind \in Disturbances : events[kind] <= MaxEvents

Counted(kinds, ev) == {e \in kinds \X (1..MaxEvents) : e[2] <= ev[e[1]]}

\* What may add to the overspend, and what forgets what was spent.
Slips == Total({"get", "add"})
Spoils == Total({"evict", "reset"})

LEMMA DisturbancesFinite == IsFiniteSet(Disturbances)
<1>1. IsFiniteSet({"get"})
  BY FS_Singleton
<1>2. IsFiniteSet({"get"} \cup {"setnx"})
  BY <1>1, FS_AddElement
<1>3. IsFiniteSet({"get", "setnx"} \cup {"add"})
  BY <1>2, FS_AddElement
<1>4. IsFiniteSet({"get", "setnx", "add"} \cup {"del"})
  BY <1>3, FS_AddElement
<1>5. IsFiniteSet({"get", "setnx", "add", "del"} \cup {"lost"})
  BY <1>4, FS_AddElement
<1>6. IsFiniteSet({"get", "setnx", "add", "del", "lost"} \cup {"db"})
  BY <1>5, FS_AddElement
<1>7. IsFiniteSet({"get", "setnx", "add", "del", "lost", "db"} \cup {"flush"})
  BY <1>6, FS_AddElement
<1>8. IsFiniteSet({"get", "setnx", "add", "del", "lost", "db", "flush"} \cup {"evict"})
  BY <1>7, FS_AddElement
<1>9. IsFiniteSet({"get", "setnx", "add", "del", "lost", "db", "flush", "evict"} \cup {"crash"})
  BY <1>8, FS_AddElement
<1>10. IsFiniteSet({"get", "setnx", "add", "del", "lost", "db", "flush", "evict", "crash"}
                     \cup {"edit"})
  BY <1>9, FS_AddElement
<1>11. IsFiniteSet({"get", "setnx", "add", "del", "lost", "db", "flush", "evict", "crash", "edit"}
                     \cup {"reset"})
  BY <1>10, FS_AddElement
<1> QED BY <1>11 DEF Disturbances

LEMMA CountedFinite ==
  ASSUME NEW kinds, kinds \subseteq Disturbances, NEW ev
  PROVE  IsFiniteSet(Counted(kinds, ev)) /\ Cardinality(Counted(kinds, ev)) \in Nat
<1>1. IsFiniteSet(Disturbances \X (1..MaxEvents))
  <2>1. IsFiniteSet(1..MaxEvents)
    BY LedgerAssumption, FS_Interval
  <2> QED BY <2>1, DisturbancesFinite, FS_Product, Zenon
<1>2. Counted(kinds, ev) \subseteq Disturbances \X (1..MaxEvents)
  BY DEF Counted
<1>3. IsFiniteSet(Counted(kinds, ev))
  BY <1>1, <1>2, FS_Subset
<1> QED BY <1>3, FS_CardinalityType

\* A kind whose count is at the bound fills the total.
LEMMA RoomForOneMore ==
  ASSUME NEW ev \in [Disturbances -> Nat], NEW kind \in Disturbances,
         Cardinality(Counted(Disturbances, ev)) < MaxEvents
  PROVE  ev[kind] < MaxEvents
<1> SUFFICES ASSUME ev[kind] >= MaxEvents PROVE FALSE
  BY LedgerAssumption
<1> DEFINE column == {kind} \X (1..MaxEvents)
<1>1. column \subseteq Counted(Disturbances, ev)
  BY LedgerAssumption DEF Counted
<1>2. Cardinality(1..MaxEvents) = MaxEvents /\ IsFiniteSet(1..MaxEvents)
  BY LedgerAssumption, FS_Interval
<1>3. Cardinality({kind}) = 1 /\ IsFiniteSet({kind})
  BY FS_Singleton
<1>4. Cardinality(column) = 1 * MaxEvents
  <2>1. Cardinality(column) = Cardinality({kind}) * Cardinality(1..MaxEvents)
    BY <1>2, <1>3, FS_Product, Zenon
  <2> QED BY <1>2, <1>3, <2>1
<1>5. Cardinality(column) <= Cardinality(Counted(Disturbances, ev))
  BY <1>1, CountedFinite, FS_Subset
<1> HIDE DEF column
<1> QED BY <1>4, <1>5, CountedFinite, LedgerAssumption

LEMMA OneMore ==
  ASSUME NEW ev \in [Disturbances -> Nat], NEW kind \in Disturbances, ev[kind] < MaxEvents,
         NEW kinds, kinds \subseteq Disturbances
  PROVE  LET ev2 == [ev EXCEPT ![kind] = @ + 1]
         IN  Cardinality(Counted(kinds, ev2)) = Cardinality(Counted(kinds, ev))
                                                 + (IF kind \in kinds THEN 1 ELSE 0)
<1> DEFINE ev2 == [ev EXCEPT ![kind] = @ + 1]
           new == <<kind, ev[kind] + 1>>
<1>0. IsFiniteSet(Counted(kinds, ev)) /\ Cardinality(Counted(kinds, ev)) \in Nat
  BY CountedFinite
<1>1. /\ ev2[kind] = ev[kind] + 1 /\ ev[kind] \in Nat
      /\ \A k \in Disturbances \ {kind} : ev2[k] = ev[k]
  OBVIOUS
<1> HIDE DEF ev2
<1>2. CASE kind \in kinds
  <2>1. new \notin Counted(kinds, ev)
    BY <1>1 DEF Counted
  <2>2. Counted(kinds, ev2) = Counted(kinds, ev) \cup {new}
    <3>1. ASSUME NEW k \in kinds, NEW n \in 1..MaxEvents
          PROVE  n <= ev2[k] <=> n <= ev[k] \/ <<k, n>> = new
      BY <1>1, LedgerAssumption
    <3>2. new \in kinds \X (1..MaxEvents)
      BY <1>1, <1>2, LedgerAssumption
    <3>3. \A e \in kinds \X (1..MaxEvents) : e = <<e[1], e[2]>> /\ e[1] \in kinds /\ e[2] \in 1..MaxEvents
      OBVIOUS
    <3> HIDE DEF new
    <3>4. \A e \in kinds \X (1..MaxEvents) : e[2] <= ev2[e[1]] <=> e[2] <= ev[e[1]] \/ e = new
      BY <3>1, <3>3
    <3> QED BY <3>2, <3>4 DEF Counted
  <2> QED BY <1>0, <1>2, <2>1, <2>2, FS_AddElement DEF ev2
<1>3. CASE kind \notin kinds
  <2>1. \A k \in kinds : ev2[k] = ev[k]
    BY <1>1, <1>3
  <2>2. Counted(kinds, ev2) = Counted(kinds, ev)
    BY <2>1 DEF Counted
  <2> QED BY <1>0, <1>3, <2>2 DEF ev2
<1> QED BY <1>2, <1>3

\* What a disturbance counts for.
LEMMA DisturbCounts ==
  ASSUME Typed, Tallied, NEW kind \in Disturbances, Disturb(kind)
  PROVE  /\ Tallied'
         /\ Slips' = Slips + (IF kind \in {"get", "add"} THEN 1 ELSE 0)
         /\ Spoils' = Spoils + (IF kind \in {"evict", "reset"} THEN 1 ELSE 0)
<1>1. /\ events \in [Disturbances -> Nat] /\ events' = [events EXCEPT ![kind] = @ + 1]
      /\ Cardinality(Counted(Disturbances, events)) < MaxEvents
  BY DEF Typed, Disturb, Total, Counted
<1>2. events[kind] < MaxEvents
  BY <1>1, RoomForOneMore
<1>3. Tallied'
  BY <1>1, <1>2, LedgerAssumption DEF Tallied
<1>4. /\ Slips = Cardinality(Counted({"get", "add"}, events))
      /\ Slips' = Cardinality(Counted({"get", "add"}, events'))
      /\ Spoils = Cardinality(Counted({"evict", "reset"}, events))
      /\ Spoils' = Cardinality(Counted({"evict", "reset"}, events'))
  BY DEF Slips, Spoils, Total, Counted
<1>5. {"get", "add"} \subseteq Disturbances /\ {"evict", "reset"} \subseteq Disturbances
  BY DEF Disturbances
<1> QED BY <1>1, <1>2, <1>3, <1>4, <1>5, OneMore

LEMMA TotalsAre ==
  /\ Slips \in Nat /\ Spoils \in Nat
  /\ Typed /\ Tallied /\ events["reset"] > 0 => Spoils > 0
<1>1. {"get", "add"} \subseteq Disturbances /\ {"evict", "reset"} \subseteq Disturbances
  BY DEF Disturbances
<1>2. /\ Slips = Cardinality(Counted({"get", "add"}, events))
      /\ Spoils = Cardinality(Counted({"evict", "reset"}, events))
  BY DEF Slips, Spoils, Total, Counted
<1>3. Slips \in Nat /\ Spoils \in Nat
  BY <1>1, <1>2, CountedFinite
<1>4. ASSUME Typed, Tallied, events["reset"] > 0 PROVE Spoils > 0
  <2>1. events["reset"] \in Nat /\ events["reset"] <= MaxEvents /\ 1 \in 1..MaxEvents
    BY <1>4, LedgerAssumption DEF Typed, Tallied, Disturbances
  <2>2. <<"reset", 1>> \in Counted({"evict", "reset"}, events)
    <3> DEFINE e == <<"reset", 1>>
    <3>1. e \in {"evict", "reset"} \X (1..MaxEvents) /\ e[1] = "reset" /\ e[2] = 1
      BY <2>1
    <3> HIDE DEF e
    <3>2. e[2] <= events[e[1]]
      BY <1>4, <2>1, <3>1
    <3>3. e \in Counted({"evict", "reset"}, events)
      BY <3>1, <3>2 DEF Counted
    <3> QED BY <3>3 DEF e
  <2> QED BY <1>1, <1>2, <1>3, <2>2, CountedFinite, FS_EmptySet
<1> QED BY <1>3, <1>4

LEMMA TotalsSame ==
  ASSUME events' = events
  PROVE  Slips' = Slips /\ Spoils' = Spoils /\ (Tallied => Tallied')
  BY DEF Slips, Spoils, Total, Tallied
------------------------------------------------------------------------------
(* Counting the requests that may still be let in, or are *)

Admitted == {r \in Requests : pc[r] \in {"missed", "fallback", "filling", "running", "charging"}}
Pending == Cardinality(Admitted)

\* Where a request that goes from one place to another is counted.
Weight(place) == IF place \in {"missed", "fallback", "filling", "running", "charging"} THEN 1 ELSE 0

LEMMA PendingType ==
  /\ IsFiniteSet(Admitted) /\ Pending \in Nat /\ Cardinality(Requests) \in Nat
  /\ Pending <= Cardinality(Requests)
  /\ Pending <= Cardinality(Requests \ At("idle")) /\ Cardinality(Requests \ At("idle")) \in Nat
<1>1. Admitted \subseteq Requests \ At("idle")
  BY DEF Admitted, At
<1>2. IsFiniteSet(Requests \ At("idle")) /\ IsFiniteSet(Requests)
  BY LedgerAssumption, FS_Subset
<1>3. IsFiniteSet(Admitted) /\ Pending <= Cardinality(Requests \ At("idle"))
  BY <1>1, <1>2, FS_Subset DEF Pending
<1>4. Pending <= Cardinality(Requests)
  BY <1>1, <1>2, FS_Subset DEF Pending
<1> QED BY <1>2, <1>3, <1>4, FS_CardinalityType DEF Pending

LEMMA PendingMoves ==
  ASSUME Typed, NEW r \in Requests, NEW place, pc' = [pc EXCEPT ![r] = place]
  PROVE  Pending' = Pending + Weight(place) - Weight(pc[r])
<1> DEFINE W == {"missed", "fallback", "filling", "running", "charging"}
<1>0. IsFiniteSet(Admitted) /\ Pending \in Nat
  BY PendingType
<1>1. CASE place \in W /\ pc[r] \notin W
  <2>1. Admitted' = Admitted \cup {r} /\ r \notin Admitted
    BY <1>1 DEF Admitted, Typed
  <2>2. Cardinality(Admitted \cup {r}) = Cardinality(Admitted) + 1
    BY <1>0, <2>1, FS_AddElement
  <2> QED BY <1>0, <1>1, <2>1, <2>2 DEF Pending, Weight
<1>2. CASE place \notin W /\ pc[r] \in W
  <2>1. Admitted' = Admitted \ {r} /\ r \in Admitted
    BY <1>2 DEF Admitted, Typed
  <2>2. Cardinality(Admitted \ {r}) = Cardinality(Admitted) - 1
    BY <1>0, <2>1, FS_RemoveElement
  <2> QED BY <1>0, <1>2, <2>1, <2>2 DEF Pending, Weight
<1>3. CASE place \in W <=> pc[r] \in W
  <2>1. Admitted' = Admitted
    BY <1>3 DEF Admitted, Typed
  <2> QED BY <1>0, <1>3, <2>1 DEF Pending, Weight
<1> QED BY <1>1, <1>2, <1>3

LEMMA PendingSame ==
  ASSUME pc' = pc
  PROVE  Pending' = Pending
  BY DEF Pending, Admitted

LEMMA PendingNone ==
  ASSUME pc' = [r \in Requests |-> "idle"]
  PROVE  Pending' = 0
<1>1. Admitted' = {}
  BY DEF Admitted
<1> QED BY <1>1, FS_EmptySet DEF Pending

------------------------------------------------------------------------------
(* The bounds *)

\* What Redis shows: a key it does not have stands for nothing spent.
Shown == IF redis = Absent THEN 0 ELSE redis

\* With s spent, p pending, h shown and l slips: Redis has missed a charge only when one
\* slipped, and who is admitted was admitted below the limit, or slipped in.
Within(s, p, h, l) == s <= h + l /\ s + p <= Limit - 1 + Cardinality(Requests) + l

Tight == Spoils = 0 => Within(spent, Pending, Shown, Slips)

Queued ==
  /\ queue <= QueueSize /\ batch < BatchSize
  /\ form <= spent
  /\ owner = "reset" => events["reset"] > 0

BoundInv == Tallied /\ Queued /\ spent + Pending <= MaxSpent /\ Tight

LEMMA QueuedNext == IndInv /\ Queued /\ [Next]_vars => Queued'
<1> SUFFICES ASSUME IndInv, Queued, [Next]_vars PROVE Queued'
  OBVIOUS
<1>0. Typed /\ LedgerAssumption /\ "reset" \in Disturbances
  BY LedgerAssumption, Kinded DEF IndInv, Books
<1>1. db <= spent
  BY Owed, <1>0 DEF IndInv, Typed
<1>2. ASSUME NEW r \in Requests, Step(r) PROVE Queued'
  <2>1. UNCHANGED <<batch, update>>
    BY <1>2 DEF Step, Get, GetFails, ReadDB, ReadDBFails, SetNX, SetNXFails, Add, AddFails,
              Resent, Free, Record, account
  <2>2. spent' \in {spent, spent + 1}
    BY <1>2 DEF Step, Get, GetFails, ReadDB, ReadDBFails, SetNX, SetNXFails, Add, AddFails,
              Resent, Free, Record, history
  <2>3. queue' <= QueueSize
    BY <1>0, <1>2 DEF Queued, Step, Get, GetFails, ReadDB, ReadDBFails, SetNX, SetNXFails, Add,
              AddFails, Resent, Free, Record, account, Typed, LedgerAssumption
  <2>4. events'["reset"] = events["reset"]
    <3>1. events' = events
          \/ \E kind \in {"get", "db", "setnx", "add", "lost"} : Disturb(kind)
      BY <1>2 DEF Step, Get, GetFails, ReadDB, ReadDBFails, SetNX, SetNXFails, Add, AddFails,
              Resent, Free, Record
    <3> QED BY <1>0, <3>1 DEF Disturb, Typed
  <2> QED BY <1>0, <2>1, <2>2, <2>3, <2>4 DEF Queued, update, Typed
<1>3. CASE Take \/ Tick
  <2>1. UNCHANGED <<update, spent>> /\ events'["reset"] = events["reset"]
    BY <1>0, <1>3 DEF Take, Tick, Flush, Disturb, Typed, history
  <2>2. queue' <= QueueSize
    BY <1>0, <1>3 DEF Queued, Take, Tick, Typed, LedgerAssumption
  <2>3. batch' < BatchSize
    BY <1>0, <1>3 DEF Queued, Take, Tick, Flush, Rest, Typed, LedgerAssumption
  <2> QED BY <2>1, <2>2, <2>3 DEF Queued, update
<1>4. CASE Load \/ Save \/ Saved \/ Reset \/ Del \/ DelResent
  <2>1. UNCHANGED <<account, spent>> /\ form' \in {form, db, 0}
    BY <1>4 DEF Load, Save, Saved, Reset, Del, DelResent, history, update
  <2>2. owner' = "reset" => events'["reset"] > 0
    <3>1. CASE Load \/ Save \/ Saved \/ Del
      BY <3>1 DEF Load, Save, Saved, Del
    <3>2. CASE Reset
      BY <1>0, <3>2 DEF Reset, Disturb, Typed
    <3>3. CASE DelResent
      BY <1>0, <3>3 DEF DelResent, Disturb, Typed, Queued
    <3> QED BY <1>4, <3>1, <3>2, <3>3
  <2> QED BY <1>0, <1>1, <2>1, <2>2 DEF Queued, account, Typed
<1>5. CASE Evict
  <2>1. UNCHANGED <<account, update, spent>> /\ events'["reset"] = events["reset"]
    BY <1>0, <1>5 DEF Evict, Disturb, Typed, history
  <2> QED BY <2>1 DEF Queued, account, update
<1>6. CASE Crash
  <2>1. queue' = 0 /\ batch' = 0 /\ owner' = "idle" /\ form' = 0 /\ spent' = spent
    BY <1>6 DEF Crash
  <2> QED BY <1>0, <2>1 DEF Queued, Typed, LedgerAssumption
<1>7. CASE UNCHANGED vars
  BY <1>7 DEF Queued, vars, account, update, history
<1> QED BY <1>2, <1>3, <1>4, <1>5, <1>6, <1>7 DEF Next

\* The two bounds on what was spent, which every step is to keep.
Limits == spent + Pending <= MaxSpent /\ Tight

LEMMA TallyNext ==
  ASSUME Typed, Tallied, [Next]_vars
  PROVE  /\ Tallied' /\ Slips \in Nat /\ Spoils \in Nat
         /\ Slips' \in {Slips, Slips + 1} /\ Spoils' \in {Spoils, Spoils + 1}
<1>1. events' = events \/ \E kind \in Disturbances : Disturb(kind)
  BY DEF Next, Step, Get, GetFails, ReadDB, ReadDBFails, SetNX, SetNXFails, Add, AddFails, Resent, Free, Record,
         Take, Tick, Flush, Load, Save, Saved, Reset, Del, DelResent, Evict, Crash, vars, Disturbances
<1> QED BY <1>1, DisturbCounts, TotalsSame, TotalsAre

\* A request that is not yet let in has a place among the others.
LEMMA PendingRoom ==
  ASSUME NEW r \in Requests, pc[r] = "idle"
  PROVE  Pending + 1 <= Cardinality(Requests)
<1>1. Admitted \cup {r} \subseteq Requests /\ r \notin Admitted
  BY DEF Admitted
<1>2. Cardinality(Admitted \cup {r}) = Pending + 1
  BY <1>1, PendingType, FS_AddElement DEF Pending
<1> QED BY <1>1, <1>2, LedgerAssumption, FS_Subset

RequestsCount == Cardinality(Requests) \in Nat /\ Limit \in Nat \ {0}

LEMMA WithinStays ==
  ASSUME RequestsCount, NEW s \in Nat, NEW p \in Nat, NEW h \in Nat, NEW l \in Nat,
         Within(s, p, h, l), NEW p2 \in Int, NEW h2 \in Int, NEW l2 \in Nat,
         p2 <= p, h2 >= h, l2 >= l
  PROVE  Within(s, p2, h2, l2)
<1>1. s <= h + l /\ s + p <= Limit - 1 + Cardinality(Requests) + l
  BY DEF Within
<1>2. s <= h2 + l2
  BY <1>1
<1>3. PICK b \in Int : b = Limit - 1 + Cardinality(Requests)
  BY DEF RequestsCount
<1>4. s + p2 <= b + l2
  BY <1>1, <1>3
<1> QED BY <1>2, <1>3, <1>4 DEF Within

\* A request is let in below the limit, or slips in.
LEMMA WithinAdmits ==
  ASSUME RequestsCount, NEW s \in Nat, NEW p \in Nat, NEW h \in Nat, NEW l \in Nat,
         Within(s, p, h, l), p + 1 <= Cardinality(Requests),
         NEW l2 \in Nat, (h < Limit /\ l2 >= l) \/ l2 = l + 1
  PROVE  Within(s, p + 1, h, l2)
<1>1. s <= h + l /\ s + p <= Limit - 1 + Cardinality(Requests) + l
  BY DEF Within
<1>2. PICK n \in Nat, m \in Nat : n = Cardinality(Requests) /\ m = Limit
  BY DEF RequestsCount
<1>3. s <= h + l2 /\ s + (p + 1) <= m - 1 + n + l2
  BY <1>1, <1>2
<1> QED BY <1>2, <1>3 DEF Within

\* A charge comes from a request that was let in, and shows in Redis or slips.
LEMMA WithinCharges ==
  ASSUME RequestsCount, NEW s \in Nat, NEW p \in Nat, NEW h \in Nat, NEW l \in Nat,
         Within(s, p, h, l), NEW h2 \in Nat, NEW l2 \in Nat,
         h2 >= h, l2 >= l, h2 = h + 1 \/ l2 = l + 1
  PROVE  Within(s + 1, p - 1, h2, l2)
<1>1. s <= h + l /\ s + p <= Limit - 1 + Cardinality(Requests) + l
  BY DEF Within
<1>2. PICK b \in Int : b = Limit - 1 + Cardinality(Requests)
  BY DEF RequestsCount
<1>3. s + 1 <= h2 + l2 /\ (s + 1) + (p - 1) <= b + l2
  BY <1>1, <1>2
<1> QED BY <1>2, <1>3 DEF Within

LEMMA SumStays ==
  ASSUME NEW s \in Nat, NEW p \in Nat, NEW p2 \in Int, NEW m \in Nat, s + p <= m, p2 <= p
  PROVE  s + p2 <= m
  OBVIOUS

Countable ==
  /\ RequestsCount /\ spent \in Nat /\ Pending \in Nat /\ Shown \in Nat
  /\ Slips \in Nat /\ Spoils \in Nat /\ MaxSpent \in Nat

LEMMA CountableIs == ASSUME IndInv PROVE Countable
  BY PendingType, TotalsAre, LedgerAssumption DEF Countable, RequestsCount, IndInv, Books, Typed, Shown

\* How slips and spoils count, and that spoils once counted excuse the rest.
LEMMA Tally ==
  ASSUME IndInv, BoundInv, [Next]_vars
  PROVE  /\ Slips' \in Nat /\ Slips' >= Slips
         /\ Spoils > 0 => Spoils' > 0
         /\ Spoils' = 0 => Within(spent, Pending, Shown, Slips)
<1>1. /\ Slips \in Nat /\ Spoils \in Nat
      /\ (Slips' = Slips \/ Slips' = Slips + 1) /\ (Spoils' = Spoils \/ Spoils' = Spoils + 1)
  BY TallyNext DEF IndInv, Books, BoundInv
<1>2. Slips' \in Nat /\ Slips' >= Slips
  BY <1>1
<1>3. (Spoils > 0 => Spoils' > 0) /\ (Spoils' = 0 => Spoils = 0)
  BY <1>1
<1> QED BY <1>2, <1>3 DEF BoundInv, Tight

\* A step that spends nothing, lets nobody in and forgets nothing.
LEMMA LimitsStay ==
  ASSUME IndInv, BoundInv, [Next]_vars, spent' = spent,
         Pending' \in Int, Pending' <= Pending,
         Shown' \in Int, Shown' >= Shown \/ Spoils' > 0
  PROVE  Limits'
<1>1. Countable /\ Slips' \in Nat /\ Slips' >= Slips
  BY CountableIs, Tally
<1>2. spent + Pending <= MaxSpent
  BY DEF BoundInv
<1>3. spent + Pending' <= MaxSpent
  BY <1>1, <1>2, SumStays DEF Countable
<1>4. ASSUME Spoils' = 0 PROVE Within(spent, Pending', Shown', Slips')
  <2>1. Within(spent, Pending, Shown, Slips)
    BY <1>4, Tally
  <2>2. Shown' >= Shown
    BY <1>4
  <2> QED BY <1>1, <2>1, <2>2, WithinStays DEF Countable
<1> QED BY <1>3, <1>4 DEF Limits, Tight

LEMMA AdmissionLimits ==
  ASSUME IndInv, BoundInv, [Next]_vars, NEW r \in Requests, Get(r) \/ GetFails(r)
  PROVE  Limits'
<1>1. Countable /\ Slips' \in Nat /\ Slips' >= Slips
  BY CountableIs, Tally
<1>2. spent' = spent /\ Shown' = Shown
  BY DEF Get, GetFails, ledgers, history, Shown
<1>3. pc[r] = "idle" /\ Pending + 1 <= Cardinality(Requests)
  BY PendingRoom DEF Get, GetFails, Admissible
<1>4. spent + (Pending + 1) <= MaxSpent
  <2>1. spent + Cardinality(Requests \ At("idle")) < MaxSpent
    BY DEF Get, GetFails, Admissible
  <2>2. PICK n \in Nat : n = Cardinality(Requests \ At("idle")) /\ Pending <= n
    BY PendingType
  <2> QED BY <1>1, <2>1, <2>2 DEF Countable
<1>5. \/ Pending' = Pending
      \/ Pending' = Pending + 1 /\ (Shown < Limit \/ Slips' = Slips + 1)
  <2>1. ASSUME NEW place, pc' = [pc EXCEPT ![r] = place]
        PROVE  Pending' = Pending + Weight(place)
    <3>1. Pending' = Pending + Weight(place) - 0
      BY <1>3, <2>1, PendingMoves DEF IndInv, Books, Weight
    <3> QED BY <1>1, <3>1 DEF Countable, Weight
  <2>2. ASSUME Goto(r, "idle") PROVE Pending' = Pending
    <3>1. Pending' = Pending + 0
      <4>1. Pending' = Pending + Weight("idle")
        BY <2>1, <2>2 DEF Goto
      <4>2. Weight("idle") = 0
        BY DEF Weight
      <4> QED BY <4>1, <4>2
    <3> QED BY <1>1, <3>1 DEF Countable
  <2>3. ASSUME NEW place \in {"missed", "fallback", "running"}, Goto(r, place)
        PROVE  Pending' = Pending + 1
    BY <2>1, <2>3 DEF Goto, Weight
  <2>4. CASE Get(r)
    <3>1. CASE redis = Absent
      <4>1. Goto(r, "missed") /\ Shown < Limit
        BY <2>4, <3>1, LedgerAssumption DEF Get, Shown
      <4> QED BY <2>3, <4>1
    <3>2. CASE redis # Absent /\ redis >= Limit
      <4>1. Goto(r, "idle")
        BY <2>4, <3>2 DEF Get, Decide
      <4> QED BY <2>2, <4>1
    <3>3. CASE redis # Absent /\ ~(redis >= Limit)
      <4>1. Goto(r, "running")
        BY <2>4, <3>3 DEF Get, Decide
      <4>2. Shown < Limit
        BY <3>3, LedgerAssumption DEF Shown, IndInv, Books, Typed
      <4> QED BY <2>3, <4>1, <4>2
    <3> QED BY <3>1, <3>2, <3>3
  <2>5. CASE GetFails(r)
    <3>1. Slips' = Slips + 1
      BY <2>5, DisturbCounts DEF GetFails, Disturbances, IndInv, Books, BoundInv
    <3>2. Goto(r, "fallback")
      BY <2>5 DEF GetFails
    <3> QED BY <2>3, <3>1, <3>2
  <2> QED BY <2>4, <2>5
<1>6. CASE Pending' = Pending
  BY <1>1, <1>2, <1>6, LimitsStay DEF Countable
<1>7. CASE Pending' = Pending + 1 /\ (Shown < Limit \/ Slips' = Slips + 1)
  <2>1. ASSUME Spoils' = 0 PROVE Within(spent, Pending + 1, Shown, Slips')
    <3>1. Within(spent, Pending, Shown, Slips)
      BY <2>1, Tally
    <3> QED BY <1>1, <1>3, <1>7, <3>1, WithinAdmits DEF Countable
  <2> QED BY <1>2, <1>4, <1>7, <2>1 DEF Limits, Tight
<1> QED BY <1>5, <1>6, <1>7

LEMMA ChargeLimits ==
  ASSUME IndInv, BoundInv, [Next]_vars, NEW r \in Requests, Add(r) \/ AddFails(r)
  PROVE  Limits'
<1>1. Countable /\ Slips' \in Nat /\ Slips' >= Slips
  BY CountableIs, Tally
<1>2. spent' = spent + 1 /\ Pending' = Pending - 1
  <2>1. pc[r] \in {"running", "charging"} /\ pc' = [pc EXCEPT ![r] = "recording"]
    BY DEF Add, AddFails, Goto, InFlight, At
  <2>2. Pending' = Pending + 0 - 1
    BY <2>1, PendingMoves DEF IndInv, Books, Weight
  <2>3. spent' = spent + 1
    BY DEF Add, AddFails
  <2> QED BY <1>1, <2>2, <2>3 DEF Countable
<1>3. /\ Shown' \in Nat /\ Shown' >= Shown
      /\ Shown' = Shown + 1 \/ Slips' = Slips + 1
  <2>1. redis \in {Absent} \cup Nat /\ Absent \notin Nat
    BY LedgerAssumption DEF IndInv, Books, Typed
  <2>2. ASSUME redis' = Increased PROVE Shown' = Shown + 1 /\ Shown' \in Nat /\ Shown' >= Shown
    BY <2>1, <2>2 DEF Increased, Shown
  <2>3. CASE Add(r)
    BY <2>2, <2>3 DEF Add
  <2>4. CASE AddFails(r)
    <3>1. Slips' = Slips + 1
      BY <2>4, DisturbCounts DEF AddFails, Disturbances, IndInv, Books, BoundInv
    <3>2. CASE redis' = redis
      <4>1. Shown' = Shown
        BY <3>2 DEF Shown
      <4> QED BY <1>1, <3>1, <4>1 DEF Countable
    <3> QED BY <2>2, <2>4, <3>1, <3>2 DEF AddFails
  <2> QED BY <2>3, <2>4
<1>4. (spent + 1) + (Pending - 1) <= MaxSpent
  <2>1. spent + Pending <= MaxSpent
    BY DEF BoundInv
  <2> QED BY <1>1, <2>1 DEF Countable
<1>5. ASSUME Spoils' = 0 PROVE Within(spent + 1, Pending - 1, Shown', Slips')
  <2>1. Within(spent, Pending, Shown, Slips)
    BY <1>5, Tally
  <2> QED BY <1>1, <1>3, <2>1, WithinCharges DEF Countable
<1> QED BY <1>2, <1>4, <1>5 DEF Limits, Tight

LEMMA LimitsNext == IndInv /\ BoundInv /\ [Next]_vars => Limits'
<1> SUFFICES ASSUME IndInv, BoundInv, [Next]_vars PROVE Limits'
  OBVIOUS
<1>0. /\ Typed /\ Tallied /\ redis \in {Absent} \cup Nat /\ Absent \notin Nat
      /\ Pending \in Nat /\ Shown \in Nat
  BY PendingType, LedgerAssumption DEF IndInv, Books, BoundInv, Typed, Shown
<1>1. ASSUME NEW r \in Requests,
             ReadDB(r) \/ ReadDBFails(r) \/ SetNX(r) \/ SetNXFails(r) \/ Free(r) \/ Record(r)
      PROVE  Limits'
  <2>1. /\ spent' = spent
        /\ \E place \in Places :
             /\ pc' = [pc EXCEPT ![r] = place]
             /\ Weight(place) <= Weight(pc[r])
    BY <1>1 DEF ReadDB, ReadDBFails, SetNX, SetNXFails, Free, Record, Goto, Decide, Weight,
              Places, history
  <2>2. Pending' \in Int /\ Pending' <= Pending
    <3>1. PICK place : Pending' = Pending + Weight(place) - Weight(pc[r]) /\ Weight(place) <= Weight(pc[r])
      BY <1>0, <2>1, PendingMoves
    <3>2. Weight(place) \in Int /\ Weight(pc[r]) \in Int
      BY DEF Weight
    <3> QED BY <1>0, <3>1, <3>2
  <2>3. redis' \in {redis, Refill(read[r])} /\ read[r] \in Nat
    BY <1>0, <1>1 DEF ReadDB, ReadDBFails, SetNX, SetNXFails, Free, Record, ledgers, Typed
  <2>4. Shown' \in Int /\ Shown' >= Shown
    <3>1. CASE redis' = redis
      <4>1. Shown' = Shown
        BY <3>1 DEF Shown
      <4> QED BY <1>0, <4>1
    <3>2. CASE redis = Absent /\ redis' = read[r]
      BY <1>0, <2>3, <3>2 DEF Shown
    <3> QED BY <2>3, <3>1, <3>2 DEF Refill
  <2> QED BY <2>1, <2>2, <2>4, LimitsStay
<1>2. CASE Take \/ Tick \/ Load \/ Save \/ Saved \/ Reset \/ UNCHANGED vars
  <2>1. UNCHANGED <<redis, pc, spent>>
    BY <1>2 DEF Take, Tick, Load, Save, Saved, Reset, vars, ledgers, request, history
  <2>2. Pending' = Pending /\ Shown' = Shown
    BY <2>1, PendingSame DEF Shown
  <2> QED BY <1>0, <2>1, <2>2, LimitsStay
<1>3. CASE Del \/ DelResent \/ Evict
  <2>1. UNCHANGED <<pc, spent>> /\ redis' \in {redis, Absent}
    BY <1>3 DEF Del, DelResent, Evict, request, history
  <2>2. Spoils' > 0
    <3>1. Spoils \in Nat /\ Spoils' \in {Spoils, Spoils + 1}
      BY <1>0, TallyNext
    <3>2. CASE Del \/ DelResent
      <4>1. Spoils > 0
        BY <1>0, <3>2, TotalsAre DEF Del, DelResent, BoundInv, Queued
      <4> QED BY <3>1, <4>1
    <3>3. CASE Evict
      <4>1. Spoils' = Spoils + 1
        BY <1>0, <3>3, DisturbCounts DEF Evict, Disturbances
      <4> QED BY <3>1, <4>1
    <3> QED BY <1>3, <3>2, <3>3
  <2>3. Pending' = Pending /\ Shown' \in Int
    BY <1>0, <2>1, PendingSame DEF Shown
  <2> QED BY <1>0, <2>1, <2>2, <2>3, LimitsStay
<1>4. CASE Crash
  <2>1. spent' = spent /\ Pending' = 0 /\ Shown' = Shown
    BY <1>4, PendingNone DEF Crash, ledgers, Shown
  <2> QED BY <1>0, <2>1, LimitsStay
<1>5. ASSUME NEW r \in Requests, Resent(r) PROVE Limits'
  <2>1. /\ spent' = spent /\ read[r] \in Nat
        /\ redis' \in {Refill(read[r]), Increased}
    BY <1>0, <1>5 DEF Resent, history, Typed
  <2>2. Shown' \in Int /\ Shown' >= Shown
    <3>1. CASE redis' = redis
      <4>1. Shown' = Shown
        BY <3>1 DEF Shown
      <4> QED BY <1>0, <4>1
    <3>2. CASE redis = Absent /\ redis' \in {read[r], 1}
      BY <1>0, <2>1, <3>2 DEF Shown
    <3>3. CASE redis # Absent /\ redis' = redis + 1
      BY <1>0, <3>3 DEF Shown
    <3> QED BY <2>1, <3>1, <3>2, <3>3 DEF Refill, Increased
  <2>3. Pending' \in Int /\ Pending' <= Pending
    <3>1. CASE pc' = pc
      BY <1>0, <3>1, PendingSame
    <3>2. CASE r \in InFlight /\ pc' = [pc EXCEPT ![r] = "charging"]
      <4>1. Pending' = Pending + Weight("charging") - Weight(pc[r])
        BY <1>0, <3>2, PendingMoves
      <4>2. Weight("charging") = 1 /\ Weight(pc[r]) = 1
        BY <3>2 DEF Weight, InFlight, At
      <4> QED BY <1>0, <4>1, <4>2
    <3> QED BY <1>5, <3>1, <3>2 DEF Resent
  <2> QED BY <2>1, <2>2, <2>3, LimitsStay
<1> QED BY <1>1, <1>2, <1>3, <1>4, <1>5, AdmissionLimits, ChargeLimits DEF Next, Step

LEMMA BoundNext == IndInv /\ BoundInv /\ [Next]_vars => BoundInv'
<1> SUFFICES ASSUME IndInv, BoundInv, [Next]_vars PROVE BoundInv'
  OBVIOUS
<1>1. Tallied'
  BY TallyNext DEF IndInv, Books, BoundInv
<1> QED BY <1>1, QueuedNext, LimitsNext DEF BoundInv, Limits

LEMMA BoundInit == Init => BoundInv
<1> SUFFICES ASSUME Init PROVE BoundInv
  OBVIOUS
<1>1. Admitted = {}
  BY DEF Init, Admitted
<1>2. Pending = 0
  BY <1>1, FS_EmptySet DEF Pending
<1>3. /\ redis = Absent /\ spent = 0 /\ queue = 0 /\ batch = 0 /\ form = 0 /\ owner = "idle"
      /\ events = [kind \in Disturbances |-> 0]
  BY DEF Init
<1>4. Limit \in Nat \ {0} /\ QueueSize \in Nat \ {0} /\ BatchSize \in Nat \ {0} /\ MaxSpent \in Nat
      /\ MaxEvents \in Nat /\ Cardinality(Requests) \in Nat
  BY LedgerAssumption, PendingType
<1>5. Tallied /\ Queued
  BY <1>3, <1>4 DEF Tallied, Queued
<1>6. Tight
  <2>1. PICK n \in Nat, m \in Nat \ {0}, l \in Nat : n = Cardinality(Requests) /\ m = Limit /\ l = Slips
    BY <1>4, TotalsAre
  <2>2. 0 <= 0 + l /\ 0 + 0 <= m - 1 + n + l
    OBVIOUS
  <2>3. Shown = 0
    BY <1>3 DEF Shown
  <2> QED BY <1>2, <1>3, <2>1, <2>2, <2>3 DEF Tight, Within
<1> QED BY <1>2, <1>3, <1>4, <1>5, <1>6 DEF BoundInv

LEMMA BoundsHold == Spec => [](IndInv /\ BoundInv)
  BY InitInv, NextInv, BoundInit, BoundNext, PTL DEF Spec

\* The variables have their types and stay within the bounds: the queue, the batch, and,
\* since a request is let in only below MaxSpent, everything that counts what was spent.
THEOREM TypesAndBounds == Spec => []TypeOK
<1>1. ASSUME IndInv, BoundInv PROVE TypeOK
  <2>1. Typed /\ Recorders \in Nat /\ Pending \in Nat /\ MaxSpent \in Nat
    BY <1>1, RecordersType, PendingType, LedgerAssumption DEF IndInv, Books
  <2>2. spent <= MaxSpent
    BY <1>1, <2>1 DEF BoundInv, Typed
  <2>3. db <= spent /\ lost <= spent /\ waived <= spent
    BY <1>1, <2>1 DEF IndInv, Books, Covered, Missing, Typed
  <2>4. redis \in {Absent} \cup 0..(MaxSpent + MaxEvents)
    <3>1. events["lost"] \in Nat /\ events["lost"] <= MaxEvents /\ MaxEvents \in Nat
      BY <1>1, <2>1, EventsType, Kinded, LedgerAssumption DEF BoundInv, Tallied
    <3> QED BY <1>1, <2>1, <2>2, <3>1 DEF IndInv, Charges, Ceiling, Typed
  <2>5. read \in [Requests -> 0..MaxSpent]
    BY <1>1, <2>1, <2>2 DEF IndInv, Reads, ReadsSpent, Typed
  <2>6. events \in [Disturbances -> 0..MaxEvents]
    BY <1>1, <2>1, LedgerAssumption DEF BoundInv, Tallied, Typed
  <2>7. queue \in 0..QueueSize /\ batch \in 0..(BatchSize - 1) /\ form \in 0..MaxSpent
    BY <1>1, <2>1, <2>2, LedgerAssumption DEF BoundInv, Queued, Typed
  <2> QED BY <2>1, <2>2, <2>3, <2>4, <2>5, <2>6, <2>7 DEF TypeOK, Typed
<1> QED BY <1>1, BoundsHold, PTL

\* While Redis keeps the key the overspend is bounded by the requests in flight and the
\* looks and charges that failed, whatever else goes wrong (quota.go:24-27, 75-97).
THEOREM OverspendBounded == Spec => []SpendBounded
<1>1. ASSUME IndInv, BoundInv PROVE SpendBounded
  <2> DEFINE n == Cardinality(InFlight)
  <2>1. InFlight \subseteq Admitted
    BY DEF InFlight, At, Admitted
  <2>2. n \in Nat /\ n <= Pending
    BY <2>1, PendingType, FS_Subset, FS_CardinalityType DEF Pending
  <2> HIDE DEF n
  <2>3. spent \in Nat /\ Slips \in Nat /\ Pending \in Nat /\ Cardinality(Requests) \in Nat /\ Limit \in Nat
    BY <1>1, TotalsAre, PendingType, LedgerAssumption DEF IndInv, Books, Typed
  <2>4. Spoils = 0 => spent + n <= Limit - 1 + Cardinality(Requests) + Slips
    <3> SUFFICES ASSUME Spoils = 0
                 PROVE  spent + n <= Limit - 1 + Cardinality(Requests) + Slips
      OBVIOUS
    <3>1. spent + Pending <= Limit - 1 + Cardinality(Requests) + Slips
      BY <1>1 DEF BoundInv, Tight, Within
    <3>2. PICK b \in Int : b = Limit - 1 + Cardinality(Requests) + Slips
      BY <2>3
    <3>3. spent + n <= b
      BY <2>2, <2>3, <3>1, <3>2, SumStays
    <3> QED BY <3>2, <3>3
  <2> QED BY <2>4 DEF SpendBounded, Slips, Spoils, n
<1> QED BY <1>1, BoundsHold, PTL
==============================================================================
