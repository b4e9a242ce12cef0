----------------------------- MODULE QuotaLedger -----------------------------
(***************************************************************************)
(* What one API key has spent, kept three times: a counter in Redis that   *)
(* the relay checks before a request and adds to after it, quota_used in   *)
(* the database, and the UsageWriter's queue and batch between the two     *)
(* (internal/relay/quota.go, usage.go, op.go).  A request that costs       *)
(* anything costs 1.  An owner edits the key and may reset its usage.      *)
(*                                                                         *)
(* Redis and the database are external: a command fails or takes effect.   *)
(* The Redis client sends a command again when its reply was lost, so one  *)
(* call may take effect several times before it returns.                   *)
(***************************************************************************)
EXTENDS Integers, FiniteSets

CONSTANTS
  Requests,
  Limit,      \* quota_limit of the key
  QueueSize,  \* of the channel to the UsageWriter
  BatchSize,  \* records of one flush
  MaxSpent,   \* bound on the requests that are let in
  Kinds,      \* which of Disturbances happen
  MaxEvents,  \* bound on their number
  Absent      \* no key in Redis

\* "get", "setnx", "add", "del": that Redis command fails (the client may have
\* left, for the first three use its context);  "lost": it takes effect, its reply is
\* lost and it is sent again;  "db": the database read fails;  "flush": the writer's
\* transaction fails;  "evict": Redis loses the key;  "crash": the gateway dies;
\* "edit": the owner updates the key;  "reset": and resets its usage.
Disturbances ==
  {"get", "setnx", "add", "del", "lost", "db", "flush", "evict", "crash", "edit", "reset"}

ASSUME LedgerAssumption ==
  /\ IsFiniteSet(Requests)
  /\ Limit \in Nat \ {0}
  /\ QueueSize \in Nat \ {0}
  /\ BatchSize \in Nat \ {0}
  /\ MaxSpent \in Nat
  /\ Kinds \subseteq Disturbances
  /\ MaxEvents \in Nat
  /\ Absent \notin Int

VARIABLES
  redis,  \* quota:used:{key}
  db,     \* api_keys.quota_used
  queue,  \* records in the channel
  batch,  \* records the writer has taken
  pc,     \* where each request is
  read,   \* quota_used as a request that missed in Redis has read it
  owner,  \* where the key's update is
  form,   \* quota_used in the row the owner's update has loaded
  spent,  \* history: the cost of the requests so far
  lost,   \* history: of that, what the database will never see
  waived, \* history: of that, what resets have cleared
  clean,  \* history: no reset was half undone, see Reset, Del and Crash
  events  \* how often each kind of disturbance has happened

ledgers == <<redis, db>>
account == <<queue, batch, lost>>
request == <<pc, read>>
update == <<owner, form>>
history == <<spent, waived, clean>>
vars == <<ledgers, account, request, update, history, events>>

\* missed: GET found no key;  fallback: GET failed;  filling: quota_used is read,
\* SETNX comes next;  charging: the cost is added, the reply was lost;  recording: added
\* in Redis, not yet handed to the writer
Places == {"idle", "missed", "fallback", "filling", "running", "charging", "recording"}

Init ==
  /\ redis = Absent
  /\ db = 0
  /\ queue = 0
  /\ batch = 0
  /\ pc = [r \in Requests |-> "idle"]
  /\ read = [r \in Requests |-> 0]
  /\ owner = "idle"
  /\ form = 0
  /\ spent = 0
  /\ lost = 0
  /\ waived = 0
  /\ clean = TRUE
  /\ events = [kind \in Disturbances |-> 0]

At(place) == {r \in Requests : pc[r] = place}
Total(kinds) == Cardinality({e \in kinds \X (1..MaxEvents) : e[2] <= events[e[1]]})

Disturb(kind) ==
  /\ kind \in Kinds
  /\ Total(Disturbances) < MaxEvents
  /\ events' = [events EXCEPT ![kind] = @ + 1]

Goto(r, place) ==
  /\ pc' = [pc EXCEPT ![r] = place]
  /\ UNCHANGED read

\* The answer of OverLimit: 402, or the request goes on.
Decide(r, used) == Goto(r, IF used >= Limit THEN "idle" ELSE "running")

------------------------------------------------------------------------------
(* OverLimit, one step per command *)

Admissible(r) ==
  /\ pc[r] = "idle"
  /\ spent + Cardinality(Requests \ At("idle")) < MaxSpent

Get(r) ==
  /\ Admissible(r)
  /\ IF redis = Absent THEN Goto(r, "missed") ELSE Decide(r, redis)
  /\ UNCHANGED <<ledgers, account, update, history, events>>

\* A Redis error falls back to the database.
GetFails(r) ==
  /\ Admissible(r)
  /\ Disturb("get")
  /\ Goto(r, "fallback")
  /\ UNCHANGED <<ledgers, account, update, history>>

ReadDB(r) ==
  /\ \/ /\ pc[r] = "missed"
        /\ pc' = [pc EXCEPT ![r] = "filling"]
        /\ read' = [read EXCEPT ![r] = db]
     \/ pc[r] = "fallback" /\ Decide(r, db)
  /\ UNCHANGED <<ledgers, account, update, history, events>>

\* A failure of the database lets the request pass.
ReadDBFails(r) ==
  /\ pc[r] \in {"missed", "fallback"}
  /\ Disturb("db")
  /\ Goto(r, "running")
  /\ UNCHANGED <<ledgers, account, update, history>>

\* Mutant: SET instead of SETNX.
RefillOver(value) == value

Refill(value) == IF redis = Absent THEN value ELSE redis

\* The decision uses what was read, also when another request filled the key first.
SetNX(r) ==
  /\ pc[r] = "filling"
  /\ redis' = Refill(read[r])
  /\ pc' = [pc EXCEPT ![r] = IF read[r] >= Limit THEN "idle" ELSE "running"]
  /\ read' = [read EXCEPT ![r] = 0]
  /\ UNCHANGED <<db, account, update, history, events>>

SetNXFails(r) ==
  /\ pc[r] = "filling"
  /\ Disturb("setnx")
  /\ redis' \in {redis, Refill(read[r])}
  /\ pc' = [pc EXCEPT ![r] = "running"]
  /\ read' = [read EXCEPT ![r] = 0]
  /\ UNCHANGED <<db, account, update, history>>

------------------------------------------------------------------------------
(* recordUsage *)

InFlight == At("running") \cup At("charging")

\* INCRBYFLOAT creates a missing key at 0.
Increased == IF redis = Absent THEN 1 ELSE redis + 1

Add(r) ==
  /\ r \in InFlight
  /\ redis' = Increased
  /\ spent' = spent + 1
  /\ Goto(r, "recording")
  /\ UNCHANGED <<db, account, update, waived, clean, events>>

AddFails(r) ==
  /\ r \in InFlight
  /\ Disturb("add")
  /\ redis' \in {redis, Increased}
  /\ spent' = spent + 1
  /\ Goto(r, "recording")
  /\ UNCHANGED <<db, account, update, waived, clean>>

\* The SETNX or INCRBYFLOAT a request waits for took effect, its reply was lost, and
\* go-redis sends it again.
Resent(r) ==
  /\ Disturb("lost")
  /\ \/ pc[r] = "filling" /\ redis' = Refill(read[r]) /\ UNCHANGED pc
     \/ r \in InFlight /\ redis' = Increased /\ pc' = [pc EXCEPT ![r] = "charging"]
  /\ UNCHANGED <<db, account, read, update, history>>

\* A failed request, or one of a model without a price, costs nothing.
Free(r) ==
  /\ pc[r] = "running"
  /\ Goto(r, "idle")
  /\ UNCHANGED <<ledgers, account, update, history, events>>

\* UsageWriter.Record never blocks: a record that does not fit is dropped.
Record(r) ==
  /\ pc[r] = "recording"
  /\ IF queue < QueueSize
       THEN queue' = queue + 1 /\ UNCHANGED lost
       ELSE lost' = lost + 1 /\ UNCHANGED queue
  /\ Goto(r, "idle")
  /\ UNCHANGED <<ledgers, batch, update, history, events>>

------------------------------------------------------------------------------
(* UsageWriter.run *)

\* Mutant: the batch is not cleared after its flush.
RestKept(records) == records

Rest(records) == 0

\* One transaction: all records of the batch count, or none; in either case the
\* writer is done with them.
Flush(records) ==
  /\ batch' = Rest(records)
  /\ \/ db' = db + records /\ UNCHANGED <<lost, events>>
     \/ lost' = lost + records /\ UNCHANGED db /\ Disturb("flush")

Take ==
  /\ queue > 0
  /\ queue' = queue - 1
  /\ IF batch + 1 >= BatchSize
       THEN Flush(batch + 1)
       ELSE batch' = batch + 1 /\ UNCHANGED <<db, lost, events>>
  /\ UNCHANGED <<redis, request, update, history>>

Tick ==
  /\ batch > 0
  /\ Flush(batch)
  /\ UNCHANGED <<redis, queue, request, update, history>>

------------------------------------------------------------------------------
(* The owner: UpdateApiKey saves the whole row it has loaded, then a reset    *)
(* clears quota_used and deletes the key in Redis                             *)

Load ==
  /\ owner = "idle"
  /\ Disturb("edit")
  /\ owner' = "loaded"
  /\ form' = db
  /\ UNCHANGED <<ledgers, account, request, history>>

Save ==
  /\ owner = "loaded"
  /\ owner' = "saved"
  /\ db' = form
  /\ form' = 0
  /\ UNCHANGED <<redis, account, request, history, events>>

Saved ==
  /\ owner = "saved"
  /\ owner' = "idle"
  /\ UNCHANGED <<ledgers, account, request, form, history, events>>

Reset ==
  /\ owner = "saved"
  /\ Disturb("reset")
  /\ owner' = "reset"
  /\ waived' = waived + db
  /\ db' = 0
  /\ clean' = (clean /\ At("filling") = {})
  /\ UNCHANGED <<redis, account, request, form, spent>>

Del ==
  /\ owner = "reset"
  /\ \/ redis' = Absent /\ UNCHANGED <<clean, events>>
     \/ UNCHANGED redis /\ clean' = FALSE /\ Disturb("del")
  /\ owner' = "idle"
  /\ UNCHANGED <<db, account, request, form, spent, waived>>

DelResent ==
  /\ owner = "reset"
  /\ Disturb("lost")
  /\ redis' = Absent
  /\ UNCHANGED <<db, account, request, update, history>>

------------------------------------------------------------------------------
(* Redis and the process *)

Evict ==
  /\ redis # Absent
  /\ Disturb("evict")
  /\ redis' = Absent
  /\ UNCHANGED <<db, account, request, update, history>>

\* main never calls UsageWriter.Stop: what the writer holds dies with the process.
Crash ==
  /\ Disturb("crash")
  /\ lost' = lost + queue + batch + Cardinality(At("recording"))
  /\ queue' = 0
  /\ batch' = 0
  /\ pc' = [r \in Requests |-> "idle"]
  /\ read' = [r \in Requests |-> 0]
  /\ owner' = "idle"
  /\ form' = 0
  /\ clean' = (clean /\ owner # "reset")
  /\ UNCHANGED <<ledgers, spent, waived>>

Step(r) ==
  \/ Get(r) \/ GetFails(r) \/ ReadDB(r) \/ ReadDBFails(r) \/ SetNX(r) \/ SetNXFails(r)
  \/ Add(r) \/ AddFails(r) \/ Resent(r) \/ Free(r) \/ Record(r)

Next ==
  \/ \E r \in Requests : Step(r)
  \/ Take \/ Tick
  \/ Load \/ Save \/ Saved \/ Reset \/ Del \/ DelResent
  \/ Evict \/ Crash

Spec == Init /\ [][Next]_vars

------------------------------------------------------------------------------
(* Properties *)

TypeOK ==
  /\ redis \in {Absent} \cup 0..(MaxSpent + MaxEvents)
  /\ db \in 0..MaxSpent
  /\ queue \in 0..QueueSize
  /\ batch \in 0..(BatchSize - 1)
  /\ pc \in [Requests -> Places]
  /\ read \in [Requests -> 0..MaxSpent]
  /\ owner \in {"idle", "loaded", "saved", "reset"}
  /\ form \in 0..MaxSpent
  /\ spent \in 0..MaxSpent
  /\ lost \in 0..MaxSpent
  /\ waived \in 0..MaxSpent
  /\ clean \in BOOLEAN
  /\ events \in [Disturbances -> 0..MaxEvents]

Lag == queue + batch + Cardinality(At("recording"))

\* quota_used is exact: every cost is in the database, on its way there, waived by
\* a reset, or lost with a full queue, a failed flush or a crash - none twice.
\* UpdateApiKey alone breaks this: it writes back the quota_used it has loaded, and
\* the flushes of the meantime are gone (op.go:107-117).
LedgerExact == events["edit"] = 0 => db + Lag + lost + waived = spent

\* A key is charged for what it spent since its last reset, and once: whatever fails,
\* is evicted, refilled or reset, the counter in Redis shows no more, but for one cost
\* per command sent again after a lost reply (INCRBYFLOAT is not idempotent).  A cost
\* reaches Redis before it reaches the writer, so a refill cannot have it already; a
\* reset clears the row before the key.  Left out are resets that Redis did not follow:
\* the DEL failed, the gateway died before it, or a refill had read the old row.
NeverOvercharged ==
  (clean /\ owner # "reset" /\ redis # Absent) => redis <= spent - waived + events["lost"]

\* While Redis keeps the key, the overspend is what requests in flight cost, and one
\* request more for each look and each charge that failed: a refill that failed, a lost
\* reply, trouble of the writer, the database or the process add nothing.
SpendBounded ==
  Total({"evict", "reset"}) = 0 =>
    spent + Cardinality(InFlight) <= Limit - 1 + Cardinality(Requests) + Total({"get", "add"})
==============================================================================
