---------------------------- MODULE OAuthRefresh ----------------------------
(***************************************************************************)
(* Refreshing one OAuth credential (internal/oauth/refresh.go).  The       *)
(* background scan and the requests that find the token about to expire    *)
(* load the credential, take a Redis lock with a TTL, exchange the refresh *)
(* token they loaded at the provider, and store the new one.               *)
(*                                                                         *)
(* The provider is external, and its nature is any of those the adapters   *)
(* of internal/oauth/providers expect.  Its refresh tokens are numbered in *)
(* the order it issues them.                                               *)
(***************************************************************************)
EXTENDS Integers, FiniteSets

CONSTANTS
  Scanner,     \* the background task
  Relays,      \* requests that refresh on their way (RefreshWithBailout)
  FaultKinds,  \* which of Faults happen
  MaxFaults,   \* bound on their number
  Manners,     \* which of Refusals the provider may have
  MaxTokens    \* bound on the tokens issued: then the provider keeps the last one,
               \* unless the user asks for another

Workers == Relays \cup {Scanner}

\* "redis":    a lock command fails, or its reply is lost and the client sends it
\*             again
\* "slow":     a refresh outlasts the lock's TTL
\* "settings": provider unknown, or its proxy not configured
\* "network":  the exchange fails for its worker (a relay's client may have left);
\*             the provider may have performed it
\* "db":       the new token, or the revocation, cannot be stored
\* "crash":    the gateway of a worker dies
\* "reauth":   not a fault: the user authorises the channel anew
Faults == {"redis", "slow", "settings", "network", "db", "crash", "reauth"}

\* How it refuses a token.
\* "coded":  one it does not accept, with one of the error codes held permanent
\* "worded": one it does not accept, in words of its own (codebuddy.go:203, trae.go:369)
\* "always": every token, with a code that is not held permanent (qoder.go:210)
Refusals == {"coded", "worded", "always"}

ASSUME RefreshAssumption ==
  /\ Scanner \notin Relays
  /\ FaultKinds \subseteq Faults
  /\ Manners \subseteq Refusals
  /\ MaxFaults \in Nat
  /\ MaxTokens \in Nat

VARIABLES
  row,       \* the credentials row: the refresh token, whether the token set names its
             \* expiry, the status, and whether expires_at is near
  valid,     \* the refresh tokens the provider has issued and not replaced
  issued,    \* the last token it issued
  nature,    \* whether it replaces a token that is used, names the expiry of the new
             \* one, and how it refuses
  lock,      \* whether the key refresh:{id} exists
  work,      \* what each worker is doing
  faults,    \* how many faults have happened
  struck     \* and of which kinds

vars == <<row, valid, issued, nature, lock, work, faults, struck>>
trouble == <<faults, struck>>
provider == <<valid, issued, nature>>

Places == {"idle", "loaded", "calling", "saving", "revoking", "unlocking"}

Worker == [pc : Places, tok : Nat, new : Nat, held : BOOLEAN]

\* An authorisation need not come with a refresh token.
NoToken == 0

Nature == [rotates : BOOLEAN, dates : BOOLEAN, refuses : Manners]

Idle == [pc |-> "idle", tok |-> 0, new |-> 0, held |-> FALSE]

Authorized(t, dated) == [tok |-> t, dated |-> dated, status |-> "active", due |-> FALSE]

Init ==
  /\ issued \in {NoToken, 1}
  /\ valid = {issued} \ {NoToken}
  /\ \E dated \in BOOLEAN : row = Authorized(issued, dated)
  /\ nature \in Nature
  /\ lock = FALSE
  /\ work = [w \in Workers |-> Idle]
  /\ faults = 0
  /\ struck = {}

Goto(w, place) == work' = [work EXCEPT ![w].pc = place]

Fault(kind) ==
  /\ kind \in FaultKinds
  /\ faults < MaxFaults
  /\ faults' = faults + 1
  /\ struck' = struck \cup {kind}

------------------------------------------------------------------------------
(* A refresh *)

\* The scan lists active credentials by the column expires_at; a request asks that the
\* one it uses be not revoked, and for the expiry its token set names.  Neither goes on
\* without a refresh token.
Load(w) ==
  /\ work[w].pc = "idle"
  /\ row.due /\ (w \in Relays => row.dated)
  /\ row.status # "revoked"
  /\ row.tok # NoToken
  /\ work' = [work EXCEPT ![w] = [Idle EXCEPT !.pc = "loaded", !.tok = row.tok]]
  /\ UNCHANGED <<row, provider, lock, trouble>>

SettingsFail(w) ==
  /\ work[w].pc = "loaded"
  /\ Fault("settings")
  /\ work' = [work EXCEPT ![w] = Idle]
  /\ UNCHANGED <<row, provider, lock>>

\* Mutant: the lock is looked at, not taken.
LockTakenNever(w) == lock

LockTaken(w) == TRUE

Acquire(w) ==
  /\ work[w].pc = "loaded"
  /\ ~lock
  /\ lock' = LockTaken(w)
  /\ work' = [work EXCEPT ![w].pc = "calling", ![w].held = TRUE]
  /\ UNCHANGED <<row, provider, trouble>>

\* An error: the refresh goes ahead without the lock, which may have been set.
AcquireFails(w) ==
  /\ work[w].pc = "loaded"
  /\ Fault("redis")
  /\ lock' \in {lock, TRUE}
  /\ Goto(w, "calling")
  /\ UNCHANGED <<row, provider>>

\* SETNX is sent again and finds the key it has set itself.
AcquireResent(w) ==
  /\ work[w].pc = "loaded"
  /\ Fault("redis")
  /\ lock' = TRUE
  /\ work' = [work EXCEPT ![w] = Idle]
  /\ UNCHANGED <<row, provider>>

\* Somebody else is refreshing: the scan skips, a request uses its old token.
Busy(w) ==
  /\ work[w].pc = "loaded"
  /\ lock
  /\ work' = [work EXCEPT ![w] = Idle]
  /\ UNCHANGED <<row, provider, lock, trouble>>

\* The provider's side of an exchange of the token t, for Fresh(t).
Accepts(t) == t \in valid /\ nature.refuses # "always"

Rotates == nature.rotates /\ issued < MaxTokens

Fresh(t) == IF Rotates THEN issued + 1 ELSE t

Exchange(t) ==
  /\ Accepts(t)
  /\ issued' = IF Rotates THEN Fresh(t) ELSE issued
  /\ valid' = (valid \ {t}) \cup {Fresh(t)}
  /\ UNCHANGED nature

Accept(w) ==
  /\ work[w].pc = "calling"
  /\ Exchange(work[w].tok)
  /\ work' = [work EXCEPT ![w].pc = "saving", ![w].new = Fresh(work[w].tok)]
  /\ UNCHANGED <<row, lock, trouble>>

\* Mutant: the code is not among the permanent ones.
RejectKept(w) ==
  /\ work[w].pc = "calling"
  /\ ~Accepts(work[w].tok) /\ nature.refuses = "coded"
  /\ Goto(w, "unlocking")
  /\ UNCHANGED <<row, provider, lock, trouble>>

\* invalid_grant, refresh_token_reused: a permanent error.
Reject(w) ==
  /\ work[w].pc = "calling"
  /\ ~Accepts(work[w].tok) /\ nature.refuses = "coded"
  /\ Goto(w, "revoking")
  /\ UNCHANGED <<row, provider, lock, trouble>>

\* Any other answer is a retryable error, as often as it comes; the token is kept and
\* last_error noted.
Refuse(w) ==
  /\ work[w].pc = "calling"
  /\ ~Accepts(work[w].tok) /\ nature.refuses # "coded"
  /\ Goto(w, "unlocking")
  /\ UNCHANGED <<row, provider, lock, trouble>>

CallFails(w) ==
  /\ work[w].pc = "calling"
  /\ Fault("network")
  /\ Exchange(work[w].tok) \/ UNCHANGED provider
  /\ Goto(w, "unlocking")
  /\ UNCHANGED <<row, lock>>

\* Mutant: the worker stores the token it has loaded.
StoredOld(w) == work[w].tok

Stored(w) == work[w].new

\* The whole row, as loaded but for the new token.  When that one names no expiry,
\* expires_at stays what it was when the row was loaded: near.
Save(w) ==
  /\ work[w].pc = "saving"
  /\ row' = [tok |-> Stored(w), dated |-> nature.dates,
             status |-> "active", due |-> ~nature.dates]
  /\ Goto(w, "unlocking")
  /\ UNCHANGED <<provider, lock, trouble>>

\* The error of a revocation is ignored, that of a save ends the refresh.
SaveFails(w) ==
  /\ work[w].pc \in {"saving", "revoking"}
  /\ Fault("db")
  /\ Goto(w, "unlocking")
  /\ UNCHANGED <<row, provider, lock>>

Revoke(w) ==
  /\ work[w].pc = "revoking"
  /\ row' = [row EXCEPT !.status = "revoked"]
  /\ Goto(w, "unlocking")
  /\ UNCHANGED <<provider, lock, trouble>>

\* DEL, without asking whose lock it is.
Unlock(w) ==
  /\ work[w].pc = "unlocking"
  /\ lock' = IF work[w].held THEN FALSE ELSE lock
  /\ work' = [work EXCEPT ![w] = Idle]
  /\ UNCHANGED <<row, provider, trouble>>

UnlockFails(w) ==
  /\ work[w].pc = "unlocking" /\ work[w].held
  /\ Fault("redis")
  /\ lock' \in {lock, FALSE}
  /\ work' = [work EXCEPT ![w] = Idle]
  /\ UNCHANGED <<row, provider>>

\* DEL has been executed and is sent again.
UnlockResent(w) ==
  /\ work[w].pc = "unlocking" /\ work[w].held
  /\ Fault("redis")
  /\ lock' = FALSE
  /\ UNCHANGED <<row, provider, work>>

------------------------------------------------------------------------------
(* The world *)

Crash(w) ==
  /\ work[w].pc # "idle"
  /\ Fault("crash")
  /\ work' = [work EXCEPT ![w] = Idle]
  /\ UNCHANGED <<row, provider, lock>>

\* Mutant: SETNX without a TTL.
ExpiresNever(holders) == FALSE

Expires(holders) == holders = {}

\* The TTL runs out after the holder is gone, or too early.
LockExpires ==
  /\ lock
  /\ LET holders == {w \in Workers : work[w].held} IN
     \/ Expires(holders) /\ UNCHANGED trouble
     \/ holders # {} /\ Fault("slow")
  /\ lock' = FALSE
  /\ UNCHANGED <<row, provider, work>>

\* The access token comes within the lead of the expiry it names.
BecomesDue ==
  /\ ~row.due /\ row.dated
  /\ row' = [row EXCEPT !.due = TRUE]
  /\ UNCHANGED <<provider, lock, work, trouble>>

\* UpsertCredential after an authorisation: it knows nothing of the lock.
Reauthorize ==
  /\ Fault("reauth")
  /\ \/ /\ issued' = issued + 1
        /\ valid' = valid \cup {issued'}
        /\ \E dated \in BOOLEAN : row' = Authorized(issued', dated)
     \/ /\ \E dated \in BOOLEAN : row' = Authorized(NoToken, dated)
        /\ UNCHANGED <<issued, valid>>
  /\ UNCHANGED <<nature, lock, work>>

Run(w) ==
  \/ Acquire(w) \/ Busy(w) \/ Accept(w) \/ Reject(w) \/ Refuse(w)
  \/ Save(w) \/ Revoke(w) \/ Unlock(w)

Failure(w) ==
  \/ SettingsFail(w) \/ AcquireFails(w) \/ AcquireResent(w) \/ CallFails(w)
  \/ SaveFails(w) \/ UnlockFails(w) \/ UnlockResent(w) \/ Crash(w)

Next ==
  \/ \E w \in Workers : Load(w) \/ Run(w) \/ Failure(w)
  \/ LockExpires \/ BecomesDue \/ Reauthorize

Spec == Init /\ [][Next]_vars

\* The scan is started again every minute, a started refresh runs on (its calls
\* time out), Redis expires keys.  Requests need not come.
FairSpec ==
  /\ Spec
  /\ WF_vars(Load(Scanner))
  /\ \A w \in Workers : WF_vars(Run(w))
  /\ WF_vars(LockExpires)

------------------------------------------------------------------------------
(* Properties *)

\* While Redis answers and no refresh outlasts the TTL, a credential is refreshed by
\* one worker at a time, crashes of holders and undone retries included.
MutualExclusion ==
  struck \cap {"redis", "slow"} = {} =>
    \A v, w \in Workers :
      {work[v].pc, work[w].pc} \cap {"idle", "loaded"} = {} => v = w

\* "The lock is an optimisation, correctness does not depend on it" (refresh.go:75),
\* as far as losing tokens goes: with the lock lost or expired, whatever the order
\* of loads, exchanges and saves, every token the provider accepts is stored or in
\* the hands of a worker about to store it.
TokenNeverLost ==
  struck \subseteq {"redis", "slow", "settings"} =>
    valid \subseteq {row.tok} \cup {work[w].new : w \in {v \in Workers : work[v].pc = "saving"}}

\* What op.go:249 says revoked means: the error is unrecoverable, only a new
\* authorisation helps.
RevokedIsUnrecoverable == row.status = "revoked" => row.tok \notin valid

Due == row.due /\ row.status = "active" /\ row.tok # NoToken

Handled == ~row.due \/ row.status = "revoked"

\* A credential that stays due is tried again and again, whatever the provider answers
\* and though workers die holding the lock or Redis loses track of it.
DueIsTried == Due ~> (Handled \/ \E w \in Workers : work[w].pc = "calling")

\* Where the provider refuses with a permanent code and dates its tokens, a credential
\* that is due is refreshed, revoked or authorised anew in the end.
DueIsHandled == (Due /\ nature.refuses = "coded" /\ nature.dates) ~> Handled
==============================================================================
