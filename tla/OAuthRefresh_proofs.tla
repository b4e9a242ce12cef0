------------------------- MODULE OAuthRefresh_proofs -------------------------
(***************************************************************************)
(* Theorems about OAuthRefresh for every set of requests and every bound   *)
(* on faults and tokens: what the lock promises while Redis keeps it, and  *)
(* what stays true without it.                                             *)
(***************************************************************************)
EXTENDS OAuthRefresh, TLAPS

Row == [tok : Nat, dated : BOOLEAN, status : {"active", "revoked"}, due : BOOLEAN]

Typed ==
  /\ row \in Row
  /\ valid \subseteq Nat /\ issued \in Nat /\ nature \in Nature
  /\ lock \in BOOLEAN
  /\ work \in [Workers -> Worker]
  /\ struck \subseteq Faults

Refreshing(w) == work[w].pc \notin {"idle", "loaded"}

\* While Redis answers and no refresh outlasts the TTL, refreshing workers are
\* those that have taken the key, and it is there for one of them only.
LockKept ==
  struck \cap {"redis", "slow"} = {} =>
    /\ \A w \in Workers : work[w].held <=> Refreshing(w)
    /\ \A w \in Workers : work[w].held => lock
    /\ \A v, w \in Workers : work[v].held /\ work[w].held => v = w

\* With no worse faults than a lock that fails or expires, the provider accepts the
\* token it issued last and no other.  That one is in the row, or with a worker about to
\* store it.  A worker that has had the token replaced is alone with the new one: the
\* row holds another, and nobody else can present it.
HarmlessFaults == {"redis", "slow", "settings"}

Carries(w) == work[w].pc = "saving"

Presents(w) == work[w].pc \in {"loaded", "calling"}

Replaced(w) == Carries(w) /\ work[w].new # work[w].tok

LastTokenHeld ==
  struck \subseteq HarmlessFaults =>
    /\ valid = {issued} \ {NoToken}
    /\ row.tok <= issued
    /\ \A w \in Workers : work[w].tok <= issued /\ (Carries(w) => work[w].new = issued)
    /\ row.tok = issued \/ \E w \in Workers : Carries(w)
    /\ \A v \in Workers : Carries(v) /\ ~Replaced(v) => ~Rotates
    /\ \A v \in Workers : Replaced(v) =>
         /\ row.tok # issued
         /\ \A w \in Workers : Presents(w) => work[w].tok # issued
         /\ \A w \in Workers : Carries(w) => v = w

------------------------------------------------------------------------------
(* Types *)

LEMMA IdleTyped == Idle \in Worker
  BY DEF Idle, Worker, Places

LEMMA InitTyped == Init => Typed
<1> SUFFICES ASSUME Init PROVE Typed
  OBVIOUS
<1>1. row \in Row
  BY DEF Init, Row, Authorized, NoToken
<1>2. work \in [Workers -> Worker]
  BY IdleTyped DEF Init
<1>3. valid \subseteq Nat /\ issued \in Nat /\ struck \subseteq Faults
  BY DEF Init, NoToken
<1>4. nature \in Nature /\ lock \in BOOLEAN
  BY DEF Init
<1> QED BY <1>1, <1>2, <1>3, <1>4 DEF Typed

\* Faults are recorded, and never taken back.
LEMMA FaultStruck ==
  ASSUME Typed, NEW kind, Fault(kind)
  PROVE  struck' = struck \cup {kind} /\ kind \in Faults
  BY RefreshAssumption DEF Fault

LEMMA Struck == Typed /\ [Next]_vars => struck \subseteq struck' /\ struck' \subseteq Faults
<1> SUFFICES ASSUME Typed, [Next]_vars
             PROVE  struck \subseteq struck' /\ struck' \subseteq Faults
  OBVIOUS
<1> DEFINE Ok == struck' = struck \/ \E kind \in Faults : struck' = struck \cup {kind}
<1>1. ASSUME NEW w \in Workers, Load(w) \/ Run(w)
      PROVE  Ok
  BY <1>1 DEF Load, Run, Acquire, Busy, Accept, Reject, Refuse, Save, Revoke, Unlock,
            trouble
<1>2. ASSUME NEW w \in Workers, Failure(w)
      PROVE  Ok
  BY <1>2, FaultStruck
     DEF Failure, SettingsFail, AcquireFails, AcquireResent, CallFails, SaveFails,
         UnlockFails, UnlockResent, Crash
<1>3. ASSUME LockExpires \/ BecomesDue \/ Reauthorize
      PROVE  Ok
  BY <1>3, FaultStruck DEF LockExpires, BecomesDue, Reauthorize, trouble
<1>4. ASSUME UNCHANGED vars
      PROVE  Ok
  BY <1>4 DEF vars
<1>5. Ok
  BY <1>1, <1>2, <1>3, <1>4 DEF Next
<1> QED BY <1>5 DEF Typed

\* What a step does to one worker, it does to no other.
LEMMA WorkerMoves ==
  ASSUME Typed, NEW w \in Workers, NEW r, work' = [work EXCEPT ![w] = r]
  PROVE  work'[w] = r /\ \A v \in Workers \ {w} : work'[v] = work[v]
  BY DEF Typed

LEMMA WorkerRests ==
  ASSUME Typed, NEW w \in Workers, work' = [work EXCEPT ![w] = Idle]
  PROVE  /\ work'[w] = Idle /\ \A v \in Workers \ {w} : work'[v] = work[v]
         /\ work'[w].pc = "idle" /\ work'[w].held = FALSE
  BY DEF Typed, Idle

LEMMA WorkerGoes ==
  ASSUME Typed, NEW w \in Workers, NEW place \in Places, Goto(w, place)
  PROVE  /\ work' \in [Workers -> Worker]
         /\ work'[w].pc = place /\ work'[w].tok = work[w].tok
         /\ work'[w].new = work[w].new /\ work'[w].held = work[w].held
         /\ \A v \in Workers \ {w} : work'[v] = work[v]
  BY DEF Typed, Goto, Worker

LEMMA ExchangeTyped ==
  ASSUME Typed, NEW t \in Nat, Exchange(t)
  PROVE  valid' \subseteq Nat /\ issued' \in Nat /\ Fresh(t) \in Nat
  BY DEF Typed, Exchange, Fresh, Rotates

LEMMA NextTyped == Typed /\ [Next]_vars => Typed'
<1> SUFFICES ASSUME Typed, [Next]_vars PROVE Typed'
  OBVIOUS
<1> USE DEF Typed
<1>1. struck' \subseteq Faults
  BY Struck
<1>2. ASSUME NEW w \in Workers, Load(w) \/ Run(w) \/ Failure(w)
      PROVE  Typed'
  <2>1. CASE Load(w)
    <3>1. [Idle EXCEPT !.pc = "loaded", !.tok = row.tok] \in Worker
      BY DEF Idle, Worker, Places, Row
    <3> QED BY <1>1, <2>1, <3>1 DEF Load, provider
  <2>2. CASE SettingsFail(w) \/ Busy(w) \/ AcquireResent(w) \/ UnlockFails(w) \/ Crash(w)
    BY <1>1, <2>2, IdleTyped
       DEF SettingsFail, Busy, AcquireResent, UnlockFails, Crash, provider
  <2>3. CASE Acquire(w)
    BY <1>1, <2>3 DEF Acquire, LockTaken, provider, Worker, Places
  <2>4. CASE AcquireFails(w) \/ Reject(w) \/ Refuse(w) \/ SaveFails(w)
    BY <1>1, <2>4, WorkerGoes
       DEF AcquireFails, Reject, Refuse, SaveFails, provider, Places
  <2>5. CASE Accept(w)
    <3>1. valid' \subseteq Nat /\ issued' \in Nat /\ Fresh(work[w].tok) \in Nat
      BY <2>5, ExchangeTyped DEF Accept, Worker
    <3>2. work' \in [Workers -> Worker]
      BY <2>5, <3>1 DEF Accept, Worker, Places
    <3> QED BY <1>1, <2>5, <3>1, <3>2 DEF Accept, Exchange
  <2>6. CASE CallFails(w)
    <3>1. work' \in [Workers -> Worker]
      BY <2>6, WorkerGoes DEF CallFails, Places
    <3>2. valid' \subseteq Nat /\ issued' \in Nat /\ nature' \in Nature
      BY <2>6, ExchangeTyped DEF CallFails, Exchange, Worker, provider
    <3> QED BY <1>1, <2>6, <3>1, <3>2 DEF CallFails
  <2>7. CASE Save(w)
    <3>1. work' \in [Workers -> Worker]
      BY <2>7, WorkerGoes DEF Save, Places
    <3>2. row' \in Row
      BY <2>7 DEF Save, Stored, Row, Worker, Nature
    <3> QED BY <1>1, <2>7, <3>1, <3>2 DEF Save, provider
  <2>8. CASE Revoke(w)
    <3>1. work' \in [Workers -> Worker]
      BY <2>8, WorkerGoes DEF Revoke, Places
    <3> QED BY <1>1, <2>8, <3>1 DEF Revoke, provider, Row
  <2>9. CASE Unlock(w)
    BY <1>1, <2>9, IdleTyped DEF Unlock, provider
  <2>10. CASE UnlockResent(w)
    BY <1>1, <2>10 DEF UnlockResent, provider
  <2> QED BY <1>2, <2>1, <2>2, <2>3, <2>4, <2>5, <2>6, <2>7, <2>8, <2>9, <2>10
          DEF Run, Failure
<1>3. CASE LockExpires
  BY <1>1, <1>3 DEF LockExpires, provider
<1>4. CASE BecomesDue
  BY <1>1, <1>4 DEF BecomesDue, provider, Row
<1>6. CASE Reauthorize
  <2>2. \A t \in Nat, dated \in BOOLEAN : Authorized(t, dated) \in Row
    BY DEF Authorized, Row
  <2>4. \/ issued' = issued + 1 /\ valid' = valid \cup {issued'}
        \/ issued' = issued /\ valid' = valid
    BY <1>6, Zenon DEF Reauthorize
  <2>5. issued + 1 \in Nat
    OBVIOUS
  <2>3. valid' \subseteq Nat /\ issued' \in Nat
    BY <2>4, <2>5
  <2>1. row' \in Row /\ valid' \subseteq Nat /\ issued' \in Nat
    BY <1>6, <2>2, <2>3 DEF Reauthorize, NoToken
  <2> QED BY <1>1, <1>6, <2>1 DEF Reauthorize
<1>5. CASE UNCHANGED vars
  BY <1>5 DEF vars
<1> QED BY <1>2, <1>3, <1>4, <1>5, <1>6 DEF Next

------------------------------------------------------------------------------
(* The lock *)

LEMMA InitLockKept == Init => LockKept
  BY DEF Init, LockKept, Idle, Refreshing

LEMMA NextLockKept == Typed /\ LockKept /\ [Next]_vars => LockKept'
<1> SUFFICES ASSUME Typed, LockKept, [Next]_vars, struck' \cap {"redis", "slow"} = {}
             PROVE  LockKept'
  BY DEF LockKept
<1>1. struck \cap {"redis", "slow"} = {}
  BY Struck
<1> USE <1>1 DEF LockKept, Refreshing
<1>2. ASSUME NEW w \in Workers, Load(w) \/ Run(w) \/ Failure(w)
      PROVE  LockKept'
  <2>1. CASE Load(w)
    <3>1. work'[w].pc = "loaded" /\ work'[w].held = FALSE
      BY <2>1 DEF Load, Idle, Typed
    <3>2. (\A v \in Workers \ {w} : work'[v] = work[v]) /\ lock' = lock
      BY <2>1, WorkerMoves DEF Load
    <3> QED BY <3>1, <3>2
  <2>2. CASE SettingsFail(w) \/ Busy(w) \/ Crash(w)
    <3>1. work'[w].pc = "idle" /\ work'[w].held = FALSE
      BY <2>2, WorkerRests DEF SettingsFail, Busy, Crash
    <3>2. (\A v \in Workers \ {w} : work'[v] = work[v]) /\ lock' = lock
      BY <2>2, WorkerMoves DEF SettingsFail, Busy, Crash
    <3> QED BY <3>1, <3>2
  <2>3. CASE Acquire(w)
    BY <2>3 DEF Acquire, LockTaken, Typed, Worker
  <2>4. CASE Accept(w) \/ Reject(w) \/ Refuse(w) \/ CallFails(w) \/ Save(w)
             \/ SaveFails(w) \/ Revoke(w)
    <3>1. Refreshing(w) /\ work'[w].pc \notin {"idle", "loaded"}
      BY <2>4
         DEF Accept, Reject, Refuse, CallFails, Save, SaveFails, Revoke, Goto, Typed, Worker
    <3>2. work'[w].held = work[w].held /\ \A v \in Workers \ {w} : work'[v] = work[v]
      BY <2>4
         DEF Accept, Reject, Refuse, CallFails, Save, SaveFails, Revoke, Goto, Typed, Worker
    <3>3. lock' = lock
      BY <2>4 DEF Accept, Reject, Refuse, CallFails, Save, SaveFails, Revoke
    <3> QED BY <3>1, <3>2, <3>3
  <2>5. CASE Unlock(w)
    <3>1. work'[w].pc = "idle" /\ work'[w].held = FALSE
      BY <2>5, WorkerRests DEF Unlock
    <3>2. \A v \in Workers \ {w} : work'[v] = work[v]
      BY <2>5, WorkerMoves DEF Unlock
    <3>3. Refreshing(w)
      BY <2>5 DEF Unlock
    <3> QED BY <3>1, <3>2, <3>3
  <2>6. CASE AcquireFails(w) \/ AcquireResent(w) \/ UnlockFails(w) \/ UnlockResent(w)
    BY <2>6, FaultStruck DEF AcquireFails, AcquireResent, UnlockFails, UnlockResent
  <2> QED BY <1>2, <2>1, <2>2, <2>3, <2>4, <2>5, <2>6 DEF Run, Failure
<1>3. CASE LockExpires
  BY <1>3, FaultStruck DEF LockExpires, Expires
<1>4. CASE BecomesDue \/ Reauthorize
  BY <1>4 DEF BecomesDue, Reauthorize
<1>5. CASE UNCHANGED vars
  BY <1>5 DEF vars
<1> QED BY <1>2, <1>3, <1>4, <1>5 DEF Next

\* While Redis answers and no refresh outlasts the lock's TTL, one worker at a time
\* refreshes the credential (refresh.go:75-102).
THEOREM OneAtATime == Spec => []MutualExclusion
<1>1. Init => Typed /\ LockKept
  BY InitTyped, InitLockKept
<1>2. Typed /\ LockKept /\ [Next]_vars => (Typed /\ LockKept)'
  BY NextTyped, NextLockKept
<1>3. LockKept => MutualExclusion
  BY DEF LockKept, MutualExclusion, Refreshing
<1> QED BY <1>1, <1>2, <1>3, PTL DEF Spec

------------------------------------------------------------------------------
(* The token *)

LEMMA InitLastTokenHeld == Init => LastTokenHeld
<1> SUFFICES ASSUME Init PROVE LastTokenHeld
  OBVIOUS
<1>1. \A w \in Workers : work[w].tok = 0 /\ ~Carries(w)
  BY DEF Init, Idle, Carries
<1>2. row.tok = issued /\ issued \in Nat
  BY DEF Init, Authorized, NoToken
<1> QED BY <1>1, <1>2 DEF Init, LastTokenHeld, Replaced

\* A worker that gives up, or goes on without the provider and the row, moves no token.
LEMMA TokenStays ==
  ASSUME Typed, LastTokenHeld, struck' \subseteq HarmlessFaults, struck \subseteq struck',
         UNCHANGED provider, row'.tok = row.tok, NEW w \in Workers, ~Carries(w),
         \A v \in Workers \ {w} : work'[v] = work[v],
         work'[w].pc # "saving", work'[w].tok <= issued,
         Presents(w)' => \/ work'[w].tok = row.tok
                         \/ Presents(w) /\ work'[w].tok = work[w].tok
  PROVE  LastTokenHeld'
<1>1. \A v \in Workers : (Carries(v)' <=> Carries(v)) /\ (Replaced(v)' <=> Replaced(v))
  BY DEF Carries, Replaced
<1>2. \A v \in Workers : work'[v].tok <= issued /\ (Carries(v)' => work'[v].new = issued)
  BY <1>1 DEF LastTokenHeld, Carries
<1>3. ASSUME NEW v \in Workers, Replaced(v), NEW u \in Workers, Presents(u)'
      PROVE  work'[u].tok # issued
  BY <1>3 DEF LastTokenHeld, Presents
<1>4. Rotates' <=> Rotates
  BY DEF Rotates, provider
<1> QED BY <1>1, <1>2, <1>3, <1>4 DEF LastTokenHeld, provider

LEMMA NextLastTokenHeld == Typed /\ LastTokenHeld /\ [Next]_vars => LastTokenHeld'
<1> SUFFICES ASSUME Typed, LastTokenHeld, [Next]_vars, struck' \subseteq HarmlessFaults
             PROVE  LastTokenHeld'
  BY DEF LastTokenHeld
<1>1. struck \subseteq struck' /\ struck \subseteq HarmlessFaults
  BY Struck
<1>2. ASSUME NEW kind, Fault(kind)
      PROVE  kind \in HarmlessFaults
  BY <1>2, FaultStruck
<1>3. ASSUME NEW w \in Workers, Load(w) \/ Run(w) \/ Failure(w)
      PROVE  LastTokenHeld'
  <2>1. CASE Load(w)
    <3>1. work'[w].pc = "loaded" /\ work'[w].tok = row.tok
      BY <2>1 DEF Load, Idle, Typed
    <3>2. \A v \in Workers \ {w} : work'[v] = work[v]
      BY <2>1, WorkerMoves DEF Load
    <3>3. row.tok <= issued
      BY <1>1 DEF LastTokenHeld
    <3>4. UNCHANGED <<provider, row>> /\ ~Carries(w)
      BY <2>1 DEF Load, Carries
    <3>5. work'[w].pc # "saving" /\ work'[w].tok <= issued
      BY <3>1, <3>3
    <3>6. \/ work'[w].tok = row.tok
          \/ Presents(w) /\ work'[w].tok = work[w].tok
      BY <3>1
    <3>7. UNCHANGED provider /\ row'.tok = row.tok /\ ~Carries(w)
      BY <3>4
    <3> QED BY <1>1, <3>2, <3>5, <3>6, <3>7, TokenStays
  <2>2. CASE SettingsFail(w) \/ Busy(w) \/ AcquireResent(w) \/ Unlock(w) \/ UnlockFails(w)
    <3>1. work'[w] = Idle /\ \A v \in Workers \ {w} : work'[v] = work[v]
      BY <2>2, WorkerRests DEF SettingsFail, Busy, AcquireResent, Unlock, UnlockFails
    <3>2. UNCHANGED <<provider, row>> /\ ~Carries(w)
      BY <2>2 DEF SettingsFail, Busy, AcquireResent, Unlock, UnlockFails, Carries
    <3>3. 0 <= issued
      BY DEF Typed
    <3>4. ~Presents(w)' /\ work'[w].pc # "saving" /\ work'[w].tok <= issued
      BY <3>1, <3>3 DEF Idle, Presents
    <3> QED BY <1>1, <3>1, <3>2, <3>4, TokenStays
  <2>3. CASE Acquire(w) \/ AcquireFails(w) \/ Reject(w) \/ Refuse(w)
    <3>1. /\ work'[w].pc \in {"calling", "revoking", "unlocking"}
          /\ work'[w].tok = work[w].tok
          /\ \A v \in Workers \ {w} : work'[v] = work[v]
      <4>1. CASE Acquire(w)
        BY <4>1 DEF Acquire, Typed, Worker
      <4>2. CASE AcquireFails(w)
        BY <4>2, WorkerGoes DEF AcquireFails, Places
      <4>3. CASE Reject(w) \/ Refuse(w)
        BY <4>3, WorkerGoes DEF Reject, Refuse, Places
      <4> QED BY <2>3, <4>1, <4>2, <4>3
    <3>2. UNCHANGED <<provider, row>> /\ Presents(w)
      BY <2>3 DEF Acquire, AcquireFails, Reject, Refuse, Presents
    <3>3. work[w].tok <= issued /\ ~Carries(w)
      BY <1>1, <3>2 DEF LastTokenHeld, Presents, Carries
    <3> QED BY <1>1, <3>1, <3>2, <3>3, TokenStays
  <2>4. CASE Revoke(w) \/ UnlockResent(w)
    <3>1. /\ work'[w].pc = "unlocking" /\ work'[w].tok = work[w].tok
          /\ \A v \in Workers \ {w} : work'[v] = work[v]
      BY <2>4, WorkerGoes DEF Revoke, UnlockResent, Places
    <3>2. row'.tok = row.tok /\ UNCHANGED provider /\ ~Carries(w)
      BY <2>4 DEF Revoke, UnlockResent, Carries, Typed, Row
    <3>3. work[w].tok <= issued /\ ~Presents(w)'
      BY <1>1, <3>1 DEF LastTokenHeld, Presents
    <3> QED BY <1>1, <3>1, <3>2, <3>3, TokenStays
  <2>5. CASE Accept(w)
    <3>1. work[w].tok = issued /\ Presents(w) /\ issued # NoToken
      BY <1>1, <2>5 DEF Accept, Exchange, Accepts, LastTokenHeld, Presents
    <3>2. \A v \in Workers : ~Replaced(v)
      BY <1>1, <3>1 DEF LastTokenHeld
    <3>3. /\ nature' = nature /\ row' = row
          /\ issued' = IF Rotates THEN issued + 1 ELSE issued
          /\ valid' = {issued'} \ {NoToken}
      BY <1>1, <2>5, <3>1
         DEF Accept, Exchange, Fresh, LastTokenHeld, Typed, NoToken
    <3>4. /\ Carries(w)' /\ work'[w].tok = issued /\ work'[w].new = issued'
          /\ \A v \in Workers \ {w} : work'[v] = work[v]
      BY <2>5, <3>1, <3>3 DEF Accept, Exchange, Fresh, Carries, Typed, Worker
    <3>5. \A v \in Workers : work'[v].tok \in Nat /\ work'[v].tok <= issued
      BY <1>1, <3>1, <3>4 DEF LastTokenHeld, Typed, Worker
    <3>6. row.tok \in Nat /\ row.tok <= issued /\ issued \in Nat
      BY <1>1 DEF LastTokenHeld, Typed, Row
    <3>7. CASE Rotates
      <4>1. issued' = issued + 1
        BY <3>3, <3>7
      <4>2. \A v \in Workers : Carries(v)' => v = w
        BY <1>1, <3>2, <3>4, <3>7 DEF LastTokenHeld, Carries
      <4>3. Replaced(w)'
        BY <3>4, <3>6, <4>1 DEF Replaced
      <4>4. row'.tok # issued' /\ \A v \in Workers : work'[v].tok # issued'
        BY <3>3, <3>5, <3>6, <4>1
      <4>5. row'.tok <= issued' /\ \A v \in Workers : work'[v].tok <= issued'
        BY <3>3, <3>5, <3>6, <4>1
      <4> QED BY <3>3, <3>4, <4>2, <4>3, <4>4, <4>5 DEF LastTokenHeld, Replaced
    <3>8. CASE ~Rotates
      <4>1. issued' = issued /\ ~Rotates'
        BY <3>3, <3>8 DEF Rotates
      <4>2. \A v \in Workers : ~Replaced(v)'
        BY <3>2, <3>4, <4>1 DEF Replaced, Carries
      <4>3. \A v \in Workers : Carries(v)' => work'[v].new = issued'
        BY <1>1, <3>4, <4>1 DEF LastTokenHeld, Carries
      <4> QED BY <3>3, <3>4, <3>5, <3>6, <4>1, <4>2, <4>3 DEF LastTokenHeld
    <3> QED BY <3>7, <3>8
  <2>6. CASE Save(w)
    <3>1. /\ ~Carries(w)' /\ ~Presents(w)' /\ work'[w].tok = work[w].tok
          /\ \A v \in Workers \ {w} : work'[v] = work[v]
      BY <2>6, WorkerGoes DEF Save, Carries, Presents, Places
    <3>2. row'.tok = issued /\ UNCHANGED provider /\ Carries(w)
      BY <1>1, <2>6 DEF Save, Stored, LastTokenHeld, Carries
    <3>3. \A v \in Workers : ~Replaced(v)'
      BY <1>1, <3>1, <3>2 DEF LastTokenHeld, Replaced, Carries
    <3>4. \A v \in Workers :
            work'[v].tok <= issued /\ (Carries(v)' => Carries(v) /\ work'[v].new = issued)
      BY <1>1, <3>1 DEF LastTokenHeld, Carries
    <3>5. \A v \in Workers : Carries(v)' => ~Rotates'
      BY <1>1, <3>1, <3>2, <3>3 DEF LastTokenHeld, Carries, Replaced, Rotates, provider
    <3>6. issued <= issued
      BY DEF Typed
    <3> QED BY <1>1, <3>2, <3>3, <3>4, <3>5, <3>6 DEF LastTokenHeld, provider
  <2>7. CASE CallFails(w) \/ SaveFails(w) \/ Crash(w)
    BY <1>2, <2>7 DEF CallFails, SaveFails, Crash, HarmlessFaults
  <2> QED BY <1>3, <2>1, <2>2, <2>3, <2>4, <2>5, <2>6, <2>7 DEF Run, Failure
<1>4. CASE LockExpires
  BY <1>1, <1>4
     DEF LockExpires, LastTokenHeld, Carries, Presents, Replaced, Rotates, provider
<1>5. CASE BecomesDue
  <2>1. row'.tok = row.tok
    BY <1>5 DEF BecomesDue, Typed, Row
  <2> QED BY <1>1, <1>5, <2>1
          DEF BecomesDue, LastTokenHeld, Carries, Presents, Replaced, Rotates, provider
<1>6. CASE Reauthorize
  BY <1>2, <1>6 DEF Reauthorize, HarmlessFaults
<1>7. CASE UNCHANGED vars
  BY <1>1, <1>7 DEF vars, LastTokenHeld, Carries, Presents, Replaced, Rotates
<1> QED BY <1>3, <1>4, <1>5, <1>6, <1>7 DEF Next

\* Whatever becomes of the lock, no order of loads, exchanges and saves loses the token
\* the provider accepts (refresh.go:75).
THEOREM TokenKept == Spec => []TokenNeverLost
<1>1. Init => Typed /\ LastTokenHeld
  BY InitTyped, InitLastTokenHeld
<1>2. Typed /\ LastTokenHeld /\ [Next]_vars => (Typed /\ LastTokenHeld)'
  BY NextTyped, NextLastTokenHeld
<1>3. LastTokenHeld => TokenNeverLost
  BY DEF LastTokenHeld, TokenNeverLost, HarmlessFaults, Carries
<1> QED BY <1>1, <1>2, <1>3, PTL DEF Spec
==============================================================================
