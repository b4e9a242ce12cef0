-------------------------- MODULE OAuthFlow_proofs --------------------------
(***************************************************************************)
(* Theorems about OAuthFlow for every set of channels and of requests and  *)
(* every bound: an enabled channel is authorised, a stopped one stays so,  *)
(* and a flow whose token was stored is over or about to be.               *)
(***************************************************************************)
EXTENDS OAuthFlow, WellFoundedInduction, SequenceTheorems, TLAPS

Places == {"idle", "check", "resolve", "first", "lookup", "write", "load", "save", "finish"}

Request ==
  [pc : Places, chan : Channels \cup {Quiet.chan}, flow : Nat,
   code : BOOLEAN, off : BOOLEAN, first : BOOLEAN, found : BOOLEAN,
   want : {"on", "off", "keep"}]

Flow ==
  [chan : Channels, row : {"live", "expired", "gone"},
   code : BOOLEAN, granted : BOOLEAN, used : BOOLEAN]

Credential == [status : {"none", "active", "revoked"}, tok : Nat]

\* Tokens and requests are of flows that have begun.
Typed ==
  /\ flows \in Seq(Flow)
  /\ enabled \in [Channels -> BOOLEAN]
  /\ cred \in [Channels -> Credential]
  /\ req \in [Requests -> Request]
  /\ faults \in Nat /\ stopped \subseteq Channels
  /\ \A r \in Requests : /\ req[r].flow <= Len(flows)
                         /\ req[r].pc # "idle" => req[r].chan \in Channels
  /\ \A c \in Channels : cred[c].tok <= Len(flows)

\* A channel is switched on, or saved as switched on, only when it has a credential;
\* a credential is never deleted here.
Grounded(q) ==
  /\ q.pc \in {"load", "save"} /\ q.want = "on" => Exists(q.chan)
  /\ q.pc = "save" /\ ~q.off => Exists(q.chan)

SwitchedOnGround ==
  EnabledIsAuthorised /\ \A r \in Requests : Grounded(req[r])

\* Only a first authorisation switches a channel on by itself, and the one that is
\* under way when the user stops the channel is not there any more.
Harmless(q) ==
  /\ ~q.first
  /\ q.pc = "save" /\ q.want = "keep" => q.off

FirstHasPlace(q) ==
  /\ q.pc \in {"check", "resolve", "first", "lookup", "write"} => q.flow # 0
  /\ q.first => q.pc \in {"lookup", "write", "load", "save"}
  /\ q.pc \in {"load", "save"} => (q.first <=> q.flow # 0)
  /\ q.first /\ q.pc \in {"load", "save"} => q.want = "on"

StoppedForGood ==
  /\ \A r \in Requests : FirstHasPlace(req[r])
  /\ \A c \in stopped : /\ ~enabled[c] /\ Exists(c)
                        /\ \A r \in Requests : req[r].chan = c => Harmless(req[r])

\* The request that has stored a flow's token will delete the flow's row.
Closing(q) == q.pc \in {"load", "save", "finish"}

ClosingSoon ==
  faults = 0 =>
    \A f \in Live : Spent(f) => \E r \in Requests : req[r].flow = f /\ Closing(req[r])
------------------------------------------------------------------------------
(* The latest flow *)

Below == {p \in Nat \X Nat : p[1] < p[2]}

LEMMA BelowFounded == IsWellFoundedOn(Below, Nat)
  BY NatLessThanWellFounded, Zenon DEF OpToRel, Below

LEMMA Least ==
  ASSUME NEW S, S \subseteq Nat, S # {}
  PROVE  \E x \in S : \A y \in S : x <= y
<1>1. \E x \in S : \A y \in S : ~ (<<y, x>> \in Below)
  BY BelowFounded, WFMin, Zenon
<1>2. \A x, y \in Nat : ~ (<<y, x>> \in Below) => x <= y
  BY DEF Below
<1> QED BY <1>1, <1>2

\* Latest chooses a member of a bounded set of numbers that is not empty.
LEMMA LatestMember ==
  ASSUME NEW n \in Nat, NEW S, S \subseteq 0..n, S # {}
  PROVE  Latest(S) \in S
<1> DEFINE D == {n - x : x \in S}
<1>1. D \subseteq Nat
  BY \A x \in S : n - x \in Nat
<1>2. D # {}
  <2>1. PICK x \in S : TRUE
    OBVIOUS
  <2> QED BY <2>1, n - x \in D
<1>3. PICK m \in D : \A d \in D : m <= d
  <2> HIDE DEF D
  <2> QED BY <1>1, <1>2, Least
<1>4. PICK x \in S : m = n - x
  BY <1>3
<1>5. ASSUME NEW y \in S PROVE x >= y
  <2>1. n - y \in D
    OBVIOUS
  <2>2. n - x <= n - y
    BY <1>3, <1>4, <2>1
  <2> QED BY <2>2
<1>6. \E z \in S : \A y \in S : z >= y
  BY <1>5
<1> QED BY <1>6 DEF Latest, Max

------------------------------------------------------------------------------
(* Types *)

LEMMA QuietTyped == Quiet \in Request /\ Quiet.pc = "idle" /\ Quiet.flow = 0
  BY DEF Quiet, Request, Places

\* What a step does to one request, it does to no other.
LEMMA Moves ==
  ASSUME Typed, NEW r \in Requests, NEW q, Become(r, q)
  PROVE  req'[r] = q /\ \A s \in Requests \ {r} : req'[s] = req[s]
  BY DEF Typed, Become

LEMMA MovesTyped ==
  ASSUME Typed, NEW r \in Requests, NEW q \in Request, Become(r, q),
         q.flow <= Len(flows), q.pc # "idle" => q.chan \in Channels,
         Len(flows') = Len(flows)
  PROVE  /\ req' \in [Requests -> Request]
         /\ \A s \in Requests : /\ req'[s].flow <= Len(flows')
                                /\ req'[s].pc # "idle" => req'[s].chan \in Channels
<1>1. req' \in [Requests -> Request]
  BY DEF Typed, Become
<1>2. req'[r] = q /\ \A s \in Requests \ {r} : req'[s] = req[s]
  BY Moves
<1> QED BY <1>1, <1>2 DEF Typed

LEMMA EndTyped ==
  ASSUME Typed, NEW r \in Requests, End(r), Len(flows') = Len(flows)
  PROVE  /\ req' \in [Requests -> Request]
         /\ \A s \in Requests : /\ req'[s].flow <= Len(flows')
                                /\ req'[s].pc # "idle" => req'[s].chan \in Channels
<1>1. Len(flows) \in Nat
  BY LenProperties DEF Typed
<1> QED BY <1>1, QuietTyped, MovesTyped DEF End

LEMMA FlowsKeepLength ==
  ASSUME flows \in Seq(Flow), NEW g \in [DOMAIN flows -> Flow]
  PROVE  g \in Seq(Flow) /\ Len(g) = Len(flows) /\ DOMAIN g = DOMAIN flows
<1>1. Len(flows) \in Nat /\ DOMAIN flows = 1..Len(flows)
  BY LenProperties
<1>2. g \in [1..Len(flows) -> Flow]
  BY <1>1
<1>3. g \in Seq(Flow)
  BY <1>1, <1>2, SeqDef
<1> QED BY <1>1, <1>2, <1>3, LenProperties

LEMMA FlowsAre ==
  ASSUME Typed
  PROVE  /\ Len(flows) \in Nat /\ DOMAIN flows = 1..Len(flows)
         /\ flows \in [DOMAIN flows -> Flow]
         /\ Live \subseteq 0..Len(flows)
<1>1. Len(flows) \in Nat /\ DOMAIN flows = 1..Len(flows)
  BY LenProperties DEF Typed
<1>2. flows \in [DOMAIN flows -> Flow]
  BY <1>1, ElementOfSeq, SeqDef DEF Typed
<1> QED BY <1>1, <1>2 DEF Live

LEMMA GoneTyped ==
  ASSUME Typed, NEW f, flows' = Gone(f)
  PROVE  /\ flows' \in Seq(Flow) /\ Len(flows') = Len(flows) /\ DOMAIN flows' = DOMAIN flows
         /\ \A g \in DOMAIN flows : flows'[g].row = "live" => flows[g].row = "live" /\ g # f
<1>1. flows \in [DOMAIN flows -> Flow]
  BY FlowsAre
<1>2. flows' \in [DOMAIN flows -> Flow]
  BY <1>1 DEF Gone, Flow
<1>3. \A g \in DOMAIN flows : flows'[g].row = "live" => flows[g].row = "live" /\ g # f
  BY <1>1 DEF Gone, Flow
<1> QED BY <1>2, <1>3, FlowsKeepLength DEF Typed

LEMMA FlowSetTyped ==
  ASSUME Typed, NEW f \in DOMAIN flows, NEW v \in Flow, flows' = [flows EXCEPT ![f] = v]
  PROVE  /\ flows' \in Seq(Flow) /\ Len(flows') = Len(flows) /\ DOMAIN flows' = DOMAIN flows
         /\ flows'[f] = v /\ \A g \in DOMAIN flows \ {f} : flows'[g] = flows[g]
<1>1. flows \in [DOMAIN flows -> Flow]
  BY FlowsAre
<1>2. flows' \in [DOMAIN flows -> Flow]
  BY <1>1
<1> QED BY <1>1, <1>2, FlowsKeepLength DEF Typed

\* Each field of a flow is written by itself.
LEMMA FlowFields ==
  ASSUME Typed, NEW f \in DOMAIN flows
  PROVE  /\ flows[f] \in Flow
         /\ [flows[f] EXCEPT !.granted = TRUE] \in Flow
         /\ [flows[f] EXCEPT !.code = TRUE] \in Flow
         /\ [flows[f] EXCEPT !.used = TRUE] \in Flow
         /\ [flows[f] EXCEPT !.row = "expired"] \in Flow
<1>1. flows[f] \in Flow
  BY FlowsAre
<1> QED BY <1>1 DEF Flow

LEMMA InitTyped == Init => Typed
<1> SUFFICES ASSUME Init PROVE Typed
  OBVIOUS
<1>1. flows \in Seq(Flow) /\ Len(flows) = 0
  BY EmptySeq DEF Init
<1>2. req \in [Requests -> Request] /\ \A r \in Requests : req[r] = Quiet
  BY QuietTyped DEF Init
<1>3. cred \in [Channels -> Credential] /\ \A c \in Channels : cred[c].tok = 0
  BY DEF Init, NoCredential, Credential
<1>4. enabled \in [Channels -> BOOLEAN] /\ faults \in Nat /\ stopped \subseteq Channels
  BY DEF Init
<1> QED BY <1>1, <1>2, <1>3, <1>4, QuietTyped DEF Typed

\* The conjuncts of Typed about the requests, in the next state.
RequestsTyped ==
  /\ req \in [Requests -> Request]
  /\ \A r \in Requests : /\ req[r].flow <= Len(flows)
                         /\ req[r].pc # "idle" => req[r].chan \in Channels

CredentialsTyped ==
  /\ cred \in [Channels -> Credential]
  /\ \A c \in Channels : cred[c].tok <= Len(flows)

LEMMA FaultTyped == ASSUME Typed, Fault PROVE faults' = faults + 1 /\ faults' \in Nat
  BY DEF Typed, Fault

\* The state outside a request, when the flows' number stays.
LEMMA RestTyped ==
  ASSUME Typed, UNCHANGED <<enabled, cred, stopped>>, Len(flows') = Len(flows),
         flows' \in Seq(Flow), faults' = faults \/ Fault, RequestsTyped'
  PROVE  Typed'
  BY FaultTyped DEF Typed, RequestsTyped

LEMMA FlowEventTyped ==
  ASSUME Typed, NEW f \in DOMAIN flows, Approve(f) \/ Callback(f) \/ Expire(f)
  PROVE  Typed'
<1>1. flows' \in Seq(Flow) /\ Len(flows') = Len(flows)
  <2>1. CASE Approve(f)
    <3>1. flows' = [flows EXCEPT ![f] = [flows[f] EXCEPT !.granted = TRUE]]
      BY <2>1 DEF Approve
    <3> QED BY <3>1, FlowFields, FlowSetTyped
  <2>2. CASE Callback(f)
    <3>1. flows' = [flows EXCEPT ![f] = [flows[f] EXCEPT !.code = TRUE]]
      BY <2>2 DEF Callback
    <3> QED BY <3>1, FlowFields, FlowSetTyped
  <2>3. CASE Expire(f)
    <3>1. flows' = [flows EXCEPT ![f] = [flows[f] EXCEPT !.row = "expired"]]
      BY <2>3 DEF Expire
    <3> QED BY <3>1, FlowFields, FlowSetTyped
  <2> QED BY <2>1, <2>2, <2>3
<1>2. UNCHANGED <<enabled, cred, req, stopped, faults>>
  BY DEF Approve, Callback, Expire
<1>3. RequestsTyped'
  BY <1>1, <1>2 DEF Typed, RequestsTyped
<1> QED BY <1>1, <1>2, <1>3, RestTyped

LEMMA StartTyped ==
  ASSUME Typed, NEW c \in Channels, Start(c)
  PROVE  Typed'
<1> DEFINE new == [chan |-> c, row |-> "live", code |-> FALSE, granted |-> FALSE, used |-> FALSE]
<1>1. new \in Flow
  BY DEF Flow
<1>2. flows' = Append(flows, new) /\ UNCHANGED <<enabled, cred, req, stopped, faults>>
  BY DEF Start
<1> HIDE DEF new
<1>3. flows' \in Seq(Flow) /\ Len(flows') = Len(flows) + 1
  BY <1>1, <1>2, AppendProperties DEF Typed
<1>4. \A r \in Requests : req[r].flow \in Nat /\ req[r].flow <= Len(flows')
  BY <1>3, FlowsAre DEF Typed, Request
<1>5. \A d \in Channels : cred[d].tok \in Nat /\ cred[d].tok <= Len(flows')
  BY <1>3, FlowsAre DEF Typed, Credential
<1> QED BY <1>2, <1>3, <1>4, <1>5 DEF Typed

LEMMA PollTyped ==
  ASSUME Typed, NEW r \in Requests, NEW c \in Channels, Poll(r, c)
  PROVE  Typed'
<1> DEFINE f == Latest(Live)
<1>1. f \in Live /\ f \in DOMAIN flows /\ f \in Nat /\ f <= Len(flows)
  <2>1. Live # {}
    BY DEF Poll
  <2>2. f \in Live
    BY <2>1, FlowsAre, LatestMember
  <2> QED BY <2>2, FlowsAre DEF Live
<1> DEFINE q == [Quiet EXCEPT !.pc = "check", !.chan = c, !.flow = f,
                             !.code = flows[f].code, !.off = ~enabled[c]]
<1>2. Become(r, q) /\ UNCHANGED <<flows, enabled, cred, stopped, faults>>
  BY DEF Poll
<1>3. flows[f].code \in BOOLEAN /\ (~enabled[c]) \in BOOLEAN
  BY <1>1, FlowFields DEF Flow, Typed
<1> HIDE DEF f
<1>4. q \in Request /\ q.flow = f /\ q.chan = c
  BY <1>1, <1>3, QuietTyped DEF Request, Places
<1> HIDE DEF q
<1>5. RequestsTyped'
  BY <1>1, <1>2, <1>4, MovesTyped DEF RequestsTyped
<1> QED BY <1>2, <1>5, RestTyped DEF Typed

LEMMA CompleteTyped ==
  ASSUME Typed, NEW r \in Requests, NEW c \in Channels, NEW f \in DOMAIN flows,
         Complete(r, c, f)
  PROVE  Typed'
<1> DEFINE q == [Quiet EXCEPT !.pc = "resolve", !.chan = c, !.flow = f, !.code = TRUE,
                             !.off = ~enabled[c]]
<1>1. /\ flows' = [flows EXCEPT ![f] = [flows[f] EXCEPT !.code = TRUE]]
      /\ Become(r, q) /\ UNCHANGED <<enabled, cred, stopped, faults>>
  BY DEF Complete
<1>2. flows' \in Seq(Flow) /\ Len(flows') = Len(flows)
  BY <1>1, FlowFields, FlowSetTyped
<1>3. f \in Nat /\ f <= Len(flows)
  BY FlowsAre
<1>4. q \in Request /\ q.flow = f /\ q.chan = c
  BY <1>3, QuietTyped DEF Request, Places, Typed
<1> HIDE DEF q
<1>5. RequestsTyped'
  BY <1>1, <1>2, <1>3, <1>4, MovesTyped DEF RequestsTyped
<1> QED BY <1>1, <1>2, <1>5, RestTyped

\* A request that goes on with the same flow and channel.
LEMMA GoesOnTyped ==
  ASSUME Typed, NEW r \in Requests, NEW q \in Request, Become(r, q),
         req[r].pc # "idle", q.flow = req[r].flow, q.chan = req[r].chan,
         Len(flows') = Len(flows)
  PROVE  RequestsTyped'
  BY MovesTyped DEF Typed, RequestsTyped

LEMMA EndsTyped ==
  ASSUME Typed, NEW r \in Requests, End(r), Len(flows') = Len(flows)
  PROVE  RequestsTyped'
  BY EndTyped DEF RequestsTyped

\* The records a handler goes on with.
LEMMA NextRecords ==
  ASSUME Typed, NEW r \in Requests, req[r].pc # "idle",
         NEW place \in Places, NEW b \in BOOLEAN
  PROVE  /\ req[r] \in Request /\ req[r].chan \in Channels
         /\ [req[r] EXCEPT !.pc = place] \in Request
         /\ [req[r] EXCEPT !.pc = place, !.code = FALSE] \in Request
         /\ [req[r] EXCEPT !.pc = place, !.first = b] \in Request
         /\ [req[r] EXCEPT !.pc = place, !.found = b] \in Request
         /\ [req[r] EXCEPT !.pc = place, !.off = b] \in Request
         /\ [req[r] EXCEPT !.pc = place, !.want = "on", !.found = b] \in Request
         /\ Finishing(req[r]) \in Request
<1>1. req[r] \in Request /\ req[r].chan \in Channels
  BY DEF Typed
<1>2. Finishing(req[r]) \in Request
  BY <1>1, QuietTyped DEF Finishing, Request, Places
<1> QED BY <1>1, <1>2 DEF Request

LEMMA UsedTyped ==
  ASSUME Typed, NEW r \in Requests, Accepted(r),
         flows' = [flows EXCEPT ![req[r].flow].used = TRUE]
  PROVE  flows' \in Seq(Flow) /\ Len(flows') = Len(flows)
<1>1. CASE req[r].flow \in DOMAIN flows
  <2> DEFINE f == req[r].flow
  <2>1. flows' = [flows EXCEPT ![f] = [flows[f] EXCEPT !.used = TRUE]]
    OBVIOUS
  <2> HIDE DEF f
  <2>2. f \in DOMAIN flows
    BY <1>1 DEF f
  <2> QED BY <2>1, <2>2, FlowFields, FlowSetTyped
<1>2. CASE req[r].flow \notin DOMAIN flows
  BY <1>2, FlowsAre, FlowsKeepLength DEF Typed
<1> QED BY <1>1, <1>2

LEMMA HandleTyped ==
  ASSUME Typed, NEW r \in Requests, Handle(r) \/ ResolveFails(r)
  PROVE  Typed'
<1> DEFINE q == req[r]
<1>1. CASE Check(r)
  <2>1. UNCHANGED <<enabled, cred, stopped, faults>> /\ req[r].pc = "check"
    BY <1>1 DEF Check
  <2>2. CASE cred[req[r].chan].status = "active"
    <3>1. flows' = Gone(req[r].flow) /\ End(r)
      BY <1>1, <2>2 DEF Check
    <3> QED BY <2>1, <3>1, GoneTyped, EndsTyped, RestTyped
  <2>3. CASE cred[req[r].chan].status # "active"
    <3>1. flows' = flows /\ Become(r, [req[r] EXCEPT !.pc = "resolve"])
      BY <1>1, <2>3 DEF Check, Goto
    <3>2. [req[r] EXCEPT !.pc = "resolve"] \in Request
      BY <2>1, NextRecords DEF Places
    <3>3. RequestsTyped'
      BY <2>1, <3>1, <3>2, GoesOnTyped DEF Request
    <3> QED BY <2>1, <3>1, <3>3, RestTyped DEF Typed
  <2> QED BY <2>2, <2>3
<1>2. CASE Resolve(r)
  <2>1. UNCHANGED <<enabled, cred, stopped, faults>> /\ req[r].pc = "resolve"
    BY <1>2 DEF Resolve
  <2>2. CASE Accepted(r)
    <3>1. /\ flows' = [flows EXCEPT ![req[r].flow].used = TRUE]
          /\ Become(r, [req[r] EXCEPT !.pc = "first", !.code = FALSE])
      BY <1>2, <2>2 DEF Resolve
    <3>2. flows' \in Seq(Flow) /\ Len(flows') = Len(flows)
      BY <2>2, <3>1, UsedTyped
    <3>3. [req[r] EXCEPT !.pc = "first", !.code = FALSE] \in Request
      BY <2>1, NextRecords DEF Places
    <3>4. RequestsTyped'
      BY <2>1, <3>1, <3>2, <3>3, GoesOnTyped DEF Request
    <3> QED BY <2>1, <3>2, <3>4, RestTyped
  <2>3. CASE ~Accepted(r)
    <3>1. End(r) /\ flows' = flows
      BY <1>2, <2>3 DEF Resolve
    <3> QED BY <2>1, <3>1, EndsTyped, RestTyped DEF Typed
  <2> QED BY <2>2, <2>3
<1>3. CASE ResolveFails(r)
  <2>1. UNCHANGED <<enabled, cred, stopped>> /\ Fault /\ End(r)
    BY <1>3 DEF ResolveFails
  <2>2. flows' \in Seq(Flow) /\ Len(flows') = Len(flows)
    BY <1>3, UsedTyped DEF ResolveFails, Typed
  <2> QED BY <2>1, <2>2, EndsTyped, RestTyped
<1>4. CASE First(r)
  <2>1. UNCHANGED <<flows, enabled, cred, stopped>> /\ req[r].pc = "first"
    BY <1>4 DEF First
  <2>2. faults' = faults \/ Fault
    BY <1>4 DEF First
  <2>3. PICK b \in BOOLEAN : Become(r, [req[r] EXCEPT !.pc = "lookup", !.first = b])
    BY <1>4 DEF First, FirstAuth
  <2>4. [req[r] EXCEPT !.pc = "lookup", !.first = b] \in Request
    BY <2>1, NextRecords DEF Places
  <2>5. RequestsTyped'
    BY <2>1, <2>3, <2>4, GoesOnTyped DEF Request
  <2> QED BY <2>1, <2>2, <2>5, RestTyped DEF Typed
<1>5. CASE Lookup(r)
  <2>1. UNCHANGED <<flows, enabled, cred, stopped, faults>> /\ req[r].pc = "lookup"
    BY <1>5 DEF Lookup
  <2>3. PICK b \in BOOLEAN : Become(r, [req[r] EXCEPT !.pc = "write", !.found = b])
    BY <1>5 DEF Lookup, Exists
  <2>4. [req[r] EXCEPT !.pc = "write", !.found = b] \in Request
    BY <2>1, NextRecords DEF Places
  <2>5. RequestsTyped'
    BY <2>1, <2>3, <2>4, GoesOnTyped DEF Request
  <2> QED BY <2>1, <2>5, RestTyped DEF Typed
<1>6. CASE Write(r)
  <2>1. UNCHANGED <<flows, enabled, stopped, faults>> /\ req[r].pc = "write"
    BY <1>6 DEF Write
  <2>2. CASE End(r) /\ cred' = cred
    BY <2>1, <2>2, EndsTyped, RestTyped DEF Typed
  <2>3. CASE ~ (End(r) /\ cred' = cred)
    <3>1. /\ cred' = [cred EXCEPT ![req[r].chan] = [status |-> "active", tok |-> req[r].flow]]
          /\ \/ Become(r, [req[r] EXCEPT !.pc = "load", !.want = "on", !.found = FALSE])
             \/ Become(r, Finishing(req[r]))
      BY <1>6, <2>3 DEF Write
    <3>2. /\ [req[r] EXCEPT !.pc = "load", !.want = "on", !.found = FALSE] \in Request
          /\ Finishing(req[r]) \in Request
          /\ req[r] \in Request
      BY <2>1, NextRecords DEF Places
    <3>3. Finishing(req[r]).flow = req[r].flow /\ Finishing(req[r]).chan = req[r].chan
      BY DEF Finishing, Quiet
    <3>4. RequestsTyped'
      <4>1. CASE Become(r, Finishing(req[r]))
        BY <2>1, <3>2, <3>3, <4>1, GoesOnTyped
      <4>2. CASE Become(r, [req[r] EXCEPT !.pc = "load", !.want = "on", !.found = FALSE])
        BY <2>1, <3>2, <4>2, GoesOnTyped DEF Request
      <4> QED BY <3>1, <4>1, <4>2
    <3>5. req[r].flow \in Nat /\ req[r].flow <= Len(flows)
      BY <3>2 DEF Typed, Request
    <3>6. CredentialsTyped'
      BY <2>1, <3>1, <3>5 DEF Typed, CredentialsTyped, Credential
    <3> QED BY <2>1, <3>4, <3>6 DEF Typed, RequestsTyped, CredentialsTyped
  <2> QED BY <2>2, <2>3
<1>7. CASE Finish(r)
  BY <1>7, GoneTyped, EndsTyped, RestTyped DEF Finish
<1>8. CASE Load(r)
  <2>1. UNCHANGED <<flows, enabled, cred, stopped, faults>> /\ req[r].pc = "load"
    BY <1>8 DEF Load
  <2>3. PICK b \in BOOLEAN : Become(r, [req[r] EXCEPT !.pc = "save", !.off = b])
    BY <1>8 DEF Load
  <2>4. [req[r] EXCEPT !.pc = "save", !.off = b] \in Request
    BY <2>1, NextRecords DEF Places
  <2>5. RequestsTyped'
    BY <2>1, <2>3, <2>4, GoesOnTyped DEF Request
  <2> QED BY <2>1, <2>5, RestTyped DEF Typed
<1>9. CASE Save(r)
  <2>1. UNCHANGED <<flows, cred, faults>> /\ req[r].pc = "save"
    BY <1>9 DEF Save
  <2>2. req[r] \in Request /\ req[r].chan \in Channels /\ Finishing(req[r]) \in Request
    BY <2>1, NextRecords DEF Places
  <2>3. /\ enabled' = [enabled EXCEPT ![req[r].chan] =
                         CASE req[r].want = "on" -> TRUE [] req[r].want = "off" -> FALSE
                           [] req[r].want = "keep" -> ~req[r].off]
        /\ stopped' \in {stopped \cup {req[r].chan}, stopped \ {req[r].chan}, stopped}
        /\ End(r) \/ Become(r, Finishing(req[r]))
    BY <1>9 DEF Save, End
  <2>4. enabled' \in [Channels -> BOOLEAN] /\ stopped' \subseteq Channels
    BY <2>2, <2>3 DEF Typed, Request
  <2>5. Finishing(req[r]).flow = req[r].flow /\ Finishing(req[r]).chan = req[r].chan
    BY DEF Finishing, Quiet
  <2>6. RequestsTyped'
    <3>1. CASE End(r)
      BY <2>1, <3>1, EndsTyped
    <3>2. CASE Become(r, Finishing(req[r]))
      BY <2>1, <2>2, <2>5, <3>2, GoesOnTyped
    <3> QED BY <2>3, <3>1, <3>2
  <2> QED BY <2>1, <2>4, <2>6 DEF Typed, RequestsTyped
<1> QED BY <1>1, <1>2, <1>3, <1>4, <1>5, <1>6, <1>7, <1>8, <1>9 DEF Handle

LEMMA NextTyped == Typed /\ [Next]_vars => Typed'
<1> SUFFICES ASSUME Typed, [Next]_vars PROVE Typed'
  OBVIOUS
<1>1. ASSUME NEW c \in Channels, Revoke(c) PROVE Typed'
  <2>1. UNCHANGED <<flows, enabled, req, stopped>> /\ Fault
    BY <1>1 DEF Revoke
  <2>2. cred' \in [Channels -> Credential] /\ \A d \in Channels : cred'[d].tok = cred[d].tok
    BY <1>1 DEF Revoke, Typed, Credential
  <2> QED BY <2>1, <2>2, FaultTyped DEF Typed
<1>2. ASSUME NEW r \in Requests, NEW c \in Channels, NEW want \in {"on", "off", "keep"},
             Edit(r, c, want)
      PROVE  Typed'
  <2> DEFINE q == [Quiet EXCEPT !.pc = "load", !.chan = c, !.want = want]
  <2>1. Become(r, q) /\ UNCHANGED <<flows, enabled, cred, stopped, faults>>
    BY <1>2 DEF Edit
  <2>2. q \in Request /\ q.flow = 0 /\ q.chan = c
    BY QuietTyped DEF Request, Places
  <2> HIDE DEF q
  <2>3. RequestsTyped'
    BY <2>1, <2>2, MovesTyped, FlowsAre DEF RequestsTyped
  <2> QED BY <2>1, <2>3, RestTyped DEF Typed
<1>3. ASSUME Crash PROVE Typed'
  <2>1. UNCHANGED <<flows, enabled, cred, stopped>> /\ Fault
        /\ req' = [r \in Requests |-> Quiet]
    BY <1>3 DEF Crash
  <2>2. RequestsTyped'
    BY <2>1, QuietTyped, FlowsAre DEF RequestsTyped
  <2> QED BY <2>1, <2>2, RestTyped DEF Typed
<1>4. CASE UNCHANGED vars
  BY <1>4 DEF vars, Typed
<1> QED BY <1>1, <1>2, <1>3, <1>4, StartTyped, FlowEventTyped, PollTyped, CompleteTyped,
           HandleTyped DEF Next

------------------------------------------------------------------------------
(* An enabled channel has been authorised *)

\* No step takes the credential of a channel away.
LEMMA CredentialStays ==
  ASSUME Typed, [Next]_vars
  PROVE  \A c \in Channels : Exists(c) => Exists(c)'
<1>1. ASSUME NEW d \in Channels, Revoke(d) PROVE \A c \in Channels : Exists(c) => Exists(c)'
  BY <1>1 DEF Revoke, Exists, Typed, Credential
<1>2. ASSUME NEW r \in Requests, Write(r) PROVE \A c \in Channels : Exists(c) => Exists(c)'
  <2>1. \/ cred' = cred
        \/ cred' = [cred EXCEPT ![req[r].chan] = [status |-> "active", tok |-> req[r].flow]]
    BY <1>2 DEF Write
  <2> QED BY <2>1 DEF Exists, Typed
<1>3. CASE cred' = cred
  BY <1>3 DEF Exists
<1> QED BY <1>1, <1>2, <1>3
        DEF Next, vars, Start, Approve, Callback, Expire, Handle, Check, Resolve, ResolveFails,
            First, Lookup, Finish, Load, Save, Poll, Complete, Edit, Crash

LEMMA GroundMoves ==
  ASSUME Typed, SwitchedOnGround, \A c \in Channels : Exists(c) => Exists(c)',
         NEW r \in Requests, NEW q, Become(r, q),
         q.pc \in {"load", "save"} /\ q.want = "on" => cred'[q.chan].status # "none",
         q.pc = "save" /\ ~q.off => cred'[q.chan].status # "none",
         \A c \in Channels : enabled'[c] => enabled[c] \/ Exists(c)
  PROVE  SwitchedOnGround'
<1>1. req'[r] = q /\ \A s \in Requests \ {r} : req'[s] = req[s]
  BY Moves
<1>2. EnabledIsAuthorised'
  BY DEF SwitchedOnGround, EnabledIsAuthorised
<1>3. Grounded(req[r])'
  BY <1>1 DEF Grounded, Exists
<1>4. ASSUME NEW s \in Requests \ {r} PROVE Grounded(req[s])'
  <2>1. req'[s] = req[s] /\ Grounded(req[s])
    BY <1>1 DEF SwitchedOnGround
  <2>2. req[s].pc # "idle" => req[s].chan \in Channels
    BY DEF Typed
  <2> QED BY <2>1, <2>2 DEF Grounded, Exists
<1> QED BY <1>2, <1>3, <1>4 DEF SwitchedOnGround

\* Any request may go on where nothing is switched.
LEMMA GroundElsewhere ==
  ASSUME Typed, SwitchedOnGround, \A c \in Channels : Exists(c) => Exists(c)',
         NEW r \in Requests, NEW q, Become(r, q), q.pc \notin {"load", "save"},
         enabled' = enabled
  PROVE  SwitchedOnGround'
<1>1. \A c \in Channels : enabled'[c] => enabled[c] \/ Exists(c)
  OBVIOUS
<1> QED BY <1>1, GroundMoves

LEMMA GroundStep ==
  ASSUME Typed, SwitchedOnGround, [Next]_vars
  PROVE  SwitchedOnGround'
<1>0. \A c \in Channels : Exists(c) => Exists(c)'
  BY CredentialStays
<1>1. ASSUME NEW r \in Requests, End(r), enabled' = enabled PROVE SwitchedOnGround'
  BY <1>0, <1>1, QuietTyped, GroundElsewhere DEF End
<1>2. CASE req' = req /\ enabled' = enabled
  <2>1. \A r \in Requests : req[r].pc # "idle" => req[r].chan \in Channels
    BY DEF Typed
  <2> QED BY <1>0, <1>2, <2>1 DEF SwitchedOnGround, EnabledIsAuthorised, Grounded, Exists
<1>3. ASSUME NEW r \in Requests, Check(r) \/ Resolve(r) \/ First(r) \/ Lookup(r) \/ Finish(r)
                                 \/ ResolveFails(r)
      PROVE  SwitchedOnGround'
  <2>1. enabled' = enabled /\ req[r] \in Request
    BY <1>3 DEF Check, Resolve, First, Lookup, Finish, ResolveFails, Typed
  <2>2. CASE End(r)
    BY <1>1, <2>1, <2>2
  <2>3. ASSUME NEW q, Become(r, q), q.pc \notin {"load", "save"} PROVE SwitchedOnGround'
    BY <1>0, <2>1, <2>3, GroundElsewhere
  <2>4. CASE Check(r)
    <3> DEFINE q == [req[r] EXCEPT !.pc = "resolve"]
    <3>1. End(r) \/ Become(r, q)
      BY <2>4 DEF Check, Goto
    <3>2. q.pc = "resolve"
      BY <2>1 DEF Request
    <3> HIDE DEF q
    <3> QED BY <2>2, <2>3, <3>1, <3>2
  <2>5. CASE Resolve(r)
    <3> DEFINE q == [req[r] EXCEPT !.pc = "first", !.code = FALSE]
    <3>1. End(r) \/ Become(r, q)
      BY <2>5 DEF Resolve
    <3>2. q.pc = "first"
      BY <2>1 DEF Request
    <3> HIDE DEF q
    <3> QED BY <2>2, <2>3, <3>1, <3>2
  <2>6. CASE First(r)
    <3>1. PICK b \in BOOLEAN : Become(r, [req[r] EXCEPT !.pc = "lookup", !.first = b])
      BY <2>6 DEF First, FirstAuth
    <3> DEFINE q == [req[r] EXCEPT !.pc = "lookup", !.first = b]
    <3>2. q.pc = "lookup" /\ Become(r, q)
      BY <2>1, <3>1 DEF Request
    <3> HIDE DEF q
    <3> QED BY <2>3, <3>2
  <2>7. CASE Lookup(r)
    <3>1. PICK b \in BOOLEAN : Become(r, [req[r] EXCEPT !.pc = "write", !.found = b])
      BY <2>7 DEF Lookup, Exists
    <3> DEFINE q == [req[r] EXCEPT !.pc = "write", !.found = b]
    <3>2. q.pc = "write" /\ Become(r, q)
      BY <2>1, <3>1 DEF Request
    <3> HIDE DEF q
    <3> QED BY <2>3, <3>2
  <2>8. CASE Finish(r) \/ ResolveFails(r)
    BY <2>2, <2>8 DEF Finish, ResolveFails
  <2> QED BY <1>3, <2>4, <2>5, <2>6, <2>7, <2>8
<1>4. ASSUME NEW r \in Requests, Write(r) PROVE SwitchedOnGround'
  <2>1. enabled' = enabled /\ req[r].pc = "write"
    BY <1>4 DEF Write
  <2>2. req[r] \in Request /\ req[r].chan \in Channels
    BY <2>1 DEF Typed
  <2>3. CASE End(r)
    BY <1>1, <2>1, <2>3
  <2>4. CASE Become(r, Finishing(req[r]))
    <3>1. Finishing(req[r]).pc = "finish"
      BY DEF Finishing, Quiet
    <3> QED BY <1>0, <2>1, <2>4, <3>1, GroundElsewhere
  <2>5. CASE /\ Become(r, [req[r] EXCEPT !.pc = "load", !.want = "on", !.found = FALSE])
             /\ cred' = [cred EXCEPT ![req[r].chan] = [status |-> "active", tok |-> req[r].flow]]
    <3> DEFINE q == [req[r] EXCEPT !.pc = "load", !.want = "on", !.found = FALSE]
    <3>1. q.pc = "load" /\ q.chan = req[r].chan
      BY <2>2 DEF Request
    <3>2. cred'[q.chan].status = "active"
      BY <2>2, <2>5, <3>1 DEF Typed
    <3>4. Become(r, q)
      BY <2>5
    <3>5. \A c \in Channels : enabled'[c] => enabled[c] \/ Exists(c)
      BY <2>1
    <3> HIDE DEF q
    <3> QED BY <1>0, <3>1, <3>2, <3>4, <3>5, GroundMoves
  <2> QED BY <1>4, <2>3, <2>4, <2>5 DEF Write
<1>5. ASSUME NEW r \in Requests, NEW c \in Channels, Poll(r, c) PROVE SwitchedOnGround'
  <2> DEFINE q == [Quiet EXCEPT !.pc = "check", !.chan = c, !.flow = Latest(Live),
                               !.code = flows[Latest(Live)].code, !.off = ~enabled[c]]
  <2>1. Become(r, q) /\ enabled' = enabled /\ q.pc = "check"
    BY <1>5 DEF Poll, Quiet
  <2> HIDE DEF q
  <2> QED BY <1>0, <2>1, GroundElsewhere
<1>6. ASSUME NEW r \in Requests, NEW c \in Channels, NEW f \in DOMAIN flows, Complete(r, c, f)
      PROVE  SwitchedOnGround'
  <2> DEFINE q == [Quiet EXCEPT !.pc = "resolve", !.chan = c, !.flow = f, !.code = TRUE,
                               !.off = ~enabled[c]]
  <2>1. Become(r, q) /\ enabled' = enabled /\ q.pc = "resolve"
    BY <1>6 DEF Complete, Quiet
  <2> HIDE DEF q
  <2> QED BY <1>0, <2>1, GroundElsewhere
<1>7. ASSUME NEW r \in Requests, NEW c \in Channels, NEW want \in {"on", "off", "keep"},
             Edit(r, c, want)
      PROVE  SwitchedOnGround'
  <2> DEFINE q == [Quiet EXCEPT !.pc = "load", !.chan = c, !.want = want]
  <2>1. Become(r, q) /\ enabled' = enabled /\ cred' = cred
    BY <1>7 DEF Edit
  <2>2. q.pc = "load" /\ q.chan = c /\ q.want = want
    BY DEF Quiet
  <2>3. want = "on" => cred'[c].status # "none"
    BY <1>7, <2>1 DEF Edit, MayEnable
  <2>4. \A d \in Channels : enabled'[d] => enabled[d] \/ Exists(d)
    BY <2>1
  <2> HIDE DEF q
  <2> QED BY <1>0, <2>1, <2>2, <2>3, <2>4, GroundMoves
<1>8. ASSUME NEW r \in Requests, Load(r) PROVE SwitchedOnGround'
  <2> DEFINE q == [req[r] EXCEPT !.pc = "save", !.off = ~enabled[req[r].chan]]
  <2>1. Become(r, q) /\ enabled' = enabled /\ cred' = cred /\ req[r].pc = "load"
    BY <1>8 DEF Load
  <2>2. req[r] \in Request /\ req[r].chan \in Channels /\ enabled[req[r].chan] \in BOOLEAN
    BY <2>1 DEF Typed
  <2>3. /\ q.pc = "save" /\ q.chan = req[r].chan /\ q.want = req[r].want
        /\ ~q.off <=> enabled[req[r].chan]
    BY <2>2 DEF Request
  <2> HIDE DEF q
  <2>4. q.want = "on" => cred'[q.chan].status # "none"
    BY <2>1, <2>3 DEF SwitchedOnGround, Grounded, Exists
  <2>5. ~q.off => cred'[q.chan].status # "none"
    BY <2>1, <2>2, <2>3 DEF SwitchedOnGround, EnabledIsAuthorised, Exists
  <2>6. \A d \in Channels : enabled'[d] => enabled[d] \/ Exists(d)
    BY <2>1
  <2> QED BY <1>0, <2>1, <2>3, <2>4, <2>5, <2>6, GroundMoves
<1>9. ASSUME NEW r \in Requests, Save(r) PROVE SwitchedOnGround'
  <2>1. req[r].pc = "save" /\ req[r] \in Request /\ req[r].chan \in Channels
    BY <1>9 DEF Save, Typed
  <2>2. enabled' = [enabled EXCEPT ![req[r].chan] =
                      CASE req[r].want = "on" -> TRUE [] req[r].want = "off" -> FALSE
                        [] req[r].want = "keep" -> ~req[r].off]
    BY <1>9 DEF Save
  <2>3. enabled'[req[r].chan] => Exists(req[r].chan)
    BY <2>1, <2>2 DEF Typed, SwitchedOnGround, Grounded, Request
  <2>4. \A d \in Channels : enabled'[d] => enabled[d] \/ Exists(d)
    BY <2>1, <2>2, <2>3 DEF Typed
  <2>5. PICK q : Become(r, q) /\ q.pc \in {"idle", "finish"}
    <3>1. Quiet.pc = "idle" /\ Finishing(req[r]).pc = "finish"
      BY DEF Quiet, Finishing
    <3> QED BY <1>9, <3>1 DEF Save
  <2> QED BY <1>0, <2>4, <2>5, GroundMoves
<1>10. CASE Crash
  <2>1. enabled' = enabled /\ \A r \in Requests : req'[r] = Quiet
    BY <1>10 DEF Crash
  <2> QED BY <1>0, <2>1, QuietTyped DEF SwitchedOnGround, EnabledIsAuthorised, Grounded
<1>11. ASSUME NEW c \in Channels, Start(c) \/ Revoke(c) PROVE SwitchedOnGround'
  BY <1>2, <1>11 DEF Start, Revoke
<1>12. ASSUME NEW f \in DOMAIN flows, Approve(f) \/ Callback(f) \/ Expire(f)
       PROVE  SwitchedOnGround'
  BY <1>2, <1>12 DEF Approve, Callback, Expire
<1>13. CASE UNCHANGED vars
  BY <1>2, <1>13 DEF vars
<1> QED BY <1>3, <1>4, <1>5, <1>6, <1>7, <1>8, <1>9, <1>10, <1>11, <1>12, <1>13
        DEF Next, Handle

LEMMA InitGround == Init => SwitchedOnGround
  BY QuietTyped DEF Init, SwitchedOnGround, EnabledIsAuthorised, Grounded

\* Every channel that takes part in the relay has been authorised, whatever the flows,
\* the edits and the failures (provider.go:436, oauth.go:304).
THEOREM NoneUnauthorised == Spec => []EnabledIsAuthorised
<1>1. Init => Typed /\ SwitchedOnGround
  BY InitTyped, InitGround
<1>2. (Typed /\ SwitchedOnGround) /\ [Next]_vars => (Typed /\ SwitchedOnGround)'
  BY NextTyped, GroundStep
<1>3. Typed /\ SwitchedOnGround => EnabledIsAuthorised
  BY DEF SwitchedOnGround
<1> QED BY <1>1, <1>2, <1>3, PTL DEF Spec

------------------------------------------------------------------------------
(* A channel that was stopped stays stopped *)

\* A request moves on and no switch is touched: the request must keep its place in a
\* first authorisation and be harmless to its channel if that is stopped.
LEMMA StopMoves ==
  ASSUME Typed, StoppedForGood, \A c \in Channels : Exists(c) => Exists(c)',
         NEW r \in Requests, NEW q, Become(r, q), UNCHANGED <<enabled, stopped>>,
         FirstHasPlace(q), q.chan \in stopped => Harmless(q)
  PROVE  StoppedForGood'
<1>1. req'[r] = q /\ \A s \in Requests \ {r} : req'[s] = req[s]
  BY Moves
<1>2. \A s \in Requests : FirstHasPlace(req'[s])
  BY <1>1 DEF StoppedForGood
<1>3. ASSUME NEW c \in stopped
      PROVE  /\ ~enabled[c] /\ Exists(c)'
             /\ \A s \in Requests : req'[s].chan = c => Harmless(req'[s])
  <2>1. ~enabled[c] /\ Exists(c) /\ c \in Channels
    BY DEF StoppedForGood, Typed
  <2>2. ASSUME NEW s \in Requests, req'[s].chan = c PROVE Harmless(req'[s])
    BY <1>1, <2>2 DEF StoppedForGood
  <2> QED BY <2>1, <2>2
<1>4. ASSUME NEW c \in stopped' PROVE ~enabled'[c] /\ Exists(c)'
  BY <1>3
<1>5. ASSUME NEW c \in stopped', NEW s \in Requests, req'[s].chan = c
      PROVE  Harmless(req'[s])
  BY <1>3, <1>5
<1> QED BY <1>2, <1>4, <1>5 DEF StoppedForGood, Harmless, FirstHasPlace

LEMMA QuietHarmless == Harmless(Quiet) /\ FirstHasPlace(Quiet)
  BY DEF Quiet, Harmless, FirstHasPlace

LEMMA FinishingHarmless ==
  ASSUME NEW q
  PROVE  Harmless(Finishing(q)) /\ FirstHasPlace(Finishing(q))
  BY DEF Finishing, Quiet, Harmless, FirstHasPlace

\* What is known of a request whose channel is stopped.
LEMMA AtStopped ==
  ASSUME Typed, StoppedForGood, NEW r \in Requests, req[r].pc # "idle"
  PROVE  /\ req[r] \in Request /\ req[r].chan \in Channels /\ FirstHasPlace(req[r])
         /\ req[r].chan \in stopped =>
              /\ Harmless(req[r]) /\ ~enabled[req[r].chan] /\ Exists(req[r].chan)
  BY DEF Typed, StoppedForGood

LEMMA SaveStops ==
  ASSUME Typed, StoppedForGood, NEW r \in Requests, Save(r)
  PROVE  StoppedForGood'
<1> DEFINE q == req[r]
           new == IF q.flow = 0 THEN Quiet ELSE Finishing(q)
<1>1. /\ q.pc = "save" /\ cred' = cred /\ Become(r, new)
      /\ enabled' = [enabled EXCEPT ![q.chan] =
                       CASE q.want = "on" -> TRUE [] q.want = "off" -> FALSE
                         [] q.want = "keep" -> ~q.off]
      /\ stopped' = IF q.want = "off" /\ Exists(q.chan) /\ ~Contended(r)
                      THEN stopped \cup {q.chan}
                      ELSE IF q.want = "on" /\ q.flow = 0 THEN stopped \ {q.chan} ELSE stopped
  BY DEF Save
<1>2. /\ q \in Request /\ q.chan \in Channels /\ FirstHasPlace(q)
      /\ q.chan \in stopped => Harmless(q)
  BY <1>1, AtStopped
<1>3. req'[r] = new /\ \A s \in Requests \ {r} : req'[s] = req[s]
  BY <1>1, Moves
<1>4. Harmless(new) /\ FirstHasPlace(new)
  BY QuietHarmless, FinishingHarmless
<1> HIDE DEF new
<1>5. \A s \in Requests : FirstHasPlace(req'[s])
  BY <1>3, <1>4 DEF StoppedForGood
<1>6. ASSUME NEW c \in stopped', c # q.chan
      PROVE  ~enabled'[c] /\ Exists(c)' /\ \A s \in Requests : req'[s].chan = c => Harmless(req'[s])
  <2>1. c \in stopped /\ c \in Channels /\ enabled'[c] = enabled[c]
    BY <1>1, <1>6 DEF Typed
  <2> QED BY <1>1, <1>3, <1>4, <2>1 DEF StoppedForGood, Exists
<1>7. ASSUME q.chan \in stopped'
      PROVE  /\ ~enabled'[q.chan] /\ Exists(q.chan)
             /\ \A s \in Requests : req'[s].chan = q.chan => Harmless(req'[s])
  <2>1. CASE q.want = "off" /\ Exists(q.chan) /\ ~Contended(r)
    <3>1. ASSUME NEW s \in Requests \ {r}, req[s].chan = q.chan PROVE Harmless(req[s])
      BY <2>1, <3>1 DEF Contended, Harmless
    <3>2. ~enabled'[q.chan]
      BY <1>1, <1>2, <2>1 DEF Typed
    <3> QED BY <1>3, <1>4, <2>1, <3>1, <3>2
  <2>2. CASE q.chan \in stopped
    <3>1. Harmless(q) /\ Exists(q.chan)
      BY <2>2 DEF StoppedForGood
    <3>2. q.flow = 0 /\ q.want # "on"
      <4>1. q.flow = 0
        BY <1>1, <1>2, <3>1 DEF FirstHasPlace, Harmless
      <4> QED BY <1>1, <1>7, <4>1
    <3>3. ~enabled'[q.chan]
      BY <1>1, <1>2, <3>1, <3>2 DEF Harmless, Typed, Request
    <3>4. \A s \in Requests \ {r} : req[s].chan = q.chan => Harmless(req[s])
      BY <2>2 DEF StoppedForGood
    <3> QED BY <1>3, <1>4, <3>1, <3>3, <3>4
  <2> QED BY <1>1, <1>7, <2>1, <2>2
<1>8. ASSUME NEW c \in stopped'
      PROVE  ~enabled'[c] /\ Exists(c)' /\ \A s \in Requests : req'[s].chan = c => Harmless(req'[s])
  <2>1. CASE c # q.chan
    BY <1>6, <2>1
  <2>2. CASE c = q.chan
    <3>1. cred'[c].status # "none"
      BY <1>1, <1>7, <1>8, <2>2 DEF Exists
    <3> QED BY <1>7, <1>8, <2>2, <3>1 DEF Exists
  <2> QED BY <2>1, <2>2
<1> QED BY <1>5, <1>8 DEF StoppedForGood, Harmless, FirstHasPlace

LEMMA StopStep ==
  ASSUME Typed, StoppedForGood, [Next]_vars
  PROVE  StoppedForGood'
<1>0. \A c \in Channels : Exists(c) => Exists(c)'
  BY CredentialStays
<1>1. ASSUME NEW r \in Requests, End(r), UNCHANGED <<enabled, stopped>> PROVE StoppedForGood'
  BY <1>0, <1>1, QuietHarmless, StopMoves DEF End
<1>2. CASE UNCHANGED <<req, enabled, stopped>>
  BY <1>0, <1>2 DEF StoppedForGood, Harmless, FirstHasPlace, Typed
<1>3. ASSUME NEW r \in Requests,
             Check(r) \/ Resolve(r) \/ First(r) \/ Lookup(r) \/ Finish(r) \/ ResolveFails(r)
      PROVE  StoppedForGood'
  <2>1. UNCHANGED <<enabled, stopped>> /\ req[r].pc # "idle"
    BY <1>3 DEF Check, Resolve, First, Lookup, Finish, ResolveFails
  <2>2. /\ req[r] \in Request /\ req[r].chan \in Channels /\ FirstHasPlace(req[r])
        /\ req[r].chan \in stopped => Harmless(req[r]) /\ Exists(req[r].chan)
    BY <2>1, AtStopped
  <2>3. CASE Check(r)
    <3> DEFINE q == [req[r] EXCEPT !.pc = "resolve"]
    <3>1. (End(r) \/ Become(r, q)) /\ req[r].pc = "check"
      BY <2>3 DEF Check, Goto
    <3>2. FirstHasPlace(q) /\ (q.chan \in stopped => Harmless(q))
      BY <2>2, <3>1 DEF Request, FirstHasPlace, Harmless
    <3> HIDE DEF q
    <3> QED BY <1>0, <1>1, <2>1, <3>1, <3>2, StopMoves
  <2>4. CASE Resolve(r)
    <3> DEFINE q == [req[r] EXCEPT !.pc = "first", !.code = FALSE]
    <3>1. (End(r) \/ Become(r, q)) /\ req[r].pc = "resolve"
      BY <2>4 DEF Resolve
    <3>2. FirstHasPlace(q) /\ (q.chan \in stopped => Harmless(q))
      BY <2>2, <3>1 DEF Request, FirstHasPlace, Harmless
    <3> HIDE DEF q
    <3> QED BY <1>0, <1>1, <2>1, <3>1, <3>2, StopMoves
  <2>5. CASE First(r)
    <3>1. PICK failed \in BOOLEAN :
            Become(r, [req[r] EXCEPT !.pc = "lookup",
                                     !.first = FirstAuth(Exists(req[r].chan), failed)])
      BY <2>5 DEF First
    <3> DEFINE b == FirstAuth(Exists(req[r].chan), failed)
               q == [req[r] EXCEPT !.pc = "lookup", !.first = b]
    <3>2. b \in BOOLEAN /\ (Exists(req[r].chan) => ~b)
      BY DEF FirstAuth
    <3>3. Become(r, q) /\ req[r].pc = "first"
      BY <2>5, <3>1 DEF First
    <3> HIDE DEF b
    <3>4. FirstHasPlace(q) /\ (q.chan \in stopped => Harmless(q))
      BY <2>2, <3>2, <3>3 DEF Request, FirstHasPlace, Harmless
    <3> HIDE DEF q
    <3> QED BY <1>0, <2>1, <3>3, <3>4, StopMoves
  <2>6. CASE Lookup(r)
    <3>1. PICK b \in BOOLEAN : Become(r, [req[r] EXCEPT !.pc = "write", !.found = b])
      BY <2>6 DEF Lookup, Exists
    <3> DEFINE q == [req[r] EXCEPT !.pc = "write", !.found = b]
    <3>2. req[r].pc = "lookup"
      BY <2>6 DEF Lookup
    <3>3. FirstHasPlace(q) /\ (q.chan \in stopped => Harmless(q)) /\ Become(r, q)
      BY <2>2, <3>1, <3>2 DEF Request, FirstHasPlace, Harmless
    <3> HIDE DEF q
    <3> QED BY <1>0, <2>1, <3>3, StopMoves
  <2>7. CASE Finish(r) \/ ResolveFails(r)
    BY <1>1, <2>1, <2>7 DEF Finish, ResolveFails
  <2> QED BY <1>3, <2>3, <2>4, <2>5, <2>6, <2>7
<1>4. ASSUME NEW r \in Requests, Write(r) PROVE StoppedForGood'
  <2>1. UNCHANGED <<enabled, stopped>> /\ req[r].pc = "write"
    BY <1>4 DEF Write
  <2>2. /\ req[r] \in Request /\ req[r].chan \in Channels
        /\ req[r].chan \in stopped => Harmless(req[r])
        /\ FirstHasPlace(req[r])
    BY <2>1, AtStopped
  <2> DEFINE q == [req[r] EXCEPT !.pc = "load", !.want = "on", !.found = FALSE]
  <2>3. CASE End(r)
    BY <1>1, <2>1, <2>3
  <2>4. CASE Become(r, Finishing(req[r]))
    BY <1>0, <2>1, <2>4, FinishingHarmless, StopMoves
  <2>5. CASE Become(r, q) /\ Enables(req[r])
    <3>1. req[r].first /\ req[r].flow # 0
      BY <2>1, <2>2, <2>5 DEF Enables, FirstHasPlace
    <3>2. FirstHasPlace(q) /\ (q.chan \in stopped => Harmless(q))
      BY <2>2, <3>1 DEF Request, FirstHasPlace, Harmless
    <3> HIDE DEF q
    <3> QED BY <1>0, <2>1, <2>5, <3>2, StopMoves
  <2> QED BY <1>4, <2>3, <2>4, <2>5 DEF Write
<1>5. ASSUME NEW r \in Requests, NEW c \in Channels, Poll(r, c) PROVE StoppedForGood'
  <2> DEFINE f == Latest(Live)
             q == [Quiet EXCEPT !.pc = "check", !.chan = c, !.flow = f,
                               !.code = flows[f].code, !.off = ~enabled[c]]
  <2>1. Become(r, q) /\ UNCHANGED <<enabled, stopped>> /\ Live # {}
    BY <1>5 DEF Poll
  <2>2. f \in Live /\ f # 0
    <3>1. f \in Live
      BY <2>1, FlowsAre, LatestMember
    <3>2. 0 \notin Live
      BY FlowsAre DEF Live
    <3> QED BY <3>1, <3>2
  <2> HIDE DEF f
  <2>3. FirstHasPlace(q) /\ Harmless(q)
    BY <2>2 DEF Quiet, FirstHasPlace, Harmless
  <2> HIDE DEF q
  <2> QED BY <1>0, <2>1, <2>3, StopMoves
<1>6. ASSUME NEW r \in Requests, NEW c \in Channels, NEW f \in DOMAIN flows, Complete(r, c, f)
      PROVE  StoppedForGood'
  <2> DEFINE q == [Quiet EXCEPT !.pc = "resolve", !.chan = c, !.flow = f, !.code = TRUE,
                               !.off = ~enabled[c]]
  <2>1. Become(r, q) /\ UNCHANGED <<enabled, stopped>>
    BY <1>6 DEF Complete
  <2>2. f # 0
    BY FlowsAre
  <2>3. FirstHasPlace(q) /\ Harmless(q)
    BY <2>2 DEF Quiet, FirstHasPlace, Harmless
  <2> HIDE DEF q
  <2> QED BY <1>0, <2>1, <2>3, StopMoves
<1>7. ASSUME NEW r \in Requests, NEW c \in Channels, NEW want \in {"on", "off", "keep"},
             Edit(r, c, want)
      PROVE  StoppedForGood'
  <2> DEFINE q == [Quiet EXCEPT !.pc = "load", !.chan = c, !.want = want]
  <2>1. Become(r, q) /\ UNCHANGED <<enabled, stopped>>
    BY <1>7 DEF Edit
  <2>2. FirstHasPlace(q) /\ Harmless(q)
    BY DEF Quiet, FirstHasPlace, Harmless
  <2> HIDE DEF q
  <2> QED BY <1>0, <2>1, <2>2, StopMoves
<1>8. ASSUME NEW r \in Requests, Load(r) PROVE StoppedForGood'
  <2> DEFINE b == ~enabled[req[r].chan]
             q == [req[r] EXCEPT !.pc = "save", !.off = b]
  <2>1. Become(r, q) /\ UNCHANGED <<enabled, stopped>> /\ req[r].pc = "load"
    BY <1>8 DEF Load
  <2>2. /\ req[r] \in Request /\ FirstHasPlace(req[r])
        /\ req[r].chan \in stopped => Harmless(req[r]) /\ b
    BY <2>1, AtStopped
  <2> HIDE DEF b
  <2>3. FirstHasPlace(q) /\ (q.chan \in stopped => Harmless(q))
    BY <2>1, <2>2 DEF Request, FirstHasPlace, Harmless
  <2> HIDE DEF q
  <2> QED BY <1>0, <2>1, <2>3, StopMoves
<1>9. CASE Crash
  <2>1. UNCHANGED <<enabled, stopped, cred>> /\ \A r \in Requests : req'[r] = Quiet
    BY <1>9 DEF Crash
  <2>2. \A r \in Requests : Harmless(req'[r]) /\ FirstHasPlace(req'[r])
    BY <2>1, QuietHarmless
  <2> QED BY <2>1, <2>2 DEF StoppedForGood, Exists, Harmless, FirstHasPlace
<1>10. ASSUME NEW c \in Channels, Start(c) \/ Revoke(c) PROVE StoppedForGood'
  BY <1>2, <1>10 DEF Start, Revoke
<1>11. ASSUME NEW f \in DOMAIN flows, Approve(f) \/ Callback(f) \/ Expire(f)
       PROVE  StoppedForGood'
  BY <1>2, <1>11 DEF Approve, Callback, Expire
<1>12. CASE UNCHANGED vars
  BY <1>2, <1>12 DEF vars
<1> QED BY <1>3, <1>4, <1>5, <1>6, <1>7, <1>8, <1>9, <1>10, <1>11, <1>12, SaveStops
        DEF Next, Handle

LEMMA InitStop == Init => StoppedForGood
  BY QuietHarmless DEF Init, StoppedForGood

\* A channel its user has stopped is switched on by no authorisation, repeated or late
\* (oauth.go:305).
THEOREM StoppedStays == Spec => []StopKept
<1>1. Init => Typed /\ StoppedForGood
  BY InitTyped, InitStop
<1>2. (Typed /\ StoppedForGood) /\ [Next]_vars => (Typed /\ StoppedForGood)'
  BY NextTyped, StopStep
<1>3. Typed /\ StoppedForGood => StopKept
  BY DEF StoppedForGood, StopKept
<1> QED BY <1>1, <1>2, <1>3, PTL DEF Spec

------------------------------------------------------------------------------
(* A flow whose token was stored is over *)

LEMMA LiveShrinks ==
  ASSUME Typed, NEW f, f \in DOMAIN flows, NEW v \in Flow, flows' = [flows EXCEPT ![f] = v],
         v.row = "live" => flows[f].row = "live"
  PROVE  Live' \subseteq Live
  BY FlowSetTyped DEF Live

LEMMA LiveLosesGone ==
  ASSUME Typed, NEW f, flows' = Gone(f)
  PROVE  Live' \subseteq Live \ {f}
  BY GoneTyped DEF Live

\* The exchange of a code leaves the rows of the flows.
LEMMA LiveStaysUsed ==
  ASSUME Typed, NEW f, flows' = [flows EXCEPT ![f].used = TRUE]
  PROVE  Live' \subseteq Live
<1>1. CASE f \in DOMAIN flows
  <2> DEFINE v == [flows[f] EXCEPT !.used = TRUE]
  <2>1. flows' = [flows EXCEPT ![f] = v]
    OBVIOUS
  <2>2. v \in Flow /\ v.row = flows[f].row
    BY <1>1, FlowFields DEF Flow
  <2> HIDE DEF v
  <2> QED BY <1>1, <2>1, <2>2, LiveShrinks
<1>2. CASE f \notin DOMAIN flows
  <2>1. flows' = flows
    BY <1>2, FlowsAre
  <2> QED BY <2>1 DEF Live
<1> QED BY <1>1, <1>2

\* One request moves on; if it was closing a flow, it goes on or the row is gone.
LEMMA ClosingMoves ==
  ASSUME Typed, ClosingSoon, NEW r \in Requests, NEW q, Become(r, q),
         Live' \subseteq Live, cred' = cred, faults' = 0 => faults = 0,
         Closing(req[r]) => (Closing(q) /\ q.flow = req[r].flow) \/ req[r].flow \notin Live'
  PROVE  ClosingSoon'
<1> SUFFICES ASSUME faults' = 0, NEW f \in Live', Spent(f)'
             PROVE  \E s \in Requests : req'[s].flow = f /\ Closing(req'[s])
  BY DEF ClosingSoon, Closing
<1>1. req'[r] = q /\ \A s \in Requests \ {r} : req'[s] = req[s]
  BY Moves
<1>2. f \in Live /\ Spent(f)
  BY DEF Spent
<1>3. PICK s \in Requests : req[s].flow = f /\ Closing(req[s])
  BY <1>2 DEF ClosingSoon
<1> QED BY <1>1, <1>3

\* A token is stored: by a request that has no flow to close yet, but is closing now.
LEMMA ClosingWrites ==
  ASSUME Typed, ClosingSoon, NEW r \in Requests, Write(r), ~(End(r) /\ cred' = cred)
  PROVE  ClosingSoon'
<1>1. UNCHANGED <<flows, faults>> /\ req[r].pc = "write" /\ req[r] \in Request
  BY DEF Write, Typed
<1>2. /\ cred' = [cred EXCEPT ![req[r].chan] = [status |-> "active", tok |-> req[r].flow]]
      /\ \/ Become(r, [req[r] EXCEPT !.pc = "load", !.want = "on", !.found = FALSE])
         \/ Become(r, Finishing(req[r]))
  BY DEF Write
<1>3. /\ req'[r].flow = req[r].flow /\ Closing(req'[r])
      /\ \A s \in Requests \ {r} : req'[s] = req[s]
  <2>1. CASE Become(r, Finishing(req[r]))
    <3>1. Finishing(req[r]).flow = req[r].flow /\ Finishing(req[r]).pc = "finish"
      BY DEF Finishing, Quiet
    <3> QED BY <2>1, <3>1, Moves DEF Closing
  <2>2. CASE Become(r, [req[r] EXCEPT !.pc = "load", !.want = "on", !.found = FALSE])
    <3> DEFINE q == [req[r] EXCEPT !.pc = "load", !.want = "on", !.found = FALSE]
    <3>1. q.flow = req[r].flow /\ q.pc = "load" /\ Become(r, q)
      BY <1>1, <2>2 DEF Request
    <3> HIDE DEF q
    <3> QED BY <3>1, Moves DEF Closing
  <2> QED BY <1>2, <2>1, <2>2
<1> SUFFICES ASSUME faults' = 0, NEW f \in Live', Spent(f)'
             PROVE  \E s \in Requests : req'[s].flow = f /\ Closing(req'[s])
  BY DEF ClosingSoon, Closing
<1>4. CASE f = req[r].flow
  BY <1>3, <1>4
<1>5. CASE f # req[r].flow
  <2>1. Spent(f)
    BY <1>2, <1>5 DEF Spent, Typed
  <2>2. f \in Live
    BY <1>1 DEF Live
  <2>3. PICK s \in Requests : req[s].flow = f /\ Closing(req[s])
    BY <1>1, <2>1, <2>2 DEF ClosingSoon
  <2> QED BY <1>3, <1>5, <2>3
<1> QED BY <1>4, <1>5

\* A new flow's number is no token's.
LEMMA ClosingStarts ==
  ASSUME Typed, ClosingSoon, NEW c \in Channels, Start(c)
  PROVE  ClosingSoon'
<1> DEFINE new == [chan |-> c, row |-> "live", code |-> FALSE, granted |-> FALSE, used |-> FALSE]
<1>1. flows' = Append(flows, new) /\ UNCHANGED <<cred, req, faults>>
  BY DEF Start
<1>2. new \in Flow
  BY DEF Flow
<1> HIDE DEF new
<1>3. \A f \in Live' : f \in Live \/ f = Len(flows) + 1
  BY <1>1, <1>2, AppendProperties, FlowsAre DEF Live, Typed
<1> SUFFICES ASSUME faults' = 0, NEW f \in Live', Spent(f)'
             PROVE  \E s \in Requests : req'[s].flow = f /\ Closing(req'[s])
  BY DEF ClosingSoon, Closing
<1>4. Spent(f)
  BY <1>1 DEF Spent
<1>5. f # Len(flows) + 1
  BY <1>4, FlowsAre DEF Spent, Typed, Credential
<1> QED BY <1>1, <1>3, <1>4, <1>5 DEF ClosingSoon

LEMMA ClosingStep ==
  ASSUME Typed, ClosingSoon, [Next]_vars
  PROVE  ClosingSoon'
<1>0. ASSUME Fault PROVE ClosingSoon'
  BY <1>0, FaultTyped DEF ClosingSoon, Typed
<1>1. ASSUME NEW r \in Requests, End(r), ~Closing(req[r]), Live' \subseteq Live,
             UNCHANGED <<cred, faults>>
      PROVE  ClosingSoon'
  BY <1>1, ClosingMoves DEF End
<1>2. ASSUME UNCHANGED <<cred, req, faults>>, Live' \subseteq Live PROVE ClosingSoon'
  BY <1>2 DEF ClosingSoon, Spent, Closing
<1>3. flows' = flows => Live' \subseteq Live
  BY DEF Live
<1>4. ASSUME NEW r \in Requests, NEW q, Become(r, q), ~Closing(req[r]), Live' \subseteq Live,
             UNCHANGED <<cred, faults>>
      PROVE  ClosingSoon'
  BY <1>4, ClosingMoves
<1>5. ASSUME NEW r \in Requests, Check(r) PROVE ClosingSoon'
  <2>1. /\ ~Closing(req[r]) /\ UNCHANGED <<cred, faults>>
        /\ flows' = flows \/ flows' = Gone(req[r].flow)
        /\ \E q : Become(r, q)
    BY <1>5 DEF Check, Closing, Goto, End
  <2> QED BY <1>3, <1>4, <2>1, LiveLosesGone
<1>6. ASSUME NEW r \in Requests, Resolve(r) PROVE ClosingSoon'
  <2>1. /\ ~Closing(req[r]) /\ UNCHANGED <<cred, faults>>
        /\ flows' = flows \/ flows' = [flows EXCEPT ![req[r].flow].used = TRUE]
        /\ \E q : Become(r, q)
    BY <1>6 DEF Resolve, Closing, End
  <2> QED BY <1>3, <1>4, <2>1, LiveStaysUsed
<1>7. ASSUME NEW r \in Requests, First(r) PROVE ClosingSoon'
  <2>1. ~Closing(req[r]) /\ UNCHANGED <<flows, cred>> /\ \E q : Become(r, q)
    BY <1>7 DEF First, Closing
  <2>2. faults' = faults \/ Fault
    BY <1>7 DEF First
  <2> QED BY <1>0, <1>3, <1>4, <2>1, <2>2
<1>8. ASSUME NEW r \in Requests, Lookup(r) PROVE ClosingSoon'
  <2>1. ~Closing(req[r]) /\ UNCHANGED <<flows, cred, faults>> /\ \E q : Become(r, q)
    BY <1>8 DEF Lookup, Closing
  <2> QED BY <1>3, <1>4, <2>1
<1>9. ASSUME NEW r \in Requests, Write(r) PROVE ClosingSoon'
  <2>1. ~Closing(req[r]) /\ UNCHANGED <<flows, faults>>
    BY <1>9 DEF Write, Closing
  <2> QED BY <1>1, <1>3, <1>9, <2>1, ClosingWrites
<1>10. ASSUME NEW r \in Requests, Finish(r) PROVE ClosingSoon'
  <2>1. flows' = Gone(req[r].flow) /\ Become(r, Quiet) /\ UNCHANGED <<cred, faults>>
    BY <1>10 DEF Finish, End
  <2>2. Live' \subseteq Live \ {req[r].flow}
    BY <2>1, LiveLosesGone
  <2> QED BY <2>1, <2>2, ClosingMoves
<1>11. ASSUME NEW r \in Requests, Load(r) PROVE ClosingSoon'
  <2> DEFINE b == ~enabled[req[r].chan]
             q == [req[r] EXCEPT !.pc = "save", !.off = b]
  <2>1. Become(r, q) /\ UNCHANGED <<flows, cred, faults>> /\ req[r].pc = "load"
    BY <1>11 DEF Load
  <2>2. req[r] \in Request
    BY DEF Typed
  <2> HIDE DEF b
  <2>3. Closing(q) /\ q.flow = req[r].flow
    BY <2>2 DEF Closing, Request
  <2> HIDE DEF q
  <2> QED BY <1>3, <2>1, <2>3, ClosingMoves
<1>12. ASSUME NEW r \in Requests, Save(r) PROVE ClosingSoon'
  <2> DEFINE q == IF req[r].flow = 0 THEN Quiet ELSE Finishing(req[r])
  <2>1. Become(r, q) /\ UNCHANGED <<flows, cred, faults>>
    BY <1>12 DEF Save
  <2>2. q.flow = req[r].flow /\ (q.flow # 0 => Closing(q))
    BY DEF Quiet, Finishing, Closing
  <2>3. 0 \notin Live'
    BY <2>1, FlowsAre DEF Live
  <2> HIDE DEF q
  <2> QED BY <1>3, <2>1, <2>2, <2>3, ClosingMoves
<1>13. ASSUME NEW r \in Requests, NEW c \in Channels, Poll(r, c) PROVE ClosingSoon'
  <2>1. ~Closing(req[r]) /\ UNCHANGED <<flows, cred, faults>> /\ \E q : Become(r, q)
    BY <1>13 DEF Poll, Closing
  <2> QED BY <1>3, <1>4, <2>1
<1>14. ASSUME NEW r \in Requests, NEW c \in Channels, NEW f \in DOMAIN flows, Complete(r, c, f)
       PROVE  ClosingSoon'
  <2>1. /\ ~Closing(req[r]) /\ UNCHANGED <<cred, faults>> /\ \E q : Become(r, q)
        /\ flows' = [flows EXCEPT ![f] = [flows[f] EXCEPT !.code = TRUE]]
    BY <1>14 DEF Complete, Closing
  <2>2. Live' \subseteq Live
    BY <2>1, FlowFields, LiveShrinks DEF Flow
  <2> QED BY <1>4, <2>1, <2>2
<1>15. ASSUME NEW r \in Requests, NEW c \in Channels, NEW want \in {"on", "off", "keep"},
              Edit(r, c, want)
       PROVE  ClosingSoon'
  <2>1. ~Closing(req[r]) /\ UNCHANGED <<flows, cred, faults>> /\ \E q : Become(r, q)
    BY <1>15 DEF Edit, Closing
  <2> QED BY <1>3, <1>4, <2>1
<1>16. ASSUME NEW f \in DOMAIN flows, Approve(f) \/ Callback(f) \/ Expire(f)
       PROVE  ClosingSoon'
  <2>1. flows[f] \in Flow /\ UNCHANGED <<cred, req, faults>>
    BY <1>16, FlowFields DEF Approve, Callback, Expire
  <2>2. \E v \in Flow : flows' = [flows EXCEPT ![f] = v] /\ v.row \in {flows[f].row, "expired"}
    <3>1. CASE Approve(f)
      <4>1. flows' = [flows EXCEPT ![f] = [flows[f] EXCEPT !.granted = TRUE]]
        BY <3>1 DEF Approve
      <4> QED BY <2>1, <4>1, FlowFields DEF Flow
    <3>2. CASE Callback(f)
      <4>1. flows' = [flows EXCEPT ![f] = [flows[f] EXCEPT !.code = TRUE]]
        BY <3>2 DEF Callback
      <4> QED BY <2>1, <4>1, FlowFields DEF Flow
    <3>3. CASE Expire(f)
      <4>1. flows' = [flows EXCEPT ![f] = [flows[f] EXCEPT !.row = "expired"]]
        BY <3>3 DEF Expire
      <4> QED BY <2>1, <4>1, FlowFields DEF Flow
    <3> QED BY <1>16, <3>1, <3>2, <3>3
  <2>3. Live' \subseteq Live
    BY <2>2, LiveShrinks
  <2> QED BY <1>2, <2>1, <2>3
<1>17. ASSUME Crash \/ (\E r \in Requests : ResolveFails(r)) \/ (\E c \in Channels : Revoke(c))
       PROVE  ClosingSoon'
  BY <1>0, <1>17 DEF Crash, ResolveFails, Revoke
<1>18. CASE UNCHANGED vars
  BY <1>2, <1>3, <1>18 DEF vars
<1> QED BY <1>5, <1>6, <1>7, <1>8, <1>9, <1>10, <1>11, <1>12, <1>13, <1>14, <1>15, <1>16,
           <1>17, <1>18, ClosingStarts
        DEF Next, Handle

LEMMA InitClosing == Init => ClosingSoon
  BY EmptySeq DEF Init, ClosingSoon, Live

\* A flow whose token was stored has no row a later poll could find, or a request is
\* there to delete it, for every mixture of polls, callbacks and edits (oauth.go:32).
THEOREM StoredIsOver == Spec => []FlowIsOver
<1>1. Init => Typed /\ ClosingSoon
  BY InitTyped, InitClosing
<1>2. (Typed /\ ClosingSoon) /\ [Next]_vars => (Typed /\ ClosingSoon)'
  BY NextTyped, ClosingStep
<1>3. Typed /\ ClosingSoon => FlowIsOver
  BY DEF ClosingSoon, FlowIsOver
<1> QED BY <1>1, <1>2, <1>3, PTL DEF Spec
=============================================================================
