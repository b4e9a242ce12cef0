----------------------------- MODULE OAuthFlow -----------------------------
(***************************************************************************)
(* Authorising OAuth channels (internal/server/handlers/oauth.go) and      *)
(* switching them on and off (provider.go): one user's channels of one     *)
(* provider key.  A flow begins with a state row; the user approves it at  *)
(* the provider; its code or device code is exchanged for a token by a     *)
(* poll or by a pasted callback, and the token becomes the channel's       *)
(* credential.                                                             *)
(*                                                                         *)
(* Flows are numbered in the order they begin; a token has the number of   *)
(* its flow, and the provider gives one token for a flow.                  *)
(***************************************************************************)
EXTENDS Integers, Sequences, FiniteSets, FiniteSetsExt

CONSTANTS
  Channels,
  Requests,   \* calls of the user's front end that may run at once
  MaxFlows,   \* bound on the flows begun
  MaxFaults   \* bound on failing reads and calls, crashes and revocations

ASSUME FlowAssumption == MaxFlows \in Nat /\ MaxFaults \in Nat

VARIABLES
  kind,       \* of the provider: "device", or "pkce" with a code the browser brings
  flows,      \* row: its oauth_states row is live, expired or gone; code: in its temp;
              \* granted: the user has approved; used: exchanged; chan: begun for
  enabled,    \* the channels' switches
  cred,       \* their credentials: none, active or revoked, and the token
  req,        \* what each request is doing
  stopped,    \* channels the user has stopped after they were authorised
  faults

vars == <<kind, flows, enabled, cred, req, stopped, faults>>

NoCredential == [status |-> "none", tok |-> 0]

\* off: the switch as loaded with the channel; first: no credential was there;
\* found: UpsertCredential has found one; want: what an edit does to the switch.
Quiet ==
  [pc |-> "idle", chan |-> CHOOSE c \in Channels : TRUE, flow |-> 0, code |-> FALSE,
   off |-> FALSE, first |-> FALSE, found |-> FALSE, want |-> "keep"]

\* Create: an OAuth channel starts disabled.
Init ==
  /\ kind \in {"device", "pkce"}
  /\ flows = <<>>
  /\ cred = [c \in Channels |-> NoCredential]
  /\ enabled = [c \in Channels |-> FALSE]
  /\ req = [r \in Requests |-> Quiet]
  /\ stopped = {} /\ faults = 0

Live == {f \in DOMAIN flows : flows[f].row = "live"}

Become(r, new) == req' = [req EXCEPT ![r] = new]
Goto(r, place) == Become(r, [req[r] EXCEPT !.pc = place])
End(r) == Become(r, Quiet)

Fault == faults < MaxFaults /\ faults' = faults + 1

------------------------------------------------------------------------------
(* The user and the provider *)

Start(c) ==
  /\ Len(flows) < MaxFlows
  /\ flows' = Append(flows, [chan |-> c, row |-> "live", code |-> FALSE,
                             granted |-> FALSE, used |-> FALSE])
  /\ UNCHANGED <<kind, enabled, cred, req, stopped, faults>>

Approve(f) ==
  /\ ~flows[f].granted
  /\ flows' = [flows EXCEPT ![f].granted = TRUE]
  /\ UNCHANGED <<kind, enabled, cred, req, stopped, faults>>

\* The browser brings the code; it waits in the row for the next poll.
Callback(f) ==
  /\ kind = "pkce" /\ flows[f].granted /\ f \in Live
  /\ flows' = [flows EXCEPT ![f].code = TRUE]
  /\ UNCHANGED <<kind, enabled, cred, req, stopped, faults>>

\* A row out of time is not found any more, then deleted.
Expire(f) ==
  /\ f \in Live
  /\ flows' = [flows EXCEPT ![f].row = "expired"]
  /\ UNCHANGED <<kind, enabled, cred, req, stopped, faults>>

\* The refresh has found the token to be dead (module OAuthRefresh).
Revoke(c) ==
  /\ cred[c].status = "active" /\ Fault
  /\ cred' = [cred EXCEPT ![c].status = "revoked"]
  /\ UNCHANGED <<kind, flows, enabled, req, stopped>>

------------------------------------------------------------------------------
(* Poll and Complete *)

\* Mutant: the oldest flow is polled.
LatestFirst(S) == Min(S)

Latest(S) == Max(S)

\* The channel is loaded, then the user's latest live state of its provider key.
Poll(r, c) ==
  /\ req[r].pc = "idle" /\ Live # {}
  /\ LET f == Latest(Live) IN
     Become(r, [Quiet EXCEPT !.pc = "check", !.chan = c, !.flow = f,
                             !.code = flows[f].code, !.off = ~enabled[c]])
  /\ UNCHANGED <<kind, flows, enabled, cred, stopped, faults>>

\* Mutant: the row stays for the next poll.
GoneLater(f) == flows

Gone(f) == [flows EXCEPT ![f].row = IF @ = "live" THEN "gone" ELSE @]

\* An active credential is taken for the work of an earlier poll.
Check(r) ==
  /\ req[r].pc = "check"
  /\ IF cred[req[r].chan].status = "active"
       THEN flows' = Gone(req[r].flow) /\ End(r)
       ELSE Goto(r, "resolve") /\ UNCHANGED flows
  /\ UNCHANGED <<kind, enabled, cred, stopped, faults>>

\* The user pastes the address the browser ended at, code and state in it.
Complete(r, c, f) ==
  /\ req[r].pc = "idle" /\ kind = "pkce" /\ flows[f].granted /\ f \in Live
  /\ flows' = [flows EXCEPT ![f].code = TRUE]
  /\ Become(r, [Quiet EXCEPT !.pc = "resolve", !.chan = c, !.flow = f, !.code = TRUE,
                             !.off = ~enabled[c]])
  /\ UNCHANGED <<kind, enabled, cred, stopped, faults>>

Accepted(r) ==
  LET f == req[r].flow IN
  flows[f].granted /\ ~flows[f].used /\ (kind = "pkce" => req[r].code)

\* The adapter's Resolve: pending and refused leave the row for another poll.
Resolve(r) ==
  /\ req[r].pc = "resolve"
  /\ IF Accepted(r)
       THEN /\ flows' = [flows EXCEPT ![req[r].flow].used = TRUE]
            /\ Become(r, [req[r] EXCEPT !.pc = "first", !.code = FALSE])
       ELSE End(r) /\ UNCHANGED flows
  /\ UNCHANGED <<kind, enabled, cred, stopped, faults>>

\* The answer of the provider is lost on its way.
ResolveFails(r) ==
  /\ req[r].pc = "resolve" /\ Fault
  /\ flows' = IF Accepted(r) THEN [flows EXCEPT ![req[r].flow].used = TRUE] ELSE flows
  /\ End(r)
  /\ UNCHANGED <<kind, enabled, cred, stopped>>

------------------------------------------------------------------------------
(* saveTokenSet *)

\* Mutant: any failure to read the credential counts as none.
FirstAuthAny(found, failed) == failed \/ ~found

FirstAuth(found, failed) == ~failed /\ ~found

Exists(c) == cred[c].status # "none"

First(r) ==
  /\ req[r].pc = "first"
  /\ \/ Become(r, [req[r] EXCEPT !.pc = "lookup",
                                 !.first = FirstAuth(Exists(req[r].chan), FALSE)])
        /\ UNCHANGED faults
     \/ Become(r, [req[r] EXCEPT !.pc = "lookup",
                                 !.first = FirstAuth(Exists(req[r].chan), TRUE)])
        /\ Fault
  /\ UNCHANGED <<kind, flows, enabled, cred, stopped>>

\* UpsertCredential looks for the row and then creates or saves it.
Lookup(r) ==
  /\ req[r].pc = "lookup"
  /\ Become(r, [req[r] EXCEPT !.pc = "write", !.found = Exists(req[r].chan)])
  /\ UNCHANGED <<kind, flows, enabled, cred, stopped, faults>>

Enables(q) == q.first /\ q.off

Finishing(q) == [Quiet EXCEPT !.pc = "finish", !.chan = q.chan, !.flow = q.flow]

\* A second row for the channel is refused by the unique index.
Write(r) ==
  LET q == req[r] IN
  /\ q.pc = "write"
  /\ IF ~q.found /\ Exists(q.chan)
       THEN End(r) /\ UNCHANGED cred
       ELSE /\ cred' = [cred EXCEPT ![q.chan] = [status |-> "active", tok |-> q.flow]]
            /\ Become(r, IF Enables(q)
                            THEN [q EXCEPT !.pc = "load", !.want = "on", !.found = FALSE]
                            ELSE Finishing(q))
  /\ UNCHANGED <<kind, flows, enabled, stopped, faults>>

Finish(r) ==
  /\ req[r].pc = "finish"
  /\ flows' = Gone(req[r].flow) /\ End(r)
  /\ UNCHANGED <<kind, enabled, cred, stopped, faults>>

------------------------------------------------------------------------------
(* The channel's row: UpdateProvider loads it, changes it and saves it whole *)

\* Mutant: any channel may be switched on.
MayEnableAny(c) == TRUE

MayEnable(c) == cred[c].status = "active"

\* An edit of the user's; switching an OAuth channel on is refused without a token.
Edit(r, c, want) ==
  /\ req[r].pc = "idle"
  /\ want = "on" => MayEnable(c)
  /\ Become(r, [Quiet EXCEPT !.pc = "load", !.chan = c, !.want = want])
  /\ UNCHANGED <<kind, flows, enabled, cred, stopped, faults>>

Load(r) ==
  /\ req[r].pc = "load"
  /\ Become(r, [req[r] EXCEPT !.pc = "save", !.off = ~enabled[req[r].chan]])
  /\ UNCHANGED <<kind, flows, enabled, cred, stopped, faults>>

\* Somebody else is about to write the row.
Contended(r) ==
  \E s \in Requests \ {r} :
    req[s].chan = req[r].chan /\ (req[s].first \/ req[s].pc \in {"load", "save"})

Save(r) ==
  LET q == req[r] IN
  /\ q.pc = "save"
  /\ enabled' = [enabled EXCEPT ![q.chan] =
                   CASE q.want = "on" -> TRUE [] q.want = "off" -> FALSE
                     [] q.want = "keep" -> ~q.off]
  /\ stopped' = IF q.want = "off" /\ Exists(q.chan) /\ ~Contended(r)
                  THEN stopped \cup {q.chan}
                  ELSE IF q.want = "on" /\ q.flow = 0 THEN stopped \ {q.chan} ELSE stopped
  /\ Become(r, IF q.flow = 0 THEN Quiet ELSE Finishing(q))
  /\ UNCHANGED <<kind, flows, cred, faults>>

------------------------------------------------------------------------------

\* The gateway restarts: its requests are gone, the rows stay.
Crash ==
  /\ Fault
  /\ req' = [r \in Requests |-> Quiet]
  /\ UNCHANGED <<kind, flows, enabled, cred, stopped>>

Handle(r) ==
  \/ Check(r) \/ Resolve(r) \/ First(r) \/ Lookup(r) \/ Write(r) \/ Finish(r)
  \/ Load(r) \/ Save(r)

Next ==
  \/ \E c \in Channels : Start(c) \/ Revoke(c)
  \/ \E f \in DOMAIN flows : Approve(f) \/ Callback(f) \/ Expire(f)
  \/ \E r \in Requests :
       \/ Handle(r) \/ ResolveFails(r)
       \/ \E c \in Channels :
            \/ Poll(r, c)
            \/ \E f \in DOMAIN flows : Complete(r, c, f)
            \/ \E want \in {"on", "off", "keep"} : Edit(r, c, want)
  \/ Crash

Spec == Init /\ [][Next]_vars

\* Requests are handled to their end, and the front end of a device's flow polls by
\* a timer (Providers.tsx:333); with "pkce" it polls when the user presses a button.
FairSpec ==
  /\ Spec
  /\ \A r \in Requests : WF_vars(Handle(r))
  /\ \A r \in Requests, c \in Channels : SF_vars(kind = "device" /\ Poll(r, c))

------------------------------------------------------------------------------
(* Properties *)

\* A channel that takes part in the relay has been authorised: switched on only with
\* a credential, and after it (provider.go:436, oauth.go:304).
EnabledIsAuthorised == \A c \in Channels : enabled[c] => Exists(c)

\* A channel its user has stopped is not switched on by a new authorisation, whatever
\* else fails or is repeated (oauth.go:305).
StopKept == \A c \in stopped : ~enabled[c]

\* A flow whose token was stored is over: its row is gone, or about to go, so that no
\* poll of a later day finds it (oauth.go:32).
Spent(f) == \E c \in Channels : cred[c].tok = f /\ cred[c].status = "active"

FlowIsOver ==
  faults = 0 =>
    \A f \in Live : Spent(f) => \E r \in Requests : req[r].flow = f

\* The device flow the user has begun last and approved is done by the polls, whatever
\* other flows, edits and requests do (oauth.go:147-182), if nothing fails and it lasts.
Current(f) == f \in Live /\ \A g \in Live : g <= f

Authorised ==
  \A f \in 1..MaxFlows :
    (kind = "device" /\ Current(f) /\ flows[f].granted)
      ~> (~Current(f) \/ faults > 0)
==============================================================================
