-------------------------------- MODULE Relay --------------------------------
(***************************************************************************)
(* The forwarding loop relayCore (internal/relay/handler.go): concurrent   *)
(* requests, each trying its candidate channels in order, sharing the      *)
(* per-channel breakers.                                                   *)
(*                                                                         *)
(* A request walks  idle -> trying -> preparing -> calling (-> streaming)  *)
(* and back to trying for the next candidate, until it is answered or its  *)
(* client is gone; then its deferred calls run (over).  The gates in front *)
(* of the loop (maintenance, body, key limits, limiter, quota) only matter *)
(* here as an early answer; the limiter's counter is module RateLimiter    *)
(* and the quota's is module QuotaLedger.                                  *)
(***************************************************************************)
EXTENDS Breaker

CONSTANTS
  Channels,   \* the providers of the user
  Priority,   \* [Channels -> Int], higher first
  Checked,    \* channels with breaker_check on
  Faults,     \* [Channels -> SUBSET PrepareFaults], what may fail before the call
  Upstream    \* [Channels -> SUBSET UpstreamErrors], how a call may fail

Requests == Holders

\* "settings": credential missing or unusable, request not convertible, proxy
\* required but not configured.  "refresh": the channel's access token is refreshed
\* during the request, with the context of the request.
PrepareFaults == {"settings", "refresh"}

\* One name per way a call can come back: the status it reports, and whether the
\* error is an UpstreamError (an answer with a status of 400 and more) or not.
UpstreamErrors ==
  {"refused",     \* no answer: connection, timeout, non-stream body cut
   "rejected",    \* UpstreamError, 4xx but 429
   "overloaded",  \* UpstreamError, 429 or 5xx
   "peeked",      \* 200 whose first events carry an error, reported as 502/503
   "inband",      \* non-stream 2xx that carries an error or is cut
   "cancelText",  \* the same, its text contains "context canceled"
   "cut",         \* stream cut after the response head was forwarded
   "redirect"}    \* not an error: the head may be a 3xx instead of a 2xx

ASSUME RelayAssumption ==
  /\ IsFiniteSet(Channels)
  /\ Checked \subseteq Channels
  /\ Faults \in [Channels -> SUBSET PrepareFaults]
  /\ Upstream \in [Channels -> SUBSET UpstreamErrors]

VARIABLES
  breaker,  \* [Channels -> Channel], Breaker.chans
  req       \* [Requests -> Request]

vars == <<breaker, req>>

Statuses == {"2xx", "3xx", "4xx", "5xx"}

Request ==
  [pc     : {"idle", "trying", "preparing", "calling", "streaming", "over"},
   queue  : Seq(Channels),          \* candidates still to try, the current one first
   stream : BOOLEAN,                \* the client asked for a stream
   probes : Seq(Channels),          \* deferred ReleaseOne calls
   failed : SUBSET Channels,        \* failedChannels
   last   : Statuses \cup {"none"}, \* lastStatus
   sent   : Seq(Statuses),          \* response heads written to the client
   gone   : BOOLEAN]                \* the client's connection is closed

Idle == [pc |-> "idle", queue |-> <<>>, stream |-> FALSE, probes |-> <<>>,
         failed |-> {}, last |-> "none", sent |-> <<>>, gone |-> FALSE]

Init ==
  /\ breaker = [c \in Channels |-> NewState]
  /\ req = [r \in Requests |-> Idle]

Current(r) == Head(req[r].queue)

------------------------------------------------------------------------------
(* Arrival *)

\* buildCandidates: the channels of S by descending priority, ties in any order.
Orders(S) ==
  {q \in [1..Cardinality(S) -> S] :
     \A i, j \in DOMAIN q :
       i < j => q[i] # q[j] /\ Priority[q[i]] >= Priority[q[j]]}

\* Every gate answers by itself: 400, 402, 403, 429 or 503.
Refuse(r, status) ==
  /\ req[r].pc = "idle"
  /\ req' = [req EXCEPT ![r].pc = "over", ![r].sent = <<status>>]
  /\ UNCHANGED breaker

\* S: the enabled channels that serve the model and are bound to the key.
Route(r, S, isStream) ==
  /\ req[r].pc = "idle"
  /\ \E q \in Orders(S) :
       req' = [req EXCEPT ![r].pc = "trying", ![r].queue = q, ![r].stream = isStream]
  /\ UNCHANGED breaker

Arrive(r) ==
  \/ \E status \in {"4xx", "5xx"} : Refuse(r, status)
  \/ \E S \in SUBSET Channels \ {{}}, isStream \in BOOLEAN : Route(r, S, isStream)

------------------------------------------------------------------------------
(* One candidate *)

\* Mutant: the deferred returns of a candidate are lost when the loop continues.
NextCandidateForgets(q) ==
  [q EXCEPT !.pc = "trying", !.queue = Tail(q.queue), !.probes = <<>>]

\* Mutant: the failed candidate is retried.
NextCandidateAgain(q) == [q EXCEPT !.pc = "trying"]

NextCandidate(q) == [q EXCEPT !.pc = "trying", !.queue = Tail(q.queue)]

Blame(r, c) == c \in Checked /\ c \notin req[r].failed

\* Mutant: the client's mistakes count as the channel's failures.
EveryError(error) == error \in UpstreamErrors

\* channelFailure: a 4xx is not the channel's fault, everything else is.
ChannelFailure(error) == error # "rejected"

\* breakerFail and the loop's "continue": q is the request once it has moved on.
FailOver(r, q) ==
  LET c == Current(r) IN
  IF Blame(r, c)
    THEN /\ breaker' = [breaker EXCEPT ![c] = OnFailure(@)]
         /\ req' = [req EXCEPT ![r] = IF q.pc = "over" THEN q
                                      ELSE [q EXCEPT !.failed = @ \cup {c}]]
    ELSE /\ req' = [req EXCEPT ![r] = q]
         /\ UNCHANGED breaker

\* The breaker lets the request on the channel, perhaps as its probe; a channel
\* whose breaker_check is off is not even asked.
Enter(r) ==
  /\ req[r].pc = "trying" /\ req[r].queue # <<>>
  /\ LET c == Current(r) IN
     /\ c \in Checked => Allows(breaker[c])
     /\ breaker' = IF c \in Checked THEN [breaker EXCEPT ![c] = Allow(@, r)] ELSE breaker
     /\ req' = [req EXCEPT ![r].pc = "preparing",
                           ![r].probes = IF c \in Checked /\ IssuesProbe(breaker[c])
                                           THEN Append(@, c) ELSE @]

CircuitOpen(r) ==
  /\ req[r].pc = "trying" /\ req[r].queue # <<>>
  /\ LET c == Current(r) IN
     /\ c \in Checked /\ ~Allows(breaker[c])
     /\ breaker' = [breaker EXCEPT ![c] = Allow(@, r)]
  /\ req' = [req EXCEPT ![r] = NextCandidate(@)]

Prepared(r) ==
  /\ req[r].pc = "preparing"
  /\ req' = [req EXCEPT ![r].pc = "calling"]
  /\ UNCHANGED breaker

\* A refresh fails by itself, or because the client left and its context is gone.
PrepareFails(r) ==
  /\ req[r].pc = "preparing"
  /\ \/ "settings" \in Faults[Current(r)]
     \/ "refresh" \in Faults[Current(r)] /\ req[r].gone
  /\ FailOver(r, NextCandidate(req[r]))

------------------------------------------------------------------------------
(* The upstream call *)

Heads(c) == IF "redirect" \in Upstream[c] THEN {"2xx", "3xx"} ELSE {"2xx"}

\* The handler returns: its locals are gone, the deferred calls remain.
Over(q) ==
  [Idle EXCEPT !.pc = "over", !.probes = q.probes, !.sent = q.sent, !.gone = q.gone]

\* The whole response is written at the end.
Answer(q, head) == [Over(q) EXCEPT !.sent = Append(q.sent, head)]

Success(r) ==
  breaker' = IF Current(r) \in Checked
               THEN [breaker EXCEPT ![Current(r)] = OnSuccess(@)] ELSE breaker

\* The body is read, converted and written at once; whether the client is still
\* there to read it is not looked at.
Complete(r) ==
  /\ req[r].pc = "calling" /\ ~req[r].stream
  /\ \E head \in Heads(Current(r)) :
       req' = [req EXCEPT ![r] = Answer(@, head)]
  /\ Success(r)

OpenStream(r) ==
  /\ req[r].pc = "calling" /\ req[r].stream
  /\ \E head \in Heads(Current(r)) :
       req' = [req EXCEPT ![r].pc = "streaming", ![r].sent = Append(@, head)]
  /\ UNCHANGED breaker

EndStream(r) ==
  /\ req[r].pc = "streaming"
  /\ req' = [req EXCEPT ![r] = Over(@)]
  /\ Success(r)

\* The status a failed call reports; a transport error reports none.
ErrorStatus(error) ==
  CASE error = "refused"    -> "none"
    [] error = "rejected"   -> "4xx"
    [] error = "overloaded" -> "5xx"
    [] error = "peeked"     -> "5xx"
    [] error = "inband"     -> "2xx"
    [] error = "cancelText" -> "2xx"

\* clientGone: the request's context is cancelled, or the error's text says so.
LooksGone(r, error) == req[r].gone \/ error = "cancelText"

\* The outcome of a failed call, nothing written to the client yet.
CallFails(r, error) ==
  /\ req[r].pc = "calling"
  /\ error \in Upstream[Current(r)] \ {"cut", "redirect"}
  /\ error \in {"inband", "cancelText"} => ~req[r].stream
  /\ ~LooksGone(r, error)
  /\ LET q == [NextCandidate(req[r]) EXCEPT !.last = ErrorStatus(error)] IN
     IF ChannelFailure(error)
       THEN FailOver(r, q)
       ELSE req' = [req EXCEPT ![r] = q] /\ UNCHANGED breaker

\* Mutant: a stream is retried on the next channel although it has started.
FinalNever(head) == head = "none"

\* Only a stream that has begun with a 2xx is final.
Final(head) == head = "2xx"

CutStream(r) ==
  /\ req[r].pc = "streaming"
  /\ "cut" \in Upstream[Current(r)]
  /\ ~req[r].gone
  /\ LET head == Head(req[r].sent)
         q == [req[r] EXCEPT !.last = head] IN
     FailOver(r, IF Final(head) THEN Over(q) ELSE NextCandidate(q))

\* The client is gone, or looks gone: the request just ends.  A client that is
\* gone makes the call fail whatever the upstream does.
GiveUp(r) ==
  /\ \/ req[r].pc \in {"calling", "streaming"} /\ req[r].gone
     \/ /\ req[r].pc = "calling" /\ ~req[r].stream
        /\ \E error \in Upstream[Current(r)] \ {"cut", "redirect"} : LooksGone(r, error)
  /\ req' = [req EXCEPT ![r] = Over(@)]
  /\ UNCHANGED breaker

\* All channels failed: the last status, 503 if no call reported any.
Exhausted(r) ==
  /\ req[r].pc = "trying" /\ req[r].queue = <<>>
  /\ req' = [req EXCEPT ![r] = Answer(@, IF @.last = "none" THEN "5xx" ELSE @.last)]
  /\ UNCHANGED breaker

------------------------------------------------------------------------------
(* The end, and the world *)

\* The deferred ReleaseOne calls, last candidate first.
Return(r) ==
  /\ req[r].pc = "over" /\ req[r].probes # <<>>
  /\ LET n == Len(req[r].probes) IN
     /\ breaker' = [breaker EXCEPT ![req[r].probes[n]] = ReleaseOne(@, r)]
     /\ req' = [req EXCEPT ![r].probes = SubSeq(@, 1, n - 1)]

Finish(r) ==
  /\ req[r].pc = "over" /\ req[r].probes = <<>>
  /\ req' = [req EXCEPT ![r] = Idle]
  /\ UNCHANGED breaker

Disconnect(r) ==
  /\ req[r].pc \notin {"idle", "over"} /\ ~req[r].gone
  /\ req' = [req EXCEPT ![r].gone = TRUE]
  /\ UNCHANGED breaker

Tick ==
  /\ breaker' = [c \in Channels |-> Aged(breaker[c])]
  /\ UNCHANGED req

Step(r) ==
  \/ Enter(r) \/ CircuitOpen(r) \/ Prepared(r) \/ PrepareFails(r)
  \/ Complete(r) \/ OpenStream(r) \/ EndStream(r) \/ CutStream(r)
  \/ (\E error \in UpstreamErrors : CallFails(r, error))
  \/ GiveUp(r) \/ Exhausted(r) \/ Return(r) \/ Finish(r)

Next ==
  \/ \E r \in Requests : Arrive(r) \/ Step(r) \/ Disconnect(r)
  \/ Tick

Spec == Init /\ [][Next]_vars

\* A request's goroutine runs on, and no call outlasts the client's timeout.
FairSpec == Spec /\ \A r \in Requests : WF_vars(Step(r))

------------------------------------------------------------------------------
(* Properties *)

\* A channel never waits for a probe nobody will return: an outstanding token
\* belongs to a request in flight that has its return among its deferred calls,
\* whatever continue or return it takes (handler.go:250-254).  A channel that did
\* not opt in has a breaker that counts nothing.
Untouched(s) == s.state = "closed" /\ s.fails = <<>> /\ s.probe = NoProbe

ProbesAccounted ==
  \A c \in Channels :
    LET h == breaker[c].probe IN
    /\ h # NoProbe => \E i \in DOMAIN req[h].probes : req[h].probes[i] = c
    /\ WellShaped(breaker[c])
    /\ c \notin Checked => Untouched(breaker[c])

\* A request that ends has written exactly one response, or nothing because its
\* client left: no second head after a failover, no empty 200 (handler.go:420-422).
OneResponse ==
  \A r \in Requests :
    /\ Len(req[r].sent) <= 1
    /\ req[r].pc = "over" /\ ~req[r].gone => Len(req[r].sent) = 1

\* A channel that answers every call, with success or with a 4xx, is never blamed:
\* clients that hang up or send bad requests cannot trip it (handler.go:389-391,
\* route.go:96-109).
Healthy == {c \in Channels : Upstream[c] \subseteq {"rejected"} /\ "settings" \notin Faults[c]}

HealthyStaysClosed ==
  \A c \in Healthy : breaker[c].state = "closed" /\ breaker[c].fails = <<>>

\* Failover ends: whatever the breakers and the other requests do, a request runs
\* out of candidates, answers or gives up, and returns all it holds.
Terminates == \A r \in Requests : req[r].pc # "idle" ~> req[r].pc = "idle"
==============================================================================
