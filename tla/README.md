# A verification project for keygrid

keygrid is a gateway that puts many upstream model channels (API keys and OAuth
accounts of several vendors) behind one set of API keys: it authenticates a client's
key, limits and meters it, picks the channels that serve the requested model, tries
them in order until one answers, converts between the vendors' protocols, and keeps
the channels' credentials, quota and statistics in a database and in Redis. This
directory holds TLA+ modules of its concurrent core (Go, `src/main.go` and
`src/internal`), the TLC configurations that check them, and TLAPS proofs.

Paths below are relative to `src/internal` unless they start with `src/`.

## 1. Inventory

"Interacts" says whom a component calls (->) or is called by (<-).

| component | state | operations | interacts |
|---|---|---|---|
| circuit breaker `relay/state.go` | per channel, in memory: state, instants of recent failures, instant of the trip, probe token and its instant; one mutex each | Allow, OnSuccess, OnFailure, ReleaseOne, Reset, Snapshot | <- forwarding loop, health page, admin reset |
| forwarding loop `relay/handler.go`, `route.go` | per request: candidate list, channels already blamed, last status, deferred releases, what was written to the client | gates, buildCandidates, the loop over candidates, failover, breakerFail | -> breaker, limiter, quota, OAuth refresh, upstream, writer |
| rate limiter `relay/ratelimit.go` | Redis: one counter per key and minute, one of running requests | Check, release | <- forwarding loop |
| quota ledger `relay/quota.go`, `usage.go`, `op/op.go` | Redis counter, `api_keys.quota_used`, the writer's channel and batch | OverLimit, AddCost, Record, run/flush, UpdateApiKey, reset | <- forwarding loop, key administration |
| OAuth refresh `oauth/refresh.go` | `credentials` row, Redis lock `refresh:{id}` | RefreshAllDue, RefreshWithBailout, the locked refresh, revocation | <- task runner, forwarding loop; -> provider |
| OAuth authorisation flows `oauth/flow.go`, `handlers/oauth.go` | `oauth_states`, credential row, the channel's switch | start, poll, callback, complete, revoke | -> provider; <- front end, which polls |
| stream bridges `relay/stream_bridge.go`, `codex.go`, `responses_*.go` | per answer: open block, indices, tool calls, usage | one event in, several out; collect and write at once | <- forwarding loop |
| protocol conversion `relay/anthropic.go`, `responses_api.go`, `codex.go`, `xai.go` | none | rewriting of histories, tools, tool choice | <- forwarding loop |
| pricing `relay/pricing.go`, `op/pricing.go` | cached price table with a TTL | resolve, wildcard, billing map, reload | <- forwarding loop |
| error diagnostics `relay/reqerr.go` | sampling counters of a window, queue, batch | record, take, flush, prune | <- forwarding loop |
| quota snapshots `quota/sync.go`, `quota/codex.go` | one snapshot row per credential, instant of the last attempt | probe, observe, merge, mark | <- handlers, forwarding loop |
| accounts and SSO `handlers/auth*.go`, `oidc`, `op/admin.go`, `middleware` | users, invitations, one-time states, tokens in browsers, login limiter | login, register, SSO, role and status changes, key switches | <- front end |
| channel and key administration | providers, keys, bindings | CRUD | -> quota reset, flows |
| settings, reports, catalog, infrastructure | single rows, a cached list, wiring | read, replace | |

### What makes it hard

* **Late answers.** A request holds a channel's probe token until the *whole* request
  is over, though it went on to other channels long ago; successes and failures of
  requests admitted before a trip arrive after it.
* **Separate commands on shared counters.** The limiter's INCR, comparison and DECR, the
  quota's GET, database read and SETNX, and the charge in Redis and in the database are
  steps other requests come between.
* **Clients that leave.** The request's context is cancelled at any point; some commands
  use it, some use a context of their own.
* **Failing steps.** Redis, the database, the provider or the gateway fails between two
  steps; most of the code fails open.
* **Locks with a TTL** that a holder may outlive, and tokens that a provider accepts once.
* **Time.** Sliding windows, cool-downs, leases, lazy transitions.
* **Check, then act.** Handlers read a row, decide, and write in another statement, often the whole
  row as it was read: switches, roles, keys, invitations, snapshots.
* **Order of events.** An upstream may interleave text, reasoning and calls, stop anywhere, fail inside a
  200; the client's protocol wants blocks one at a time, with one end.

### What has to hold

Breaker: cut exactly when the window fills, for at least the cool-down, one probe per
lease, never lost for good. Loop: every probe returned, one response per request, only
channels that failed are blamed, an end. Limiter: never more than the cap while nothing
fails; a failure must not lock a key out. Ledger: no cost twice, none silently lost, bounded
overspend, a reset that forgives. Refresh: no valid token lost, one refresh at a time, every due credential
tried and in the end dealt with, revocation of what is unrecoverable and of nothing else. Exchange: the client gets a legal stream that says what
the channel said, billed once, and its history says the same to every channel. Flows: only an
authorised channel is on, one that was stopped stays off, an approved flow gets done. Accounts: an invitation
for each account, an administrator remains, who is disabled stays so. Signals: credits survive
observations, probes are spaced, no diagnostic is stored twice. `PROJECT.json` lists the hazards by line and
the property that watches each.

## 2. Modules

| module | models | role |
|---|---|---|
| `Breaker` | one record per channel, one operator per method of `State` | pure operators, used by the next two |
| `CircuitSpec` | what a breaker promises | abstract specification |
| `ChannelBreaker` | one breaker under concurrent requests, operator, health page, time | refines `CircuitSpec` |
| `Relay`, `MCRelay` | relayCore over several channels | composes `Breaker` per channel with the loop; refines `CircuitSpec` for every channel |
| `Relay_proofs` | | theorems on `ChannelBreaker`, then on `Relay`, which share the lemmas on `Breaker` |
| `RateLimiter` | Check and release, command by command | |
| `QuotaLedger` | OverLimit, recordUsage, UsageWriter, key update and reset | |
| `QuotaLedger_proofs` | | theorems |
| `OAuthRefresh`, `OAuthRefresh_proofs` | scan and bail-out refresh of one credential | theorems beside the model |
| `Wire` | the events of the three protocols and how a client assembles them | data for the next three |
| `StreamBridge` | every converter of answers, as a function of its own state | pure operators |
| `Requests` | the conversion of histories, tools and tool choice | pure operators |
| `Exchange` | a conversation: client, gateway, well-formed upstreams | composes the three |
| `Exchange_proofs` | | theorems |
| `ExchangeLegal_proofs` | | the theorem on what the client is sent, on top of the former |
| `OAuthFlow`, `OAuthFlow_proofs` | authorisation of a user's channels and their switches | theorems beside the model |
| `Accounts`, `MCAccounts`, `Accounts_proofs` | registration, sign-on, roles, statuses, keys | theorems beside the model |
| `QuotaSnapshot`, `Diagnostics` | the snapshot row; the sampled failures | actions of the next |
| `ChannelSignals`, `MCChannelSignals` | both with one clock and one process | composes the two |
| `Bookkeeping_proofs` | | theorems on `RateLimiter` and on both parts of `ChannelSignals` |

### Breaker, ChannelBreaker, CircuitSpec

Every method of `State` runs under its mutex, so a method is one operator and a call one
step. The code keeps instants and reads only their distance to now; the model keeps ages,
capped just beyond the largest bound they are compared with, so the state space is finite
and nothing the code can tell apart is merged. The random token of a probe is the request
that holds it: a request asks a channel once. `since` and `same` in a request's record are
history: how long ago it was admitted (capped at the lease), and whether the breaker has
converged since.

`CircuitSpec` shares no definition with `Breaker`: it counts the failures of each age, cumulatively
(`recent[k]`: at most `k` ticks old), so that a failure is forgotten the tick it leaves the window, and knows no lazy
transition. `ChannelBreaker` maps to it (`RefinesCircuit`): the trimmed list of ages read as those counts (`Recent`),
the age of a trip as long as the channel is cut (`CutAge`), "open" and "half-open" both as cut.

What the code does and the specification had to allow: a success of a request admitted before
the trip closes an *open* breaker (state.go:151-158 does not look at the state), although the diagram
at state.go:16-18 leads from open to half-open only; a late failure trips again after the
cool-down exactly if somebody has looked at the breaker meanwhile.

### Relay

A request walks idle - trying - preparing - calling (- streaming) - over. Enter / CircuitOpen are
`Breaker.Allow`; PrepareFails is every early `continue` before the call (credential, conversion,
proxy); CallFails, CutStream, GiveUp, Complete, EndStream are the outcomes of the upstream call as
`relayCore` classifies them; Exhausted is the final error answer; Return is one deferred ReleaseOne.
What an upstream answers is one of eight outcomes that the classification tells apart
(`UpstreamErrors`); what a channel may do is a constant, so one run can hold a healthy and a failing
channel at once. The gates in front of the loop are one early answer, since all they do to the rest is
modelled by `RateLimiter` and `QuotaLedger`. The client may leave at any moment.

Two outcomes of the module are off in the passing runs, because the code does not keep `OneResponse`
under them: "cancelText", an upstream error whose text contains "context canceled", which the loop takes
for the client's departure (an empty 200 for a client that is there), and "redirect", a stream whose
head was a 3xx and is then cut, which fails over after the head was written.

Seen while modelling, kept as the code has it: the branch at handler.go:278-282 for revoked
credentials never runs (the error comes earlier and counts as the channel's failure); a failure of the
request's conversion is blamed on the channel too; `failedChannels` never meets a channel twice within
one request; the branch at handler.go:435-446 is unreachable, as every status it names comes with an
error; a non-stream 2xx whose body carries an error, if no other channel answers, ends in a
response of status 200 with an error body.

### RateLimiter

One step per Redis command. A command returns an error, with or without effect; or it takes effect, its reply is lost and
it is sent again (`Resent`): both Redis clients are made with default options (src/main.go:62, server/router/router.go:90), and go-redis
then retries. A client that leaves inside Check makes every later command of Check fail unsent (its context is
cancelled), release has a context of its own. The minute's bucket is capped above its limit, a new minute resets it.

The counter of running requests has no TTL, so a place once leaked is gone for good. `BoundedLeak` says by what: a DECR that fails, an INCR
that is executed twice, a client that leaves between INCR and DECR; each lost reply counts as one such fault. INCRs
that fail cost nothing. A crash leaks whatever ran. One leaked place is enough to lock out a key that has one, so that the
promise of ratelimit.go:13, that the limiter never shuts the gateway, holds only while none of these happens.

### QuotaLedger

A request costs 0 or 1; what matters is where each unit is. OverLimit is Get, ReadDB, SetNX with their
failures; recordUsage is Add then Record; the writer is Take and Tick, a flush being all or nothing; the
owner's update loads the row, saves the whole row, and may then reset, in the database first and in Redis
after. Redis may lose the key, the gateway may die, a command whose reply was lost is executed again
(`Resent`, `DelResent`; a second INCRBYFLOAT charges a cost twice). `spent`, `lost`, `waived` and `clean` are history.

The whole-row save of UpdateApiKey (op.go:107-117) loses the quota_used flushed since the row was
loaded; it is why `LedgerExact` excludes runs with an edit. `NeverOvercharged` compares Redis with what was spent since the last reset and allows one cost for each lost reply;
it leaves out resets that Redis did not follow: the DEL failed, the gateway died before it, or a refill had read the old row (`clean`).
The last of these needs no fault: a request misses and reads the row, the reset clears row and key, SETNX brings the old usage
back, although quota.go:116 says that the next look refills 0; without `clean` TLC finds just that. When
Redis evicts the key while records wait in the writer, what was spent before is forgotten for good: the
overspend then exceeds the requests in flight, which is all quota.go:26 speaks of, and `SpendBounded` is
about histories without an eviction or a reset. There it says: what is spent or in flight exceeds the last admissible
amount, `Limit - 1`, by one for each request and one for each GET or charge that failed; other faults cost nothing. A SETNX that
fails lets one request pass though the database has said no (quota.go:84-87, against quota.go:25), but that
one is in flight like any other.

### OAuthRefresh

A worker loads the row, takes the lock (SETNX with a TTL) or goes ahead when Redis fails, exchanges the
token it loaded, stores the new one or revokes, and deletes the lock. An authorisation may bring no refresh token (then
nobody refreshes, refresh.go:124) and may name no expiry (then it is never due). The scan goes by the column `expires_at`, a request by the
expiry in the token set: after a refresh whose answer names none, the column keeps the old, near value (refresh.go:202), so that
the scan refreshes again and again while requests see no need (`dated`).

The provider is external; its `nature` is chosen in the initial state: whether it
replaces a refresh token at each use and rejects the old one for good or never replaces it (one that mixed both could lose a token when
the lock fails), whether it names the expiry of a new token, and how it refuses: with one of the codes held permanent (registry.go:60-67), in
words of its own, or always and with a code that is not held permanent, as the qoder adapter does (qoder.go:210). A refusal that is
not permanent is no fault and may come for ever; the credential then stays due and is tried each minute.
So there are two liveness properties: `DueIsTried` for every provider, `DueIsHandled` for one with permanent codes and dated tokens. That
a credential which cannot be refreshed is revoked, as qoder.go:185-186 says of its own case, is not so.

The other faults are bounded (`MaxFaults`): a provider row that stays unreadable or a proxy that is never configured would keep a
credential due without any call. Adapters keep the old refresh token when an answer brings none.
UpsertCredential after a new authorisation ignores the lock and may be overwritten by a save in flight.

### Wire, StreamBridge, Requests, Exchange

An answer is a sequence of parts (text, reasoning, a call, a custom call), a part's data a sequence of
numbered fragments, so a lost, doubled or misplaced fragment shows. `Wire` has the events of the three
protocols and the client of each: an automaton that assembles the parts and turns `bad` at an event its
protocol does not allow. `StreamBridge` has one feed and one finish operator per converter of the code:
messages to chat (`anthropicInState`), chat to messages (`anthropicOutState`), Responses to chat (the Codex
converter and its aggregator), chat to Responses (the emitter), the passthrough and its usage. `Requests`
has the conversions of the request: history to the pivot (chat) and from there to the channel, tools by
kind and the choice among them, aliases of custom tools. `Exchange` joins them: Send picks a channel's protocol
and whether the client streams, Open / Say / Close / CloseWhole / Stop / Fail are a well-formed upstream's
events in any order, Eof and Cut end the connection, peekCodexSSEError holds events back at the head, and
what the client assembled becomes its history for the next turn, perhaps on another channel.

Abstractions: an upstream's error events are one "fail" (which texts count as transient is not told
apart); a Responses channel is a codex or an xai one, whose conversions agree on what is modelled; the
tools offered are told apart by kind only.

What the code does and the properties had to allow or leave aside:

* `anthropicOutState` writes arguments to the current block (stream_bridge.go:201-205), not to the call's
  (`toolBlocks` is written at :285 and never read, though :142 says it maps a call's index to its block).
  Two calls under way at once would be mixed up; no chat upstream known to the code does that for a messages
  client, and `Overlap` leaves this entry out: `LegalStream` says nothing of it.
* A custom call that is done without any delta opens its input wrapper twice (codex.go:1593, :1641): the upstreams of `Exchange`
  send at least one (`CloseWhole`), and `Delivered` says nothing of the other case.
* A message of a messages client with one image alone becomes a bare object where chat requests have a list (anthropic.go:216-222),
  which a chat channel refuses (responses_api.go:238-240) and the next conversion drops. The user's turns of `Exchange`
  include such an image, and `Recalled` leaves a messages client's conversation with one out; from chat and Responses clients it arrives. A tool's `description` lands on the outer map (:318-320); the choice of a hosted tool is forwarded as text.
* Text between two calls of one turn of a Responses client splits the calls into two messages, which
  chat channels refuse if the results come after both (responses_api.go:53-54): `CallsLast` excludes it.
* Usage that comes after the finish is billed but shown as 0 to a messages client; Responses channels show 0 to
  it, messages channels to a Responses client.
* A stream cut on the way is closed for the client like a complete one (codex.go:1465-1469), an end without a
  terminal event counts as success, a Responses answer that is not streamed and fails after content is passed on
  as complete; `response.incomplete` is not handled; calls still pending at the end come in map order.

### OAuthFlow

One user's channels of one provider key. A flow is a row of `oauth_states` (live, expired, gone), with the
code in its temp once the browser brought it; Start makes one, Approve and Callback are the user at
the provider, Poll / Check / Resolve / First / Lookup / Write / Finish are the steps of a poll or of a completion up to
the stored credential and the channel's switch, Edit / Load / Save an edit of the channel, Revoke the revocation.
`stopped` remembers channels the user switched off after they were authorised.

Kept as the code has it: Poll ends a re-authorisation at once when an old credential is active and deletes
the state the user's approval refers to (oauth.go:147), hence `Authorised` lets a flow end without its
token; the state is found by user and provider key, so a channel's poll may do another channel's flow;
overlapping polls send the same code twice; a save that fails after the exchange has spent the code; the
whole-row Save of overlapping edits or first authorisations can undo a stop, which the ghost's `Contended`
excludes, so that no property covers it; a channel deleted leaves its credential behind (deletion is not modelled).

### Accounts

A handler is a sequence of statements on the tables, a step is one of them (a transaction for disabling). Two
requests run at once; sessions are role claims in tokens that live on. `torn` marks rows written on the ground of
an outdated copy, `shut` accounts that were disabled and neither unlocked nor at their keys since.

Kept as the code has it: SessionAuth asks neither status nor role, so a disabled user's token can switch a key
on again (op/admin.go:102 says such tokens become void by themselves); roles and keys are saved as whole
rows; a failing read of the settings lets everybody register, a failing count of users makes the next one
the first, a failing CountAdmins passes, and disabled administrators count; ADMIN_EMAIL promotes by the address
the identity provider asserts, not the account's; a crash between the account and its invitation leaves the account.
Two overlapping demotions can take the last administrator, for both count two before either saves (admin_users.go:70-84): `AdminRemains` is
about every other way. Two overlapping callbacks can both consume one state, although op.go:324 says it is used once: only
the provider's single use of the code keeps the second out. The save of an outdated row undoes a disabling or a
binding: `DisabledStays` and `IdentityKept` exclude it. A combined change of role and status is two requests in sequence; a user has one key; a wrong nonce is not modelled.

### QuotaSnapshot, Diagnostics, ChannelSignals

One channel's snapshot row: RefreshProvider takes the interval under its lock and probes, the answer replaces the
row or the failure marks it, and an observation of an answer's headers reads the row, merges and writes it back in
a goroutine of its own. A merge read before a probe and written after it wins; `passed` records that. What
precedes the provider's call in a probe takes no time of its own, or `OneProbe` would need a bound on it. That the
probe's timeout is below the interval (15 s, 30 s) is what `OneProbe` rests on and is assumed of the constants. Diagnostics are numbered; windows belong to all channels and turn when
the next failure comes. Nobody calls ErrorWriter.Stop or UsageWriter.Stop, though reqerr.go:274 and usage.go:123 say they
are called when the process closes, so a restart loses what the queues hold. The router makes two Syncers: the
relay's only observes, the handlers' only refreshes, so one lock is enough.

## 3. Runs

| run | instance | shows |
|---|---|---|
| `breaker` | 3 requests, threshold 3, window 2, open 2, lease 3 | `TypeOK`, `BreakerInv`, `ProbeSpacing`, refinement of `CircuitSpec`, `NeverStuck` |
| `relay` | 2 requests, a steady and a failing channel, threshold 2 | `ProbesAccounted`, `OneResponse`, `HealthyStaysClosed`, the failing channel refines `CircuitSpec` |
| `relay_failover` | 2 requests, 2 failing channels, one unchecked, threshold 1: each request opens and closes the circuit under the other | `Terminates` |
| `relay_bailout` | the steady channel refreshes its token on the way | a client that leaves then is blamed on the channel: `HealthyStaysClosed` violated |
| `limiter` | 3 requests, 1 place, each of 6 kinds of fault once | `CapHeld`, `BoundedLeak` |
| `quota` | 2 requests, limit 2, queue 1, batch 2, 6 costs, 3 disturbances of 11 kinds | `TypeOK`, `LedgerExact`, `NeverOvercharged`, `SpendBounded` |
| `oauth` | the scan, 2 requests, 2 faults of 7 kinds, providers of all 12 natures | `MutualExclusion`, `TokenNeverLost`, `DueIsTried`, `DueIsHandled` |
| `oauth_stale` | the scan, 1 request, no fault | a credential that still works is revoked: `RevokedIsUnrecoverable` violated |
| `exchange` | 3 turns, 3 parts, 3 fragments, every pair of protocols, streamed or not | `LegalStream`, `Delivered`, `Billed`, `EndsOnce`, `CleanFailover`, `Recalled`, `CallsAnswered`, `ChoiceHasTools` |
| `authorisation` | 1 channel, 2 requests, 2 flows, device or pkce, 1 fault | `EnabledIsAuthorised`, `StopKept`, `FlowIsOver`, `Authorised` |
| `accounts` | 3 people, 2 subjects, 2 sign-ins, 1 code, 2 requests, 4 operations, 1 upset; four founding states | `Invited`, `DisabledStays`, `AdminRemains`, `IdentityKept` |
| `signals` | 2 calls, 2 channels, 2 probes, 3 diagnostics, 1 fault, 1 restart | `CreditsKept`, `OneProbe`, `Sampled`, `Conserved` |

Sizes, in distinct states: breaker 103,940, relay 508,528, relay_failover 134,038, limiter 875,390, quota 1,063,692, oauth 522,362, exchange 1,148,570,
authorisation 340,208, accounts 1,336,397, signals 2,744,916. The longest takes under three minutes with two workers.

### Bounds

* `breaker`: three requests are the fewest with a late return, a hung probe and a fresh one at once; the
  lease outlives the open period as in the code (2 min, 30 s), so a probe can be in flight
  when the channel has tripped and cooled again; threshold 3 over window 2 needs failures of different age.
* `relay`: threshold 2 in a window of one tick means no single request trips a channel; two requests
  and two channels give every pair of a holder and a rival. In `relay_failover` the threshold is 1, so that each failure of one request opens
  the circuit under the other, ends its probe or sends it on; the channel to fall back to has no breaker check and may fail as well. Of the
  upstream's errors it keeps one of each effect on the loop (`MCEffects`). Two breakers that both move under two requests are too many states
  for its liveness; `TokensReturn` (section 4) is for any number of channels and requests.
* `limiter`: three requests over one place: one runs, two are counted beyond it. Each kind of fault once lets an
  outage be combined with every other.
* `quota`: a queue of one and a batch of two make full queues, partial and full batches; six costs are
  three times the limit, beyond what `SpendBounded` allows with two failed looks or charges (2-1+2+2 = 5), so up to there the bound
  does not hide a violation. Three disturbances are an edit, its reset, and one thing that goes wrong.
* `oauth`: `MaxTokens` bounds the rotations: a provider then keeps the last token; two requests and the scan are one holder,
  one that waits and one that is stale.
* `exchange`: three parts are the fewest in which a block is left, another comes and the first goes on; three
  fragments let one of them say two. The third turn is the one whose history holds an answer with its
  results; user turns are text and an image, text, an image alone, or results only. `PeekLimit` 4 is reached by answers of that size, and missed by shorter ones.
* `authorisation`: two flows are an old and a new authorisation, two requests a poll and whatever overlaps it;
  states are found by provider key, and a second channel adds only flows of its own.
* `accounts`: the founding states put an interesting pair (a last administrator, a token whose role is outdated, a bound
  identity) two operations from its collision; four operations leave two to resolve it. `MaxUpsets` bounds what
  `Invited` and the counts exclude. Requests are alike (symmetry); emails and subjects are not.
* `signals`: two probes tell a stale merge from a fresh one; `Cap` 1, `Minute` 2, queue 1, batch 2 are the
  smallest with a full window, queue and batch. Calls and channels are alike.
* Counters named Max... bound faults, costs and tokens and stand in guards only.

The configurations of quota, oauth, exchange, authorisation, accounts and signals turn the deadlock check off:
after the last cost, turn, flow or operation of the bound the modelled system rests, and so does a revoked credential. All others check it.

### Fairness

* `breaker`: only time is fair. Requests may hang for ever and nobody need look at the breaker; that
  is what `NeverStuck` is worth.
* `relay_failover`: each request's own steps. Every upstream call ends, at the latest with the client's
  timeout (httpx/client.go), and a goroutine is not starved. Neither the clock nor arrivals are fair.
* `oauth`: the scan loads a due credential (the task runner calls it every minute), a refresh that has
  started runs on, Redis expires keys. Requests and the user need not come.
* `authorisation`: every statement of a request that has begun (weakly), and every channel's poll of a device flow
  (strongly, because it can begin only while a request slot is free): the front end polls by a timer as long as
  its dialogue is open (src/web/src/pages/Providers.tsx:333). With "pkce" it polls when the user presses a button, so nothing
  is assumed then. The user, the browser and the provider's approval are not fair.

### Findings

The two violation runs each quote, in `PROJECT.json`, the comment the code disagrees with. `relay_bailout`: a client that
leaves during a token refresh is counted as the channel's failure. `oauth_stale`: a worker that loaded the credential
before another one rotated it revokes the fresh one.

Other places where the code does not do what its comments say are excluded from a property by name, and described with their modules above:
a place of the limiter lost for good, a reset undone by a refill, a flush undone by an edit, a limit forgotten with a failed SETNX, a credential that
cannot be refreshed and is not revoked, a lone image in a shape chat channels refuse, the last administrator demoted by two at once, a
single sign-on state used twice.

## 4. Proofs

All constants are arbitrary: any sets of requests, channels, workers, identities, any thresholds, windows, limits and bounds,
subject only to the named assumptions of the modules that declare them (`BreakerAssumption`: threshold, window and
durations positive naturals, `NoProbe` not a request; `RelayAssumption`, `LimiterAssumption`, `LedgerAssumption`: finite sets,
positive limits; `RefreshAssumption`, `FlowAssumption`, `AccountsAssumption`, `SnapshotAssumption`, `DiagnosticsAssumption`
likewise). TLC evaluates them in the runs. `PROJECT.json` lists the theorems with what each one says; this section says
along which argument.

* `Relay_proofs`, on the breaker: `BreakerTyped`, `BreakerSafe`, `ProbesSpaced`, `KeepsPromise`. The inductive invariant is
  `TypeOK /\ BreakerInv`. That a probe is outstanding only while half-open (`WellShaped`) is needed so that
  the lazy transition and a trip drop no live probe; that an outstanding probe's age is
  its holder's `since` (`LeaseInv`) is what makes the lease of the breaker and that of the holder
  the same clock, without it a second probe could not be shown to wait for the first one's lease.
  Lemmas state what each operator of `Breaker` does to a well-shaped record; the step lemma has one
  step per action. `KeepsPromise` is the refinement of `CircuitSpec`: every action maps to an abstract one or to a
  stutter. It needs `Settled`: failures are oldest first, so that the expired ones are a prefix and trimming the
  list is forgetting the counts beyond the window; a half-open breaker has cooled down; no probe, no age.
* `Relay_proofs`, on the loop: `TypeCorrect`, `TokensReturn`, `AnsweredExactlyOnce`, `HealthyNeverTrips`, `ChannelKeepsPromise`. `Typed` also
  says that a request on its way has a candidate and a stream its head. For the tokens: a probe that is out is among
  its request's deferred calls and the request is live, and the breaker of an unchecked channel is untouched (`Accounted`);
  the queue of deferred calls is emptied one release at a time, so a release for one channel must not disturb another's
  account. `AnsweredOnce` joins each place of a request with what was written by then. `ChannelKeepsPromise` reuses the lemmas of
  `KeepsPromise`: in any one channel a step of the loop is one method of its breaker or none (`OneMethod`). Two theorems have a
  hypothesis, the settings under which the code keeps its word (section 2): `PlainUpstreams` for the single answer,
  `NoBailout` for the healthy channel; the runs check them in those settings, and the run `relay_bailout` shows the
  second one needed.
* `Bookkeeping_proofs`, on the limiter: `CapIsHeld`, `LeakIsBounded`. The counter is compared with the
  number of requests that will decrement it (running or beyond the limit). `CapKept` alone is not inductive: a negative
  counter, and a healing, must be impossible without a fault (`Caused`). `BoundedLeak` is not either: a client that hangs up
  is charged as a fault at once but its place leaks only at the DECR that is never sent, so the invariant
  `Leak` adds the clients gone to the counter. A lost reply moves the counter and no request, so it is paid for by its own fault. Lemma `Moves` states how one request's move changes the three counts.
* `QuotaLedger_proofs`: `NoDoubleCharge`, `BooksBalance`, `TypesAndBounds`, `OverspendBounded`. `NeverOvercharged` needs that
  whatever a refill has read was spent, and since the last reset unless that one was half undone (`ReadsSpent`, `ReadsFresh`), hence that the database never shows more than was spent, hence that
  what it shows and what is missing from it together do not exceed it (`Covered`), also when an edit writes an old row
  back, which is never above the present one (`Editing`). While a reset is under way, or was half undone, a weaker bound remains (`Ceiling`). `Exact` is the equality, for histories without an edit. The bound on the
  overspend needs one that is tighter than itself (`Tight`): the counter in Redis lags behind what was spent by no more
  than the GETs and charges that failed, and a request is admitted below the limit or on one of those. The sum that `Total` takes
  of the disturbances is the cardinality of a set, so that no induction is needed.
* `OAuthRefresh_proofs`: `OneAtATime`, `TokenKept`. `LockKept` ties the lock to the worker that took it. Without a reliable
  lock, `LastTokenHeld` says what is left: the provider accepts the token it issued last and no other, and that one is
  in the row or with the one worker about to store it, so whoever else exchanges an old one is refused. It holds for every `nature`, and
  before there is any token.
* `Exchange_proofs`: `CallsOnCourse`, `EndsExactlyOnce`, `BilledAsReported`, `FailsOverCleanly`, `ChoicesHaveTools`, `CallsAreAnswered`, for answers of any
  length and conversations of any number of turns, between any two of the three protocols; no assumption on the constants is used.
  Handler, emitters and clients are folds over sequences. The library's induction takes an operator as a parameter and cannot be used, so a fold
  is described by the table its recursion fills in, whose existence and uniqueness follow from the least element of a
  set of numbers (`Least`, `Climb`); `FoldNothing` and `FoldMore` are all that is used of it. Then comes what one event does, converter by
  converter: the emitters send their end once and last (`FinishMessagesEmits`, `FinishResponsesEmits`), restoring a client's tools keeps
  that (`RestoredQuiet`), the client counts exactly the terminal events (`ReadOne`), and `HandleOne` puts these together for every
  pair of protocols. The inductive invariant `IInv` says that a call in flight would be on its `Course` if what peekCodexSSEError holds
  were handled: nothing ended while the upstream has not, the usage is what the upstream's events have told by then, and a
  client that wants one body has nothing. `EndsOnce` alone says nothing of a call in flight; `Clock`, which ties the
  ends the client has counted to the converters' flags, is what shows that `Finish` adds exactly the end that is missing.
  `Peeked` (a Responses channel that has said nothing is still peeked at and has not failed) carries `CleanFailover`.
  `CallsAreAnswered` rests on an invariant of its own, `Talks`: each turn of the client's history answers the calls of the turn before it, and
  no answer is on its way while one is missing, so that an answer never comes between a call and its result. From there on it is about what
  a request makes of such a history: `Asking` says of the messages of the first turns, and of a Responses client's first items, that all calls are
  answered but those of the last message, which are due. A turn's results answer what is due (`AnswerAll`), a call makes one more due, in the message of the calls before it (`JoinCall`),
  and text may only come when nothing is due, which is what `CallsLast` grants a Responses client's turn (`PartAsks`).
* `ExchangeLegal_proofs`: `StreamsAreLegal`, for answers and conversations of any length between any two protocols. It extends `Exchange_proofs`, whose
  `IInv` it stands on. The invariant `Legal` follows the stream through the bridge. Upstream of the client an emitter and its
  client go together: a messages client has open the block the emitter is in and no other (`InBlocks`), a Responses client has the
  emitter's items (`InItems`), a chat client was told of as many calls as it has parts of that kind (`ChatHeard`). Upstream of the
  emitter a converter knows the calls: its table has as many entries as its upstream has begun calls (`KnowsBlocks`, `KnowsItems`), so
  the number it looks up is one its client has been told of. `Sayings` holds for a stream under way what is in the pipe and what the client has by then,
  for one that has ended that its converter will not write again (`Through`); neither the client nor the end can be judged alone. `LegalStream` itself
  is far from inductive: it says nothing of the state a converter is in before the event that goes wrong. The theorem has one hypothesis,
  `"anthropic" \notin Overlap`: the messages emitter writes arguments to the block it is in (stream_bridge.go:201), so with two parts under way
  at once for a messages client the statement is false, as TLC shows in a few steps when `Overlap` is all protocols.
* `OAuthFlow_proofs`: `NoneUnauthorised`, `StoppedStays`, `StoredIsOver`. The strengthenings say what each pending request may
  still do: switch on only a channel that has a credential (`SwitchedOnGround`), not switch on a channel its owner stopped
  (`StoppedForGood`), end a flow whose token is stored (`ClosingSoon`).
* `Accounts_proofs`: `RowsAndRequests`, `AnAdminRemains`, `IdentityStays`, `DisabledAreSilent`, `OneUserPerCode`. `Base` says what a request
  still knows of the row it read: that is what every check-then-act of the handlers relies on, unless another request's write has
  made it late. `Silent` and `Invitations` add the keys of a disabled account and the matching between accounts let
  in and codes taken, with the registrations that have an account and no code yet in between.
* `Bookkeeping_proofs`, on the signals: `ProbesOneByOne`, `CreditsStay`, `NoneTwice`, `SampledFairly`. `Timed`: a probe that is out is as old as the last
  attempt and within its timeout; `Carried`: what each pending write holds; `Placed`: where each diagnostic is; `SampleInv`: a channel's recent samples
  are those of the present window, which its counter knows, and at most a window's from before.

Only model-checked:

* Liveness (`NeverStuck`, `Terminates`, `DueIsTried`, `DueIsHandled`, `Authorised`): fairness and ENABLED are beyond the prover.
* `Delivered` and `Recalled` of `Exchange`: they compare what selections, joins and folds make of two different sequences, for every
  history; that is an induction over data of its own for each of them, along both sequences at once.

## 5. Not modelled

* Pricing: a lookup in a table cached for 30 s, stale while it cannot be loaded. (resolve's comment, pricing.go:43-45, asks
  the BillingMap before the wildcard; lookupLocked answers with the wildcard first.)
* The login limiter (a fixed window by address, middleware), logout, the verification of tokens: no interleaving beyond
  one counter.
* Sampling parameters, reasoning effort, metadata and user agents in requests: copied or dropped field by field.
* The parsing of quota headers and provider answers; the classification and listing of diagnostics and their
  retention.
* Deleting channels, presets, model lists, channel tests; the catalog, settings and reports: single statements, or a value
  replaced under one lock.
* Encryption, address checks, wiring. The fallback without a usage writer (a synchronous insert) or without Redis.

## 6. Plan

Proofs to come: `Delivered` and `Recalled` of `Exchange`, from a table for each of the selections and joins
they are stated with, as `Exchange_proofs` has one for the folds.

Models to come: prices with their cache (the order of the billing map and the wildcard, and the cost and the billing name of one
answer, which are two lookups (handler.go:480, :482) the cache may turn between); the composition of limiter, ledger and loop in one request, so that a release
and a charge happen on every path out of the loop.
