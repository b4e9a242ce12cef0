------------------------------ MODULE Exchange ------------------------------
(***************************************************************************)
(* A conversation through the gateway: the client sends its history in its *)
(* protocol (entry) to a channel of any protocol (up); the answer comes    *)
(* back event by event, is bridged, assembled by the client and becomes    *)
(* part of the history it sends next time, perhaps to another channel.     *)
(*                                                                         *)
(* The upstream is any well-formed one: it opens parts, says fragments,    *)
(* closes them and stops; or fails, or the connection ends on the way.     *)
(***************************************************************************)
EXTENDS Requests

CONSTANTS
  MaxTurns,   \* turns of a conversation
  MaxParts,   \* parts of an answer
  MaxFrags,   \* fragments of an answer
  PeekLimit,  \* events peekCodexSSEError holds back, 256 KiB in the code
  Overlap     \* entries whose upstreams may have two parts under way at once

ASSUME ExchangeAssumption ==
  /\ MaxTurns \in Nat /\ MaxParts \in Nat /\ MaxFrags \in Nat
  /\ PeekLimit \in Nat \ {0, 1} /\ Overlap \subseteq Protocols

VARIABLES
  turns,    \* the conversation as the client has it
  truth,    \* the gist of what user and upstreams have said
  pc,       \* client: its turn; peek, flow: an answer is on its way; over
  said,     \* parts the upstream has sent, [kind, name, data, open]
  stopped,  \* how the upstream has ended it: no, stop, fail
  held,     \* events read by peekCodexSSEError and not passed on
  pipe,     \* the call: the client's protocol and the channel's, whether the client
            \* asked for a stream, the converters, the usage to bill, the client's reader
  outcome   \* of the last answer: none, complete, broken, failover

vars == <<turns, truth, pc, said, stopped, held, pipe, outcome>>

entry == pipe.entry

Passthrough(p) == p.entry = p.up /\ (p.stream \/ p.up # "responses")

\* Responses channels are always read as a stream; anything else that the client
\* did not ask to stream comes as one body.
OneBody(p) == ~p.stream /\ p.up # "responses"

NewPipe(en, u, s) ==
  [entry  |-> en,
   up     |-> u,
   stream |-> s,
   in     |-> CASE u = "anthropic" -> NewAnthropicIn
                [] u = "responses" -> NewCodexIn
                [] u = "openai" -> <<>>,
   out    |-> IF en = "responses" THEN NewResponsesOut ELSE NewMessagesOut,
   agg    |-> NewAgg,
   usage  |-> NoUsage,
   client |-> NewClient]

Question == <<Part("text", 0, <<101>>), Part("image", 0, <<102>>)>>
Picture == <<Part("image", 0, <<104>>)>>
Remark == <<Part("text", 0, <<103>>)>>

Init ==
  /\ \E parts \in {Question, Picture} : turns = <<Turn("user", <<>>, parts)>>
  /\ truth = Gists(turns)
  /\ pc = "client" /\ said = <<>> /\ stopped = "no" /\ held = <<>> /\ outcome = "none"
  /\ \E en \in Protocols : pipe = NewPipe(en, "openai", FALSE)

------------------------------------------------------------------------------
(* The handler, event by event *)

\* The client reads what is written to it.
Deliver(p, events) == [p EXCEPT !.client = ReadAll(p.entry, @, events)]

ToClient(p, r) ==
  Deliver([p EXCEPT !.out = r.st],
          IF p.entry = "responses"
            THEN FlattenSeq([i \in DOMAIN r.out |-> ToolEvents(r.st.items, r.out[i])])
            ELSE r.out)

\* One chunk for the entry's emitter; a chat client gets it as it is.
FeedEntry(p, c) ==
  LET q == IF c.usage = NoUsage THEN p ELSE [p EXCEPT !.usage = c.usage] IN
  CASE p.entry = "openai"    -> Deliver(q, <<c>>)
    [] p.entry = "anthropic" -> ToClient(q, FeedMessages(q.out, c))
    [] p.entry = "responses" -> ToClient(q, FeedResponses(q.out, c))

\* streamCodexChunks ends the stream right after the chunk that finishes it.
FeedCodex(p, e) ==
  LET r == ConvertCodexEvent(p.in, e)
      q == FoldLeft(FeedEntry, [p EXCEPT !.in = r.st, !.usage = r.st.usage], r.out) IN
  IF p.entry = "openai" /\ r.st.sent /\ ~p.in.sent THEN Deliver(q, <<DoneMark>>) ELSE q

FeedAnthropic(p, e) ==
  LET r == FeedAnthropicEvent(p.in, e) IN
  FoldLeft(FeedEntry, [p EXCEPT !.in = r.st, !.usage = r.st.usage], r.out)

\* Mutant: the passthrough bills the last usage it has seen.
PassLast(p, e) ==
  Deliver([p EXCEPT !.usage = IF e.usage = NoUsage THEN @ ELSE e.usage], <<e>>)

Pass(p, e) == Deliver([p EXCEPT !.usage = MergeUsage(@, e.usage)], <<e>>)

Handle(p, e) ==
  IF Passthrough(p) THEN Pass(p, e)
  ELSE CASE p.up = "responses" /\ ~p.stream ->
              LET agg == ApplyCodexEvent(p.agg, e) IN
              [p EXCEPT !.agg = agg, !.usage = agg.usage]
         [] p.up = "responses" /\ p.stream -> FeedCodex(p, e)
         [] p.up = "anthropic" -> FeedAnthropic(p, e)
         [] p.up = "openai" -> IF e = DoneMark THEN p ELSE FeedEntry(p, e)

HandleAll(p, events) == FoldLeft(Handle, p, events)

\* The upstream's stream is over: what the bridge still writes.
Finish(p) ==
  CASE Passthrough(p) -> p
    [] ~Passthrough(p) /\ p.entry = "anthropic" ->
         ToClient(p, FinishMessages([st |-> p.out, out |-> <<>>]))
    [] ~Passthrough(p) /\ p.entry = "responses" ->
         ToClient(p, FinishResponses([st |-> p.out, out |-> <<>>]))
    [] ~Passthrough(p) /\ p.entry = "openai" ->
         IF p.up = "anthropic"
           THEN LET r == FinishChat(p.in, Chunk) IN
                Deliver([p EXCEPT !.in = r.st], r.out \o <<DoneMark>>)
           ELSE IF p.in.sent THEN p ELSE Deliver(p, <<DoneMark>>)

\* A body written at once: the client has it whole.
Body(p, parts) == [p EXCEPT !.client.parts = parts, !.client.ended = @ + 1]

------------------------------------------------------------------------------
(* The client *)

\* The first event of an answer.
Greeting(u) ==
  CASE u = "openai" -> Chunk
    [] u = "anthropic" -> [Event("message_start") EXCEPT !.usage.prompt = Reported.prompt]
    [] u = "responses" -> Event("created")

Send(u, s) ==
  /\ pc = "client" /\ Len(turns) < MaxTurns /\ Last(turns).who = "user"
  /\ said' = <<>> /\ stopped' = "no" /\ outcome' = "none"
  /\ LET p == NewPipe(entry, u, s) IN
     IF u = "responses"
       THEN pc' = "peek" /\ pipe' = p /\ held' = <<Greeting(u)>>
       ELSE /\ pc' = "flow" /\ held' = <<>>
            /\ pipe' = IF OneBody(p) THEN p ELSE Handle(p, Greeting(u))
  /\ UNCHANGED <<turns, truth>>

\* The client runs the tools it was asked for and says something more or not.
Ask ==
  /\ pc = "client" /\ Len(turns) < MaxTurns /\ Last(turns).who = "assistant"
  /\ LET calls == CallsOf(Last(turns).parts)
         results == [i \in DOMAIN calls |-> Result(calls[i].name, <<200 + i>>)] IN
     \E parts \in {Remark, Picture, <<>>} :
       /\ results # <<>> \/ parts # <<>>
       /\ turns' = Append(turns, Turn("user", results, parts))
       /\ truth' = Append(truth, Gist(Turn("user", results, parts)))
  /\ pipe' = NewPipe(entry, pipe.up, pipe.stream)
  /\ said' = <<>> /\ stopped' = "no" /\ held' = <<>> /\ outcome' = "none"
  /\ UNCHANGED pc

------------------------------------------------------------------------------
(* The upstream *)

\* Events a client of a Responses channel would show: peekCodexSSEError stops at one.
UserOutput(e) == e.type = "delta" /\ e.kind \in {"text", "call", "custom"}

\* Mutant: an error is only looked for in the first event.
RetriesFirst(e) == e.type = "failed" /\ held = <<>>

Retries(e) == e.type = "failed"

Full(n) == n >= PeekLimit

Release(events) ==
  /\ pc' = "flow" /\ held' = <<>>
  /\ pipe' = HandleAll(pipe, events)
  /\ UNCHANGED outcome

Arrive(events) ==
  \/ /\ pc = "flow" /\ pipe' = HandleAll(pipe, events)
     /\ UNCHANGED <<pc, held, outcome>>
  \/ /\ pc = "peek" /\ events # <<>>
     /\ LET e == events[1] IN
        IF ~UserOutput(e) /\ Retries(e)
          THEN pc' = "over" /\ outcome' = "failover" /\ UNCHANGED <<held, pipe>>
          ELSE IF UserOutput(e) \/ Full(Len(held) + 1)
            THEN Release(Append(held, e))
            ELSE /\ held' = Append(held, e)
                 /\ UNCHANGED <<pc, pipe, outcome>>

\* Events of an answer; one that comes as a body has none.
Emit(events) ==
  /\ IF OneBody(pipe) THEN UNCHANGED <<pc, held, pipe, outcome>> ELSE Arrive(events)
  /\ UNCHANGED <<turns, truth>>

Speaking == pc \in {"peek", "flow"} /\ stopped = "no"

\* The upstream's name of the tool called by part i.
WireName(kind, i) ==
  LET name == 10 * Len(turns) + i IN
  IF kind = "custom" /\ pipe.up # "responses" THEN -name ELSE name

\* Custom tools: a Responses client's, or a chat client's passed to a Responses channel.
MayCall(kind) ==
  kind = "custom" => entry = "responses" \/ (entry = "openai" /\ pipe.up = "responses")

ChatIndex(i) == Cardinality({j \in 1..(i - 1) : said[j].kind \in CallKinds})

WireKind(kind) == IF kind = "custom" /\ pipe.up # "responses" THEN "call" ELSE kind

\* The parts of a complete answer, as they are on the wire.
Sent(parts) ==
  [i \in DOMAIN parts |->
     Part(WireKind(parts[i].kind), parts[i].name,
          IF parts[i].kind = "custom" /\ pipe.up # "responses" THEN Wrap(parts[i].data)
          ELSE parts[i].data)]

At(type, i, kind, name, data) ==
  [Event(type) EXCEPT !.index = i - 1, !.kind = WireKind(kind), !.name = name,
                      !.data = data]

\* Arguments on a wire that knows no custom tools: the wrapper around the input.
Fragment(kind, i, data) ==
  CASE pipe.up = "openai" -> IF kind \in CallKinds THEN <<CallChunk(ChatIndex(i), 0, data)>>
                        ELSE <<SayChunk(kind, data)>>
    [] pipe.up = "anthropic" -> <<At("block_delta", i, kind, 0, data)>>
    [] pipe.up = "responses" -> <<At("delta", i, kind, 0, data)>>

Wrapper(kind, i, mark) ==
  IF kind = "custom" /\ pipe.up # "responses" THEN Fragment(kind, i, <<mark>>) ELSE <<>>

Open(kind) ==
  LET i == Len(said) + 1
      name == IF kind \in CallKinds THEN WireName(kind, i) ELSE 0 IN
  /\ Speaking /\ Len(said) < MaxParts /\ MayCall(kind)
  /\ \A j \in DOMAIN said :
       said[j].open => entry \in Overlap /\ pipe.up # "anthropic"
                         /\ (said[j].kind # kind \/ kind \in CallKinds)
  /\ said' = Append(said, [kind |-> kind, name |-> name, data |-> <<>>, open |-> TRUE])
  /\ Emit((CASE pipe.up = "openai" -> IF kind \in CallKinds
                                    THEN <<CallChunk(ChatIndex(i), name, <<>>)>> ELSE <<>>
              [] pipe.up = "anthropic" -> <<At("block_start", i, kind, name, <<>>)>>
              [] pipe.up = "responses" -> <<At("added", i, kind, name, <<>>)>>)
           \o Wrapper(kind, i, Opening))
  /\ UNCHANGED stopped

Fragments == Len(FlattenSeq([i \in DOMAIN said |-> said[i].data]))

Say(i) ==
  LET f == Fragments + 1 IN
  /\ Speaking /\ said[i].open /\ f <= MaxFrags
  /\ said' = [said EXCEPT ![i].data = Append(@, f)]
  /\ Emit(Fragment(said[i].kind, i, <<f>>))
  /\ UNCHANGED stopped

CloseEvents(i, data) ==
  Wrapper(said[i].kind, i, Closing)
    \o CASE pipe.up = "openai" -> <<>>
         [] pipe.up = "anthropic" -> <<At("block_stop", i, said[i].kind, 0, <<>>)>>
         [] pipe.up = "responses" -> <<At("done", i, said[i].kind, said[i].name, data)>>

\* A custom tool's input always comes with a delta (see the findings).
Close(i) ==
  /\ Speaking /\ said[i].open
  /\ pipe.up = "responses" /\ said[i].kind = "custom" => said[i].data # <<>>
  /\ said' = [said EXCEPT ![i].open = FALSE]
  /\ Emit(CloseEvents(i, said[i].data))
  /\ UNCHANGED stopped

\* A Responses upstream may give a call's arguments only when the call is done.
CloseWhole(i) ==
  LET data == <<Fragments + 1>> IN
  /\ Speaking /\ said[i].open /\ said[i].data = <<>> /\ Fragments < MaxFrags
  /\ pipe.up = "responses" /\ said[i].kind = "call"
  /\ said' = [said EXCEPT ![i].data = data, ![i].open = FALSE]
  /\ Emit(CloseEvents(i, data))
  /\ UNCHANGED stopped

------------------------------------------------------------------------------
(* The end *)

\* A Responses upstream that is not streamed may leave its last call without a done.
MayStop ==
  LET open == {i \in DOMAIN said : said[i].open} IN
  \/ open = {}
  \/ /\ pipe.up = "responses" /\ ~pipe.stream /\ Cardinality(open) = 1
     /\ \A i \in open : said[i].kind = "call"

FinishReason == IF Calls(said) = <<>> THEN "stop" ELSE "tool_calls"

FinalChunk == [Chunk EXCEPT !.finish = FinishReason]

\* The usage comes with the finish reason or in a chunk of its own after it.
StopEvents ==
  CASE pipe.up = "openai" ->
         {<<[FinalChunk EXCEPT !.usage = Reported], DoneMark>>,
          <<FinalChunk, [Chunk EXCEPT !.choices = FALSE, !.usage = Reported], DoneMark>>}
    [] pipe.up = "anthropic" ->
         {<<[Event("message_delta") EXCEPT !.finish = FinishReason,
                                           !.usage.completion = Reported.completion],
            Event("message_stop")>>}
    [] pipe.up = "responses" ->
         {<<[Event("completed") EXCEPT !.output = Sent(said), !.usage = Reported]>>}

Stop ==
  /\ Speaking /\ MayStop
  /\ stopped' = "stop"
  /\ \E events \in StopEvents : Emit(events)
  /\ UNCHANGED said

\* An error event; a body that is an error and nothing else.
Fail ==
  /\ Speaking
  /\ IF OneBody(pipe) THEN said = <<>> /\ ~Passthrough(pipe) ELSE pipe.up # "openai"
  /\ stopped' = "fail"
  /\ Emit(<<Event(IF pipe.up = "anthropic" THEN "error" ELSE "failed")>>)
  /\ UNCHANGED said

\* The answer of an upstream that is not streamed, collected.
Collected(p) ==
  CASE p.up = "responses" -> p.agg
    [] p.up # "responses" /\ stopped = "fail" -> [NewAgg EXCEPT !.err = TRUE]
    [] p.up = "openai" /\ stopped # "fail" -> OpenAIJSONToAgg(Sent(said))
    [] p.up = "anthropic" /\ stopped # "fail" -> AnthropicJSONToAgg(Sent(said))

\* The body of an answer that is not streamed, as the entry's client gets it.
Answered(p) ==
  [Body(p, IF Passthrough(p) THEN Sent(said) ELSE WriteEntryJSON(p.entry, Collected(p)))
     EXCEPT !.usage = Collected(p).usage]

Record(p) ==
  IF stopped = "stop"
    THEN /\ pc' = "client" /\ outcome' = "complete"
         /\ turns' = Append(turns, Turn("assistant", <<>>, p.client.parts))
         /\ truth' = Append(truth, Gist(Turn("assistant", <<>>, said)))
    ELSE pc' = "over" /\ outcome' = "broken" /\ UNCHANGED <<turns, truth>>

\* The upstream's body ends: what peek still holds is replayed first.  A failed
\* answer that is not streamed goes to the next channel if it has said nothing.
Eof ==
  /\ pc \in {"peek", "flow"}
  /\ OneBody(pipe) => stopped # "no"
  /\ LET p == HandleAll(pipe, held) IN
     IF ~pipe.stream /\ AggFailed(Collected(p))
       THEN /\ pc' = "over" /\ outcome' = "failover"
            /\ UNCHANGED <<turns, truth, pipe>>
       ELSE LET q == IF pipe.stream THEN Finish(p) ELSE Answered(p) IN
            pipe' = q /\ Record(q)
  /\ held' = <<>>
  /\ UNCHANGED <<said, stopped>>

\* The connection breaks: a stream is finished all the same, anything else failed.
Cut ==
  /\ pc \in {"peek", "flow"} /\ stopped = "no"
  /\ pc' = "over" /\ held' = <<>>
  /\ IF pipe.stream
       THEN pipe' = Finish(HandleAll(pipe, held)) /\ outcome' = "broken"
       ELSE outcome' = "failover" /\ UNCHANGED pipe
  /\ UNCHANGED <<turns, truth, said, stopped>>

\* What a Responses channel answers is no event stream: its address is a wrong one.
NotSSE ==
  /\ pc = "peek" /\ said = <<>> /\ stopped = "no" /\ held = <<Event("created")>>
  /\ pc' = "over" /\ outcome' = "failover" /\ held' = <<>>
  /\ UNCHANGED <<turns, truth, pipe, said, stopped>>

Next ==
  \/ \E u \in Protocols, s \in BOOLEAN : Send(u, s)
  \/ Ask
  \/ \E kind \in Kinds : Open(kind)
  \/ \E i \in DOMAIN said : Say(i) \/ Close(i) \/ CloseWhole(i)
  \/ Stop \/ Fail \/ NotSSE \/ Eof \/ Cut

Spec == Init /\ [][Next]_vars

------------------------------------------------------------------------------
(* Properties *)

\* In whatever order parts open, go on and close, however the upstream ends, the client
\* sees a legal stream of its protocol: blocks one at a time and in order, stable output
\* indexes, nothing after the end (stream_bridge.go:209-331, 414-596).  Two parts under
\* way at once are left to the entries of Overlap: for a messages client they are
\* mixed up (stream_bridge.go:201-205).
LegalStream == ~pipe.client.bad

\* What the client has put together is what the upstream said: every fragment once,
\* in order, in the text, the reasoning or the call it belongs to.  An answer that is
\* not streamed may have its calls in the order they were done in.
Delivered ==
  outcome = "complete" =>
    /\ LET got == Last(Gists(turns)) IN
       /\ [got EXCEPT !.calls = ToSet(@)] = [Last(truth) EXCEPT !.calls = ToSet(@)]
       /\ Len(got.calls) = Len(Last(truth).calls)
       /\ pipe.stream => got = Last(truth)
    /\ Meaning(pipe.client.parts).think = Meaning(said).think

\* The usage the upstream reported, in whatever event and form, is billed, and none
\* is made up (stream_bridge.go:90-109, 902-995; protocol.go:79-96).
Billed ==
  /\ outcome = "complete" => pipe.usage = Reported
  /\ pipe.usage.prompt <= Reported.prompt /\ pipe.usage.completion <= Reported.completion

\* An answer of a bridged stream ends for the client exactly once, also when the
\* upstream's does not (codex.go:1465-1469), and nothing ends before the upstream.
EndsOnce ==
  /\ pipe.client.ended <= 1
  /\ outcome \in {"complete", "broken"} /\ ~Passthrough(pipe) => pipe.client.ended = 1
  /\ pipe.client.ended = 1 => stopped # "no" \/ pc \in {"over", "client"}

\* A request is only passed to the next channel while its client has seen nothing,
\* and a Responses channel that fails before it says anything is always passed over
\* (codex.go:1234-1236).
CleanFailover ==
  /\ outcome = "failover" => pipe.client = NewClient
  /\ stopped = "fail" /\ pipe.up = "responses" /\ said = <<>> => outcome # "broken"

\* The history the client sends next says the same to every channel: no text, image,
\* call or result is lost, reordered or given to another turn, and a call of a
\* custom tool is known by the alias its tool has in the request.  A turn of a messages
\* client that is one image and no text is left out: it becomes a bare part, which chat
\* channels refuse (anthropic.go:216-222) and the next conversion loses.
Weighty(t) == t.parts # <<>> \/ t.results # <<>>

SpokenTurns(ts) ==
  FoldLeft(JoinTurns, <<>>,
    SelectSeq([i \in DOMAIN ts |->
                 [ts[i] EXCEPT !.parts =
                    SelectSeq(@, LAMBDA p : p.kind # "think"
                                   /\ ~(p.kind = "text" /\ p.data = <<>>))]], Weighty))

AliasesRight(u, ts) ==
  \A t \in ToSet(ts) : \A p \in ToSet(Calls(t.parts)) :
    IF u # "responses" THEN p.kind = "call" ELSE p.name > 0

LoneImage(t) == Len(Speech(t.parts)) = 1 /\ Speech(t.parts)[1].kind = "image"

Recalled ==
  pc = "client" /\ (entry = "anthropic" => \A t \in ToSet(turns) : ~LoneImage(t)) =>
    \A u \in Protocols :
      LET seen == SpokenTurns(Seen(u, Request(entry, u, turns))) IN
      Gists(seen) = Gists(SpokenTurns(turns)) /\ AliasesRight(u, seen)

\* Calls are answered right after the one message that makes them, one by one, as chat
\* channels demand (responses_api.go:53-54); a Responses client's if no text comes after
\* them.
CallsLast(t) ==
  \A i, j \in DOMAIN t.parts :
    i < j /\ t.parts[i].kind \in CallKinds => t.parts[j].kind # "text"

\* A tool goes by its name or by its alias.
SameTool(a, b) == {a, -a} \cap {b, -b} # {}

CallsAnswered ==
  LET request == Pivot(entry, turns) IN
  /\ pc = "client" /\ Last(turns).who = "user"
  /\ entry = "responses" => \A t \in ToSet(turns) : CallsLast(t)
  =>
    \A i \in DOMAIN request :
      LET calls == request[i].calls IN
      calls # <<>> =>
        /\ i + Len(calls) <= Len(request)
        /\ \A k \in DOMAIN calls :
             request[i + k].role = "tool" /\ SameTool(calls[k].name, request[i + k].name)

\* No request carries a choice of tools without tools, which chat and messages
\* channels refuse (responses_api.go:97-99, anthropic.go:343-344, 460), and a
\* Responses channel is never told to use a tool that was not sent along.
ChoiceHasTools ==
  pc = "client" /\ Len(turns) = 1 =>
  \A u \in Protocols : \A o \in ClientOffers(entry) :
    LET sent == OfferSent(entry, u, o) IN
    /\ sent.choice \in ToolKinds => sent.tools # {}
    /\ sent.choice = "auto" /\ sent.tools = {} => u = "responses" \/ entry = "openai"
    /\ u = "responses" /\ sent.choice \in ToolKinds => sent.choice \in sent.tools
==============================================================================
