------------------------------ MODULE Requests ------------------------------
(***************************************************************************)
(* The request conversions (internal/relay/anthropic.go, responses_api.go, *)
(* codex.go): the client sends the whole conversation in its own protocol; *)
(* it becomes a chat request, the pivot, and from there the request of the *)
(* channel.  A Responses request goes to a Responses channel directly.     *)
(*                                                                         *)
(* A conversation is a sequence of turns [who, results, parts]: the user   *)
(* answers calls (results) and says something (parts), the assistant's     *)
(* parts are an answer of module Wire.                                     *)
(***************************************************************************)
EXTENDS StreamBridge

Turn(who, results, parts) == [who |-> who, results |-> results, parts |-> parts]

Result(name, data) == [name |-> name, data |-> data]

Speech(parts) == SelectSeq(parts, LAMBDA p : p.kind \in {"text", "image"})

------------------------------------------------------------------------------
(* Chat messages, the pivot *)

\* shape: how JSON has the content, a string, a list of parts, null, or one part
\* alone, which no reader of chat requests takes.
ChatMessage(role, shape, parts, think, calls, name) ==
  [role |-> role, shape |-> shape, parts |-> parts, think |-> think, calls |-> calls,
   name |-> name]

ToolMessage(r) ==
  ChatMessage("tool", "string", <<Part("text", 0, r.data)>>, <<>>, <<>>, r.name)

ToolMessages(results) == [i \in DOMAIN results |-> ToolMessage(results[i])]

ListShape(parts) ==
  IF parts = <<>> THEN "null"
  ELSE IF Len(parts) = 1 /\ parts[1].kind = "text" THEN "string" ELSE "list"

\* A chat client's own messages.
ChatTurn(t) ==
  ToolMessages(t.results)
    \o IF t.parts = <<>> THEN <<>>
       ELSE <<ChatMessage(t.who, ListShape(Speech(t.parts)), Speech(t.parts),
                          DataOf(t.parts, "think"), Calls(t.parts), 0)>>

\* Mutant: the results follow what the user says after them.
MessagesTurnToPivotLate(t) ==
  IF t.parts = <<>> THEN ToolMessages(t.results)
  ELSE <<ChatMessage(t.who, ListShape(Speech(t.parts)), Speech(t.parts),
                     DataOf(t.parts, "think"), Calls(t.parts), 0)>>
         \o ToolMessages(t.results)

\* anthropicMessageToPivot: results become tool messages of their own, ahead of the
\* rest; a single image is not put into a list.
MessagesTurnToPivot(t) ==
  LET speech == Speech(t.parts)
      shape == IF Len(speech) = 1 /\ speech[1].kind = "image" THEN "bare"
               ELSE ListShape(speech) IN
  ToolMessages(t.results)
    \o IF t.parts = <<>> THEN <<>>
       ELSE <<ChatMessage(t.who, shape, speech, DataOf(t.parts, "think"), Calls(t.parts), 0)>>

\* The items a Responses client sends for a turn.
Items(t) ==
  [i \in DOMAIN t.results |-> [type |-> "output", result |-> t.results[i]]]
    \o (IF t.who = "user" /\ t.parts # <<>>
          THEN <<[type |-> "message", role |-> "user", parts |-> t.parts]>>
          ELSE [i \in DOMAIN t.parts |->
                  CASE t.parts[i].kind = "text" ->
                         [type |-> "message", role |-> "assistant", parts |-> <<t.parts[i]>>]
                    [] t.parts[i].kind \in CallKinds -> [type |-> "call", part |-> t.parts[i]]
                    [] OTHER -> [type |-> "reasoning", part |-> t.parts[i]]])

\* Mutant: a call in the history keeps the name its tool has in the request.
InputItemPlain(p) == p

\* responsesToolBridge.inputItem: calls in the history use the aliases of the tools.
InputItem(p) == IF p.kind = "custom" THEN Part("call", -p.name, Wrap(p.data)) ELSE p

ItemMessage(item) ==
  CASE item.type = "message" ->
         ChatMessage(item.role, ListShape(item.parts), item.parts, <<>>, <<>>, 0)
    [] item.type = "call" ->
         ChatMessage("assistant", "null", <<>>, <<>>, <<InputItem(item.part)>>, 0)
    [] item.type = "output" -> ToolMessage(item.result)

\* Mutant: every call becomes a message of its own.
JoinNever(msgs, m) == Append(msgs, m)

\* Calls of one round belong to one message: they join the calls right before them.
JoinCalls(msgs, m) ==
  LET n == Len(msgs) IN
  IF m.calls # <<>> /\ n > 0 /\ msgs[n].role = "assistant" /\ msgs[n].calls # <<>>
    THEN [msgs EXCEPT ![n].calls = @ \o m.calls]
    ELSE Append(msgs, m)

\* Reasoning is left behind.
AddItemMessage(msgs, item) ==
  IF item.type = "reasoning" THEN msgs ELSE JoinCalls(msgs, ItemMessage(item))

ResponsesToPivot(items) == FoldLeft(AddItemMessage, <<>>, items)

TurnItems(turns) == FlattenSeq([i \in DOMAIN turns |-> Items(turns[i])])

Pivot(entry, turns) ==
  CASE entry = "openai" -> FlattenSeq([i \in DOMAIN turns |-> ChatTurn(turns[i])])
    [] entry = "anthropic" ->
         FlattenSeq([i \in DOMAIN turns |-> MessagesTurnToPivot(turns[i])])
    [] entry = "responses" -> ResponsesToPivot(TurnItems(turns))

------------------------------------------------------------------------------
(* The channel's request *)

Readable(m) == IF m.shape \in {"string", "list"} THEN m.parts ELSE <<>>

\* One message of the messages protocol.
Message(role, results, parts) == [role |-> role, results |-> results, parts |-> parts]

\* Results wait until the next message of user or assistant, or the end.
FlushPending(st) ==
  IF st.pending = <<>> THEN st.msgs ELSE Append(st.msgs, Message("user", st.pending, <<>>))

AddAnthropic(st, m) ==
  LET parts == Readable(m) \o m.calls IN
  CASE m.role = "tool" ->
         [st EXCEPT !.pending = Append(@, Result(m.name, m.parts[1].data))]
    [] m.role = "user" ->
         [pending |-> <<>>, msgs |-> Append(FlushPending(st), Message("user", <<>>, parts))]
    [] m.role = "assistant" ->
         [pending |-> <<>>, msgs |-> IF parts = <<>> THEN FlushPending(st)
                                     ELSE Append(FlushPending(st),
                                                 Message("assistant", <<>>, parts))]

PivotToAnthropicRequest(msgs) ==
  FlushPending(FoldLeft(AddAnthropic, [msgs |-> <<>>, pending |-> <<>>], msgs))

CodexItems(m) ==
  IF m.role = "tool" THEN <<[type |-> "output", result |-> Result(m.name, m.parts[1].data)]>>
  ELSE (IF m.role = "assistant" /\ m.think # <<>>
          THEN <<[type |-> "reasoning", part |-> Part("think", 0, m.think)]>> ELSE <<>>)
         \o (IF Readable(m) = <<>> THEN <<>>
             ELSE <<[type |-> "message", role |-> m.role, parts |-> Readable(m)]>>)
         \o [i \in DOMAIN m.calls |-> [type |-> "call", part |-> m.calls[i]]]

BuildCodexRequest(msgs) == FlattenSeq([i \in DOMAIN msgs |-> CodexItems(msgs[i])])

Request(entry, up, turns) ==
  CASE up = "openai" -> Pivot(entry, turns)
    [] up = "anthropic" -> PivotToAnthropicRequest(Pivot(entry, turns))
    [] up = "responses" -> IF entry = "responses" THEN TurnItems(turns)
                           ELSE BuildCodexRequest(Pivot(entry, turns))

------------------------------------------------------------------------------
(* What the upstream reads *)

ReadChatMessage(m) ==
  IF m.role = "tool" THEN Turn("user", <<Result(m.name, m.parts[1].data)>>, <<>>)
  ELSE Turn(m.role, <<>>, Readable(m) \o m.calls)

ReadItem(item) ==
  CASE item.type = "output" -> Turn("user", <<item.result>>, <<>>)
    [] item.type = "message" -> Turn(item.role, <<>>, item.parts)
    [] item.type \in {"call", "reasoning"} -> Turn("assistant", <<>>, <<item.part>>)

\* Neighbours of the same side are one turn; a result after something the user has
\* said no longer answers the calls before it.
JoinTurns(turns, t) ==
  LET n == Len(turns) IN
  IF n > 0 /\ turns[n].who = t.who /\ (t.results = <<>> \/ turns[n].parts = <<>>)
    THEN [turns EXCEPT ![n].results = @ \o t.results, ![n].parts = @ \o t.parts]
    ELSE Append(turns, t)

Seen(up, request) ==
  LET turns == CASE up = "openai" -> [i \in DOMAIN request |-> ReadChatMessage(request[i])]
                 [] up = "anthropic" ->
                      [i \in DOMAIN request |->
                         Turn(request[i].role, request[i].results, request[i].parts)]
                 [] up = "responses" -> [i \in DOMAIN request |-> ReadItem(request[i])] IN
  FoldLeft(JoinTurns, <<>>, turns)

\* The content of a turn; reasoning is not counted, most conversions drop it.
Gist(t) ==
  [who |-> t.who, results |-> t.results, text |-> DataOf(t.parts, "text"),
   images |-> DataOf(t.parts, "image"), calls |-> CallsOf(t.parts)]

Gists(turns) == [i \in DOMAIN turns |-> Gist(turns[i])]

------------------------------------------------------------------------------
(* The tools of a request *)

ToolKinds == {"function", "custom", "hosted"}

\* Tools offered and the choice: none given, a word, or a tool of a kind by name.
Offer == [tools : SUBSET ToolKinds, choice : {"none", "auto"} \cup ToolKinds]

\* Mutant: the choice is kept when all tools are gone.
DroppedNever(offer) == offer

\* A choice goes with the tools.
Dropped(offer) == IF offer.tools = {} THEN [offer EXCEPT !.choice = "none"] ELSE offer

\* Custom tools become functions; a hosted tool's choice stays behind as its name.
ResponsesOffer(offer) ==
  Dropped([tools |-> IF offer.tools \cap {"function", "custom"} = {} THEN {} ELSE {"function"},
           choice |-> IF offer.choice = "custom" THEN "function" ELSE offer.choice])

\* Only functions have an equivalent.
AnthropicOffer(offer) ==
  Dropped([tools |-> offer.tools \cap {"function"},
           choice |-> IF offer.choice \in {"auto", "function"} THEN offer.choice ELSE "none"])

\* normalizeCodexToolChoice: a choice by name must name a tool that is there.
CodexOffer(offer) ==
  [offer EXCEPT !.choice = IF @ \in ToolKinds /\ @ \notin offer.tools THEN "none" ELSE @]

\* BuildCodexRequest only translates the choice of a function.
ChatToCodexOffer(offer) ==
  CodexOffer([offer EXCEPT !.choice = IF @ \in {"custom", "hosted"} THEN "none" ELSE @])

ClientOffers(entry) ==
  {o \in Offer : /\ o.choice \in ToolKinds => o.choice \in o.tools
                 /\ entry = "anthropic" => o.tools \subseteq {"function"}}

OfferSent(entry, up, offer) ==
  LET pivot == CASE entry = "openai" -> offer
                 [] entry = "anthropic" -> Dropped(offer)
                 [] entry = "responses" -> ResponsesOffer(offer) IN
  CASE up = "openai" -> pivot
    [] up = "anthropic" -> AnthropicOffer(pivot)
    [] up = "responses" -> IF entry = "responses" THEN CodexOffer(offer)
                           ELSE ChatToCodexOffer(pivot)
==============================================================================
