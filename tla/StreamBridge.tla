---------------------------- MODULE StreamBridge ----------------------------
(***************************************************************************)
(* The stream bridges (internal/relay/stream_bridge.go, codex.go,          *)
(* responses_tools.go): an upstream's events become chat chunks, chat      *)
(* chunks become the events of the entry protocol.  Answers that are not   *)
(* streamed are collected into a relayAgg and written at once.             *)
(*                                                                         *)
(* Every converter is a function of its own state; r is a state st with    *)
(* what it has written so far, out.                                        *)
(***************************************************************************)
EXTENDS Wire

Write(r, e) == [r EXCEPT !.out = Append(@, e)]

------------------------------------------------------------------------------
(* Upstream anthropic -> chunks: anthropicInState *)

\* blockToTool[n] is the block of the call with chat index n - 1.
NewAnthropicIn == [blockToTool |-> <<>>, finish |-> "stop", sent |-> FALSE, usage |-> NoUsage]

\* The chat index of a block's call; an unknown block belongs to the last one.
ToolOfBlock(st, block) ==
  LET known == {n \in DOMAIN st.blockToTool : st.blockToTool[n] = block} IN
  IF known # {} THEN (CHOOSE n \in known : TRUE) - 1 ELSE Larger(Len(st.blockToTool) - 1, 0)

\* message_stop, error and finalize: the chunk with the finish reason, once.
FinishChat(st, c) ==
  IF st.sent THEN [st |-> st, out |-> <<>>]
  ELSE [st |-> [st EXCEPT !.sent = TRUE],
        out |-> <<[c EXCEPT !.finish = IF c.text = <<ErrorText>> THEN "stop" ELSE st.finish]>>]

FeedAnthropicEvent(st, e) ==
  CASE e.type = "message_start" ->
         [st |-> [st EXCEPT !.usage.prompt = e.usage.prompt], out |-> <<Chunk>>]
    [] e.type = "block_start" /\ e.kind = "call" ->
         [st |-> [st EXCEPT !.blockToTool = Append(@, e.index), !.finish = "tool_calls"],
          out |-> <<CallChunk(Len(st.blockToTool), e.name, <<>>)>>]
    [] e.type = "block_delta" /\ e.kind = "call" ->
         [st |-> st, out |-> <<CallChunk(ToolOfBlock(st, e.index), 0, e.data)>>]
    [] e.type = "block_delta" /\ e.kind # "call" ->
         [st |-> st, out |-> <<SayChunk(e.kind, e.data)>>]
    [] e.type = "message_delta" ->
         [st |-> [st EXCEPT !.finish = e.finish, !.usage.completion = e.usage.completion,
                            !.usage.prompt = IF e.usage.prompt > 0 THEN e.usage.prompt ELSE @],
          out |-> <<>>]
    [] e.type = "message_stop" -> FinishChat(st, Chunk)
    [] e.type = "error" -> FinishChat(st, SayChunk("text", <<ErrorText>>))
    [] OTHER -> [st |-> st, out |-> <<>>]

------------------------------------------------------------------------------
(* Upstream responses -> chunks: codexChunkState, convertCodexEvent *)

\* toolIdxByItem[n] is the item of the call with chat index n - 1.
NewCodexIn ==
  [toolIdxByItem |-> <<>>, argsEmitted |-> {}, custom |-> {}, finish |-> "stop",
   sent |-> FALSE, usage |-> NoUsage]

ToolIndexFor(st, item) ==
  LET known == {n \in DOMAIN st.toolIdxByItem : st.toolIdxByItem[n] = item} IN
  IF known # {} THEN (CHOOSE n \in known : TRUE) - 1 ELSE Larger(Len(st.toolIdxByItem) - 1, 0)

\* Mutant: the complete arguments of done are written although deltas were.
ArgsOfDoneTwice(st, idx, data) == data

\* The arguments written when a call is done: all of them if no delta came before;
\* the wrapper of a custom tool's input is closed in any case.
ArgsOfDone(st, idx, data) ==
  IF idx \in st.custom
    THEN IF idx \in st.argsEmitted THEN <<Closing>> ELSE Wrap(data)
    ELSE IF idx \in st.argsEmitted THEN <<>> ELSE data

CallAdded(st, e) ==
  LET idx == Len(st.toolIdxByItem) IN
  [st |-> [st EXCEPT !.toolIdxByItem = Append(@, e.index), !.finish = "tool_calls",
                     !.custom = IF e.kind = "custom" THEN @ \cup {idx} ELSE @],
   out |-> <<CallChunk(idx, e.name, IF e.kind = "custom" THEN <<Opening>> ELSE <<>>)>>]

CallArgs(st, idx, args) ==
  IF args = <<>> THEN [st |-> st, out |-> <<>>]
  ELSE [st |-> [st EXCEPT !.argsEmitted = @ \cup {idx}], out |-> <<CallChunk(idx, 0, args)>>]

ConvertCodexEvent(st, e) ==
  LET idx == ToolIndexFor(st, e.index) IN
  CASE e.type = "added" /\ e.kind \in CallKinds -> CallAdded(st, e)
    [] e.type = "delta" /\ e.kind \in CallKinds -> CallArgs(st, idx, e.data)
    [] e.type = "delta" /\ e.kind \notin CallKinds ->
         [st |-> st, out |-> <<SayChunk(e.kind, e.data)>>]
    [] e.type = "done" /\ e.kind \in CallKinds -> CallArgs(st, idx, ArgsOfDone(st, idx, e.data))
    [] e.type = "completed" -> FinishChat([st EXCEPT !.usage = e.usage], Chunk)
    [] e.type = "failed" -> FinishChat(st, SayChunk("text", <<ErrorText>>))
    [] OTHER -> [st |-> st, out |-> <<>>]

------------------------------------------------------------------------------
(* Chunks -> messages events: anthropicOutState *)

NewMessagesOut ==
  [started |-> FALSE, blockIndex |-> 0, curKind |-> "none", finish |-> "stop",
   sent |-> FALSE, usage |-> NoUsage]

MessageStart(r) ==
  IF r.st.started THEN r
  ELSE Write([r EXCEPT !.st.started = TRUE],
             [Event("message_start") EXCEPT !.usage.prompt = r.st.usage.prompt])

\* Mutant: a block is left open when the next one starts.
CloseBlockLate(r) == [r EXCEPT !.st.curKind = "none", !.st.blockIndex = @ + 1]

CloseBlock(r) ==
  IF r.st.curKind = "none" THEN r
  ELSE Write([r EXCEPT !.st.curKind = "none", !.st.blockIndex = @ + 1],
             [Event("block_stop") EXCEPT !.index = r.st.blockIndex])

OpenBlock(r, kind, name) ==
  LET q == CloseBlock(r) IN
  Write([q EXCEPT !.st.curKind = kind],
        [Event("block_start") EXCEPT !.index = q.st.blockIndex, !.kind = kind, !.name = name])

\* A delta always goes to the current block.
BlockDelta(r, kind, data) ==
  Write(r, [Event("block_delta") EXCEPT !.index = r.st.blockIndex, !.kind = kind,
                                        !.data = data])

SayInBlock(r, kind, data) ==
  IF data = <<>> THEN r
  ELSE BlockDelta(IF r.st.curKind = kind THEN r ELSE OpenBlock(r, kind, 0), kind, data)

CallInBlock(r, c) ==
  LET q == IF c.name # 0 THEN OpenBlock(r, "call", c.name) ELSE r IN
  IF c.args = <<>> THEN q ELSE BlockDelta(q, "call", c.args)

\* Mutant: the end of the stream does not ask whether the message has been finished.
FinishMessagesAgain(r) ==
  LET q == CloseBlock(MessageStart(r)) IN
  Write(Write(q, [Event("message_delta") EXCEPT !.finish = q.st.finish, !.usage = q.st.usage]),
        Event("message_stop"))

FinishMessages(r) ==
  IF r.st.sent THEN r
  ELSE LET q == CloseBlock(MessageStart([r EXCEPT !.st.sent = TRUE])) IN
       Write(Write(q, [Event("message_delta") EXCEPT !.finish = q.st.finish,
                                                     !.usage = q.st.usage]),
             Event("message_stop"))

\* What both emitters take from a chunk before they look at its delta.
Noted(st, c) ==
  LET counted == IF c.usage = NoUsage THEN st ELSE [st EXCEPT !.usage = c.usage] IN
  IF c.choices /\ c.finish # "none" THEN [counted EXCEPT !.finish = c.finish] ELSE counted

FeedMessages(st, c) ==
  LET r == [st |-> Noted(st, c), out |-> <<>>]
      said == SayInBlock(SayInBlock(MessageStart(r), "text", c.text), "think", c.think)
      called == FoldLeft(CallInBlock, said, c.calls) IN
  IF ~c.choices THEN r ELSE IF c.finish # "none" THEN FinishMessages(called) ELSE called

------------------------------------------------------------------------------
(* Chunks -> Responses events: responsesOutState *)

\* items are in the order of their output index; key is a call's chat index.
NewResponsesOut ==
  [started |-> FALSE, items |-> <<>>, keys |-> <<>>, finish |-> "stop", sent |-> FALSE,
   usage |-> NoUsage]

Created(r) ==
  IF r.st.started THEN r ELSE Write([r EXCEPT !.st.started = TRUE], Event("created"))

ItemOf(st, kind, key) ==
  {i \in DOMAIN st.items : st.items[i].kind = kind /\ st.keys[i] = key}

\* nextItemIndex: the output index is given out when the item is added, and kept.
AddItem(r, kind, key, name) ==
  IF ItemOf(r.st, kind, key) # {} THEN r
  ELSE Write([r EXCEPT !.st.items = Append(@, Part(kind, name, <<>>)),
                       !.st.keys = Append(@, key)],
             [Event("added") EXCEPT !.index = Len(r.st.items), !.kind = kind, !.name = name])

\* Mutant: a delta goes to the item added last.
ItemDeltaLast(r, kind, key, data) ==
  LET i == Len(r.st.items) IN
  IF data = <<>> THEN r
  ELSE Write([r EXCEPT !.st.items[i].data = @ \o data],
             [Event("delta") EXCEPT !.index = i - 1, !.kind = kind, !.data = data])

ItemDelta(r, kind, key, data) ==
  LET i == CHOOSE j \in ItemOf(r.st, kind, key) : TRUE IN
  IF data = <<>> THEN r
  ELSE Write([r EXCEPT !.st.items[i].data = @ \o data],
             [Event("delta") EXCEPT !.index = i - 1, !.kind = kind, !.data = data])

SayInItem(r, kind, data) ==
  IF data = <<>> THEN r ELSE ItemDelta(AddItem(r, kind, 0, 0), kind, 0, data)

CallInItem(r, c) ==
  ItemDelta(AddItem(r, "call", c.index, c.name), "call", c.index, c.args)

\* The items of a kind, in the order they were added.
ItemsDone(r, items, kind) ==
  FoldLeft(LAMBDA q, i : IF items[i].kind # kind THEN q
             ELSE Write(q, [Event("done") EXCEPT !.index = i - 1, !.kind = kind,
                              !.name = items[i].name, !.data = items[i].data]),
           r, [i \in DOMAIN items |-> i])

\* Reasoning, text, then the calls in order; then the whole output by index.
FinishResponses(r) ==
  LET items == r.st.items
      begun == Created([r EXCEPT !.st.sent = TRUE])
      done == ItemsDone(ItemsDone(ItemsDone(begun, items, "think"), items, "text"),
                        items, "call") IN
  IF r.st.sent THEN r
  ELSE Write(done, [Event("completed") EXCEPT !.output = items, !.usage = r.st.usage])

FeedResponses(st, c) ==
  LET r == [st |-> Noted(st, c), out |-> <<>>]
      said == SayInItem(SayInItem(Created(r), "text", c.text), "think", c.think)
      called == FoldLeft(CallInItem, said, c.calls) IN
  IF ~c.choices THEN r ELSE IF c.finish # "none" THEN FinishResponses(called) ELSE called

------------------------------------------------------------------------------
(* The tools of a Responses request, restored: responsesToolBridge *)

\* Mutant: the item gets its tool's name back, its input stays wrapped.
RestoreItemName(p) == IF p.name < 0 THEN [p EXCEPT !.kind = "custom", !.name = -@] ELSE p

RestoreItem(p) ==
  IF p.kind = "call" /\ p.name < 0 THEN Part("custom", -p.name, CustomToolInput(p.data)) ELSE p

\* The input of a custom tool is held back until it can be unwrapped.  items are the
\* emitter's: its identity was noted under the item's id when it was added.
ToolEvents(items, e) ==
  LET custom == e.index + 1 \in DOMAIN items /\ items[e.index + 1].name < 0
      p == RestoreItem(items[e.index + 1]) IN
  CASE e.type = "added" /\ custom -> <<[e EXCEPT !.kind = p.kind, !.name = p.name]>>
    [] e.type = "delta" /\ custom -> <<>>
    [] e.type = "done" /\ custom ->
         <<[e EXCEPT !.type = "delta", !.kind = p.kind, !.data = p.data],
           [e EXCEPT !.kind = p.kind, !.name = p.name, !.data = p.data]>>
    [] e.type = "completed" ->
         <<[e EXCEPT !.output = [i \in DOMAIN @ |-> RestoreItem(@[i])]]>>
    [] OTHER -> <<e>>

------------------------------------------------------------------------------
(* Not streamed: relayAgg *)

\* pending: the calls added and not done yet, by item.
NewAgg ==
  [text |-> <<>>, think |-> <<>>, calls |-> <<>>, pending |-> <<>>, err |-> FALSE,
   usage |-> NoUsage]

Unclaimed(agg, item) == Selected(agg.pending, LAMBDA p : p.item # item)
Claimed(agg, item) == Selected(agg.pending, LAMBDA p : p.item = item)

ApplyCodexEvent(agg, e) ==
  LET mine == Claimed(agg, e.index) IN
  CASE e.type = "delta" /\ e.kind = "text" -> [agg EXCEPT !.text = @ \o e.data]
    [] e.type = "delta" /\ e.kind = "think" ->
         [agg EXCEPT !.think = IF @ = <<>> THEN e.data ELSE @ \o <<Newline>> \o e.data]
    [] e.type = "added" /\ e.kind \in CallKinds ->
         [agg EXCEPT !.pending =
            Append(@, [item |-> e.index, part |-> Part(e.kind, e.name, <<>>)])]
    [] e.type = "delta" /\ e.kind \in CallKinds ->
         [agg EXCEPT !.pending = [i \in DOMAIN @ |->
            IF @[i].item = e.index THEN [@[i] EXCEPT !.part.data = @ \o e.data] ELSE @[i]]]
    [] e.type = "done" /\ e.kind \in CallKinds ->
         LET data == IF mine = <<>> \/ mine[1].part.data = <<>> THEN e.data
                     ELSE mine[1].part.data IN
         [agg EXCEPT !.pending = Unclaimed(agg, e.index),
                     !.calls = Append(@, Part(e.kind, e.name, data))]
    [] e.type = "completed" ->
         [agg EXCEPT !.calls = @ \o [i \in DOMAIN agg.pending |-> agg.pending[i].part],
                     !.pending = <<>>, !.usage = e.usage]
    [] e.type = "failed" -> [agg EXCEPT !.err = TRUE]
    [] OTHER -> agg

\* A complete body, its parts as sent; no parts is a body with an error.
OpenAIJSONToAgg(parts) ==
  [NewAgg EXCEPT !.text = DataOf(parts, "text"),
                 !.think = DataOf(parts, "think"),
                 !.calls = Calls(parts),
                 !.usage = Reported]

AnthropicJSONToAgg(parts) ==
  [OpenAIJSONToAgg(parts) EXCEPT
     !.think = FoldLeft(LAMBDA t, p : IF t = <<>> THEN p.data ELSE t \o <<Newline>> \o p.data,
                        <<>>, SelectSeq(parts, LAMBDA p : p.kind = "think"))]

\* A failed answer that has said nothing is an error; any other is delivered.
AggFailed(agg) == agg.err /\ agg.text = <<>> /\ agg.calls = <<>>

Said(kind, data) == IF data = <<>> THEN <<>> ELSE <<Part(kind, 0, data)>>

WriteChatCompletionJSON(agg) ==
  Said("text", agg.text) \o Said("think", agg.think)
    \o [i \in DOMAIN agg.calls |->
          IF agg.calls[i].kind = "custom"
            THEN Part("call", agg.calls[i].name, Wrap(agg.calls[i].data))
            ELSE agg.calls[i]]

\* Never without content.
WriteAnthropicMessageJSON(agg) ==
  LET content == Said("think", agg.think) \o Said("text", agg.text) \o agg.calls IN
  IF content = <<>> THEN <<Part("text", 0, <<>>)>> ELSE content

\* A message item, empty too, unless there are calls.
WriteResponsesJSON(agg) ==
  Said("think", agg.think)
    \o (IF agg.calls = <<>> THEN <<Part("text", 0, agg.text)>> ELSE Said("text", agg.text))
    \o [i \in DOMAIN agg.calls |-> RestoreItem(agg.calls[i])]

WriteEntryJSON(entry, agg) ==
  CASE entry = "openai" -> WriteChatCompletionJSON(agg)
    [] entry = "anthropic" -> WriteAnthropicMessageJSON(agg)
    [] entry = "responses" -> WriteResponsesJSON(agg)
==============================================================================
