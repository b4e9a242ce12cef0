-------------------------------- MODULE Wire --------------------------------
(***************************************************************************)
(* What travels between upstream, gateway and client: the events of the    *)
(* three protocols, and how a client puts an answer together from them.    *)
(*                                                                         *)
(*   openai     chat/completions chunks                                    *)
(*   anthropic  messages events                                            *)
(*   responses  Responses events                                           *)
(*                                                                         *)
(* An answer is a sequence of parts; a part's data is a sequence of        *)
(* fragments, each a number of its own.  A call of a tool is named by its  *)
(* position in the answer; minus the name is the alias under which a       *)
(* custom tool of a Responses client is known to other upstreams.          *)
(***************************************************************************)
EXTENDS Integers, Sequences, SequencesExt, FiniteSets

Protocols == {"openai", "anthropic", "responses"}

Kinds == {"text", "think", "call", "custom"}
CallKinds == {"call", "custom"}

\* Fragments the gateway adds or the JSON wrapper of a custom tool's raw input has.
Opening == -1    \* {"input":"
Closing == -2    \* "}
ErrorText == -3  \* [Error] ...
Newline == -4

Part(kind, name, data) == [kind |-> kind, name |-> name, data |-> data]

\* Prompt and completion tokens, in two fields because they travel apart.
NoUsage == [prompt |-> 0, completion |-> 0]
Reported == [prompt |-> 1, completion |-> 2]

Larger(a, b) == IF a > b THEN a ELSE b

\* streamPassthrough takes the largest value seen of each field.
MergeUsage(u, v) ==
  [prompt |-> Larger(u.prompt, v.prompt), completion |-> Larger(u.completion, v.completion)]

\* An event of the messages or the Responses protocol; index is the block's or the
\* item's, finish the reason a message_delta gives, output what completed repeats.
Event(type) ==
  [type |-> type, index |-> 0, kind |-> "none", name |-> 0, data |-> <<>>,
   output |-> <<>>, finish |-> "none", usage |-> NoUsage]

\* A chat chunk: choices |-> FALSE is the chunk that carries only usage.
Chunk ==
  [type |-> "chunk", choices |-> TRUE, text |-> <<>>, think |-> <<>>, calls |-> <<>>,
   finish |-> "none", usage |-> NoUsage]

ChunkCall(index, name, args) == [index |-> index, name |-> name, args |-> args]

CallChunk(index, name, args) == [Chunk EXCEPT !.calls = <<ChunkCall(index, name, args)>>]

SayChunk(kind, data) ==
  IF kind = "text" THEN [Chunk EXCEPT !.text = data] ELSE [Chunk EXCEPT !.think = data]

------------------------------------------------------------------------------
(* Custom tools *)

Wrap(data) == <<Opening>> \o data \o <<Closing>>

Wrapped(data) ==
  /\ Len(data) >= 2 /\ Head(data) = Opening /\ Last(data) = Closing
  /\ \A i \in 2..(Len(data) - 1) : data[i] \notin {Opening, Closing}

\* Arguments that are not the wrapper's JSON are taken as they are.
CustomToolInput(data) == IF Wrapped(data) THEN SubSeq(data, 2, Len(data) - 1) ELSE data

------------------------------------------------------------------------------
(* What a sequence of parts says, whatever the protocol that carried it *)

DataOf(parts, kind) ==
  FlattenSeq([i \in DOMAIN SelectSeq(parts, LAMBDA p : p.kind = kind) |->
                SelectSeq(parts, LAMBDA p : p.kind = kind)[i].data])

\* SelectSeq as a fold.
Selected(s, Test(_)) ==
  FoldLeft(LAMBDA some, x : IF Test(x) THEN Append(some, x) ELSE some, <<>>, s)

Calls(parts) == Selected(parts, LAMBDA p : p.kind \in CallKinds)

CallsOf(parts) ==
  LET calls == Calls(parts) IN
  [i \in DOMAIN calls |->
     [name |-> IF calls[i].name < 0 THEN -calls[i].name ELSE calls[i].name,
      args |-> IF calls[i].kind = "custom" THEN calls[i].data
               ELSE CustomToolInput(calls[i].data)]]

Meaning(parts) ==
  [text |-> DataOf(parts, "text"), calls |-> CallsOf(parts),
   think |-> SelectSeq(DataOf(parts, "think"), LAMBDA f : f # Newline)]

------------------------------------------------------------------------------
(* The client: it follows its protocol and notices whatever breaks it *)

\* ended: terminal events seen.
NewClient ==
  [parts |-> <<>>, open |-> {}, started |-> FALSE, finish |-> "none",
   ended |-> 0, bad |-> FALSE]

Complain(cl, wrong) == [cl EXCEPT !.bad = @ \/ wrong]

Extend(cl, i, data) == [cl EXCEPT !.parts[i].data = @ \o data]

Indexes(cl, kinds) == {i \in DOMAIN cl.parts : cl.parts[i].kind \in kinds}

\* Chat: one text, one reasoning and the calls by index, whatever order they come in.
ReadText(cl, kind, data) ==
  IF data = <<>> THEN cl
  ELSE IF Indexes(cl, {kind}) = {}
    THEN [cl EXCEPT !.parts = Append(@, Part(kind, 0, data))]
    ELSE Extend(cl, CHOOSE i \in Indexes(cl, {kind}) : TRUE, data)

ReadCall(cl, c) ==
  LET known == Indexes(cl, {"call"})
      nth == {i \in known : Cardinality({j \in known : j < i}) = c.index} IN
  IF nth # {} THEN Extend(cl, CHOOSE i \in nth : TRUE, c.args)
  ELSE Complain([cl EXCEPT !.parts = Append(@, Part("call", c.name, c.args))],
                c.name = 0 \/ c.index # Cardinality(known))

ReadChunk(cl, c) ==
  LET said == ReadText(ReadText(cl, "text", c.text), "think", c.think)
      called == FoldLeft(ReadCall, said, c.calls)
      speaks == c.text # <<>> \/ c.think # <<>> \/ c.calls # <<>> IN
  IF ~c.choices THEN cl
  ELSE Complain([called EXCEPT !.started = TRUE,
                               !.finish = IF c.finish = "none" THEN @ ELSE c.finish],
                cl.ended > 0 \/ (cl.finish # "none" /\ (speaks \/ c.finish # "none")))

\* Messages: one block open at a time, numbered in order.
ReadMessages(cl, e) ==
  LET n == Len(cl.parts) IN
  CASE e.type = "message_start" ->
         Complain([cl EXCEPT !.started = TRUE], cl.started)
    [] e.type = "block_start" ->
         Complain([cl EXCEPT !.parts = Append(@, Part(e.kind, e.name, e.data)),
                             !.open = {n + 1}],
                  ~cl.started \/ cl.open # {} \/ e.index # n \/ cl.finish # "none")
    [] e.type = "block_delta" ->
         IF e.index + 1 \in cl.open
           THEN Complain(Extend(cl, e.index + 1, e.data),
                         cl.parts[e.index + 1].kind # e.kind)
           ELSE Complain(cl, TRUE)
    [] e.type = "block_stop" ->
         Complain([cl EXCEPT !.open = {}], cl.open # {e.index + 1})
    [] e.type = "message_delta" ->
         Complain([cl EXCEPT !.finish = e.finish], cl.open # {} \/ cl.finish # "none")
    [] e.type = "message_stop" ->
         Complain([cl EXCEPT !.ended = @ + 1], cl.finish = "none")
    [] e.type = "error" -> [cl EXCEPT !.ended = @ + 1]

\* Responses: items by output index, each added, extended and done; what done and
\* completed repeat must be what the deltas said.
ReadResponses(cl, e) ==
  LET i == e.index + 1 IN
  CASE e.type = "created" ->
         Complain([cl EXCEPT !.started = TRUE], cl.started)
    [] e.type = "added" ->
         Complain([cl EXCEPT !.parts = Append(@, Part(e.kind, e.name, <<>>)),
                             !.open = @ \cup {i}],
                  ~cl.started \/ i # Len(cl.parts) + 1)
    [] e.type = "delta" ->
         IF i \in cl.open
           THEN Complain(Extend(cl, i, e.data), cl.parts[i].kind # e.kind)
           ELSE Complain(cl, TRUE)
    [] e.type = "done" ->
         IF i \in cl.open
           THEN Complain([cl EXCEPT !.parts[i].data = e.data, !.open = @ \ {i}],
                         cl.parts[i].data \notin {<<>>, e.data})
           ELSE Complain(cl, TRUE)
    [] e.type = "completed" ->
         Complain([cl EXCEPT !.ended = @ + 1, !.finish = "stop"],
                  cl.open # {} \/ e.output # cl.parts)
    [] e.type = "failed" -> [cl EXCEPT !.ended = @ + 1]

DoneMark == Event("[DONE]")

Read(entry, cl, e) ==
  LET late == Complain(cl, cl.ended > 0) IN
  IF e = DoneMark THEN [late EXCEPT !.ended = @ + 1]
  ELSE CASE entry = "openai"    -> ReadChunk(cl, e)
         [] entry = "anthropic" -> ReadMessages(late, e)
         [] entry = "responses" -> ReadResponses(late, e)

ReadAll(entry, cl, events) == FoldLeft(LAMBDA c, e : Read(entry, c, e), cl, events)
==============================================================================
