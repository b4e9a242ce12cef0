------------------------- MODULE ExchangeLegal_proofs -------------------------
(***************************************************************************)
(* Every answer the gateway writes is legal for its client's wire protocol *)
(* (LegalStream of module Exchange), for every number and size of turns.   *)
(*                                                                         *)
(* The argument follows the events.  First, what one event does to the     *)
(* reader of each protocol.  Then, an emitter and its client go together:  *)
(* from what the emitter remembers follows what the client has open and    *)
(* has heard.  Then, a converter knows the calls: the numbers it gave to   *)
(* the parts of the answer are those the client was told.  Last, the       *)
(* stream of a turn is said to its end, or is on its way in the pipe, with *)
(* a client that stands where the converter thinks it stands (Sayings).    *)
(*                                                                         *)
(* One hypothesis on the constants: the upstream that answers a messages   *)
(* client has one part under way at a time (Overlap leaves "anthropic"     *)
(* out).  The emitter for it writes arguments to the block it is in, not   *)
(* to the block of their call (stream_bridge.go:201), so without it the    *)
(* statement is false.                                                     *)
(***************************************************************************)
EXTENDS Exchange_proofs

IsItem(x) ==
  /\ IsPart(x) /\ x.kind \in {"text", "think", "call"} /\ x.name \in Int
  /\ x.kind # "call" => x.name = 0
  /\ Listed(x.data)

\* An item under way as its client knows it: nothing yet of a custom tool's input.
Begun(x) == IF x.name < 0 THEN Part("custom", -x.name, <<>>) ELSE x

\* A Responses client and the emitter that writes to it: the items are the same.
InItems(st, cl) ==
  /\ Listening(cl)
  /\ (st.started = FALSE /\ cl.started = FALSE) \/ (st.started = TRUE /\ cl.started = TRUE)
  /\ Listed(st.items) /\ Listed(st.keys) /\ Len(st.keys) = Len(st.items)
  /\ Listed(cl.parts) /\ Len(cl.parts) = Len(st.items) /\ cl.open = DOMAIN st.items
  /\ \A i \in DOMAIN st.items : IsItem(st.items[i]) /\ cl.parts[i] = Begun(st.items[i])

Heard(p, n) ==
  CASE p.entry = "openai" -> ChatHeard(p.client, n)
    [] p.entry = "anthropic" -> InBlocks(p.out, p.client) /\ p.out.sent = FALSE /\ n \in Nat
    [] p.entry = "responses" -> InItems(p.out, p.client) /\ p.out.sent = FALSE /\ n \in Nat

\* The block the emitter is in is a call's.
Calling(p) == p.entry = "anthropic" => p.out.curKind = "call"

\* A client that gets what the upstream sends has the parts it has sent.
Repeated(u, cl, s) ==
  /\ Listening(cl) /\ cl.started = TRUE
  /\ Listed(cl.parts) /\ Len(cl.parts) = Len(s)
  /\ cl.open = {i \in DOMAIN s : s[i].open = TRUE}
  /\ u = "anthropic" =>
       cl.finish = "none"
         /\ \A i \in DOMAIN s : IsPart(cl.parts[i]) /\ cl.parts[i].kind = s[i].kind
  /\ u = "responses" =>
       \A i \in DOMAIN s : cl.parts[i] = Part(s[i].kind, s[i].name, s[i].data)

CallsSaid(s) == {j \in DOMAIN s : s[j].kind \in CallKinds}

NCalls(s) == Cardinality(CallsSaid(s))

CallUnderWay(s) == \E i \in CallsSaid(s) : s[i].open = TRUE

\* A converter that knows n calls and has not sent the end.
KnowsBlocks(st, n) ==
  /\ st.sent = FALSE /\ st.finish # "none"
  /\ Listed(st.blockToTool) /\ Len(st.blockToTool) = n

KnowsItems(st, n) ==
  /\ st.sent = FALSE /\ st.finish # "none"
  /\ Listed(st.toolIdxByItem) /\ Len(st.toolIdxByItem) = n

Knows(p, n) ==
  /\ p.up = "anthropic" => KnowsBlocks(p.in, n)
  /\ p.up = "responses" => KnowsItems(p.in, n)

Relayed(p) == p.entry = p.up /\ p.up # "openai"

\* A stream under way whose upstream has sent s.
Talk(p, s) ==
  /\ Relayed(p) => Repeated(p.up, p.client, s)
  /\ ~Relayed(p) => /\ Heard(p, NCalls(s)) /\ Knows(p, NCalls(s))
                    /\ CallUnderWay(s) => Calling(p)

\* A stream whose upstream has ended it: the end is with the client, or comes with [DONE].
Through(p) ==
  /\ p.client.bad = FALSE
  /\ p.entry # p.up => IF p.entry = "openai" THEN p.in.sent = TRUE ELSE p.out.sent = TRUE

IsSaid(x) ==
  /\ x = [kind |-> x.kind, name |-> x.name, data |-> x.data, open |-> x.open]
  /\ x.kind \in Kinds /\ x.name \in Int /\ (x.kind \in CallKinds => x.name # 0)
  /\ Listed(x.data) /\ (x.open = TRUE \/ x.open = FALSE)

\* What the upstream has said: parts one at a time for a messages client or upstream.
Sayings(p, s) ==
  /\ Listed(s) /\ IsFiniteSet(DOMAIN s)
  /\ \A i \in DOMAIN s :
       /\ IsSaid(s[i])
       /\ s[i].kind = "custom" =>
            p.entry = "responses" \/ (p.entry = "openai" /\ p.up = "responses")
  /\ "anthropic" \in {p.entry, p.up} =>
       \A i, j \in DOMAIN s : s[i].open = TRUE /\ s[j].open = TRUE => i = j

\* What the client has seen is legal, and what it will see when the events held back
\* are passed on.
LegalSoFar ==
  /\ pipe.client.bad = FALSE
  /\ InFlight /\ pipe.stream =>
       IF stopped = "no" THEN Talk(HandleAll(pipe, held), said)
       ELSE Through(HandleAll(pipe, held))

------------------------------------------------------------------------------
(* The tools restored, event by event *)

\* A sequence is the function of its elements.
LEMMA ListedFunction ==
  ASSUME NEW s, Listed(s)
  PROVE  s = [i \in 1..Len(s) |-> s[i]]
<1>1. PICK X : s \in Seq(X)
  BY DEF Listed
<1> QED
  BY <1>1

\* What the lists of events are that Restored joins.
Lists(X, out) == [i \in DOMAIN out |-> ToolEvents(X, out[i])]

\* There is a list for each event written, and it is what the event is restored to.
LEMMA ListsAre ==
  ASSUME NEW X, NEW out, Listed(out)
  PROVE  /\ Listed(Lists(X, out)) /\ Len(Lists(X, out)) = Len(out)
         /\ DOMAIN Lists(X, out) = 1..Len(out) /\ Len(out) \in Nat
         /\ \A i \in 1..Len(out) : Lists(X, out)[i] = ToolEvents(X, out[i])
<1>1. Len(out) \in Nat /\ DOMAIN out = 1..Len(out)
  BY ListedIs
<1> DEFINE T(i) == ToolEvents(X, out[i])
           Y == {T(i) : i \in 1..Len(out)}
           s == [i \in 1..Len(out) |-> T(i)]
<1>2. Lists(X, out) = s
  BY <1>1 DEF Lists
<1> HIDE DEF T
<1>3. s \in Seq(Y) /\ Len(s) = Len(out)
  BY <1>1
<1> QED
  BY <1>1, <1>2, <1>3 DEF Listed, T

\* Joining as far as the sequences agree.
LEMMA GluedAgree ==
  ASSUME NEW s, NEW t, NEW v, NEW w, Glued(s, v), Glued(t, w), NEW m \in Nat, m # 0,
         Len(s) \in Nat, Len(t) \in Nat, m <= Len(s), m <= Len(t),
         \A i \in 1..m : s[i] = t[i]
  PROVE  v[m] = w[m]
<1> DEFINE I == {i \in 0..m : i = 0 \/ v[i] = w[i]}
           n == Len(s)
           k == Len(t)
<1>1. /\ v[1] = s[1] /\ \A i \in 2..n : v[i] = v[i - 1] \o s[i]
      /\ w[1] = t[1] /\ \A i \in 2..k : w[i] = w[i - 1] \o t[i]
  BY DEF Glued
<1>2. n \in Nat /\ k \in Nat /\ m <= n /\ m <= k
  OBVIOUS
<1> HIDE DEF n, k
<1>3. 0 \in I
  OBVIOUS
<1>4. ASSUME NEW i \in 1..m, i - 1 \in I PROVE i \in I
  <2>1. CASE i = 1
    BY <1>1, <2>1
  <2>2. CASE i # 1
    <3>1. i \in 2..n /\ i \in 2..k
      BY <1>2, <2>2
    <3>2. v[i] = v[i - 1] \o s[i] /\ w[i] = w[i - 1] \o t[i]
      BY <1>1, <3>1
    <3>3. v[i - 1] = w[i - 1] /\ s[i] = t[i]
      BY <1>4, <2>2
    <3>4. v[i] = w[i]
      BY <3>2, <3>3
    <3> QED
      BY <3>4
  <2> QED
    BY <2>1, <2>2
<1> HIDE DEF I
<1>5. m \in I
  BY <1>3, <1>4, Climb
<1> QED
  BY <1>5 DEF I

\* One event more is restored after the others.
LEMMA RestoredMore ==
  ASSUME NEW X, NEW out, Listed(out), NEW e, Listed(ToolEvents(X, e))
  PROVE  Restored(X, Append(out, e)) = Restored(X, out) \o ToolEvents(X, e)
<1> DEFINE s == Lists(X, out)
           t == Lists(X, Append(out, e))
           n == Len(out)
           x == ToolEvents(X, e)
<1>1. /\ Listed(Append(out, e)) /\ Len(Append(out, e)) = n + 1
      /\ Append(out, e)[n + 1] = e /\ \A i \in DOMAIN out : Append(out, e)[i] = out[i]
  BY Appended
<1>2. n \in Nat /\ DOMAIN out = 1..n
  BY ListedIs
<1>3. Listed(s) /\ Len(s) = n /\ \A i \in 1..n : s[i] = ToolEvents(X, out[i])
  BY ListsAre
<1>4. Listed(t) /\ Len(t) = n + 1 /\ \A i \in 1..(n + 1) : t[i] = ToolEvents(X, Append(out, e)[i])
  <2> DEFINE o == Append(out, e)
  <2>1. Listed(o) /\ Len(o) = n + 1
    BY <1>1
  <2> HIDE DEF o
  <2>2. /\ Listed(Lists(X, o)) /\ Len(Lists(X, o)) = Len(o)
        /\ \A i \in 1..Len(o) : Lists(X, o)[i] = ToolEvents(X, o[i])
    BY <2>1, ListsAre
  <2> QED
    BY <2>1, <2>2 DEF o
<1>5. Restored(X, out) = FlattenSeq(s) /\ Restored(X, Append(out, e)) = FlattenSeq(t)
  BY DEF Restored, Lists
<1>6. t[n + 1] = x /\ \A i \in 1..n : s[i] = t[i]
  BY <1>1, <1>2, <1>3, <1>4
<1>7. DOMAIN s = 1..n /\ DOMAIN t = 1..(n + 1)
  BY <1>3, <1>4, ListedIs
<1> HIDE DEF s, t, x, n
<1>8. t # <<>>
  BY <1>2, <1>7
<1>9. PICK w : Glued(t, w)
  BY <1>4, <1>8, Glues
<1>10. w[1] = t[1] /\ (\A i \in 2..(n + 1) : w[i] = w[i - 1] \o t[i]) /\ FlattenSeq(t) = w[n + 1]
  BY <1>4, <1>9 DEF Glued
<1>11. CASE n = 0
  <2>1. FlattenSeq(s) = <<>>
    <3>1. s = <<>>
      <4>1. PICK Y : s \in Seq(Y)
        BY <1>3 DEF Listed
      <4> QED
        BY <1>3, <1>11, <4>1
    <3> QED
      BY <1>3, <1>11, <3>1 DEF FlattenSeq
  <2>2. FlattenSeq(t) = x
    BY <1>6, <1>10, <1>11
  <2>3. <<>> \o x = x
    <3>1. PICK Y : x \in Seq(Y)
      BY DEF Listed, x
    <3> QED
      BY <3>1
  <2> QED
    BY <1>5, <2>1, <2>2, <2>3 DEF x
<1>12. CASE n # 0
  <2>1. s # <<>>
    BY <1>2, <1>3, <1>12
  <2>2. PICK v : Glued(s, v)
    BY <1>3, <2>1, Glues
  <2>3. FlattenSeq(s) = v[n]
    BY <1>3, <2>2 DEF Glued
  <2>4. v[n] = w[n]
    BY <1>2, <1>3, <1>4, <1>6, <1>9, <1>12, <2>2, GluedAgree
  <2>5. n + 1 \in 2..(n + 1) /\ (n + 1) - 1 = n
    BY <1>2, <1>12
  <2>6. w[n + 1] = w[n] \o x
    BY <1>6, <1>10, <2>5
  <2> QED
    BY <1>5, <1>10, <2>3, <2>4, <2>6 DEF x
<1> QED
  BY <1>11, <1>12

\* The client, when it has read what the emitter has written so far, restored with X.
Restoring(X, cl, r) == Fold("read", "responses", cl, Restored(X, r.out))

\* What is written is restored and read next.
LEMMA RestoringNext ==
  ASSUME NEW X, NEW cl, NEW sent, NEW r, Adding(r, sent), NEW e
  PROVE  /\ ToolEvents(X, e) = <<>> => Restoring(X, cl, Write(r, e)) = Restoring(X, cl, r)
         /\ \A a : ToolEvents(X, e) = <<a>> =>
              Restoring(X, cl, Write(r, e)) = Read("responses", Restoring(X, cl, r), a)
         /\ \A a, b : ToolEvents(X, e) = <<a, b>> =>
              Restoring(X, cl, Write(r, e))
                = Read("responses", Read("responses", Restoring(X, cl, r), a), b)
         /\ Write(r, e).st = r.st
<1> DEFINE s == Restored(X, r.out)
           x == ToolEvents(X, e)
<1>1. Write(r, e) = [st |-> r.st, out |-> Append(r.out, e)] /\ Quiet("responses", r.out)
  BY DEF Write, Adding
<1>2. Listed(r.out) /\ Listed(s)
  BY <1>1, RestoredQuiet DEF Quiet
<1>3. Listed(x) => Restored(X, Write(r, e).out) = s \o x
  BY <1>1, <1>2, RestoredMore
<1>4. PICK Y : s \in Seq(Y)
  BY <1>2 DEF Listed
<1> HIDE DEF s
<1>5. ASSUME NEW a
      PROVE  Fold("read", "responses", cl, Append(s, a))
               = Read("responses", Fold("read", "responses", cl, s), a)
  <2>1. Fold("read", "responses", cl, Append(s, a))
          = Applied("read", "responses", Fold("read", "responses", cl, s), a)
    BY <1>4, FoldMore
  <2> QED
    BY <2>1 DEF Applied
<1>6. ASSUME x = <<>> PROVE Restoring(X, cl, Write(r, e)) = Restoring(X, cl, r)
  <2>1. s \o <<>> = s /\ Listed(<<>>)
    BY <1>4, ListedIs
  <2> QED
    BY <1>3, <1>6, <2>1 DEF Restoring, s
<1>7. ASSUME NEW a, x = <<a>>
      PROVE  Restoring(X, cl, Write(r, e)) = Read("responses", Restoring(X, cl, r), a)
  <2>1. s \o <<a>> = Append(s, a) /\ Listed(<<a>>)
    BY <1>4, ListedIs
  <2>2. Restored(X, Write(r, e).out) = Append(s, a)
    BY <1>3, <1>7, <2>1
  <2> QED
    BY <1>5, <2>2 DEF Restoring, s
<1>8. ASSUME NEW a, NEW b, x = <<a, b>>
      PROVE  Restoring(X, cl, Write(r, e))
               = Read("responses", Read("responses", Restoring(X, cl, r), a), b)
  <2> DEFINE u == Append(s, a)
  <2>1. s \o <<a, b>> = Append(u, b)
    BY <1>4
  <2>2. Listed(<<a, b>>)
    <3>1. <<a, b>> \in Seq({a, b})
      OBVIOUS
    <3> QED
      BY <3>1 DEF Listed
  <2>3. u \in Seq(Y \cup {a})
    BY <1>4
  <2> HIDE DEF u
  <2>4. Restored(X, Write(r, e).out) = Append(u, b)
    BY <1>3, <1>8, <2>1, <2>2
  <2>5. Fold("read", "responses", cl, Append(u, b))
          = Applied("read", "responses", Fold("read", "responses", cl, u), b)
    BY <2>3, FoldMore
  <2>6. Fold("read", "responses", cl, u) = Read("responses", Fold("read", "responses", cl, s), a)
    BY <1>5 DEF u
  <2>7. Applied("read", "responses", Fold("read", "responses", cl, u), b)
          = Read("responses", Fold("read", "responses", cl, u), b)
    BY DEF Applied
  <2> QED
    BY <2>4, <2>5, <2>6, <2>7 DEF Restoring, s
<1>9. Write(r, e).st = r.st
  BY <1>1
<1> HIDE DEF x
<1>10. \A a : x = <<a>> =>
         Restoring(X, cl, Write(r, e)) = Read("responses", Restoring(X, cl, r), a)
  BY <1>7
<1>11. \A a, b : x = <<a, b>> =>
         Restoring(X, cl, Write(r, e))
           = Read("responses", Read("responses", Restoring(X, cl, r), a), b)
  BY <1>8
<1> QED
  BY <1>6, <1>9, <1>10, <1>11 DEF x

------------------------------------------------------------------------------
(* What a Responses client makes of an event that fits *)

\* The response begins,
LEMMA ReadCreated ==
  ASSUME NEW cl, Client(cl), Listening(cl), NEW e, e.type = "created", cl.started = FALSE
  PROVE  Became(Read("responses", cl, e), cl.parts, cl.open, TRUE, cl.finish)
<1>1. Read("responses", cl, e) = Complain([cl EXCEPT !.started = TRUE], cl.started)
  BY ReadsOn DEF ReadResponses
<1>2. Became([cl EXCEPT !.started = TRUE], cl.parts, cl.open, TRUE, cl.finish)
  BY BecameIs
<1> QED
  BY <1>1, <1>2, BecameSo

\* an item is added,
LEMMA ReadAdded ==
  ASSUME NEW cl, Client(cl), Listening(cl), NEW e, e.type = "added",
         cl.started = TRUE, NEW n \in Nat, Len(cl.parts) = n, e.index = n
  PROVE  Became(Read("responses", cl, e), Append(cl.parts, Part(e.kind, e.name, <<>>)),
                cl.open \cup {n + 1}, TRUE, cl.finish)
<1> DEFINE v == Append(cl.parts, Part(e.kind, e.name, <<>>))
           o == cl.open \cup {n + 1}
           d == [cl EXCEPT !.parts = v, !.open = o]
           w == ~cl.started \/ e.index + 1 # Len(cl.parts) + 1
<1>1. Read("responses", cl, e) = Complain(d, w)
  <2>1. Read("responses", cl, e) = ReadResponses(cl, e)
    BY ReadsOn
  <2>2. ReadResponses(cl, e) = Complain([cl EXCEPT !.parts = v, !.open = o], w)
    BY DEF ReadResponses
  <2> QED
    BY <2>1, <2>2
<1>2. Became(d, v, o, cl.started, cl.finish)
  BY BecamePairs, Appended DEF Client
<1>3. ~w
  OBVIOUS
<1> HIDE DEF d, w, o, v
<1>4. Became(Read("responses", cl, e), v, o, cl.started, cl.finish)
  BY <1>1, <1>2, <1>3, BecameSo
<1> QED
  BY <1>4 DEF v, o

\* goes on
LEMMA ReadItemDelta ==
  ASSUME NEW cl, Client(cl), Listening(cl), NEW e, e.type = "delta", NEW i, e.index + 1 = i,
         i \in cl.open, cl.parts[i].kind = e.kind
  PROVE  Became(Read("responses", cl, e), More(cl.parts, i, e.data), cl.open, cl.started,
                cl.finish)
<1> DEFINE d == Extend(cl, i, e.data)
           w == cl.parts[i].kind # e.kind
<1>1. Read("responses", cl, e) = Complain(d, w)
  BY ReadsOn DEF ReadResponses
<1>2. Became(d, More(cl.parts, i, e.data), cl.open, cl.started, cl.finish)
  BY ExtendBecame
<1>3. ~w
  OBVIOUS
<1> HIDE DEF d, w
<1> QED
  BY <1>1, <1>2, <1>3, BecameSo

\* and is done with what its deltas said,
LEMMA ReadItemDone ==
  ASSUME NEW cl, Client(cl), Listening(cl), NEW e, e.type = "done", NEW i, e.index + 1 = i,
         i \in cl.open, cl.parts[i].data \in {<<>>, e.data}
  PROVE  Became(Read("responses", cl, e), [cl.parts EXCEPT ![i].data = e.data],
                cl.open \ {i}, cl.started, cl.finish)
<1> DEFINE v == [cl.parts EXCEPT ![i].data = e.data]
           o == cl.open \ {i}
           d == [cl EXCEPT !.parts = v, !.open = o]
           w == cl.parts[i].data \notin {<<>>, e.data}
<1>1. Read("responses", cl, e) = Complain(d, w)
  <2>1. Read("responses", cl, e) = ReadResponses(cl, e)
    BY ReadsOn
  <2>2. ReadResponses(cl, e) = Complain([cl EXCEPT !.parts = v, !.open = o], w)
    BY DEF ReadResponses
  <2> QED
    BY <2>1, <2>2
<1>2. Became(d, v, o, cl.started, cl.finish)
  BY BecamePairs, ListedChanged DEF Client
<1>3. ~w
  OBVIOUS
<1> HIDE DEF d, w, v, o
<1>4. Became(Read("responses", cl, e), v, o, cl.started, cl.finish)
  BY <1>1, <1>2, <1>3, BecameSo
<1> QED
  BY <1>4 DEF v, o

\* the response is completed with all of it, or fails.
LEMMA ReadCompleted ==
  ASSUME NEW cl, Client(cl), Listening(cl), NEW e,
         (e.type = "completed" /\ cl.open = {} /\ e.output = cl.parts) \/ e.type = "failed"
  PROVE  Content(Read("responses", cl, e))
<1>1. Read("responses", cl, e) = ReadResponses(cl, e)
  BY ReadsOn
<1>2. CASE e.type = "completed" /\ cl.open = {} /\ e.output = cl.parts
  <2> DEFINE a == [cl EXCEPT !.ended = @ + 1]
             d == [cl EXCEPT !.ended = @ + 1, !.finish = "stop"]
             w == cl.open # {} \/ e.output # cl.parts
  <2>1. ReadResponses(cl, e) = Complain(d, w)
    BY <1>2 DEF ReadResponses
  <2>2. d = [a EXCEPT !.finish = "stop"]
    OBVIOUS
  <2>3. Client(a) /\ a.bad = FALSE
    <3>1. a.bad = FALSE
      BY DEF Listening, Client
    <3> QED
      BY <3>1, EndedMore
  <2>4. Client(d)
    BY EndedMore
  <2> HIDE DEF a
  <2>5. d.bad = FALSE
    BY <2>2, <2>3 DEF Client
  <2>6. ~w
    BY <1>2
  <2> HIDE DEF d, w
  <2>7. Complain(d, w) = d
    BY <2>4, <2>5, <2>6, NoComplaint
  <2> QED
    BY <1>1, <2>1, <2>4, <2>5, <2>7 DEF Content
<1>3. CASE e.type = "failed"
  <2> DEFINE d == [cl EXCEPT !.ended = @ + 1]
  <2>1. ReadResponses(cl, e) = d
    BY <1>3 DEF ReadResponses
  <2>2. d.bad = FALSE
    BY DEF Listening, Client
  <2>3. Client(d)
    BY EndedMore
  <2> QED
    BY <1>1, <2>1, <2>2, <2>3 DEF Content
<1> QED
  BY <1>2, <1>3

------------------------------------------------------------------------------
(* The Responses emitter and its client *)

\* X knows the items: what they are and what they are called.
Knowing(X, items) ==
  \A i \in DOMAIN items :
    i \in DOMAIN X /\ X[i].name = items[i].name /\ X[i].kind = items[i].kind

Follows(cl, r) ==
  \A X : Knowing(X, r.st.items) => InItems(r.st, Restoring(X, cl, r))

\* A response that is being written, its client following.
Adds(cl, sent, r) == Adding(r, sent) /\ Follows(cl, r) /\ r.st.started = TRUE

ItemState(r, q, started, items, keys) ==
  q.out = r.out /\ q.st.started = started /\ q.st.items = items /\ q.st.keys = keys

\* The emitter's state with one of its fields changed.
LEMMA ItemEmitterState ==
  ASSUME NEW sent, NEW r, Adding(r, sent)
  PROVE  \A v : /\ ItemState(r, [r EXCEPT !.st.started = v], v, r.st.items, r.st.keys)
                /\ ItemState(r, [r EXCEPT !.st.items = v], r.st.started, v, r.st.keys)
                /\ ItemState(r, [r EXCEPT !.st.keys = v], r.st.started, r.st.items, v)
                /\ ItemState(r, [r EXCEPT !.st.sent = v], r.st.started, r.st.items, r.st.keys)
<1> TAKE v
<1>1. r = [st |-> r.st, out |-> r.out]
  BY DEF Adding
<1>2. r.st = [started |-> r.st.started, items |-> r.st.items, keys |-> r.st.keys,
              finish |-> r.st.finish, sent |-> r.st.sent, usage |-> r.st.usage]
  BY DEF Adding, ResponsesOut
<1>3. ItemState(r, [r EXCEPT !.st.started = v], v, r.st.items, r.st.keys)
  <2>1. [r EXCEPT !.st.started = v] = [st |-> [r.st EXCEPT !.started = v], out |-> r.out]
    BY <1>1
  <2> QED
    BY <1>2, <2>1 DEF ItemState
<1>4. ItemState(r, [r EXCEPT !.st.items = v], r.st.started, v, r.st.keys)
  <2>1. [r EXCEPT !.st.items = v] = [st |-> [r.st EXCEPT !.items = v], out |-> r.out]
    BY <1>1
  <2> QED
    BY <1>2, <2>1 DEF ItemState
<1>5. ItemState(r, [r EXCEPT !.st.keys = v], r.st.started, r.st.items, v)
  <2>1. [r EXCEPT !.st.keys = v] = [st |-> [r.st EXCEPT !.keys = v], out |-> r.out]
    BY <1>1
  <2> QED
    BY <1>2, <2>1 DEF ItemState
<1>6. ItemState(r, [r EXCEPT !.st.sent = v], r.st.started, r.st.items, r.st.keys)
  <2>1. [r EXCEPT !.st.sent = v] = [st |-> [r.st EXCEPT !.sent = v], out |-> r.out]
    BY <1>1
  <2> QED
    BY <1>2, <2>1 DEF ItemState
<1> QED
  BY <1>3, <1>4, <1>5, <1>6

\* A client that follows is one that goes on.
LEMMA RestoringClient ==
  ASSUME NEW cl, Client(cl), NEW sent, NEW r, Adding(r, sent), NEW X
  PROVE  Client(Restoring(X, cl, r))
<1>1. Quiet("responses", Restored(X, r.out))
  BY RestoredQuiet DEF Adding
<1> QED
  BY <1>1, ReadQuiet DEF Restoring, Same

\* The response begins once.
LEMMA ItemsStart ==
  ASSUME NEW cl, Client(cl), NEW sent, NEW r, Adding(r, sent), Follows(cl, r)
  PROVE  Adds(cl, sent, Created(r)) /\ Created(r).st.items = r.st.items
<1> DEFINE q == [r EXCEPT !.st.started = TRUE]
           e == Event("created")
<1>1. Adding(Created(r), sent)
  BY ResponsesSteps
<1>2. CASE r.st.started = TRUE
  BY <1>1, <1>2 DEF Created, Adds
<1>3. CASE r.st.started # TRUE
  <2>1. Adding(q, sent)
    BY AddingState
  <2>2. ItemState(r, q, TRUE, r.st.items, r.st.keys)
    BY ItemEmitterState
  <2>3. e.type = "created"
    BY Marks
  <2>4. \A X : ToolEvents(X, e) = <<e>>
    BY <2>3 DEF ToolEvents
  <2>5. r.st.started = FALSE => Created(r) = Write(q, e)
    BY DEF Created
  <2> HIDE DEF q, e
  <2>6. Write(q, e).st = q.st
    BY <2>1, RestoringNext
  <2>7. ASSUME NEW X, Knowing(X, r.st.items)
        PROVE  InItems(q.st, Restoring(X, cl, Write(q, e))) /\ r.st.started = FALSE
    <3> DEFINE d == Restoring(X, cl, r)
    <3>1. InItems(r.st, d)
      BY <2>7 DEF Follows
    <3>2. Client(d)
      BY RestoringClient
    <3>3. r.st.started = FALSE /\ d.started = FALSE /\ Listening(d)
      BY <1>3, <3>1 DEF InItems
    <3>4. Restoring(X, cl, Write(q, e)) = Read("responses", Restoring(X, cl, q), e)
      BY <2>1, <2>4, RestoringNext
    <3>5. Restoring(X, cl, q) = d
      BY <2>2 DEF Restoring, ItemState
    <3> HIDE DEF d
    <3>6. Became(Read("responses", d, e), d.parts, d.open, TRUE, d.finish)
      BY <2>3, <3>2, <3>3, ReadCreated
    <3> QED
      BY <2>2, <3>1, <3>3, <3>4, <3>5, <3>6 DEF InItems, ItemState, Became
  <2>8. r.st.started = FALSE
    <3>1. Knowing(r.st.items, r.st.items)
      BY DEF Knowing
    <3> QED
      BY <2>7, <3>1
  <2>9. Follows(cl, Write(q, e))
    BY <2>2, <2>6, <2>7 DEF Follows, ItemState
  <2> QED
    BY <1>1, <2>2, <2>5, <2>6, <2>8, <2>9 DEF Adds, ItemState
<1> QED
  BY <1>2, <1>3

\* An item that is added, as the client is told of it.
LEMMA ToolAdded ==
  ASSUME NEW X, NEW e, IsEvent(e), e.type = "added", e.name \in Int,
         e.name < 0 => e.kind = "call", NEW i, e.index + 1 = i,
         i \in DOMAIN X, X[i].name = e.name, X[i].kind = e.kind
  PROVE  \E d : /\ ToolEvents(X, e) = <<d>> /\ d.type = "added" /\ d.index = e.index
                /\ Part(d.kind, d.name, <<>>) = Begun(Part(e.kind, e.name, <<>>))
<1>1. CASE e.name < 0
  <2> DEFINE p == RestoreItem(X[i])
             a == [e EXCEPT !.kind = p.kind]
             d == [e EXCEPT !.kind = p.kind, !.name = p.name]
  <2>1. p.kind = "custom" /\ p.name = -e.name
    BY <1>1 DEF RestoreItem, Part
  <2>2. ToolEvents(X, e) = <<d>>
    BY <1>1 DEF ToolEvents
  <2> HIDE DEF p
  <2>3. d = [a EXCEPT !.name = p.name]
    OBVIOUS
  <2>4. IsEvent(a) /\ a.type = "added" /\ a.index = e.index /\ a.kind = p.kind
    BY DEF IsEvent
  <2> HIDE DEF a
  <2>5. d.type = "added" /\ d.index = e.index /\ d.kind = p.kind /\ d.name = p.name
    BY <2>3, <2>4 DEF IsEvent
  <2> HIDE DEF d
  <2>6. Part(d.kind, d.name, <<>>) = Begun(Part(e.kind, e.name, <<>>))
    BY <1>1, <2>1, <2>5 DEF Part, Begun
  <2> QED
    BY <2>2, <2>5, <2>6
<1>2. CASE ~(e.name < 0)
  <2>1. ToolEvents(X, e) = <<e>>
    BY <1>2 DEF ToolEvents
  <2>2. Part(e.kind, e.name, <<>>) = Begun(Part(e.kind, e.name, <<>>))
    BY <1>2 DEF Part, Begun
  <2> QED
    BY <2>1, <2>2
<1> QED
  BY <1>1, <1>2

\* One item more on both sides.
LEMMA InItemsMore ==
  ASSUME NEW st, NEW cl, InItems(st, cl), st.started = TRUE,
         NEW x, IsItem(x), NEW key, NEW u, u.started = TRUE,
         u.items = Append(st.items, x), u.keys = Append(st.keys, key),
         NEW d, Became(d, Append(cl.parts, Begun(x)), cl.open \cup {Len(st.items) + 1},
                       TRUE, cl.finish)
  PROVE  InItems(u, d)
<1> DEFINE n == Len(st.items)
           y == Begun(x)
<1>1. /\ Listed(st.items) /\ Listed(st.keys) /\ Len(st.keys) = n
      /\ Listed(cl.parts) /\ Len(cl.parts) = n /\ cl.open = DOMAIN st.items
      /\ \A i \in DOMAIN st.items : IsItem(st.items[i]) /\ cl.parts[i] = Begun(st.items[i])
  BY DEF InItems
<1>2. n \in Nat /\ DOMAIN st.items = 1..n /\ DOMAIN cl.parts = 1..n
  BY <1>1, ListedIs
<1>3. /\ Listed(u.items) /\ Len(u.items) = n + 1 /\ u.items[n + 1] = x
      /\ \A i \in DOMAIN st.items : u.items[i] = st.items[i]
  BY <1>1, Appended
<1>4. Listed(u.keys) /\ Len(u.keys) = n + 1
  BY <1>1, Appended
<1>5. d.parts = Append(cl.parts, y) /\ d.open = cl.open \cup {n + 1} /\ Listening(d)
      /\ d.started = TRUE
  BY DEF Became
<1> HIDE DEF y
<1>6. /\ Listed(d.parts) /\ Len(d.parts) = n + 1 /\ d.parts[n + 1] = y
      /\ \A i \in DOMAIN cl.parts : d.parts[i] = cl.parts[i]
  <2>1. /\ Listed(Append(cl.parts, y)) /\ Len(Append(cl.parts, y)) = Len(cl.parts) + 1
        /\ Append(cl.parts, y)[Len(cl.parts) + 1] = y
        /\ \A i \in DOMAIN cl.parts : Append(cl.parts, y)[i] = cl.parts[i]
    BY <1>1, Appended
  <2> QED
    BY <1>1, <1>5, <2>1
<1> HIDE DEF n
<1>7. DOMAIN u.items = 1..(n + 1)
  BY <1>3, ListedIs
<1>8. d.open = DOMAIN u.items
  BY <1>1, <1>2, <1>5, <1>7
<1>9. ASSUME NEW i \in DOMAIN u.items
      PROVE  IsItem(u.items[i]) /\ d.parts[i] = Begun(u.items[i])
  <2>1. i = n + 1 \/ i \in 1..n
    BY <1>2, <1>7
  <2>2. CASE i = n + 1
    BY <1>3, <1>6, <2>2 DEF y
  <2>3. CASE i \in 1..n
    BY <1>1, <1>2, <1>3, <1>6, <2>3
  <2> QED
    BY <2>1, <2>2, <2>3
<1> QED
  BY <1>3, <1>4, <1>5, <1>6, <1>8, <1>9 DEF InItems

\* The kinds of items, and the names they may have.
Named(kind, name) ==
  kind \in {"text", "think", "call"} /\ name \in Int /\ (kind # "call" => name = 0)

\* An item is added once for its key.
LEMMA ItemsAdd ==
  ASSUME NEW cl, Client(cl), NEW sent, NEW r, Adds(cl, sent, r),
         NEW kind, NEW key, NEW name, Named(kind, name)
  PROVE  /\ Adds(cl, sent, AddItem(r, kind, key, name))
         /\ ItemOf(AddItem(r, kind, key, name).st, kind, key) # {}
<1> DEFINE x == Part(kind, name, <<>>)
           n == Len(r.st.items)
           v == Append(r.st.items, x)
           w == Append(r.st.keys, key)
           a == [r EXCEPT !.st.items = v]
           q == [r EXCEPT !.st.items = v, !.st.keys = w]
           e == [Event("added") EXCEPT !.index = n, !.kind = kind, !.name = name]
           f == AddItem(r, kind, key, name)
<1>1. Adding(r, sent) /\ Follows(cl, r) /\ r.st.started = TRUE
  BY DEF Adds
<1>2. Adding(f, sent)
  BY <1>1, ResponsesSteps
<1>3. CASE ItemOf(r.st, kind, key) # {}
  <2>1. f = r
    BY <1>3 DEF AddItem
  <2> QED
    BY <1>3, <2>1
<1>4. CASE ItemOf(r.st, kind, key) = {}
  <2>1. Listed(r.st.items)
    BY <1>1 DEF Adding, ResponsesOut
  <2>2. f = Write(q, e)
    BY <1>1, <1>4 DEF AddItem, Adding, ResponsesOut
  <2>3. n \in Nat /\ DOMAIN r.st.items = 1..n
    BY <2>1, ListedIs
  <2>4. IsItem(x)
    BY ListedIs DEF IsItem, IsPart, Part, Named
  <2>5. /\ Listed(v) /\ v[n + 1] = x /\ Len(v) = n + 1
        /\ \A i \in DOMAIN r.st.items : i \in DOMAIN v /\ v[i] = r.st.items[i]
    BY <2>1, Appended
  <2>6. n + 1 \in DOMAIN v
    <3>1. DOMAIN v = 1..Len(v)
      BY <2>5, ListedIs
    <3> QED
      BY <2>3, <2>5, <3>1
  <2>7. Adding(a, sent)
    BY <1>1, <2>5, AddingState
  <2>8. ItemState(r, a, TRUE, v, r.st.keys)
    <3>1. ItemState(r, a, r.st.started, v, r.st.keys)
      BY <1>1, ItemEmitterState
    <3> QED
      BY <1>1, <3>1
  <2>9. q = [a EXCEPT !.st.keys = w]
    OBVIOUS
  <2> HIDE DEF a
  <2>10. Adding(q, sent)
    BY <2>7, <2>9, AddingState
  <2>11. ItemState(a, q, TRUE, v, w)
    <3>1. ItemState(a, [a EXCEPT !.st.keys = w], a.st.started, a.st.items, w)
      BY <2>7, ItemEmitterState
    <3> QED
      BY <2>8, <2>9, <3>1 DEF ItemState
  <2>12. e.type = "added" /\ e.index = n /\ e.kind = kind /\ e.name = name /\ IsEvent(e)
    <3>1. e.type = "added" /\ e.index = n /\ e.kind = kind /\ e.name = name
      BY DEF Event
    <3>2. Harmless("responses", e)
      BY ResponsesEvents
    <3> QED
      BY <3>1, <3>2 DEF Harmless, Known, Terminal
  <2> HIDE DEF q, e
  <2>13. Write(q, e).st = q.st
    BY <2>10, RestoringNext
  <2>14. r.st.keys = r.st.keys /\ q.st.items = v /\ q.st.keys = w /\ q.st.started = TRUE
         /\ q.out = r.out
    BY <2>8, <2>11 DEF ItemState
  <2>15. ASSUME NEW X, Knowing(X, v)
         PROVE  InItems(q.st, Restoring(X, cl, Write(q, e)))
    <3> DEFINE d == Restoring(X, cl, r)
    <3>1. Knowing(X, r.st.items)
      BY <2>5, <2>15 DEF Knowing
    <3>2. InItems(r.st, d)
      BY <1>1, <3>1 DEF Follows
    <3>3. Client(d) /\ Listening(d) /\ d.started = TRUE /\ Len(d.parts) = n
      BY <1>1, <3>2, RestoringClient DEF InItems
    <3>4. n + 1 \in DOMAIN X /\ X[n + 1].name = name /\ X[n + 1].kind = kind
      BY <2>5, <2>6, <2>15 DEF Knowing, Part
    <3>5. name \in Int /\ (name < 0 => kind = "call")
      BY DEF Named
    <3>6. PICK g : /\ ToolEvents(X, e) = <<g>> /\ g.type = "added" /\ g.index = n
                   /\ Part(g.kind, g.name, <<>>) = Begun(x)
      BY <2>12, <3>4, <3>5, ToolAdded
    <3>7. Restoring(X, cl, Write(q, e)) = Read("responses", Restoring(X, cl, q), g)
      BY <2>10, <3>6, RestoringNext
    <3>8. Restoring(X, cl, q) = d
      BY <2>14 DEF Restoring
    <3> HIDE DEF d, x, n, v, w
    <3>9. Became(Read("responses", d, g), Append(d.parts, Part(g.kind, g.name, <<>>)),
                 d.open \cup {n + 1}, TRUE, d.finish)
      BY <2>3, <3>3, <3>6, ReadAdded
    <3>10. Became(Read("responses", d, g), Append(d.parts, Begun(x)), d.open \cup {n + 1},
                  TRUE, d.finish)
      BY <3>6, <3>9
    <3>11. InItems(q.st, Read("responses", d, g))
      BY <1>1, <2>4, <2>14, <3>2, <3>10, InItemsMore DEF v, w, n
    <3> QED
      BY <3>7, <3>8, <3>11
  <2>16. Follows(cl, f)
    BY <2>2, <2>13, <2>14, <2>15 DEF Follows
  <2>17. n + 1 \in ItemOf(f.st, kind, key)
    <3>1. x.kind = kind
      BY DEF Part
    <3>2. Knowing(r.st.items, r.st.items)
      BY DEF Knowing
    <3>3. Listed(r.st.keys) /\ Len(r.st.keys) = n
      BY <1>1, <3>2 DEF Follows, InItems
    <3>4. w[n + 1] = key
      <4>1. w[Len(r.st.keys) + 1] = key
        BY <3>3, Appended
      <4> QED
        BY <3>3, <4>1
    <3> HIDE DEF x, v, w, n
    <3> QED
      BY <2>2, <2>5, <2>6, <2>13, <2>14, <3>1, <3>4 DEF ItemOf
  <2> QED
    BY <1>2, <2>2, <2>13, <2>14, <2>16, <2>17 DEF Adds
<1> QED
  BY <1>1, <1>3, <1>4

\* More of a part, part by part.
LEMMA MoreAt ==
  ASSUME NEW parts, NEW i, NEW data
  PROVE  /\ DOMAIN More(parts, i, data) = DOMAIN parts
         /\ \A j \in DOMAIN parts : j # i => More(parts, i, data)[j] = parts[j]
         /\ i \in DOMAIN parts /\ IsPart(parts[i]) =>
              More(parts, i, data)[i] = Part(parts[i].kind, parts[i].name, parts[i].data \o data)
<1> DEFINE v == parts[i].data \o data
<1>1. More(parts, i, data) = [parts EXCEPT ![i].data = v]
  BY DEF More
<1> HIDE DEF v
<1>2. /\ DOMAIN [parts EXCEPT ![i].data = v] = DOMAIN parts
      /\ \A j \in DOMAIN parts : j # i => [parts EXCEPT ![i].data = v][j] = parts[j]
  OBVIOUS
<1>3. i \in DOMAIN parts => [parts EXCEPT ![i].data = v][i] = [parts[i] EXCEPT !.data = v]
  OBVIOUS
<1>4. IsPart(parts[i]) => [parts[i] EXCEPT !.data = v] = Part(parts[i].kind, parts[i].name, v)
  BY DEF IsPart, Part
<1> QED
  BY <1>1, <1>2, <1>3, <1>4 DEF v

\* More of an item is an item.
LEMMA ItemMore ==
  ASSUME NEW x, IsItem(x), NEW data, Listed(data), NEW y,
         y = Part(x.kind, x.name, x.data \o data)
  PROVE  /\ IsItem(y) /\ y.name = x.name /\ y.kind = x.kind
         /\ x.name < 0 => Begun(y) = Begun(x)
         /\ ~(x.name < 0) => Begun(y) = y /\ Begun(x) = x
<1>1. Listed(x.data \o data)
  BY ListedJoined DEF IsItem
<1>2. y.kind = x.kind /\ y.name = x.name /\ y.data = x.data \o data
  BY DEF Part
<1>3. IsPart(y)
  BY DEF IsPart, Part
<1>4. IsItem(y)
  BY <1>1, <1>2, <1>3 DEF IsItem
<1>5. /\ x.name < 0 => Begun(y) = Begun(x)
      /\ ~(x.name < 0) => Begun(y) = y /\ Begun(x) = x
  BY <1>2 DEF Begun
<1> QED
  BY <1>2, <1>4, <1>5

\* An item that goes on, as the client is told of it: of a custom tool's input, nothing.
LEMMA ToolDelta ==
  ASSUME NEW X, NEW e, e.type = "delta", NEW i, e.index + 1 = i, i \in DOMAIN X
  PROVE  /\ X[i].name < 0 => ToolEvents(X, e) = <<>>
         /\ ~(X[i].name < 0) => ToolEvents(X, e) = <<e>>
  BY DEF ToolEvents

\* More of an item on both sides, or on the emitter's when its input is held back.
LEMMA InItemsOn ==
  ASSUME NEW st, NEW cl, InItems(st, cl), st.started = TRUE,
         NEW i \in DOMAIN st.items, NEW data, Listed(data),
         NEW u, u.started = TRUE, u.items = More(st.items, i, data), u.keys = st.keys,
         NEW d,
         IF st.items[i].name < 0 THEN d = cl
         ELSE Became(d, More(cl.parts, i, data), cl.open, cl.started, cl.finish)
  PROVE  InItems(u, d)
<1> DEFINE s == st.items
           v == More(s, i, data)
           c == cl.parts
           b == d.parts
<1>1. /\ Listening(cl) /\ cl.started = TRUE
      /\ Listed(s) /\ Listed(st.keys) /\ Len(st.keys) = Len(s)
      /\ Listed(c) /\ Len(c) = Len(s) /\ cl.open = DOMAIN s
  BY DEF InItems
<1>2. \A j \in DOMAIN s : IsItem(s[j]) /\ c[j] = Begun(s[j])
  BY DEF InItems
<1>3. IsParts(s)
  BY <1>1, <1>2 DEF IsParts, IsItem
<1>4. Listed(v) /\ Len(v) = Len(s) /\ DOMAIN v = DOMAIN s
  BY <1>3, PartsExtended DEF IsParts
<1>5. DOMAIN c = DOMAIN s
  BY <1>1, ListedIs
<1>6. /\ v[i] = Part(s[i].kind, s[i].name, s[i].data \o data)
      /\ \A j \in DOMAIN s : j # i => v[j] = s[j]
  BY <1>2, MoreAt DEF IsItem
<1>7. IsItem(v[i])
  BY <1>2, <1>6, ItemMore
<1>8. CASE s[i].name < 0
  <2>1. b = c /\ d = cl
    BY <1>8
  <2>2. Begun(v[i]) = Begun(s[i])
    BY <1>2, <1>6, <1>8, ItemMore
  <2> HIDE DEF s, v, c, b
  <2>3. \A j \in DOMAIN v : IsItem(v[j]) /\ b[j] = Begun(v[j])
    BY <1>2, <1>4, <1>6, <1>7, <2>1, <2>2
  <2> QED
    BY <1>1, <1>4, <2>1, <2>3 DEF InItems, s, v, c, b
<1>9. CASE ~(s[i].name < 0)
  <2>1. /\ Became(d, More(c, i, data), cl.open, cl.started, cl.finish)
    BY <1>9
  <2>2. Begun(v[i]) = v[i] /\ c[i] = s[i]
    BY <1>2, <1>6, <1>9, ItemMore
  <2>3. b = More(c, i, data)
    BY <2>1 DEF Became
  <2>4. IsParts(c)
    <3>1. \A x : IsItem(x) => IsPart(Begun(x))
      BY DEF IsItem, Begun, IsPart, Part
    <3> QED
      BY <1>1, <1>2, <1>5, <3>1 DEF IsParts
  <2>5. Listed(b) /\ Len(b) = Len(c)
    BY <2>3, <2>4, PartsExtended DEF IsParts
  <2>6. /\ b[i] = Part(c[i].kind, c[i].name, c[i].data \o data)
        /\ \A j \in DOMAIN c : j # i => b[j] = c[j]
    BY <1>5, <2>3, <2>4, MoreAt DEF IsParts
  <2>7. b[i] = v[i]
    BY <1>6, <2>2, <2>6
  <2>8. Listening(d) /\ d.open = cl.open /\ d.started = cl.started
    BY <2>1 DEF Became
  <2> HIDE DEF s, v, c, b
  <2>9. \A j \in DOMAIN v : IsItem(v[j]) /\ b[j] = Begun(v[j])
    BY <1>2, <1>4, <1>5, <1>6, <1>7, <2>2, <2>6, <2>7
  <2> QED
    BY <1>1, <1>4, <2>5, <2>8, <2>9 DEF InItems, s, v, c, b
<1> QED
  BY <1>8, <1>9

\* An item that is there goes on.
LEMMA ItemsDelta ==
  ASSUME NEW cl, Client(cl), NEW sent, NEW r, Adds(cl, sent, r),
         NEW kind, NEW key, ItemOf(r.st, kind, key) # {}, NEW data, Listed(data)
  PROVE  Adds(cl, sent, ItemDelta(r, kind, key, data))
<1> DEFINE i == CHOOSE j \in ItemOf(r.st, kind, key) : TRUE
           v == More(r.st.items, i, data)
           q == [r EXCEPT !.st.items = v]
           e == [Event("delta") EXCEPT !.index = i - 1, !.kind = kind, !.data = data]
           f == ItemDelta(r, kind, key, data)
<1>1. Adding(r, sent) /\ Follows(cl, r) /\ r.st.started = TRUE
  BY DEF Adds
<1>2. Adding(f, sent)
  BY <1>1, ResponsesSteps
<1>3. CASE data = <<>>
  BY <1>3 DEF ItemDelta
<1>4. CASE data # <<>>
  <2>1. i \in ItemOf(r.st, kind, key)
    OBVIOUS
  <2>2. i \in DOMAIN r.st.items /\ r.st.items[i].kind = kind
    BY <2>1 DEF ItemOf
  <2>3. InItems(r.st, Restoring(r.st.items, cl, r))
    BY <1>1 DEF Follows, Knowing
  <2>4. Listed(r.st.items) /\ DOMAIN r.st.items = 1..Len(r.st.items) /\ Len(r.st.items) \in Nat
    BY <2>3, ListedIs DEF InItems
  <2>5. \A j \in DOMAIN r.st.items : IsItem(r.st.items[j])
    BY <2>3 DEF InItems
  <2>6. i \in Int
    BY <2>2, <2>4
  <2>7. f = Write(q, e)
    <3>1. f = Write([r EXCEPT !.st.items[i].data = @ \o data], e)
      BY <1>4 DEF ItemDelta
    <3>2. r = [st |-> r.st, out |-> r.out]
          /\ r.st = [started |-> r.st.started, items |-> r.st.items, keys |-> r.st.keys,
              finish |-> r.st.finish, sent |-> r.st.sent, usage |-> r.st.usage]
      BY <1>1 DEF Adding, ResponsesOut
    <3>3. [r EXCEPT !.st.items[i].data = @ \o data] = q
      BY <3>2 DEF More
    <3> QED
      BY <3>1, <3>3
  <2>8. IsParts(r.st.items)
    BY <2>4, <2>5 DEF IsParts, IsItem
  <2>9. Listed(v) /\ DOMAIN v = DOMAIN r.st.items
    BY <2>8, PartsExtended DEF IsParts
  <2>10. /\ v[i] = Part(r.st.items[i].kind, r.st.items[i].name, r.st.items[i].data \o data)
         /\ \A j \in DOMAIN r.st.items : j # i => v[j] = r.st.items[j]
    <3> HIDE DEF i
    <3>1. IsPart(r.st.items[i])
      BY <2>2, <2>5 DEF IsItem
    <3> QED
      BY <2>2, <3>1, MoreAt
  <2>11. \A j \in DOMAIN r.st.items : v[j].name = r.st.items[j].name /\ v[j].kind = r.st.items[j].kind
    <3>1. v[i].name = r.st.items[i].name /\ v[i].kind = r.st.items[i].kind
      BY <2>10 DEF Part
    <3> HIDE DEF v, i
    <3> QED
      BY <2>10, <3>1
  <2>12. Adding(q, sent)
    BY <1>1, <2>9, AddingState
  <2>13. ItemState(r, q, r.st.started, v, r.st.keys)
    BY <1>1, ItemEmitterState
  <2>14. e.type = "delta" /\ e.index = i - 1 /\ e.kind = kind /\ e.data = data
    BY DEF Event
  <2>15. e.index + 1 = i
    BY <2>6, <2>14
  <2> HIDE DEF q, e, i
  <2>16. Write(q, e).st = q.st
    BY <2>12, RestoringNext
  <2>17. ASSUME NEW X, Knowing(X, v)
         PROVE  InItems(q.st, Restoring(X, cl, Write(q, e)))
    <3> DEFINE d == Restoring(X, cl, r)
               g == Restoring(X, cl, Write(q, e))
    <3>1. Knowing(X, r.st.items)
      BY <2>9, <2>11, <2>17 DEF Knowing
    <3>2. InItems(r.st, d)
      BY <1>1, <3>1 DEF Follows
    <3>3. Client(d) /\ Listening(d)
      BY <1>1, <3>2, RestoringClient DEF InItems
    <3>4. i \in DOMAIN X /\ X[i].name = r.st.items[i].name
      BY <2>2, <3>1 DEF Knowing
    <3>5. Restoring(X, cl, q) = d
      BY <2>13 DEF Restoring, ItemState
    <3>6. i \in d.open /\ d.parts[i] = Begun(r.st.items[i])
      BY <2>2, <3>2 DEF InItems
    <3>7. IF r.st.items[i].name < 0 THEN g = d
          ELSE Became(g, More(d.parts, i, data), d.open, d.started, d.finish)
      <4>1. CASE r.st.items[i].name < 0
        <5>1. ToolEvents(X, e) = <<>>
          BY <2>14, <2>15, <3>4, <4>1, ToolDelta
        <5> QED
          BY <2>12, <3>5, <4>1, <5>1, RestoringNext
      <4>2. CASE ~(r.st.items[i].name < 0)
        <5>1. ToolEvents(X, e) = <<e>>
          BY <2>14, <2>15, <3>4, <4>2, ToolDelta
        <5>2. g = Read("responses", d, e)
          BY <2>12, <3>5, <5>1, RestoringNext
        <5>3. d.parts[i].kind = e.kind
          BY <2>2, <2>14, <3>6, <4>2 DEF Begun
        <5> HIDE DEF d, g
        <5>4. Became(Read("responses", d, e), More(d.parts, i, e.data), d.open, d.started, d.finish)
          BY <2>14, <2>15, <3>3, <3>6, <5>3, ReadItemDelta
        <5> QED
          BY <2>14, <4>2, <5>2, <5>4
      <4> QED
        BY <4>1, <4>2
    <3> HIDE DEF d, g, v
    <3>8. InItems(q.st, g)
      <4>1. q.st.started = TRUE /\ q.st.items = More(r.st.items, i, data) /\ q.st.keys = r.st.keys
        BY <1>1, <2>13 DEF ItemState, v
      <4> QED
        BY <1>1, <2>2, <3>2, <3>7, <4>1, InItemsOn
    <3> QED
      BY <3>8 DEF g
  <2> HIDE DEF v
  <2>18. Follows(cl, f)
    BY <2>7, <2>13, <2>16, <2>17 DEF Follows, ItemState
  <2> QED
    BY <1>1, <1>2, <2>7, <2>13, <2>16, <2>18 DEF Adds, ItemState
<1> QED
  BY <1>3, <1>4

\* Text and reasoning go to the item of their kind,
LEMMA ItemsSay ==
  ASSUME NEW cl, Client(cl), NEW sent, NEW r, Adds(cl, sent, r),
         NEW kind \in {"text", "think"}, NEW data, Listed(data)
  PROVE  Adds(cl, sent, SayInItem(r, kind, data))
<1> DEFINE a == AddItem(r, kind, 0, 0)
<1>1. Named(kind, 0)
  BY DEF Named
<1>2. Adds(cl, sent, a) /\ ItemOf(a.st, kind, 0) # {}
  BY <1>1, ItemsAdd
<1> HIDE DEF a
<1>3. Adds(cl, sent, ItemDelta(a, kind, 0, data))
  BY <1>2, ItemsDelta
<1> QED
  BY <1>3 DEF SayInItem, a

\* a call to the item of its index.
LEMMA ItemsCall ==
  ASSUME NEW cl, Client(cl), NEW sent, NEW r, Adds(cl, sent, r),
         NEW k, k.name \in Int, Listed(k.args)
  PROVE  Adds(cl, sent, CallInItem(r, k))
<1> DEFINE a == AddItem(r, "call", k.index, k.name)
<1>1. Named("call", k.name)
  BY DEF Named
<1>2. Adds(cl, sent, a) /\ ItemOf(a.st, "call", k.index) # {}
  BY <1>1, ItemsAdd
<1> HIDE DEF a
<1>3. Adds(cl, sent, ItemDelta(a, "call", k.index, k.args))
  BY <1>2, ItemsDelta
<1> QED
  BY <1>3 DEF CallInItem, a

------------------------------------------------------------------------------
(* The end of the items *)

\* A sequence's part and an empty beginning.
LEMMA InputListed ==
  ASSUME NEW data, Listed(data)
  PROVE  Listed(CustomToolInput(data)) /\ <<>> \o data = data
<1>1. PICK X : data \in Seq(X)
  BY DEF Listed
<1>2. <<>> \o data = data
  BY <1>1
<1>3. Len(data) \in Nat
  BY <1>1
<1> DEFINE n == Len(data) - 1
<1>4. Wrapped(data) => n \in 1..Len(data)
  BY <1>3 DEF Wrapped
<1>5. Wrapped(data) => SubSeq(data, 2, n) \in Seq(X)
  <2>1. n \in Int
    BY <1>3
  <2> HIDE DEF n
  <2> SUFFICES ASSUME Wrapped(data) PROVE SubSeq(data, 2, n) \in Seq(X)
    OBVIOUS
  <2>2. \A i \in 2..n : i \in 1..Len(data)
    BY <1>3, <1>4
  <2> QED
    BY <1>1, <1>3, <1>4, <2>1, <2>2
<1> QED
  BY <1>1, <1>2, <1>5 DEF CustomToolInput, Listed

\* The items in C are done, the others as they were.
AtClosing(items, C, cl) ==
  /\ Listening(cl) /\ Listed(cl.parts) /\ Len(cl.parts) = Len(items)
  /\ cl.open = DOMAIN items \ C
  /\ \A i \in DOMAIN items : cl.parts[i] = IF i \in C THEN RestoreItem(items[i]) ELSE Begun(items[i])

AllItems(items) == Listed(items) /\ \A i \in DOMAIN items : IsItem(items[i])

\* t is s with y at place i.
Replaced(s, t, i, y) ==
  /\ Listed(t) /\ Len(t) = Len(s) /\ DOMAIN t = DOMAIN s
  /\ \A j \in DOMAIN s : j # i => t[j] = s[j]
  /\ i \in DOMAIN s => t[i] = y

\* A part that is replaced leaves a sequence.
LEMMA PartReplaced ==
  ASSUME NEW s, Listed(s), NEW i, NEW y
  PROVE  Replaced(s, [s EXCEPT ![i] = y], i, y)
<1> DEFINE t == [s EXCEPT ![i] = y]
<1>1. PICK X : s \in Seq(X)
  BY DEF Listed
<1>2. DOMAIN s = 1..Len(s) /\ Len(s) \in Nat
  BY <1>1
<1>3. /\ DOMAIN t = DOMAIN s
      /\ \A j \in DOMAIN s : j # i => t[j] = s[j]
      /\ i \in DOMAIN s => t[i] = y
  OBVIOUS
<1>4. t \in Seq(X \cup {y})
  <2> DEFINE n == Len(s)
             Y == X \cup {y}
  <2>1. \A j \in 1..n : s[j] \in X
    BY <1>1, <1>2
  <2>2. t = [j \in 1..n |-> t[j]]
    BY <1>2
  <2> HIDE DEF t
  <2>3. \A j \in 1..n : t[j] \in Y
    BY <1>2, <1>3, <2>1
  <2> HIDE DEF n, Y
  <2>4. [j \in 1..n |-> t[j]] \in Seq(Y)
    BY <1>2, <2>3 DEF n
  <2> QED
    BY <2>2, <2>4 DEF Y
<1>5. Listed(t)
  BY <1>4 DEF Listed
<1>6. Len(t) = Len(s)
  <2>1. DOMAIN t = 1..Len(t) /\ Len(t) \in Nat
    BY <1>5, ListedIs
  <2> HIDE DEF t
  <2> QED
    BY <1>2, <1>3, <2>1, SameLength
<1> HIDE DEF t
<1>7. Replaced(s, t, i, y)
  BY <1>3, <1>5, <1>6 DEF Replaced
<1> QED
  BY <1>7 DEF t

\* One more item is done.
LEMMA ClosingMore ==
  ASSUME NEW items, NEW C, NEW cl, AtClosing(items, C, cl), Listed(items),
         NEW i \in DOMAIN items, i \notin C,
         NEW parts, parts = [cl.parts EXCEPT ![i] = RestoreItem(items[i])],
         NEW d, Became(d, parts, cl.open \ {i}, cl.started, cl.finish)
  PROVE  AtClosing(items, C \cup {i}, d)
<1> DEFINE y == RestoreItem(items[i])
<1>1. /\ Listed(cl.parts) /\ Len(cl.parts) = Len(items) /\ cl.open = DOMAIN items \ C
      /\ \A j \in DOMAIN items :
           cl.parts[j] = IF j \in C THEN RestoreItem(items[j]) ELSE Begun(items[j])
  BY DEF AtClosing
<1>2. DOMAIN cl.parts = DOMAIN items
  BY <1>1, ListedIs
<1>3. /\ Listening(d) /\ d.parts = parts /\ d.open = cl.open \ {i}
  BY DEF Became
<1> HIDE DEF y
<1>4. parts = [cl.parts EXCEPT ![i] = y]
  BY DEF y
<1>5. /\ Listed(parts) /\ Len(parts) = Len(cl.parts)
      /\ \A j \in DOMAIN items : j # i => parts[j] = cl.parts[j]
      /\ parts[i] = y
  <2>1. Replaced(cl.parts, parts, i, y)
    BY <1>1, <1>4, PartReplaced
  <2> QED
    BY <1>2, <2>1 DEF Replaced
<1>6. \A j \in DOMAIN items :
        parts[j] = IF j \in C \cup {i} THEN RestoreItem(items[j]) ELSE Begun(items[j])
  BY <1>1, <1>5 DEF y
<1>7. d.open = DOMAIN items \ (C \cup {i})
  BY <1>1, <1>3
<1> QED
  BY <1>1, <1>3, <1>5, <1>6, <1>7 DEF AtClosing

\* An item that is done, as the client is told of it.
LEMMA ToolDone ==
  ASSUME NEW X, NEW e, IsEvent(e), e.type = "done", NEW i, e.index + 1 = i,
         i \in DOMAIN X, X[i].kind = "call"
  PROVE  /\ ~(X[i].name < 0) => ToolEvents(X, e) = <<e>>
         /\ X[i].name < 0 =>
              \E a, b : /\ ToolEvents(X, e) = <<a, b>>
                        /\ a.type = "delta" /\ a.index = e.index /\ a.kind = "custom"
                        /\ a.data = CustomToolInput(X[i].data)
                        /\ b.type = "done" /\ b.index = e.index
                        /\ b.data = CustomToolInput(X[i].data)
<1> DEFINE p == RestoreItem(X[i])
           a == [e EXCEPT !.type = "delta", !.kind = p.kind, !.data = p.data]
           b == [e EXCEPT !.kind = p.kind, !.name = p.name, !.data = p.data]
<1>1. ~(X[i].name < 0) => ToolEvents(X, e) = <<e>>
  BY DEF ToolEvents
<1>2. X[i].name < 0 => p.kind = "custom" /\ p.data = CustomToolInput(X[i].data)
  BY DEF RestoreItem, Part
<1>3. X[i].name < 0 => ToolEvents(X, e) = <<a, b>>
  BY DEF ToolEvents
<1> HIDE DEF p
<1>4. a.type = "delta" /\ a.index = e.index /\ a.kind = p.kind /\ a.data = p.data
  BY DEF IsEvent
<1>5. b.type = "done" /\ b.index = e.index /\ b.data = p.data
  BY DEF IsEvent
<1> HIDE DEF a, b
<1> QED
  BY <1>1, <1>2, <1>3, <1>4, <1>5

\* What the end of an item puts in its place.
LEMMA DonePart ==
  ASSUME NEW parts, NEW x, IsItem(x), NEW i, i \in DOMAIN parts, parts[i] = Begun(x)
  PROVE  /\ ~(x.name < 0) =>
              /\ parts[i] = x
              /\ [parts EXCEPT ![i].data = x.data] = [parts EXCEPT ![i] = RestoreItem(x)]
         /\ x.name < 0 =>
              LET y == CustomToolInput(x.data) IN
              /\ x.kind = "call" /\ parts[i].kind = "custom" /\ <<>> \o y = y
              /\ More(parts, i, y)[i].data = y
              /\ [More(parts, i, y) EXCEPT ![i].data = y] = [parts EXCEPT ![i] = RestoreItem(x)]
<1>1. /\ IsPart(x) /\ x.kind \in {"text", "think", "call"} /\ x.name \in Int
      /\ x.kind # "call" => x.name = 0
      /\ Listed(x.data)
  BY DEF IsItem
<1>2. CASE ~(x.name < 0)
  <2>1. parts[i] = x /\ RestoreItem(x) = x
    BY <1>2 DEF Begun, RestoreItem
  <2>2. [parts EXCEPT ![i].data = x.data] = [parts EXCEPT ![i] = [parts[i] EXCEPT !.data = x.data]]
    OBVIOUS
  <2>3. [x EXCEPT !.data = x.data] = x
    BY <1>1 DEF IsPart
  <2> QED
    BY <1>2, <2>1, <2>2, <2>3
<1>3. CASE x.name < 0
  <2> DEFINE y == CustomToolInput(x.data)
             m == -x.name
  <2>1. x.kind = "call" /\ parts[i] = Part("custom", m, <<>>)
    BY <1>1, <1>3 DEF Begun
  <2>2. RestoreItem(x) = Part("custom", m, y)
    BY <1>3, <2>1 DEF RestoreItem
  <2>3. Listed(y)
    BY <1>1, InputListed
  <2> HIDE DEF y, m
  <2>4. <<>> \o y = y
    BY <2>3, InputListed
  <2>5. IsPart(parts[i])
    BY <2>1 DEF IsPart, Part
  <2>6. More(parts, i, y)[i] = Part("custom", m, y)
    <3>1. More(parts, i, y)[i] = Part(parts[i].kind, parts[i].name, parts[i].data \o y)
      BY <2>5, MoreAt
    <3> QED
      BY <2>1, <2>4, <3>1 DEF Part
  <2>7. More(parts, i, y) = [parts EXCEPT ![i] = Part("custom", m, y)]
    <3>1. More(parts, i, y) = [parts EXCEPT ![i] = [parts[i] EXCEPT !.data = <<>> \o y]]
      BY <2>1 DEF More, Part
    <3>2. [parts[i] EXCEPT !.data = y] = Part("custom", m, y)
      BY <2>1 DEF Part
    <3> QED
      BY <2>4, <3>1, <3>2
  <2>8. [More(parts, i, y) EXCEPT ![i].data = y] = [parts EXCEPT ![i] = Part("custom", m, y)]
    <3> DEFINE z == Part("custom", m, y)
    <3>1. [z EXCEPT !.data = y] = z
      BY DEF Part
    <3> HIDE DEF z
    <3>2. [[parts EXCEPT ![i] = z] EXCEPT ![i].data = y] = [parts EXCEPT ![i] = [z EXCEPT !.data = y]]
      OBVIOUS
    <3> QED
      BY <2>7, <3>1, <3>2 DEF z
  <2>9. parts[i].kind = "custom" /\ More(parts, i, y)[i].data = y
    BY <2>1, <2>6 DEF Part
  <2> QED
    BY <1>3, <2>1, <2>2, <2>4, <2>8, <2>9 DEF y
<1> QED
  BY <1>2, <1>3

\* r has written the ends of the items in C.
Done0(items, C, cl, r, st) ==
  Adding(r, TRUE) /\ r.st = st /\ AtClosing(items, C, Restoring(items, cl, r))

\* The end of one item.
LEMMA DoneOne ==
  ASSUME NEW cl, Client(cl), NEW items, AllItems(items), NEW C, NEW r, NEW st,
         Done0(items, C, cl, r, st), NEW i \in DOMAIN items, i \notin C
  PROVE  Done0(items, C \cup {i}, cl, Write(r, DoneEvent(items, items[i].kind, i)), st)
<1> DEFINE kind == items[i].kind
           e == DoneEvent(items, kind, i)
           q == Write(r, e)
           d == Restoring(items, cl, r)
           f == Restoring(items, cl, q)
           x == items[i]
           parts == [d.parts EXCEPT ![i] = RestoreItem(x)]
<1>1. Adding(r, TRUE) /\ r.st = st /\ AtClosing(items, C, d)
  BY DEF Done0
<1>2. Harmless("responses", e)
  BY ResponsesEvents DEF DoneEvent
<1>3. e.type = "done" /\ e.index = i - 1 /\ e.data = x.data
  BY DEF DoneEvent, Event
<1>4. IsEvent(e)
  BY <1>2 DEF Harmless, Known, Terminal
<1>5. i \in Int
  <2>1. DOMAIN items = 1..Len(items) /\ Len(items) \in Nat
    BY ListedIs DEF AllItems
  <2> QED
    BY <2>1
<1>6. e.index + 1 = i
  BY <1>3, <1>5
<1>7. Client(d) /\ Listening(d)
  BY <1>1, RestoringClient DEF AtClosing
<1>8. i \in d.open /\ i \in DOMAIN d.parts /\ d.parts[i] = Begun(x)
  <2>1. /\ Listed(d.parts) /\ Len(d.parts) = Len(items) /\ d.open = DOMAIN items \ C
        /\ d.parts[i] = Begun(items[i])
    BY <1>1 DEF AtClosing
  <2>2. DOMAIN d.parts = DOMAIN items
    BY <2>1, ListedIs DEF AllItems
  <2> QED
    BY <2>1, <2>2
<1>9. IsItem(x)
  BY DEF AllItems
<1> HIDE DEF e
<1>10. Adding(q, TRUE) /\ q.st = st
  BY <1>1, <1>2, AddingMore, RestoringNext
<1>13. /\ \A a : ToolEvents(items, e) = <<a>> => f = Read("responses", d, a)
       /\ \A a, b : ToolEvents(items, e) = <<a, b>> =>
            f = Read("responses", Read("responses", d, a), b)
  <2> HIDE DEF x
  <2> DEFINE tt == TRUE
  <2>1. Adding(r, tt)
    BY <1>1
  <2> HIDE DEF tt
  <2> QED
    BY <2>1, RestoringNext
<1> HIDE DEF d, x, f
<1>11. Became(f, parts, d.open \ {i}, d.started, d.finish)
  <2>1. CASE ~(x.name < 0)
    <3>1. ToolEvents(items, e) = <<e>>
      BY <1>3, <1>6, <2>1 DEF ToolEvents, x
    <3>2. f = Read("responses", d, e)
      BY <1>13, <3>1
    <3>3. d.parts[i] = x /\ [d.parts EXCEPT ![i].data = x.data] = parts
      BY <1>8, <1>9, <2>1, DonePart
    <3>4. Became(Read("responses", d, e), [d.parts EXCEPT ![i].data = e.data],
                 d.open \ {i}, d.started, d.finish)
      BY <1>3, <1>6, <1>7, <1>8, <3>3, ReadItemDone
    <3> QED
      BY <1>3, <3>2, <3>3, <3>4
  <2>2. CASE x.name < 0
    <3> DEFINE y == CustomToolInput(x.data)
               g == More(d.parts, i, y)
    <3>1. /\ x.kind = "call" /\ d.parts[i].kind = "custom"
          /\ g[i].data = y /\ [g EXCEPT ![i].data = y] = parts
      BY <1>8, <1>9, <2>2, DonePart
    <3>2. PICK a, b : /\ ToolEvents(items, e) = <<a, b>>
                      /\ a.type = "delta" /\ a.index = e.index /\ a.kind = "custom"
                      /\ a.data = y
                      /\ b.type = "done" /\ b.index = e.index
                      /\ b.data = y
      BY <1>3, <1>4, <1>6, <2>2, <3>1, ToolDone DEF x
    <3>3. f = Read("responses", Read("responses", d, a), b)
      BY <1>13, <3>2
    <3> HIDE DEF y
    <3> DEFINE h == Read("responses", d, a)
    <3>4. Became(h, More(d.parts, i, a.data), d.open, d.started, d.finish)
      <4>1. a.index + 1 = i /\ d.parts[i].kind = a.kind
        BY <1>6, <3>1, <3>2
      <4> QED
        BY <1>7, <1>8, <3>2, <4>1, ReadItemDelta
    <3>5. Became(h, g, d.open, d.started, d.finish)
      BY <3>2, <3>4
    <3> HIDE DEF h, g
    <3>6. /\ Client(h) /\ Listening(h) /\ h.parts = g /\ h.open = d.open
          /\ h.started = d.started /\ h.finish = d.finish
      BY <3>5 DEF Became
    <3>7. Became(Read("responses", h, b), [h.parts EXCEPT ![i].data = b.data],
                 h.open \ {i}, h.started, h.finish)
      <4>1. b.index + 1 = i /\ h.parts[i].data \in {<<>>, b.data} /\ i \in h.open
        BY <1>6, <1>8, <3>1, <3>2, <3>6
      <4> QED
        BY <3>2, <3>6, <4>1, ReadItemDone
    <3> QED
      BY <3>1, <3>2, <3>3, <3>6, <3>7 DEF h
  <2> QED
    BY <2>1, <2>2
<1> HIDE DEF f, q, parts
<1>12. AtClosing(items, C \cup {i}, f)
  BY <1>1, <1>11, ClosingMore DEF parts, x, AllItems
<1> QED
  BY <1>10, <1>12 DEF Done0, f, q, e

OfKind(items, kind) == {j \in DOMAIN items : items[j].kind = kind}

\* The ends of all items of a kind.
LEMMA DoneAll ==
  ASSUME NEW cl, Client(cl), NEW items, AllItems(items), NEW C, NEW r, NEW st,
         Done0(items, C, cl, r, st), NEW kind, C \cap OfKind(items, kind) = {}
  PROVE  Done0(items, C \cup OfKind(items, kind), cl, ItemsDone(r, items, kind), st)
<1> DEFINE s == [i \in DOMAIN items |-> i]
           n == Len(items)
           x == <<items, kind>>
<1>1. n \in Nat /\ DOMAIN items = 1..n
  BY ListedIs DEF AllItems
<1>2. s \in Seq(Nat) /\ Len(s) = n /\ \A i \in 1..n : s[i] = i
  <2> HIDE DEF n
  <2>1. s = [i \in 1..n |-> i]
    BY <1>1
  <2> HIDE DEF s
  <2> QED
    BY <1>1, <2>1
<1>3. ItemsDone(r, items, kind) = Fold("done", x, r, s)
  BY <1>2, DoneFold
<1> HIDE DEF s
<1>4. PICK v : Run("done", x, r, s, v)
  BY <1>2, Runs
<1>5. /\ v[0] = r /\ v[n] = Fold("done", x, r, s)
      /\ \A i \in 1..n : v[i] = Applied("done", x, v[i - 1], s[i])
  BY <1>2, <1>4 DEF Run
<1> HIDE DEF n
<1> DEFINE K(k) == {j \in 1..k : items[j].kind = kind}
           I == {k \in 0..n : Done0(items, C \cup K(k), cl, v[k], st)}
<1>6. 0 \in I
  <2>1. C \cup K(0) = C
    OBVIOUS
  <2> QED
    BY <1>1, <1>5, <2>1
<1>7. ASSUME NEW i \in 1..n, i - 1 \in I PROVE i \in I
  <2>1. v[i] = Done(x, v[i - 1], i)
    BY <1>2, <1>5 DEF Applied
  <2>2. Done0(items, C \cup K(i - 1), cl, v[i - 1], st)
    BY <1>7
  <2>3. CASE items[i].kind # kind
    <3>1. v[i] = v[i - 1]
      BY <2>1, <2>3 DEF Done
    <3>2. K(i) = K(i - 1)
      BY <1>1, <2>3
    <3>3. i \in 0..n
      BY <1>1
    <3> HIDE DEF K
    <3> QED
      BY <2>2, <3>1, <3>2, <3>3
  <2>4. CASE items[i].kind = kind
    <3>1. v[i] = Write(v[i - 1], DoneEvent(items, items[i].kind, i))
      BY <2>1, <2>4 DEF Done
    <3>2. C \cup K(i) = (C \cup K(i - 1)) \cup {i}
      BY <1>1, <2>4
    <3>3. i \notin C \cup K(i - 1)
      <4>1. i \in OfKind(items, kind)
        BY <1>1, <2>4 DEF OfKind
      <4>2. i \notin C
        BY <4>1
      <4>3. i \notin K(i - 1)
        BY <1>1
      <4> QED
        BY <4>2, <4>3
    <3> HIDE DEF K
    <3> DEFINE D == C \cup K(i - 1)
               p == v[i - 1]
    <3>4. Done0(items, D, cl, p, st) /\ i \notin D /\ i \in DOMAIN items
      BY <1>1, <2>2, <3>3
    <3> HIDE DEF D, p
    <3>5. Done0(items, D \cup {i}, cl, Write(p, DoneEvent(items, items[i].kind, i)), st)
      BY <3>4, DoneOne
    <3>6. Done0(items, C \cup K(i), cl, v[i], st)
      BY <3>1, <3>2, <3>5 DEF D, p
    <3> QED
      BY <1>1, <3>6
  <2> QED
    BY <2>3, <2>4
<1>8. K(n) = OfKind(items, kind)
  BY <1>1 DEF OfKind
<1> HIDE DEF I, K
<1>9. n \in I
  BY <1>1, <1>6, <1>7, Climb
<1> QED
  BY <1>3, <1>5, <1>8, <1>9 DEF I

\* However far the response has come, finishing it completes it for the client.
LEMMA ItemsFinish ==
  ASSUME NEW cl, Client(cl), NEW r, Adding(r, FALSE), Follows(cl, r)
  PROVE  /\ Content(Restoring(r.st.items, cl, FinishResponses(r)))
         /\ FinishResponses(r).st.items = r.st.items
         /\ FinishResponses(r).st.sent = TRUE
<1> DEFINE items == r.st.items
           no == FALSE
           ok == TRUE
           a == [r EXCEPT !.st.sent = ok]
           b == Created(a)
           b1 == ItemsDone(b, items, "think")
           b2 == ItemsDone(b1, items, "text")
           b3 == ItemsDone(b2, items, "call")
           e == [Event("completed") EXCEPT !.output = items, !.usage = r.st.usage]
           f == FinishResponses(r)
<1>1. Adding(r, no)
  OBVIOUS
<1>2. f = Write(b3, e)
  BY DEF FinishResponses, Adding
<1>3. no \in BOOLEAN
  OBVIOUS
<1> HIDE DEF no
<1>4. f.st.sent = TRUE
  BY <1>1, <1>3, FinishResponsesEmits
<1> HIDE DEF ok
<1>5. Adding(a, ok) /\ ItemState(r, a, r.st.started, r.st.items, r.st.keys)
  BY <1>1, AddingState, ItemEmitterState
<1> HIDE DEF a
<1>6. Follows(cl, a)
  <2>1. ASSUME NEW X, Knowing(X, a.st.items) PROVE InItems(a.st, Restoring(X, cl, a))
    <3>1. Knowing(X, r.st.items) /\ Restoring(X, cl, a) = Restoring(X, cl, r)
      BY <1>5, <2>1 DEF ItemState, Restoring
    <3>2. InItems(r.st, Restoring(X, cl, r))
      BY <3>1 DEF Follows
    <3> QED
      BY <1>5, <3>1, <3>2 DEF InItems, ItemState
  <2> QED
    BY <2>1 DEF Follows
<1>7. Adds(cl, ok, b) /\ b.st.items = items
  BY <1>5, <1>6, ItemsStart DEF ItemState
<1> HIDE DEF b
<1>8. InItems(b.st, Restoring(items, cl, b)) /\ Adding(b, ok)
  <2>1. Knowing(items, b.st.items)
    BY <1>7 DEF Knowing
  <2> QED
    BY <1>7, <2>1 DEF Adds, Follows
<1> HIDE DEF items
<1>9. AllItems(items)
  BY <1>7, <1>8 DEF AllItems, InItems
<1>10. Done0(items, {}, cl, b, b.st)
  <2>1. AtClosing(items, {}, Restoring(items, cl, b))
    BY <1>7, <1>8 DEF InItems, AtClosing
  <2> QED
    BY <1>8, <2>1 DEF Done0, ok
<1>11. \A j \in DOMAIN items : items[j].kind \in {"text", "think", "call"}
  BY <1>9 DEF AllItems, IsItem
<1> DEFINE C1 == {} \cup OfKind(items, "think")
           C2 == C1 \cup OfKind(items, "text")
           C3 == C2 \cup OfKind(items, "call")
<1>12. /\ {} \cap OfKind(items, "think") = {}
       /\ C1 \cap OfKind(items, "text") = {}
       /\ C2 \cap OfKind(items, "call") = {}
       /\ C3 = DOMAIN items
  BY <1>11 DEF OfKind
<1>13. Done0(items, C1, cl, b1, b.st)
  BY <1>9, <1>10, <1>12, DoneAll
<1> HIDE DEF b1, C1
<1>14. Done0(items, C2, cl, b2, b.st)
  BY <1>9, <1>12, <1>13, DoneAll
<1> HIDE DEF b2, C2
<1>15. Done0(items, C3, cl, b3, b.st)
  BY <1>9, <1>12, <1>14, DoneAll
<1> HIDE DEF b3, C3
<1> DEFINE d == Restoring(items, cl, b3)
           g == [e EXCEPT !.output = [i \in DOMAIN items |-> RestoreItem(items[i])]]
<1>16. Adding(b3, ok) /\ b3.st = b.st /\ AtClosing(items, DOMAIN items, d)
  BY <1>12, <1>15 DEF Done0, ok
<1>17. ToolEvents(items, e) = <<g>>
  <2>1. e.type = "completed" /\ e.output = items
    BY DEF Event
  <2> HIDE DEF e
  <2> QED
    BY <2>1 DEF ToolEvents
<1>18. g.type = "completed" /\ g.output = [i \in DOMAIN items |-> RestoreItem(items[i])]
  BY DEF Event
<1> HIDE DEF e, g
<1>19. Restoring(items, cl, f) = Read("responses", d, g)
  BY <1>2, <1>16, <1>17, RestoringNext
<1>20. f.st.items = items
  BY <1>2, <1>7, <1>16, RestoringNext
<1>21. Client(d) /\ Listening(d)
  BY <1>16, RestoringClient DEF AtClosing
<1> HIDE DEF d
<1>22. d.open = {} /\ g.output = d.parts
  <2>1. /\ Listed(d.parts) /\ Len(d.parts) = Len(items) /\ d.open = DOMAIN items \ DOMAIN items
        /\ \A i \in DOMAIN items : d.parts[i] = RestoreItem(items[i])
    BY <1>16 DEF AtClosing
  <2>2. DOMAIN items = 1..Len(items)
    BY <1>9, ListedIs DEF AllItems
  <2>3. d.parts = [i \in 1..Len(d.parts) |-> d.parts[i]]
    BY <2>1, ListedFunction
  <2>4. g.output = [i \in 1..Len(items) |-> d.parts[i]]
    BY <1>18, <2>1, <2>2
  <2> QED
    BY <2>1, <2>3, <2>4
<1>23. Content(Read("responses", d, g))
  BY <1>18, <1>21, <1>22, ReadCompleted
<1> QED
  BY <1>4, <1>19, <1>20, <1>23 DEF f, items

\* Nothing restored is nothing.
LEMMA RestoredNothing ==
  ASSUME NEW X
  PROVE  Restored(X, <<>>) = <<>>
<1> DEFINE s == Lists(X, <<>>)
<1>1. Listed(<<>>) /\ Len(<<>>) = 0
  BY ListedIs
<1>2. Listed(s) /\ Len(s) = 0
  BY <1>1, ListsAre
<1>3. Restored(X, <<>>) = FlattenSeq(s)
  BY DEF Restored, Lists
<1> HIDE DEF s
<1>4. s = <<>>
  <2>1. PICK Y : s \in Seq(Y)
    BY <1>2 DEF Listed
  <2> QED
    BY <1>2, <2>1
<1> QED
  BY <1>2, <1>3, <1>4 DEF FlattenSeq

\* What a chunk says is in sequences, and its calls have names.
Wordy(c) ==
  /\ Listed(c.text) /\ Listed(c.think)
  /\ \A k : c.calls = <<k>> => k.name \in Int /\ Listed(k.args)

\* What FeedResponses makes of a chunk.
FollowedItems(cl, c, r) ==
  LET d == ReadAll("responses", cl, Restored(r.st.items, r.out)) IN
  /\ c.finish = "none" => InItems(r.st, d) /\ r.st.sent = FALSE
  /\ c.finish # "none" => Content(d) /\ r.st.sent = TRUE

\* What is restored is read as it is restored.
LEMMA RestoringAll ==
  ASSUME NEW cl, NEW X, NEW out, Quiet("responses", out) \/ Ending("responses", out)
  PROVE  ReadAll("responses", cl, Restored(X, out)) = Fold("read", "responses", cl, Restored(X, out))
<1> DEFINE s == Restored(X, out)
<1>1. Quiet("responses", s) \/ Ending("responses", s)
  BY RestoredQuiet
<1> HIDE DEF s
<1>2. Listed(s)
  <2>1. Ending("responses", s) => Listed(s)
    BY Appended DEF Ending, Quiet
  <2> QED
    BY <1>1, <2>1 DEF Quiet
<1>3. PICK Y : s \in Seq(Y)
  BY <1>2 DEF Listed
<1>4. ReadAll("responses", cl, s) = Fold("read", "responses", cl, s)
  BY <1>3, ReadFold
<1> QED
  BY <1>4 DEF s

\* A chunk for the Responses emitter.
LEMMA FeedResponsesHeard ==
  ASSUME NEW cl, Client(cl), NEW st, ResponsesOut(st), st.sent = FALSE, InItems(st, cl),
         NEW n, NEW c, NEW m, Orderly(n, c, m), Wordy(c)
  PROVE  FollowedItems(cl, c, FeedResponses(st, c))
<1> DEFINE noted == Noted(st, c)
           r == [st |-> noted, out |-> <<>>]
           a == Created(r)
           b == SayInItem(a, "text", c.text)
           d == SayInItem(b, "think", c.think)
           f == FoldLeft(CallInItem, d, c.calls)
           no == FALSE
<1>1. c.choices = TRUE
  BY DEF Orderly
<1>2. FeedResponses(st, c) = IF c.finish # "none" THEN FinishResponses(f) ELSE f
  BY <1>1 DEF FeedResponses
<1>3. /\ ResponsesOut(noted) /\ noted.sent = no
      /\ noted.started = st.started /\ noted.items = st.items /\ noted.keys = st.keys
  <2> DEFINE u == IF c.usage = NoUsage THEN st ELSE [st EXCEPT !.usage = c.usage]
  <2>1. /\ ResponsesOut(u) /\ u.sent = FALSE
        /\ u.started = st.started /\ u.items = st.items /\ u.keys = st.keys
    BY DEF ResponsesOut
  <2>2. noted = IF c.choices /\ c.finish # "none" THEN [u EXCEPT !.finish = c.finish] ELSE u
    BY DEF Noted
  <2> HIDE DEF u, noted
  <2>3. CASE c.finish = "none"
    BY <2>1, <2>2, <2>3
  <2>4. CASE c.finish # "none"
    <3>1. noted = [u EXCEPT !.finish = c.finish]
      BY <1>1, <2>2, <2>4
    <3> QED
      BY <2>1, <2>4, <3>1 DEF ResponsesOut
  <2> QED
    BY <2>3, <2>4
<1> HIDE DEF noted, no
<1>4. Adding(r, no) /\ r.st = noted /\ r.out = <<>>
  BY <1>3, QuietNothing, AddingIs
<1> HIDE DEF r
<1>5. Follows(cl, r)
  <2>1. \A X : Restoring(X, cl, r) = cl
    BY <1>4, RestoredNothing, FoldNothing DEF Restoring
  <2>2. InItems(noted, cl)
    BY <1>3 DEF InItems
  <2> QED
    BY <1>4, <2>1, <2>2 DEF Follows
<1>6. Adds(cl, no, a)
  BY <1>4, <1>5, ItemsStart
<1> HIDE DEF a
<1>7. Adds(cl, no, b)
  BY <1>6, ItemsSay DEF Wordy
<1> HIDE DEF b
<1>8. Adds(cl, no, d)
  BY <1>7, ItemsSay DEF Wordy
<1> HIDE DEF d
<1>9. Adds(cl, no, f)
  <2>1. CASE c.calls = <<>>
    <3>1. f = d
      BY <2>1, FewCalls
    <3> QED
      BY <1>8, <3>1
  <2>2. ASSUME NEW k, c.calls = <<k>> PROVE Adds(cl, no, f)
    <3>1. f = CallInItem(d, k)
      BY <2>2, FewCalls
    <3>2. k.name \in Int /\ Listed(k.args)
      BY <2>2 DEF Wordy
    <3> QED
      BY <1>8, <3>1, <3>2, ItemsCall
  <2> QED
    BY <2>1, <2>2 DEF Orderly
<1> HIDE DEF f
<1>10. Adding(f, no) /\ Follows(cl, f)
  BY <1>9 DEF Adds
<1>11. CASE c.finish = "none"
  <2>1. FeedResponses(st, c) = f
    BY <1>2, <1>11
  <2>2. ReadAll("responses", cl, Restored(f.st.items, f.out)) = Restoring(f.st.items, cl, f)
    BY <1>10, RestoringAll DEF Restoring, Adding
  <2>3. InItems(f.st, Restoring(f.st.items, cl, f))
    BY <1>10 DEF Follows, Knowing
  <2>4. f.st.sent = FALSE
    BY <1>10 DEF Adding, no
  <2> QED
    BY <1>11, <2>1, <2>2, <2>3, <2>4 DEF FollowedItems
<1>12. CASE c.finish # "none"
  <2> DEFINE g == FinishResponses(f)
  <2>1. FeedResponses(st, c) = g
    BY <1>2, <1>12
  <2>2. Content(Restoring(f.st.items, cl, g)) /\ g.st.items = f.st.items /\ g.st.sent = TRUE
    BY <1>10, ItemsFinish DEF no
  <2>3. Emits("responses", no, g)
    <3>1. no \in BOOLEAN
      BY DEF no
    <3> QED
      BY <1>10, <3>1, FinishResponsesEmits
  <2> HIDE DEF g
  <2>4. Quiet("responses", g.out) \/ Ending("responses", g.out)
    BY <2>3 DEF Emits
  <2>5. ReadAll("responses", cl, Restored(g.st.items, g.out)) = Restoring(g.st.items, cl, g)
    BY <2>4, RestoringAll DEF Restoring
  <2> QED
    BY <1>12, <2>1, <2>2, <2>5 DEF FollowedItems
<1> QED
  BY <1>11, <1>12

------------------------------------------------------------------------------
(* What reaches the client, event by event *)

\* A client reads nothing, or one event.
LEMMA ReadAllFew ==
  ASSUME NEW en, NEW cl
  PROVE  /\ ReadAll(en, cl, <<>>) = cl
         /\ \A e : ReadAll(en, cl, <<e>>) = Read(en, cl, e)
<1> DEFINE o == <<>>
<1>1. o \in Seq({}) /\ Fold("read", en, cl, o) = cl
  BY FoldNothing
<1> HIDE DEF o
<1>2. ReadAll(en, cl, o) = cl
  BY <1>1, ReadFold
<1>3. ASSUME NEW e PROVE ReadAll(en, cl, <<e>>) = Read(en, cl, e)
  <2> DEFINE s == <<e>>
             z == <<>>
  <2>1. s \in Seq({e}) /\ z \in Seq({e}) /\ s = Append(z, e)
    OBVIOUS
  <2>2. Fold("read", en, cl, z) = cl
    BY FoldNothing
  <2> HIDE DEF s, z
  <2>3. ReadAll(en, cl, s) = Fold("read", en, cl, s)
    BY <2>1, ReadFold
  <2>4. Fold("read", en, cl, Append(z, e)) = Applied("read", en, Fold("read", en, cl, z), e)
    BY <2>1, FoldMore
  <2> QED
    BY <2>1, <2>2, <2>3, <2>4 DEF Applied, s
<1> QED
  BY <1>2, <1>3 DEF o

\* Events are delivered to the client and change nothing else.
LEMMA DeliverIs ==
  ASSUME NEW p, IsPipe(p), NEW s
  PROVE  /\ Kept(p, Deliver(p, s)) /\ Deliver(p, s).out = p.out
         /\ Deliver(p, s).client = ReadAll(p.entry, p.client, s)
<1> DEFINE v == ReadAll(p.entry, p.client, s)
<1>1. Deliver(p, s) = [p EXCEPT !.client = v]
  BY DEF Deliver
<1> HIDE DEF v
<1> QED
  BY <1>1, ClientField DEF v

\* What an emitter has written is delivered, to a Responses client with its tools restored.
LEMMA ToClientIs ==
  ASSUME NEW p, IsPipe(p), NEW r, OutShape(p.entry, r.st)
  PROVE  /\ Kept(p, ToClient(p, r)) /\ ToClient(p, r).out = r.st
         /\ p.entry = "responses" =>
              ToClient(p, r).client = ReadAll("responses", p.client, Restored(r.st.items, r.out))
         /\ p.entry # "responses" => ToClient(p, r).client = ReadAll(p.entry, p.client, r.out)
<1> DEFINE q == [p EXCEPT !.out = r.st]
           s == IF p.entry = "responses" THEN Restored(r.st.items, r.out) ELSE r.out
           d == Deliver(q, s)
<1>1. ToClient(p, r) = d
  BY DEF ToClient, Restored
<1>2. IsPipe(q) /\ Kept(p, q) /\ q.out = r.st /\ q.client = p.client
  BY OutField
<1> HIDE DEF q, s
<1>3. Kept(q, d) /\ d.out = q.out /\ d.client = ReadAll(q.entry, q.client, s)
  BY <1>2, DeliverIs
<1> HIDE DEF d
<1> QED
  BY <1>1, <1>2, <1>3 DEF Kept, Route, s

\* A stream for which the end has been written.
Ended(p) == p.client.bad = FALSE /\ (p.entry # "openai" => p.out.sent = TRUE)

\* What a chunk makes of a stream that is under way.
Hears(p, c, m, f) ==
  /\ c.finish = "none" => Heard(f, m) /\ (c.calls # <<>> => Calling(f))
  /\ c.finish # "none" => Ended(f) /\ (p.entry = "openai" => Listening(f.client))

\* What FeedEntry is.
LEMMA FeedEntryIs ==
  ASSUME NEW p, IsPipe(p), NEW c
  PROVE  \E q : /\ IsPipe(q) /\ Kept(p, q) /\ q.out = p.out /\ q.client = p.client
                /\ p.entry = "openai" => FeedEntry(p, c) = Deliver(q, <<c>>)
                /\ p.entry = "anthropic" => FeedEntry(p, c) = ToClient(q, FeedMessages(p.out, c))
                /\ p.entry = "responses" => FeedEntry(p, c) = ToClient(q, FeedResponses(p.out, c))
<1> DEFINE d == [p EXCEPT !.usage = c.usage]
           q == IF c.usage = NoUsage THEN p ELSE d
<1>1. IsPipe(d) /\ Kept(p, d) /\ d.out = p.out /\ d.client = p.client
  BY UsageField
<1> HIDE DEF d
<1>2. IsPipe(q) /\ Kept(p, q) /\ q.out = p.out /\ q.client = p.client
  BY <1>1 DEF Kept, Route
<1>3. FeedEntry(p, c) = CASE p.entry = "openai"    -> Deliver(q, <<c>>)
                          [] p.entry = "anthropic" -> ToClient(q, FeedMessages(q.out, c))
                          [] p.entry = "responses" -> ToClient(q, FeedResponses(q.out, c))
  BY DEF FeedEntry, d
<1> HIDE DEF q
<1>4. /\ p.entry = "openai" => FeedEntry(p, c) = Deliver(q, <<c>>)
      /\ p.entry = "anthropic" => FeedEntry(p, c) = ToClient(q, FeedMessages(p.out, c))
      /\ p.entry = "responses" => FeedEntry(p, c) = ToClient(q, FeedResponses(p.out, c))
  BY <1>2, <1>3
<1> QED
  BY <1>2, <1>4

\* A chunk for a stream that is under way.
LEMMA FeedEntryHeard ==
  ASSUME NEW p, IsPipe(p), NEW n, Heard(p, n), NEW c, NEW m, Orderly(n, c, m), Wordy(c),
         p.entry = "anthropic" => Single(p.out.curKind, c)
  PROVE  Hears(p, c, m, FeedEntry(p, c))
<1> DEFINE f == FeedEntry(p, c)
<1>1. PICK q : /\ IsPipe(q) /\ Kept(p, q) /\ q.out = p.out /\ q.client = p.client
               /\ p.entry = "openai" => f = Deliver(q, <<c>>)
               /\ p.entry = "anthropic" => f = ToClient(q, FeedMessages(p.out, c))
               /\ p.entry = "responses" => f = ToClient(q, FeedResponses(p.out, c))
  BY FeedEntryIs
<1>2. q.entry = p.entry /\ OutShape(p.entry, p.out) /\ Client(p.client) /\ m \in Nat
  BY <1>1 DEF Kept, Route, IsPipe, Orderly
<1>3. IsChunk(c)
  BY ListedIs DEF Orderly, IsChunk
<1> HIDE DEF f
<1>4. CASE p.entry = "openai"
  <2>1. ChatHeard(p.client, n)
    BY <1>4 DEF Heard
  <2>2. f.entry = p.entry /\ f.client = Read("openai", p.client, c)
    <3>1. Kept(q, Deliver(q, <<c>>)) /\ Deliver(q, <<c>>).client = ReadAll(q.entry, q.client, <<c>>)
      BY <1>1, DeliverIs
    <3>2. ReadAll("openai", p.client, <<c>>) = Read("openai", p.client, c)
      BY ReadAllFew
    <3> HIDE DEF f
    <3>3. q.entry = "openai" /\ f = Deliver(q, <<c>>)
      BY <1>1, <1>2, <1>4
    <3> QED
      BY <1>1, <1>4, <3>1, <3>2, <3>3 DEF Kept, Route
  <2>3. /\ Listening(f.client)
        /\ c.finish = "none" => ChatHeard(f.client, m)
    BY <1>2, <2>1, <2>2, ReadChunkHeard
  <2>4. f.client.bad = FALSE
    BY <2>3 DEF Listening
  <2>5. f.entry = "openai"
    BY <1>4, <2>2
  <2> QED
    BY <1>4, <2>3, <2>4, <2>5 DEF Hears, Heard, Calling, Ended, f
<1>5. CASE p.entry = "anthropic"
  <2> DEFINE r == FeedMessages(p.out, c)
  <2>1. MessagesOut(p.out) /\ p.out.sent = FALSE /\ InBlocks(p.out, p.client)
    BY <1>2, <1>5 DEF Heard, OutShape
  <2>2. Followed(p.client, c, r)
    BY <1>2, <1>5, <2>1, FeedMessagesHeard
  <2>3. /\ MessagesOut(r.st) /\ r.st.sent \in BOOLEAN
    <3>1. MessagesOut(r.st)
      BY <1>3, <2>1, FeedMessagesEmits DEF IsChunk
    <3>2. r.st.sent \in BOOLEAN
      BY <2>2 DEF Followed
    <3> QED
      BY <3>1, <3>2
  <2> HIDE DEF r
  <2>4. f.entry = p.entry /\ f.out = r.st /\ f.client = ReadAll("anthropic", p.client, r.out)
    <3>1. OutShape(q.entry, r.st)
      BY <1>2, <1>5, <2>3 DEF OutShape
    <3>2. /\ Kept(q, ToClient(q, r)) /\ ToClient(q, r).out = r.st
          /\ q.entry # "responses" => ToClient(q, r).client = ReadAll(q.entry, q.client, r.out)
      BY <1>1, <3>1, ToClientIs
    <3> QED
      BY <1>1, <1>2, <1>5, <3>2 DEF Kept, Route, r
  <2>5. CASE c.finish = "none"
    <3>1. InBlocks(f.out, f.client) /\ f.out.sent = FALSE /\ (c.calls # <<>> => f.out.curKind = "call")
      BY <2>2, <2>4, <2>5 DEF Followed
    <3>2. f.entry = "anthropic"
      BY <1>5, <2>4
    <3> QED
      BY <1>2, <2>5, <3>1, <3>2 DEF Hears, Heard, Calling, f
  <2>6. CASE c.finish # "none"
    <3>1. f.client.bad = FALSE /\ f.out.sent = TRUE
      BY <2>2, <2>4, <2>6 DEF Followed, Content
    <3> QED
      BY <1>5, <2>6, <3>1 DEF Hears, Ended, f
  <2> QED
    BY <2>5, <2>6
<1>6. CASE p.entry = "responses"
  <2> DEFINE r == FeedResponses(p.out, c)
  <2>1. ResponsesOut(p.out) /\ p.out.sent = FALSE /\ InItems(p.out, p.client)
    BY <1>2, <1>6 DEF Heard, OutShape
  <2>2. FollowedItems(p.client, c, r)
    BY <1>2, <2>1, FeedResponsesHeard
  <2>3. /\ ResponsesOut(r.st) /\ r.st.sent \in BOOLEAN
    <3>1. ResponsesOut(r.st)
      BY <1>3, <2>1, FeedResponsesEmits DEF IsChunk
    <3>2. r.st.sent \in BOOLEAN
      BY <2>2 DEF FollowedItems
    <3> QED
      BY <3>1, <3>2
  <2> HIDE DEF r
  <2>4. /\ f.entry = p.entry /\ f.out = r.st
        /\ f.client = ReadAll("responses", p.client, Restored(r.st.items, r.out))
    <3>1. OutShape(q.entry, r.st)
      BY <1>2, <1>6, <2>3 DEF OutShape
    <3>2. /\ Kept(q, ToClient(q, r)) /\ ToClient(q, r).out = r.st
          /\ q.entry = "responses" =>
               ToClient(q, r).client = ReadAll("responses", q.client, Restored(r.st.items, r.out))
      BY <1>1, <3>1, ToClientIs
    <3> QED
      BY <1>1, <1>2, <1>6, <3>2 DEF Kept, Route, r
  <2>5. CASE c.finish = "none"
    <3>1. InItems(f.out, f.client) /\ f.out.sent = FALSE
      BY <2>2, <2>4, <2>5 DEF FollowedItems
    <3>2. f.entry = "responses"
      BY <1>6, <2>4
    <3> QED
      BY <1>2, <2>5, <3>1, <3>2 DEF Hears, Heard, Calling, f
  <2>6. CASE c.finish # "none"
    <3>1. f.client.bad = FALSE /\ f.out.sent = TRUE
      BY <2>2, <2>4, <2>6 DEF FollowedItems, Content
    <3> QED
      BY <1>6, <2>6, <3>1 DEF Hears, Ended, f
  <2> QED
    BY <2>5, <2>6
<1> QED
  BY <1>4, <1>5, <1>6 DEF IsPipe, Protocols

\* A chunk that only carries usage, for a stream for which the end has been written.
LEMMA FeedUsageEnded ==
  ASSUME NEW p, IsPipe(p), Ended(p), NEW c, IsChunk(c), c.choices = FALSE
  PROVE  Ended(FeedEntry(p, c))
<1> DEFINE f == FeedEntry(p, c)
<1>1. PICK q : /\ IsPipe(q) /\ Kept(p, q) /\ q.out = p.out /\ q.client = p.client
               /\ p.entry = "openai" => f = Deliver(q, <<c>>)
               /\ p.entry = "anthropic" => f = ToClient(q, FeedMessages(p.out, c))
               /\ p.entry = "responses" => f = ToClient(q, FeedResponses(p.out, c))
  BY FeedEntryIs
<1>2. q.entry = p.entry /\ OutShape(p.entry, p.out) /\ Client(p.client)
  BY <1>1 DEF Kept, Route, IsPipe
<1> HIDE DEF f
<1>3. CASE p.entry = "openai"
  <2>1. Kept(q, Deliver(q, <<c>>)) /\ Deliver(q, <<c>>).client = ReadAll(q.entry, q.client, <<c>>)
    BY <1>1, DeliverIs
  <2>2. f.entry = "openai" /\ f.client = Read("openai", p.client, c)
    <3>1. ReadAll("openai", p.client, <<c>>) = Read("openai", p.client, c)
      BY ReadAllFew
    <3>2. q.entry = "openai" /\ f = Deliver(q, <<c>>)
      BY <1>1, <1>2, <1>3
    <3> QED
      BY <1>1, <2>1, <3>1, <3>2 DEF Kept, Route
  <2>3. Read("openai", p.client, c) = p.client
    <3>1. c # DoneMark
      BY Marks DEF IsChunk
    <3> QED
      BY <3>1 DEF Read, ReadChunk
  <2> QED
    BY <2>2, <2>3 DEF Ended, f
<1>4. CASE p.entry = "anthropic"
  <2> DEFINE r == [st |-> Noted(p.out, c), out |-> <<>>]
             st == Noted(p.out, c)
  <2>1. FeedMessages(p.out, c) = r
    BY DEF FeedMessages
  <2>2. st = IF c.usage = NoUsage THEN p.out ELSE [p.out EXCEPT !.usage = c.usage]
    BY DEF Noted
  <2>3. MessagesOut(st) /\ st.sent = p.out.sent
    <3> DEFINE d == [p.out EXCEPT !.usage = c.usage]
    <3>1. MessagesOut(d) /\ d.sent = p.out.sent /\ MessagesOut(p.out)
      BY <1>2, <1>4, MessagesFields DEF OutShape
    <3> HIDE DEF d, st
    <3> QED
      BY <2>2, <3>1 DEF d
  <2>4. OutShape(q.entry, st)
    BY <1>2, <1>4, <2>3 DEF OutShape
  <2> HIDE DEF st
  <2>5. r = [st |-> st, out |-> <<>>]
    BY DEF st
  <2> HIDE DEF r
  <2>6. r.st = st /\ r.out = <<>>
    BY <2>5
  <2>7. /\ Kept(q, ToClient(q, r)) /\ ToClient(q, r).out = r.st
        /\ q.entry # "responses" => ToClient(q, r).client = ReadAll(q.entry, q.client, r.out)
    BY <1>1, <2>4, <2>6, ToClientIs
  <2>8. f.client = p.client /\ f.out = st /\ f.entry = p.entry
    BY <1>1, <1>2, <1>4, <2>1, <2>6, <2>7, ReadAllFew DEF Kept, Route
  <2> QED
    BY <2>3, <2>8 DEF Ended, f
<1>5. CASE p.entry = "responses"
  <2> DEFINE r == [st |-> Noted(p.out, c), out |-> <<>>]
             st == Noted(p.out, c)
  <2>1. FeedResponses(p.out, c) = r
    BY DEF FeedResponses
  <2>2. st = IF c.usage = NoUsage THEN p.out ELSE [p.out EXCEPT !.usage = c.usage]
    BY DEF Noted
  <2>3. ResponsesOut(st) /\ st.sent = p.out.sent
    <3> DEFINE d == [p.out EXCEPT !.usage = c.usage]
    <3>1. ResponsesOut(d) /\ d.sent = p.out.sent /\ ResponsesOut(p.out)
      BY <1>2, <1>5, ResponsesFields DEF OutShape
    <3> HIDE DEF d, st
    <3> QED
      BY <2>2, <3>1 DEF d
  <2>4. OutShape(q.entry, st)
    BY <1>2, <1>5, <2>3 DEF OutShape
  <2> HIDE DEF st
  <2>5. r = [st |-> st, out |-> <<>>]
    BY DEF st
  <2> HIDE DEF r
  <2>6. r.st = st /\ r.out = <<>>
    BY <2>5
  <2>7. /\ Kept(q, ToClient(q, r)) /\ ToClient(q, r).out = r.st
        /\ q.entry = "responses" =>
             ToClient(q, r).client = ReadAll("responses", q.client, Restored(r.st.items, r.out))
    BY <1>1, <2>4, <2>6, ToClientIs
  <2>8. f.client = p.client /\ f.out = st /\ f.entry = p.entry
    BY <1>1, <1>2, <1>5, <2>1, <2>6, <2>7, RestoredNothing, ReadAllFew DEF Kept, Route
  <2> QED
    BY <2>3, <2>8 DEF Ended, f
<1> QED
  BY <1>3, <1>4, <1>5 DEF IsPipe, Protocols

------------------------------------------------------------------------------
(* The chunks that are fed to the entry's emitter *)

\* A chunk that fits a stream whose client has been told of n calls, and tells of m.
Fine(p, n, c, m) ==
  /\ Orderly(n, c, m) /\ Wordy(c)
  /\ p.entry = "anthropic" => Single(p.out.curKind, c)

\* A chunk that says text, reasoning or nothing.
Utters(c) ==
  /\ c.type = "chunk" /\ c.choices = TRUE /\ c.calls = <<>>
  /\ Listed(c.text) /\ Listed(c.think)

\* A chunk with one call.
CallOf(c, k) ==
  /\ c.type = "chunk" /\ c.choices = TRUE /\ c.calls = <<k>>
  /\ c.text = <<>> /\ c.think = <<>>

\* Text and reasoning fit in any case,
LEMMA SpeechFine ==
  ASSUME NEW p, NEW n \in Nat, NEW c, Utters(c)
  PROVE  Fine(p, n, c, n)
<1>1. \A k : c.calls # <<k>>
  BY DEF Utters
<1>2. Orderly(n, c, n)
  BY DEF Utters, Orderly
<1>3. Wordy(c)
  BY <1>1 DEF Utters, Wordy
<1>4. Single(p.out.curKind, c)
  BY <1>1 DEF Utters, Single
<1> QED
  BY <1>2, <1>3, <1>4 DEF Fine

\* a call when it is a new one or the one under way.
LEMMA CallFine ==
  ASSUME NEW p, NEW n \in Nat, NEW m \in Nat, NEW c, NEW k, CallOf(c, k), CallFits(n, k, m),
         k.name \in Int, Listed(k.args), Calling(p) \/ k.name # 0
  PROVE  Fine(p, n, c, m) /\ c.calls # <<>>
<1>1. \A j : c.calls = <<j>> => j = k
  BY DEF CallOf
<1>2. Orderly(n, c, m)
  BY DEF CallOf, Orderly
<1>3. Wordy(c)
  BY <1>1, ListedIs DEF CallOf, Wordy
<1>4. p.entry = "anthropic" => Single(p.out.curKind, c)
  BY <1>1 DEF CallOf, Single, Calling
<1>5. c.calls # <<>>
  BY DEF CallOf
<1> QED
  BY <1>2, <1>3, <1>4, <1>5 DEF Fine

\* The chunks that are written.
LEMMA SpeechIs ==
  /\ Utters(Chunk) /\ Chunk.finish = "none"
  /\ \A kind, data : Listed(data) =>
       Utters(SayChunk(kind, data)) /\ SayChunk(kind, data).finish = "none"
  /\ \A index, name, args :
       /\ CallOf(CallChunk(index, name, args), ChunkCall(index, name, args))
       /\ CallChunk(index, name, args).finish = "none"
<1>1. Listed(<<>>)
  BY ListedIs
<1>2. Utters(Chunk) /\ Chunk.finish = "none"
  BY <1>1 DEF Utters, Chunk
<1>3. ASSUME NEW kind, NEW data, Listed(data)
      PROVE  Utters(SayChunk(kind, data)) /\ SayChunk(kind, data).finish = "none"
  BY <1>1, <1>3 DEF Utters, SayChunk, Chunk
<1>4. ASSUME NEW index, NEW name, NEW args
      PROVE  /\ CallOf(CallChunk(index, name, args), ChunkCall(index, name, args))
             /\ CallChunk(index, name, args).finish = "none"
  <2> DEFINE k == ChunkCall(index, name, args)
             v == <<k>>
             c == [Chunk EXCEPT !.calls = v]
  <2>1. CallChunk(index, name, args) = c
    BY DEF CallChunk
  <2> HIDE DEF v
  <2>2. /\ c.type = "chunk" /\ c.choices = TRUE /\ c.calls = v /\ c.text = <<>>
        /\ c.think = <<>> /\ c.finish = "none"
    BY DEF Chunk
  <2> HIDE DEF c, k
  <2>3. v = <<k>>
    BY DEF v
  <2> QED
    BY <2>1, <2>2, <2>3 DEF CallOf, k
<1> QED
  BY <1>2, <1>3, <1>4

\* With another finish reason or usage a chunk says the same.
LEMMA SpeechEnd ==
  /\ \A v : Utters([Chunk EXCEPT !.finish = v]) /\ [Chunk EXCEPT !.finish = v].finish = v
  /\ \A v, w : Utters([[Chunk EXCEPT !.finish = v] EXCEPT !.usage = w])
                 /\ [[Chunk EXCEPT !.finish = v] EXCEPT !.usage = w].finish = v
  /\ \A data, v : Listed(data) =>
       /\ Utters([SayChunk("text", data) EXCEPT !.finish = v])
       /\ [SayChunk("text", data) EXCEPT !.finish = v].finish = v
       /\ SayChunk("text", data).text = data
  /\ Chunk.text = <<>>
<1>1. Listed(<<>>)
  BY ListedIs
<1>2. ASSUME NEW v
      PROVE  Utters([Chunk EXCEPT !.finish = v]) /\ [Chunk EXCEPT !.finish = v].finish = v
  BY <1>1 DEF Utters, Chunk
<1>3. ASSUME NEW v, NEW w
      PROVE  Utters([[Chunk EXCEPT !.finish = v] EXCEPT !.usage = w])
               /\ [[Chunk EXCEPT !.finish = v] EXCEPT !.usage = w].finish = v
  BY <1>1 DEF Utters, Chunk
<1>4. ASSUME NEW data, NEW v, Listed(data)
      PROVE  /\ Utters([SayChunk("text", data) EXCEPT !.finish = v])
             /\ [SayChunk("text", data) EXCEPT !.finish = v].finish = v
             /\ SayChunk("text", data).text = data
  <2>1. SayChunk("text", data) = [Chunk EXCEPT !.text = data]
    BY DEF SayChunk
  <2> QED
    BY <1>1, <1>4, <2>1 DEF Utters, Chunk
<1>5. Chunk.text = <<>>
  BY DEF Chunk
<1> QED
  BY <1>2, <1>3, <1>4, <1>5

\* A call has its index, its name and its arguments.
LEMMA ChunkCallIs ==
  ASSUME NEW index, NEW name, NEW args
  PROVE  /\ ChunkCall(index, name, args).index = index
         /\ ChunkCall(index, name, args).name = name
         /\ ChunkCall(index, name, args).args = args
  BY DEF ChunkCall

\* A call begins: it is the n-th.
LEMMA CallBegins ==
  ASSUME NEW p, NEW n \in Nat, NEW name \in Int, name # 0, NEW args, Listed(args)
  PROVE  LET c == CallChunk(n, name, args) IN
         Fine(p, n, c, n + 1) /\ c.calls # <<>> /\ c.finish = "none"
<1> DEFINE k == ChunkCall(n, name, args)
           c == CallChunk(n, name, args)
<1>1. k.index = n /\ k.name = name /\ k.args = args
  BY ChunkCallIs
<1>2. CallOf(c, k) /\ c.finish = "none"
  BY SpeechIs
<1> HIDE DEF k, c
<1>3. CallFits(n, k, n + 1)
  BY <1>1 DEF CallFits
<1>4. Fine(p, n, c, n + 1) /\ c.calls # <<>>
  <2> DEFINE m == n + 1
  <2>1. /\ m \in Nat /\ CallFits(n, k, m)
        /\ k.name \in Int /\ Listed(k.args) /\ (Calling(p) \/ k.name # 0)
    BY <1>1, <1>3
  <2> HIDE DEF m
  <2>2. Fine(p, n, c, m) /\ c.calls # <<>>
    BY <1>2, <2>1, CallFine
  <2> QED
    BY <2>2 DEF m
<1> QED
  BY <1>2, <1>4 DEF c

\* A call of the n goes on.
LEMMA CallGoesOn ==
  ASSUME NEW p, Calling(p), NEW n \in Nat, NEW i \in 0..(n - 1), NEW args, Listed(args)
  PROVE  LET c == CallChunk(i, 0, args) IN
         Fine(p, n, c, n) /\ c.calls # <<>> /\ c.finish = "none"
<1> DEFINE k == ChunkCall(i, 0, args)
           c == CallChunk(i, 0, args)
<1>1. k.index = i /\ k.name = 0 /\ k.args = args
  BY ChunkCallIs
<1>2. CallOf(c, k) /\ c.finish = "none"
  BY SpeechIs
<1> HIDE DEF k, c
<1>3. CallFits(n, k, n)
  BY <1>1 DEF CallFits
<1>4. Fine(p, n, c, n) /\ c.calls # <<>>
  <2>1. k.name \in Int /\ Listed(k.args) /\ (Calling(p) \/ k.name # 0)
    BY <1>1
  <2> QED
    BY <1>2, <1>3, <2>1, CallFine
<1> QED
  BY <1>2, <1>4 DEF c

------------------------------------------------------------------------------
(* What the converters make of an upstream's events *)

\* The last of n calls, or the one that is known, is one of them.
LEMMA ToolOf ==
  ASSUME NEW t, Listed(t), NEW n, Len(t) = n, n # 0, NEW x
  PROVE  LET known == {j \in DOMAIN t : t[j] = x} IN
         (IF known # {} THEN (CHOOSE j \in known : TRUE) - 1 ELSE Larger(n - 1, 0)) \in 0..(n - 1)
<1> DEFINE known == {j \in DOMAIN t : t[j] = x}
           j == CHOOSE y \in known : TRUE
<1>1. n \in Nat /\ DOMAIN t = 1..n
  BY ListedIs
<1>2. known # {} => j \in 1..n
  BY <1>1
<1> HIDE DEF known, j
<1>3. known # {} => j - 1 \in 0..(n - 1)
  BY <1>1, <1>2
<1>4. Larger(n - 1, 0) \in 0..(n - 1)
  BY <1>1 DEF Larger
<1>5. (IF known # {} THEN j - 1 ELSE Larger(n - 1, 0)) \in 0..(n - 1)
  BY <1>3, <1>4
<1> QED
  BY <1>5 DEF known, j

\* The chunk that finishes the chat.
LastChunk(out) == \E c : out = <<c>> /\ Utters(c) /\ c.finish # "none"

\* With any finish reason the chunk is one that says something.
ChatEnding(c) == \A v : Utters([c EXCEPT !.finish = v]) /\ [c EXCEPT !.finish = v].finish = v

\* A converter that has come to the end and has written its last chunk.
ChatOver(r) == r.st.sent = TRUE /\ LastChunk(r.out)

\* Nothing that finishes the chat is written twice.
LEMMA FinishChatIs ==
  ASSUME NEW st, NEW t, FinishChat(st, Chunk) = t \/ FinishChat(st, SayChunk("text", <<ErrorText>>)) = t
  PROVE  /\ st.sent = TRUE => t = [st |-> st, out |-> <<>>]
         /\ st.sent = FALSE /\ st.finish # "none" =>
              t.st = [st EXCEPT !.sent = TRUE] /\ LastChunk(t.out)
<1>1. CASE st.sent = TRUE
  BY <1>1 DEF FinishChat
<1>2. CASE st.sent = FALSE /\ st.finish # "none"
  <2>1. ASSUME NEW c, t = FinishChat(st, c), ChatEnding(c)
        PROVE  t.st = [st EXCEPT !.sent = TRUE] /\ LastChunk(t.out)
    <3> DEFINE v == IF c.text = <<ErrorText>> THEN "stop" ELSE st.finish
               d == [c EXCEPT !.finish = v]
    <3>1. t = [st |-> [st EXCEPT !.sent = TRUE], out |-> <<d>>]
      BY <1>2, <2>1 DEF FinishChat
    <3>2. v # "none"
      BY <1>2
    <3> HIDE DEF v
    <3>3. Utters(d) /\ d.finish = v
      BY <2>1 DEF ChatEnding
    <3> HIDE DEF d
    <3> QED
      BY <3>1, <3>2, <3>3 DEF LastChunk
  <2>2. Listed(<<ErrorText>>)
    BY ListedIs
  <2>3. CASE t = FinishChat(st, Chunk)
    <3> DEFINE c == Chunk
    <3>1. t = FinishChat(st, c) /\ ChatEnding(c)
      BY <2>3, SpeechEnd DEF ChatEnding
    <3> HIDE DEF c
    <3> QED
      BY <1>2, <2>1, <3>1
  <2>4. CASE t = FinishChat(st, SayChunk("text", <<ErrorText>>))
    <3> DEFINE data == <<ErrorText>>
               c == SayChunk("text", data)
    <3>1. Listed(data) /\ t = FinishChat(st, c)
      BY <2>2, <2>4
    <3> HIDE DEF data
    <3>2. ChatEnding(c)
      BY <3>1, SpeechEnd DEF ChatEnding
    <3> HIDE DEF c
    <3> QED
      BY <1>2, <2>1, <3>1, <3>2
  <2> QED
    BY <2>3, <2>4
<1> QED
  BY <1>1, <1>2

\* The messages converter, event by event: the message begins,
LEMMA BlockGreeting ==
  ASSUME NEW st, AnthropicIn(st), NEW n, KnowsBlocks(st, n), NEW e, e.type = "message_start"
  PROVE  LET r == FeedAnthropicEvent(st, e) IN KnowsBlocks(r.st, n) /\ r.out = <<Chunk>>
<1> DEFINE u == [st EXCEPT !.usage.prompt = e.usage.prompt]
<1>1. FeedAnthropicEvent(st, e) = [st |-> u, out |-> <<Chunk>>]
  BY DEF FeedAnthropicEvent
<1>2. u.sent = st.sent /\ u.finish = st.finish /\ u.blockToTool = st.blockToTool
  BY DEF AnthropicIn
<1> HIDE DEF u
<1>3. KnowsBlocks(u, n)
  BY <1>2 DEF KnowsBlocks
<1> QED
  BY <1>1, <1>3

\* a block with a call begins,
LEMMA BlockOfCall ==
  ASSUME NEW st, AnthropicIn(st), NEW n, KnowsBlocks(st, n), NEW e,
         e.type = "block_start", e.kind = "call"
  PROVE  LET r == FeedAnthropicEvent(st, e) IN
         KnowsBlocks(r.st, n + 1) /\ r.out = <<CallChunk(n, e.name, <<>>)>>
<1> DEFINE w == Append(st.blockToTool, e.index)
           u == [st EXCEPT !.blockToTool = w, !.finish = "tool_calls"]
           out == <<CallChunk(n, e.name, <<>>)>>
<1>1. FeedAnthropicEvent(st, e) = [st |-> u, out |-> out]
  BY DEF FeedAnthropicEvent, KnowsBlocks
<1>2. Listed(w) /\ Len(w) = n + 1
  BY Appended DEF KnowsBlocks
<1> HIDE DEF w, out
<1>3. u.sent = st.sent /\ u.finish = "tool_calls" /\ u.blockToTool = w
  BY DEF AnthropicIn
<1> HIDE DEF u
<1>4. KnowsBlocks(u, n + 1)
  BY <1>2, <1>3 DEF KnowsBlocks
<1> QED
  BY <1>1, <1>4 DEF out

\* or goes on,
LEMMA BlockOfCallMore ==
  ASSUME NEW st, NEW n, KnowsBlocks(st, n), n # 0, NEW e, e.type = "block_delta", e.kind = "call"
  PROVE  LET r == FeedAnthropicEvent(st, e) IN
         r.st = st /\ \E i \in 0..(n - 1) : r.out = <<CallChunk(i, 0, e.data)>>
<1> DEFINE i == ToolOfBlock(st, e.index)
<1>1. FeedAnthropicEvent(st, e) = [st |-> st, out |-> <<CallChunk(i, 0, e.data)>>]
  BY DEF FeedAnthropicEvent
<1>2. i \in 0..(n - 1)
  BY ToolOf DEF ToolOfBlock, KnowsBlocks
<1> HIDE DEF i
<1> QED
  BY <1>1, <1>2

\* text or reasoning goes on,
LEMMA BlockOfText ==
  ASSUME NEW st, NEW e, e.type = "block_delta", e.kind # "call"
  PROVE  FeedAnthropicEvent(st, e) = [st |-> st, out |-> <<SayChunk(e.kind, e.data)>>]
  BY DEF FeedAnthropicEvent

\* nothing is said,
LEMMA BlockSilent ==
  ASSUME NEW st, NEW e, (e.type = "block_start" /\ e.kind # "call") \/ e.type = "block_stop"
  PROVE  FeedAnthropicEvent(st, e) = [st |-> st, out |-> <<>>]
  BY DEF FeedAnthropicEvent

\* a finish reason is given,
LEMMA BlockReason ==
  ASSUME NEW st, AnthropicIn(st), NEW n, KnowsBlocks(st, n), NEW e, e.type = "message_delta",
         e.finish # "none"
  PROVE  LET r == FeedAnthropicEvent(st, e) IN KnowsBlocks(r.st, n) /\ r.out = <<>>
<1> DEFINE v == IF e.usage.prompt > 0 THEN e.usage.prompt ELSE st.usage.prompt
           u == [st EXCEPT !.finish = e.finish, !.usage.completion = e.usage.completion,
                           !.usage.prompt = v]
           w == [st EXCEPT !.finish = e.finish, !.usage.completion = e.usage.completion]
<1>1. FeedAnthropicEvent(st, e) = [st |-> u, out |-> <<>>]
  BY DEF FeedAnthropicEvent, AnthropicIn
<1> HIDE DEF v
<1>2. u = [w EXCEPT !.usage.prompt = v]
  OBVIOUS
<1>3. w.sent = st.sent /\ w.finish = e.finish /\ w.blockToTool = st.blockToTool
  BY DEF AnthropicIn
<1> HIDE DEF w
<1>4. u.sent = st.sent /\ u.finish = e.finish /\ u.blockToTool = st.blockToTool
  BY <1>2, <1>3
<1> HIDE DEF u
<1>5. KnowsBlocks(u, n)
  BY <1>4 DEF KnowsBlocks
<1> QED
  BY <1>1, <1>5

\* or the chat is finished.
LEMMA BlockEnd ==
  ASSUME NEW st, AnthropicIn(st), NEW n, KnowsBlocks(st, n), NEW e,
         e.type \in {"message_stop", "error"}
  PROVE  ChatOver(FeedAnthropicEvent(st, e))
<1> DEFINE r == FeedAnthropicEvent(st, e)
<1>1. r = FinishChat(st, Chunk) \/ r = FinishChat(st, SayChunk("text", <<ErrorText>>))
  BY DEF FeedAnthropicEvent
<1> HIDE DEF r
<1>2. r.st = [st EXCEPT !.sent = TRUE] /\ LastChunk(r.out)
  BY <1>1, FinishChatIs DEF KnowsBlocks
<1>3. [st EXCEPT !.sent = TRUE].sent = TRUE
  BY DEF AnthropicIn
<1> QED
  BY <1>2, <1>3 DEF r, ChatOver

\* The Responses converter, event by event: a call begins,
LEMMA CodexCall ==
  ASSUME NEW st, CodexIn(st), NEW n, KnowsItems(st, n), NEW e, e.type = "added",
         e.kind \in CallKinds
  PROVE  /\ KnowsItems(ConvertCodexEvent(st, e).st, n + 1)
         /\ \E args : /\ Listed(args)
                      /\ ConvertCodexEvent(st, e).out = <<CallChunk(n, e.name, args)>>
<1> DEFINE w == Append(st.toolIdxByItem, e.index)
           v == IF e.kind = "custom" THEN st.custom \cup {n} ELSE st.custom
           a == [st EXCEPT !.toolIdxByItem = w]
           b == [a EXCEPT !.finish = "tool_calls"]
           u == [b EXCEPT !.custom = v]
           args == IF e.kind = "custom" THEN <<Opening>> ELSE <<>>
           out == <<CallChunk(n, e.name, args)>>
<1>1. Len(st.toolIdxByItem) = n
  BY DEF KnowsItems
<1>2. ConvertCodexEvent(st, e) =
        [st |-> [st EXCEPT !.toolIdxByItem = w, !.finish = "tool_calls", !.custom = v],
         out |-> out]
  BY <1>1 DEF ConvertCodexEvent, CallAdded, CodexIn
<1>3. Listed(w) /\ Len(w) = n + 1
  BY Appended DEF KnowsItems
<1>4. Listed(args)
  BY ListedIs
<1> HIDE DEF w, v, out, args
<1>5. [st EXCEPT !.toolIdxByItem = w, !.finish = "tool_calls", !.custom = v]
        = [a EXCEPT !.finish = "tool_calls", !.custom = v]
  BY DEF CodexIn
<1>6. /\ a = [toolIdxByItem |-> w, argsEmitted |-> a.argsEmitted,
              custom |-> a.custom, finish |-> a.finish, sent |-> st.sent, usage |-> a.usage]
      /\ a.toolIdxByItem = w /\ a.sent = st.sent
  BY DEF CodexIn
<1> HIDE DEF a
<1>7. [a EXCEPT !.finish = "tool_calls", !.custom = v] = u
  BY <1>6
<1>8. b.toolIdxByItem = w /\ b.sent = st.sent /\ b.finish = "tool_calls"
      /\ b = [toolIdxByItem |-> w, argsEmitted |-> b.argsEmitted,
              custom |-> b.custom, finish |-> b.finish, sent |-> st.sent, usage |-> b.usage]
  BY <1>6
<1> HIDE DEF b
<1>9. u.toolIdxByItem = w /\ u.sent = st.sent /\ u.finish = "tool_calls"
  BY <1>8
<1> HIDE DEF u
<1>10. KnowsItems(u, n + 1)
  BY <1>3, <1>9 DEF KnowsItems
<1> QED
  BY <1>2, <1>4, <1>5, <1>7, <1>10 DEF out

\* What a converter writes of a call that goes on: nothing or a chunk of one of the n.
CallMore(out, n) ==
  \/ out = <<>>
  \/ \E i \in 0..(n - 1) : \E args : Listed(args) /\ out = <<CallChunk(i, 0, args)>>

\* goes on or is done,
LEMMA CodexCallMore ==
  ASSUME NEW st, CodexIn(st), NEW n, KnowsItems(st, n), n # 0, NEW e,
         e.type \in {"delta", "done"}, e.kind \in CallKinds, Listed(e.data)
  PROVE  /\ KnowsItems(ConvertCodexEvent(st, e).st, n)
         /\ CallMore(ConvertCodexEvent(st, e).out, n)
<1> DEFINE i == ToolIndexFor(st, e.index)
           args == IF e.type = "delta" THEN e.data ELSE ArgsOfDone(st, i, e.data)
           r == CallArgs(st, i, args)
<1>1. ConvertCodexEvent(st, e) = r
  BY DEF ConvertCodexEvent
<1>2. i \in 0..(n - 1)
  BY ToolOf DEF ToolIndexFor, KnowsItems
<1>3. Listed(args)
  <2>1. Listed(<<>>) /\ Listed(<<Closing>>) /\ Listed(<<Opening>>)
    BY ListedIs
  <2>2. Listed(Wrap(e.data))
    <3> DEFINE a == <<Opening>>
               b == <<Closing>>
               c == e.data
    <3>1. Wrap(c) = a \o c \o b
      BY DEF Wrap
    <3>2. Listed(a) /\ Listed(b) /\ Listed(c)
      BY <2>1
    <3> HIDE DEF a, b, c
    <3>3. Listed(a \o c)
      BY <3>2, ListedJoined
    <3> DEFINE d == a \o c
    <3>4. Listed(d)
      BY <3>3
    <3> HIDE DEF d
    <3>5. Listed(d \o b)
      BY <3>2, <3>4, ListedJoined
    <3> QED
      BY <3>1, <3>5 DEF d, c
  <2>3. Listed(ArgsOfDone(st, i, e.data))
    <3> HIDE DEF i
    <3>1. \/ ArgsOfDone(st, i, e.data) = <<Closing>>
          \/ ArgsOfDone(st, i, e.data) = Wrap(e.data)
          \/ ArgsOfDone(st, i, e.data) = <<>>
          \/ ArgsOfDone(st, i, e.data) = e.data
      BY DEF ArgsOfDone
    <3> QED
      BY <2>1, <2>2, <3>1
  <2> QED
    BY <2>3
<1> HIDE DEF i, args
<1>4. CASE args = <<>>
  <2>1. r = [st |-> st, out |-> <<>>]
    BY <1>4 DEF CallArgs
  <2> QED
    BY <1>1, <2>1 DEF CallMore
<1>5. CASE args # <<>>
  <2> DEFINE v == st.argsEmitted \cup {i}
             u == [st EXCEPT !.argsEmitted = v]
             out == <<CallChunk(i, 0, args)>>
  <2>1. r = [st |-> u, out |-> out]
    BY <1>5 DEF CallArgs, CodexIn
  <2>2. CallMore(out, n)
    BY <1>2, <1>3 DEF CallMore
  <2> HIDE DEF v, out
  <2>3. u.sent = st.sent /\ u.finish = st.finish /\ u.toolIdxByItem = st.toolIdxByItem
    BY DEF CodexIn
  <2> HIDE DEF u
  <2>4. KnowsItems(u, n)
    BY <2>3 DEF KnowsItems
  <2> QED
    BY <1>1, <2>1, <2>2, <2>4
<1> QED
  BY <1>4, <1>5

\* text or reasoning goes on,
LEMMA CodexText ==
  ASSUME NEW st, NEW e, e.type = "delta", e.kind \notin CallKinds
  PROVE  ConvertCodexEvent(st, e) = [st |-> st, out |-> <<SayChunk(e.kind, e.data)>>]
  BY DEF ConvertCodexEvent

\* nothing is said,
LEMMA CodexSilent ==
  ASSUME NEW st, NEW e,
         e.type = "created" \/ (e.type \in {"added", "done"} /\ e.kind \notin CallKinds)
  PROVE  ConvertCodexEvent(st, e) = [st |-> st, out |-> <<>>]
  BY DEF ConvertCodexEvent

\* or the chat is finished.
LEMMA CodexEnd ==
  ASSUME NEW st, CodexIn(st), NEW n, KnowsItems(st, n), NEW e,
         e.type \in {"completed", "failed"}
  PROVE  ChatOver(ConvertCodexEvent(st, e))
<1> DEFINE r == ConvertCodexEvent(st, e)
           v == e.usage
           u == IF e.type = "completed" THEN [st EXCEPT !.usage = v] ELSE st
<1>1. r = FinishChat(u, Chunk) \/ r = FinishChat(u, SayChunk("text", <<ErrorText>>))
  BY DEF ConvertCodexEvent
<1> HIDE DEF r, v
<1>2. u.sent = FALSE /\ u.finish # "none" /\ CodexIn(u)
  BY DEF CodexIn, KnowsItems
<1> HIDE DEF u
<1>3. r.st = [u EXCEPT !.sent = TRUE] /\ LastChunk(r.out)
  BY <1>1, <1>2, FinishChatIs
<1>4. [u EXCEPT !.sent = TRUE].sent = TRUE
  BY <1>2 DEF CodexIn
<1> QED
  BY <1>3, <1>4 DEF r, ChatOver

------------------------------------------------------------------------------
(* What the handler makes of an event: nothing, a chunk, or the last chunk *)

KnowsBy(u, st, n) ==
  /\ u = "anthropic" => KnowsBlocks(st, n)
  /\ u = "responses" => KnowsItems(st, n)

\* A call under way whose client and converter know of n calls.
Tuned(p, n) == Heard(p, n) /\ KnowsBy(p.up, p.in, n)

\* An answer that goes through a converter.
Bridged(p) ==
  OnWay(p) /\ p.stream = TRUE /\ p.up \in {"anthropic", "responses"} /\ p.entry # p.up

Bridge(p, e) ==
  IF p.up = "anthropic" THEN FeedAnthropicEvent(p.in, e) ELSE ConvertCodexEvent(p.in, e)

\* The client has been told a number of calls.
LEMMA HeardNat ==
  ASSUME NEW p, IsPipe(p), NEW n, Heard(p, n)
  PROVE  n \in Nat
  BY DEF IsPipe, Protocols, Heard, ChatHeard, Ranked

\* A [DONE] after the chunk that finishes the chat, and after no other.
Marked(p, st) == p.up = "responses" /\ p.entry = "openai" /\ st.sent = TRUE /\ p.in.sent = FALSE

\* The handler takes over the converter's state and feeds the emitter its chunks.
LEMMA BridgedIs ==
  ASSUME NEW p, Bridged(p), NEW e
  PROVE  LET r == Bridge(p, e)
             q == Converting(p, r.st)
             f == FoldLeft(FeedEntry, q, r.out) IN
         /\ Converted(p, r.st, q)
         /\ Handle(p, e) = IF Marked(p, r.st) THEN Deliver(f, <<DoneMark>>) ELSE f
<1> DEFINE r == Bridge(p, e)
           q == Converting(p, r.st)
           f == FoldLeft(FeedEntry, q, r.out)
           d == Deliver(f, <<DoneMark>>)
<1>1. IsPipe(p) /\ InShape(p) /\ ~Passthrough(p)
  BY DEF Bridged, OnWay, Passthrough
<1>2. Converted(p, r.st, q)
  BY <1>1, ConvertingIs
<1>3. [p EXCEPT !.in = r.st, !.usage = r.st.usage] = q
  BY DEF Converting
<1>4. CASE p.up = "anthropic"
  <2>1. r = FeedAnthropicEvent(p.in, e)
    BY <1>4 DEF Bridge
  <2>2. Handle(p, e) = FeedAnthropic(p, e)
    BY <1>1, <1>4 DEF Handle
  <2>3. FeedAnthropic(p, e) = f
    BY <1>3, <2>1 DEF FeedAnthropic
  <2> QED
    BY <1>2, <1>4, <2>2, <2>3 DEF Marked
<1>5. CASE p.up = "responses"
  <2>1. r = ConvertCodexEvent(p.in, e)
    BY <1>5 DEF Bridge
  <2>2. Handle(p, e) = FeedCodex(p, e)
    BY <1>1, <1>5 DEF Handle, Bridged
  <2>3. FeedCodex(p, e) = IF p.entry = "openai" /\ r.st.sent /\ ~p.in.sent THEN d ELSE f
    BY <1>3, <2>1 DEF FeedCodex
  <2>4. CodexIn(p.in) /\ CodexAnswer(p.in, e, r)
    BY <1>1, <1>5, <2>1, ConvertCodexOut DEF InShape
  <2> HIDE DEF r, f, d
  <2>5. r.st.sent \in BOOLEAN /\ p.in.sent \in BOOLEAN
    BY <2>4 DEF CodexAnswer, CodexIn
  <2>6. FeedCodex(p, e) = IF Marked(p, r.st) THEN d ELSE f
    BY <1>5, <2>3, <2>5 DEF Marked
  <2> QED
    BY <1>2, <2>2, <2>6 DEF r, f, d
<1> QED
  BY <1>4, <1>5 DEF Bridged

\* An event that says nothing.
LEMMA BridgedSilent ==
  ASSUME NEW p, Bridged(p), NEW n, Tuned(p, n), NEW e, Bridge(p, e).out = <<>>,
         KnowsBy(p.up, Bridge(p, e).st, n)
  PROVE  Tuned(Handle(p, e), n) /\ (Calling(p) => Calling(Handle(p, e)))
<1> DEFINE r == Bridge(p, e)
           q == Converting(p, r.st)
           f == FoldLeft(FeedEntry, q, r.out)
           g == Handle(p, e)
<1>1. Converted(p, r.st, q) /\ (g = IF Marked(p, r.st) THEN Deliver(f, <<DoneMark>>) ELSE f)
  BY BridgedIs
<1>2. f = q
  BY FeedLaw
<1> HIDE DEF r, q, f, g
<1>3. ~Marked(p, r.st)
  BY DEF Bridged, KnowsBy, KnowsItems, Marked, r
<1>4. g = q
  BY <1>1, <1>2, <1>3
<1>5. g.entry = p.entry /\ g.up = p.up /\ g.in = r.st /\ g.out = p.out /\ g.client = p.client
  BY <1>1, <1>4 DEF Converted, Route
<1>6. Heard(g, n)
  BY <1>5 DEF Tuned, Heard
<1>7. KnowsBy(g.up, g.in, n)
  BY <1>5 DEF r
<1>8. Calling(p) => Calling(g)
  BY <1>5 DEF Calling
<1> QED
  BY <1>6, <1>7, <1>8 DEF Tuned, g

\* What fits a stream fits it whatever its converter knows.
LEMMA ConvertedFits ==
  ASSUME NEW p, NEW st, NEW q, Converted(p, st, q)
  PROVE  /\ \A n : Heard(p, n) => Heard(q, n)
         /\ \A n, c, m : Fine(p, n, c, m) => Fine(q, n, c, m)
<1>1. q.entry = p.entry /\ q.out = p.out /\ q.client = p.client
  BY DEF Converted, Route
<1> QED
  BY <1>1 DEF Heard, Fine

\* An event that comes to one chunk, not the last.
LEMMA BridgedSays ==
  ASSUME NEW p, Bridged(p), NEW n, Tuned(p, n), NEW e, NEW m, NEW c,
         Bridge(p, e).out = <<c>>, Fine(p, n, c, m), c.finish = "none",
         KnowsBy(p.up, Bridge(p, e).st, m)
  PROVE  Tuned(Handle(p, e), m) /\ (c.calls # <<>> => Calling(Handle(p, e)))
<1> DEFINE r == Bridge(p, e)
           q == Converting(p, r.st)
           f == FoldLeft(FeedEntry, q, r.out)
           g == Handle(p, e)
<1>1. Converted(p, r.st, q) /\ (g = IF Marked(p, r.st) THEN Deliver(f, <<DoneMark>>) ELSE f)
  BY BridgedIs
<1>2. f = FeedEntry(q, c)
  BY FeedLaw
<1> HIDE DEF r, q, f, g
<1>3. ~Marked(p, r.st)
  BY DEF Bridged, KnowsBy, KnowsItems, Marked, r
<1>4. g = FeedEntry(q, c)
  BY <1>1, <1>2, <1>3
<1>5. IsPipe(q) /\ Heard(q, n) /\ Fine(q, n, c, m)
  BY <1>1, ConvertedFits DEF Converted, Tuned
<1>6. Hears(q, c, m, g)
  BY <1>4, <1>5, FeedEntryHeard DEF Fine
<1>7. IsPipe(g) /\ Kept(q, g)
  <2>1. IsChunk(c)
    BY <1>5, ListedIs DEF Fine, Orderly, IsChunk
  <2> QED
    BY <1>4, <1>5, <2>1, FeedEntryEnds
<1>8. g.up = p.up /\ g.in = r.st
  BY <1>1, <1>7 DEF Converted, Kept, Route
<1>9. Heard(g, m) /\ (c.calls # <<>> => Calling(g))
  BY <1>6 DEF Hears
<1>10. KnowsBy(g.up, g.in, m)
  BY <1>8 DEF r
<1> QED
  BY <1>9, <1>10 DEF Tuned, g

\* The event that ends the chat: the client hears the last chunk, a chat client of a
\* Responses upstream the mark as well.
LEMMA BridgedEnds ==
  ASSUME NEW p, Bridged(p), NEW n, Tuned(p, n), NEW e,
         ChatOver(Bridge(p, e))
  PROVE  Through(Handle(p, e))
<1> DEFINE r == Bridge(p, e)
           q == Converting(p, r.st)
           f == FoldLeft(FeedEntry, q, r.out)
           d == Deliver(f, <<DoneMark>>)
           g == Handle(p, e)
<1>1. Converted(p, r.st, q) /\ (g = IF Marked(p, r.st) THEN d ELSE f)
  BY BridgedIs
<1>2. PICK c : r.out = <<c>> /\ Utters(c) /\ c.finish # "none"
  BY DEF LastChunk, ChatOver
<1>3. f = FeedEntry(q, c)
  BY <1>2, FeedLaw
<1>4. r.st.sent = TRUE
  BY DEF ChatOver
<1> HIDE DEF r, q, f, d, g
<1>5. n \in Nat /\ Fine(p, n, c, n)
  BY <1>2, HeardNat, SpeechFine DEF Bridged, OnWay, Tuned
<1>6. IsPipe(q) /\ Heard(q, n) /\ Fine(q, n, c, n)
  BY <1>1, <1>5, ConvertedFits DEF Converted, Tuned
<1>7. Hears(q, c, n, f)
  BY <1>3, <1>6, FeedEntryHeard DEF Fine
<1>8. IsPipe(f) /\ Kept(q, f)
  <2>1. IsChunk(c)
    BY <1>6, ListedIs DEF Fine, Orderly, IsChunk
  <2> QED
    BY <1>3, <1>6, <2>1, FeedEntryEnds
<1>9. /\ q.entry = p.entry /\ q.in = r.st
      /\ f.entry = p.entry /\ f.up = p.up /\ f.in = r.st
  BY <1>1, <1>8 DEF Converted, Kept, Route
<1>10. Ended(f) /\ (p.entry = "openai" => Listening(f.client))
  BY <1>2, <1>7, <1>9 DEF Hears
<1>11. Through(f)
  BY <1>4, <1>9, <1>10 DEF Through, Ended
<1>12. CASE Marked(p, r.st)
  <2>1. /\ Kept(f, d) /\ d.client = ReadAll(f.entry, f.client, <<DoneMark>>)
    BY <1>8, DeliverIs DEF d
  <2>2. d.client = Read(f.entry, f.client, DoneMark)
    <3> DEFINE e1 == DoneMark
    <3>1. d.client = ReadAll(f.entry, f.client, <<e1>>)
      BY <2>1
    <3> HIDE DEF e1
    <3>2. ReadAll(f.entry, f.client, <<e1>>) = Read(f.entry, f.client, e1)
      BY ReadAllFew
    <3> QED
      BY <3>1, <3>2 DEF e1
  <2>3. Client(f.client) /\ Listening(f.client)
    BY <1>8, <1>10, <1>12 DEF IsPipe, Marked
  <2>4. d.client.bad = FALSE
    <3> DEFINE cl == f.client
               w == cl.ended > 0
               late == Complain(cl, w)
               x == [late EXCEPT !.ended = @ + 1]
    <3>1. Read(f.entry, cl, DoneMark) = x
      BY DEF Read
    <3>2. ~w
      BY <2>3 DEF Listening
    <3>3. cl.bad = FALSE
      BY <2>3 DEF Listening
    <3> HIDE DEF w, cl
    <3>4. x.bad = FALSE
      BY <2>3, <3>2, <3>3 DEF Complain, Client, cl
    <3> QED
      BY <2>2, <3>1, <3>4 DEF cl
  <2>5. d.entry = "openai" /\ d.in = f.in
    BY <1>9, <1>12, <2>1 DEF Kept, Route, Marked
  <2>6. Through(d)
    BY <1>4, <1>9, <2>4, <2>5 DEF Through
  <2> QED
    BY <1>1, <1>12, <2>6 DEF g
<1>13. CASE ~Marked(p, r.st)
  BY <1>1, <1>11, <1>13 DEF g
<1> QED
  BY <1>12, <1>13

\* A chat upstream's chunk reaches a client that gets the chunks as they are.
LEMMA PassHeard ==
  ASSUME NEW p, IsPipe(p), p.entry = "openai", p.up = "openai", p.stream = TRUE,
         NEW n, Heard(p, n), NEW c, NEW m, Orderly(n, c, m), Wordy(c)
  PROVE  Hears(p, c, m, Handle(p, c))
<1> DEFINE f == Handle(p, c)
           v == MergeUsage(p.usage, c.usage)
           q == [p EXCEPT !.usage = v]
<1>1. f = Deliver(q, <<c>>)
  <2>1. Passthrough(p)
    BY DEF Passthrough
  <2>2. f = Pass(p, c)
    BY <2>1 DEF Handle
  <2>3. Pass(p, c) = Deliver(q, <<c>>)
    BY DEF Pass, IsPipe
  <2> QED
    BY <2>2, <2>3
<1> HIDE DEF v
<1>2. IsPipe(q) /\ Kept(p, q) /\ q.client = p.client
  BY UsageField
<1> HIDE DEF q, f
<1>3. q.entry = "openai" /\ Client(p.client) /\ ChatHeard(p.client, n)
  BY <1>2 DEF Kept, Route, IsPipe, Heard
<1>4. f.entry = "openai" /\ f.client = Read("openai", p.client, c)
  <2>1. Kept(q, f) /\ f.client = ReadAll(q.entry, q.client, <<c>>)
    BY <1>1, <1>2, DeliverIs
  <2>2. \A en, cl : ReadAll(en, cl, <<c>>) = Read(en, cl, c)
    BY ReadAllFew
  <2> QED
    BY <1>2, <1>3, <2>1, <2>2 DEF Kept, Route
<1>5. /\ Listening(f.client)
      /\ c.finish = "none" => ChatHeard(f.client, m)
  BY <1>3, <1>4, ReadChunkHeard
<1>6. f.client.bad = FALSE
  BY <1>5 DEF Listening
<1> QED
  BY <1>4, <1>5, <1>6 DEF Hears, Heard, Calling, Ended, f

\* A call whose upstream speaks in chunks.
Chatting(p) == OnWay(p) /\ p.stream = TRUE /\ p.up = "openai"

\* Its chunks reach the client.
LEMMA ChunkHears ==
  ASSUME NEW p, Chatting(p), NEW n, Heard(p, n), NEW c, NEW m, Fine(p, n, c, m)
  PROVE  Hears(p, c, m, Handle(p, c)) /\ Route(p, Handle(p, c))
<1>1. IsPipe(p) /\ IsChunk(c)
  BY ListedIs DEF Fine, Orderly, IsChunk, Chatting, OnWay
<1>2. c # DoneMark
  BY <1>1, Marks DEF IsChunk
<1>3. ~OneBody(p) /\ Fit(p, c)
  <2>1. ~OneBody(p)
    BY DEF Chatting, OneBody
  <2>2. Fit(p, c)
    BY <1>1, FitEvents DEF Chatting
  <2> QED
    BY <2>1, <2>2
<1>4. Route(p, Handle(p, c))
  BY <1>3, HandleOne DEF Chatting, Handled
<1>5. CASE p.entry = "openai"
  BY <1>1, <1>4, <1>5, PassHeard DEF Chatting, Fine
<1>6. CASE p.entry # "openai"
  <2>1. Handle(p, c) = FeedEntry(p, c)
    BY <1>2, <1>6 DEF Handle, Chatting, Passthrough
  <2> QED
    BY <1>1, <1>4, <2>1, FeedEntryHeard DEF Fine
<1> QED
  BY <1>5, <1>6

\* A chunk that is not the last.
LEMMA ChunkSays ==
  ASSUME NEW p, Chatting(p), NEW n, Tuned(p, n), NEW c, NEW m, Fine(p, n, c, m),
         c.finish = "none"
  PROVE  Tuned(Handle(p, c), m) /\ (c.calls # <<>> => Calling(Handle(p, c)))
<1>1. Hears(p, c, m, Handle(p, c)) /\ Route(p, Handle(p, c))
  BY ChunkHears DEF Tuned
<1>2. Handle(p, c).up = "openai"
  BY <1>1 DEF Route, Chatting
<1>3. KnowsBy(Handle(p, c).up, Handle(p, c).in, m)
  BY <1>2 DEF KnowsBy
<1> QED
  BY <1>1, <1>3 DEF Tuned, Hears

------------------------------------------------------------------------------
(* What an upstream says, in its protocol, to a client of another or of chat *)

\* Its n-th call begins,
Begins(u, e, n) ==
  \E name \in Int \ {0} :
    CASE u = "openai" -> e = CallChunk(n, name, <<>>)
      [] u = "anthropic" -> e.type = "block_start" /\ e.kind = "call" /\ e.name = name
      [] u = "responses" -> e.type = "added" /\ e.kind \in CallKinds /\ e.name = name

\* one of its n calls goes on,
GoesOn(u, e, n) ==
  /\ n # 0
  /\ CASE u = "openai" ->
            \E i \in 0..(n - 1) : \E args : Listed(args) /\ e = CallChunk(i, 0, args)
       [] u = "anthropic" -> e.type = "block_delta" /\ e.kind = "call" /\ Listed(e.data)
       [] u = "responses" ->
            e.type \in {"delta", "done"} /\ e.kind \in CallKinds /\ Listed(e.data)

\* it speaks or thinks,
Speaks(u, e) ==
  CASE u = "openai" -> Utters(e) /\ e.finish = "none"
    [] u = "anthropic" ->
         e.type = "message_start" \/ (e.type = "block_delta" /\ e.kind # "call" /\ Listed(e.data))
    [] u = "responses" -> e.type = "delta" /\ e.kind \notin CallKinds /\ Listed(e.data)

\* or has nothing to say to a chat client.
SaysNothing(u, e) ==
  CASE u = "openai" -> FALSE
    [] u = "anthropic" ->
         e.type = "block_stop" \/ (e.type = "block_start" /\ e.kind # "call")
           \/ (e.type = "message_delta" /\ e.finish # "none")
    [] u = "responses" ->
         e.type = "created" \/ (e.type \in {"added", "done"} /\ e.kind \notin CallKinds)

\* A stream that is not relayed as it is.
Heeding(p) == Bridged(p) \/ Chatting(p)

\* What its shape says of the call's converter.
LEMMA BridgeShape ==
  ASSUME NEW p, Bridged(p), NEW n, Tuned(p, n), NEW e
  PROVE  /\ p.up = "anthropic" => /\ AnthropicIn(p.in) /\ KnowsBlocks(p.in, n)
                                  /\ Bridge(p, e) = FeedAnthropicEvent(p.in, e)
         /\ p.up = "responses" => /\ CodexIn(p.in) /\ KnowsItems(p.in, n)
                                  /\ Bridge(p, e) = ConvertCodexEvent(p.in, e)
  BY DEF Bridged, Tuned, KnowsBy, OnWay, InShape, Bridge

\* A call begins: the client knows of one more, and its emitter is in it.
LEMMA BeginsHeard ==
  ASSUME NEW p, Heeding(p), NEW n, Tuned(p, n), NEW e, Begins(p.up, e, n)
  PROVE  Tuned(Handle(p, e), n + 1) /\ Calling(Handle(p, e))
<1> DEFINE m == n + 1
<1>1. n \in Nat /\ Listed(<<>>)
  BY HeardNat, ListedIs DEF Heeding, Bridged, Chatting, OnWay, Tuned
<1>2. \A name \in Int \ {0} : \A args : Listed(args) =>
        LET c == CallChunk(n, name, args) IN
        Fine(p, n, c, m) /\ c.calls # <<>> /\ c.finish = "none"
  BY <1>1, CallBegins
<1>3. CASE Chatting(p)
  <2>1. PICK name \in Int \ {0} : e = CallChunk(n, name, <<>>)
    BY <1>3 DEF Begins, Chatting
  <2>2. Fine(p, n, e, m) /\ e.calls # <<>> /\ e.finish = "none"
    BY <1>1, <1>2, <2>1
  <2> HIDE DEF m
  <2>3. Tuned(Handle(p, e), m) /\ Calling(Handle(p, e))
    BY <1>3, <2>2, ChunkSays
  <2> QED
    BY <2>3 DEF m
<1>4. CASE Bridged(p)
  <2>1. PICK c : /\ Bridge(p, e).out = <<c>> /\ KnowsBy(p.up, Bridge(p, e).st, m)
                 /\ Fine(p, n, c, m) /\ c.calls # <<>> /\ c.finish = "none"
    <3>1. CASE p.up = "anthropic"
      <4> DEFINE c == CallChunk(n, e.name, <<>>)
      <4>1. e.type = "block_start" /\ e.kind = "call" /\ e.name \in Int \ {0}
        BY <3>1 DEF Begins
      <4>2. KnowsBlocks(Bridge(p, e).st, m) /\ Bridge(p, e).out = <<c>>
        BY <1>4, <3>1, <4>1, BridgeShape, BlockOfCall
      <4>3. Fine(p, n, c, m) /\ c.calls # <<>> /\ c.finish = "none"
        BY <1>1, <1>2, <4>1
      <4> HIDE DEF c, m
      <4> QED
        BY <3>1, <4>2, <4>3 DEF KnowsBy
    <3>2. CASE p.up = "responses"
      <4>1. e.type = "added" /\ e.kind \in CallKinds /\ e.name \in Int \ {0}
        BY <3>2 DEF Begins
      <4>2. KnowsItems(Bridge(p, e).st, m)
              /\ \E args : Listed(args) /\ Bridge(p, e).out = <<CallChunk(n, e.name, args)>>
        BY <1>4, <3>2, <4>1, BridgeShape, CodexCall
      <4>3. PICK args : Listed(args) /\ Bridge(p, e).out = <<CallChunk(n, e.name, args)>>
        BY <4>2
      <4> DEFINE c == CallChunk(n, e.name, args)
      <4>4. Fine(p, n, c, m) /\ c.calls # <<>> /\ c.finish = "none"
        BY <1>2, <4>1, <4>3
      <4>5. Bridge(p, e).out = <<c>>
        BY <4>3
      <4> HIDE DEF c, m
      <4> QED
        BY <3>2, <4>2, <4>4, <4>5 DEF KnowsBy
    <3> QED
      BY <1>4, <3>1, <3>2 DEF Bridged
  <2> HIDE DEF m
  <2>2. Tuned(Handle(p, e), m) /\ Calling(Handle(p, e))
    BY <1>4, <2>1, BridgedSays
  <2> QED
    BY <2>2 DEF m
<1> QED
  BY <1>3, <1>4 DEF Heeding

\* A call goes on, and its emitter stays in it.
LEMMA GoesOnHeard ==
  ASSUME NEW p, Heeding(p), NEW n, Tuned(p, n), Calling(p), NEW e, GoesOn(p.up, e, n)
  PROVE  Tuned(Handle(p, e), n) /\ Calling(Handle(p, e))
<1>1. n \in Nat /\ n # 0
  BY HeardNat DEF Heeding, Bridged, Chatting, OnWay, Tuned, GoesOn
<1>2. \A i \in 0..(n - 1) : \A args : Listed(args) =>
        LET c == CallChunk(i, 0, args) IN
        Fine(p, n, c, n) /\ c.calls # <<>> /\ c.finish = "none"
  BY <1>1, CallGoesOn
<1>3. CASE Chatting(p)
  <2>1. PICK i \in 0..(n - 1) : \E args : Listed(args) /\ e = CallChunk(i, 0, args)
    BY <1>3 DEF GoesOn, Chatting
  <2>2. Fine(p, n, e, n) /\ e.calls # <<>> /\ e.finish = "none"
    BY <1>2, <2>1
  <2> QED
    BY <1>3, <2>2, ChunkSays
<1>4. CASE Bridged(p)
  <2>1. CallMore(Bridge(p, e).out, n) /\ KnowsBy(p.up, Bridge(p, e).st, n)
    <3>1. CASE p.up = "anthropic"
      <4>1. e.type = "block_delta" /\ e.kind = "call" /\ Listed(e.data)
        BY <3>1 DEF GoesOn
      <4>2. /\ Bridge(p, e).st = p.in
            /\ \E i \in 0..(n - 1) : Bridge(p, e).out = <<CallChunk(i, 0, e.data)>>
        BY <1>1, <1>4, <3>1, <4>1, BridgeShape, BlockOfCallMore
      <4>3. KnowsBlocks(Bridge(p, e).st, n)
        BY <1>4, <3>1, <4>2, BridgeShape
      <4> QED
        BY <3>1, <4>1, <4>2, <4>3 DEF CallMore, KnowsBy
    <3>2. CASE p.up = "responses"
      <4>1. e.type \in {"delta", "done"} /\ e.kind \in CallKinds /\ Listed(e.data)
        BY <3>2 DEF GoesOn
      <4>2. KnowsItems(Bridge(p, e).st, n) /\ CallMore(Bridge(p, e).out, n)
        BY <1>1, <1>4, <3>2, <4>1, BridgeShape, CodexCallMore
      <4> QED
        BY <3>2, <4>2 DEF KnowsBy
    <3> QED
      BY <1>4, <3>1, <3>2 DEF Bridged
  <2>2. CASE Bridge(p, e).out = <<>>
    BY <1>4, <2>1, <2>2, BridgedSilent
  <2>3. CASE Bridge(p, e).out # <<>>
    <3>1. PICK i \in 0..(n - 1) :
            \E args : Listed(args) /\ Bridge(p, e).out = <<CallChunk(i, 0, args)>>
      BY <2>1, <2>3 DEF CallMore
    <3>2. PICK c : /\ Bridge(p, e).out = <<c>> /\ Fine(p, n, c, n)
                   /\ c.calls # <<>> /\ c.finish = "none"
      BY <1>2, <3>1
    <3> QED
      BY <1>4, <2>1, <3>2, BridgedSays
  <2> QED
    BY <2>2, <2>3
<1> QED
  BY <1>3, <1>4 DEF Heeding

\* Text or reasoning goes on.
LEMMA SpeaksHeard ==
  ASSUME NEW p, Heeding(p), NEW n, Tuned(p, n), NEW e, Speaks(p.up, e)
  PROVE  Tuned(Handle(p, e), n)
<1>1. n \in Nat
  BY HeardNat DEF Heeding, Bridged, Chatting, OnWay, Tuned
<1>2. CASE Chatting(p)
  <2>1. Utters(e) /\ e.finish = "none"
    BY <1>2 DEF Speaks, Chatting
  <2> QED
    BY <1>1, <1>2, <2>1, SpeechFine, ChunkSays
<1>3. CASE Bridged(p)
  <2>1. PICK c : /\ Bridge(p, e).out = <<c>> /\ KnowsBy(p.up, Bridge(p, e).st, n)
                 /\ Utters(c) /\ c.finish = "none"
    <3>1. CASE p.up = "anthropic" /\ e.type = "message_start"
      <4> DEFINE c == Chunk
      <4>1. KnowsBlocks(Bridge(p, e).st, n) /\ Bridge(p, e).out = <<c>>
        BY <1>3, <3>1, BridgeShape, BlockGreeting
      <4>2. Utters(c) /\ c.finish = "none"
        BY SpeechIs
      <4> HIDE DEF c
      <4> QED
        BY <3>1, <4>1, <4>2 DEF KnowsBy
    <3>2. CASE p.up = "anthropic" /\ e.type # "message_start"
      <4> DEFINE c == SayChunk(e.kind, e.data)
      <4>1. e.type = "block_delta" /\ e.kind # "call" /\ Listed(e.data)
        BY <3>2 DEF Speaks
      <4>2. Bridge(p, e) = [st |-> p.in, out |-> <<c>>]
        BY <1>3, <3>2, <4>1, BridgeShape, BlockOfText
      <4>3. Utters(c) /\ c.finish = "none"
        BY <4>1, SpeechIs
      <4> HIDE DEF c
      <4>4. KnowsBlocks(Bridge(p, e).st, n)
        BY <1>3, <3>2, <4>2, BridgeShape
      <4> QED
        BY <3>2, <4>2, <4>3, <4>4 DEF KnowsBy
    <3>3. CASE p.up = "responses"
      <4> DEFINE c == SayChunk(e.kind, e.data)
      <4>1. e.type = "delta" /\ e.kind \notin CallKinds /\ Listed(e.data)
        BY <3>3 DEF Speaks
      <4>2. Bridge(p, e) = [st |-> p.in, out |-> <<c>>]
        BY <1>3, <3>3, <4>1, BridgeShape, CodexText
      <4>3. Utters(c) /\ c.finish = "none"
        BY <4>1, SpeechIs
      <4> HIDE DEF c
      <4>4. KnowsItems(Bridge(p, e).st, n)
        BY <1>3, <3>3, <4>2, BridgeShape
      <4> QED
        BY <3>3, <4>2, <4>3, <4>4 DEF KnowsBy
    <3> QED
      BY <1>3, <3>1, <3>2, <3>3 DEF Bridged
  <2>2. Fine(p, n, c, n)
    BY <1>1, <2>1, SpeechFine
  <2> QED
    BY <1>3, <2>1, <2>2, BridgedSays
<1> QED
  BY <1>2, <1>3 DEF Heeding

\* Nothing is said, and the emitter stays where it is.
LEMMA SilenceHeard ==
  ASSUME NEW p, Heeding(p), NEW n, Tuned(p, n), NEW e, SaysNothing(p.up, e)
  PROVE  Tuned(Handle(p, e), n) /\ (Calling(p) => Calling(Handle(p, e)))
<1>1. Bridged(p)
  BY DEF Heeding, Chatting, SaysNothing
<1>2. Bridge(p, e).out = <<>> /\ KnowsBy(p.up, Bridge(p, e).st, n)
  <2>1. CASE p.up = "anthropic" /\ e.type = "message_delta"
    <3>1. KnowsBlocks(Bridge(p, e).st, n) /\ Bridge(p, e).out = <<>>
      BY <1>1, <2>1, BridgeShape, BlockReason DEF SaysNothing
    <3> QED
      BY <2>1, <3>1 DEF KnowsBy
  <2>2. CASE p.up = "anthropic" /\ e.type # "message_delta"
    <3>1. Bridge(p, e) = [st |-> p.in, out |-> <<>>]
      BY <1>1, <2>2, BridgeShape, BlockSilent DEF SaysNothing
    <3> QED
      BY <1>1, <2>2, <3>1, BridgeShape DEF KnowsBy
  <2>3. CASE p.up = "responses"
    <3>1. Bridge(p, e) = [st |-> p.in, out |-> <<>>]
      BY <1>1, <2>3, BridgeShape, CodexSilent DEF SaysNothing
    <3> QED
      BY <1>1, <2>3, <3>1, BridgeShape DEF KnowsBy
  <2> QED
    BY <1>1, <2>1, <2>2, <2>3 DEF Bridged
<1> QED
  BY <1>1, <1>2, BridgedSilent

\* The chat is finished.
LEMMA EndHeard ==
  ASSUME NEW p, Bridged(p), NEW n, Tuned(p, n), NEW e,
         \/ p.up = "anthropic" /\ e.type \in {"message_stop", "error"}
         \/ p.up = "responses" /\ e.type \in {"completed", "failed"}
  PROVE  Through(Handle(p, e))
<1>1. ChatOver(Bridge(p, e))
  <2>1. CASE p.up = "anthropic"
    <3>1. /\ AnthropicIn(p.in) /\ KnowsBlocks(p.in, n) /\ e.type \in {"message_stop", "error"}
          /\ Bridge(p, e) = FeedAnthropicEvent(p.in, e)
      BY <2>1, BridgeShape
    <3>2. ChatOver(FeedAnthropicEvent(p.in, e))
      BY <3>1, BlockEnd
    <3> QED
      BY <3>1, <3>2
  <2>2. CASE p.up = "responses"
    <3>1. /\ CodexIn(p.in) /\ KnowsItems(p.in, n) /\ e.type \in {"completed", "failed"}
          /\ Bridge(p, e) = ConvertCodexEvent(p.in, e)
      BY <2>2, BridgeShape
    <3>2. ChatOver(ConvertCodexEvent(p.in, e))
      BY <3>1, CodexEnd
    <3> QED
      BY <3>1, <3>2
  <2> QED
    BY <2>1, <2>2
<1> QED
  BY <1>1, BridgedEnds

------------------------------------------------------------------------------
(* A client that gets an upstream's events as they are *)

\* t is s with part i changed.
Altered(s, t, i) ==
  /\ Listed(s) /\ Listed(t) /\ DOMAIN t = DOMAIN s /\ Len(t) = Len(s) /\ i \in DOMAIN s
  /\ \A j \in DOMAIN s : j # i => t[j] = s[j]

OpenParts(s) == {i \in DOMAIN s : s[i].open = TRUE}

\* What an upstream says changes a part in place.
LEMMA AlteredIs ==
  ASSUME NEW s, Listed(s), NEW i \in DOMAIN s, NEW y
  PROVE  Altered(s, [s EXCEPT ![i] = y], i) /\ [s EXCEPT ![i] = y][i] = y
<1> DEFINE t == [s EXCEPT ![i] = y]
<1>1. Listed(t) /\ DOMAIN t = DOMAIN s
  BY ListedChanged
<1>2. t[i] = y /\ \A j \in DOMAIN s : j # i => t[j] = s[j]
  OBVIOUS
<1> HIDE DEF t
<1>3. Len(t) \in Nat /\ DOMAIN t = 1..Len(t) /\ Len(s) \in Nat /\ DOMAIN s = 1..Len(s)
  BY <1>1, ListedIs
<1>4. Len(t) = Len(s)
  BY <1>1, <1>3, SameLength
<1> QED
  BY <1>1, <1>2, <1>4 DEF Altered, t

\* The parts under way after one more has begun,
LEMMA OpenMore ==
  ASSUME NEW s, Listed(s), NEW x, x.open = TRUE
  PROVE  OpenParts(Append(s, x)) = OpenParts(s) \cup {Len(s) + 1}
<1> DEFINE t == Append(s, x)
           n == Len(s)
<1>1. /\ t[n + 1] = x /\ Len(t) = n + 1
      /\ \A i \in DOMAIN t : t[i] = x \/ (i \in DOMAIN s /\ t[i] = s[i])
      /\ \A i \in DOMAIN s : i \in DOMAIN t /\ t[i] = s[i]
  BY Appended
<1>2. n \in Nat /\ DOMAIN s = 1..n
  BY ListedIs
<1>3. Listed(t)
  BY Appended
<1>4. DOMAIN t = 1..Len(t)
  BY <1>3, ListedIs
<1> HIDE DEF t, n
<1>5. DOMAIN t = 1..(n + 1)
  BY <1>1, <1>4
<1>6. DOMAIN t = DOMAIN s \cup {n + 1}
  BY <1>2, <1>5
<1>7. OpenParts(t) = OpenParts(s) \cup {n + 1}
  BY <1>1, <1>6 DEF OpenParts
<1> QED
  BY <1>7 DEF t, n

\* after one says more,
LEMMA OpenAltered ==
  ASSUME NEW s, NEW t, NEW i, Altered(s, t, i), t[i].open = s[i].open
  PROVE  OpenParts(t) = OpenParts(s)
BY DEF Altered, OpenParts

\* or after one is closed.
LEMMA OpenClosed ==
  ASSUME NEW s, NEW t, NEW i, Altered(s, t, i), t[i].open = FALSE
  PROVE  OpenParts(t) = OpenParts(s) \ {i}
<1>1. DOMAIN t = DOMAIN s /\ \A j \in DOMAIN s : j # i => t[j] = s[j]
  BY DEF Altered
<1>2. i \notin OpenParts(t)
  BY DEF OpenParts
<1>3. \A j : j # i => (j \in OpenParts(t) <=> j \in OpenParts(s))
  BY <1>1 DEF OpenParts
<1> QED
  BY <1>2, <1>3

\* A messages client: a block begins,
LEMMA RepeatsBlock ==
  ASSUME NEW cl, Client(cl), NEW s, Listed(s), Repeated("anthropic", cl, s), OpenParts(s) = {},
         NEW x, x.open = TRUE, NEW e, e.type = "block_start", e.index = Len(s), e.kind = x.kind
  PROVE  Repeated("anthropic", Read("anthropic", cl, e), Append(s, x))
<1> DEFINE t == Append(s, x)
           d == Read("anthropic", cl, e)
           n == Len(s)
           v == Append(cl.parts, Part(e.kind, e.name, e.data))
<1>1. /\ Listening(cl) /\ cl.started = TRUE /\ Listed(cl.parts) /\ Len(cl.parts) = n
      /\ cl.open = {} /\ cl.finish = "none"
      /\ \A i \in DOMAIN s : IsPart(cl.parts[i]) /\ cl.parts[i].kind = s[i].kind
  BY DEF Repeated, OpenParts
<1>2. n \in Nat /\ DOMAIN s = 1..n /\ DOMAIN cl.parts = 1..n
  BY <1>1, ListedIs
<1>3. IsParts(cl.parts)
  BY <1>1, <1>2 DEF IsParts
<1>4. /\ IsParts(v) /\ Len(v) = n + 1 /\ v[n + 1].kind = e.kind
      /\ \A i \in DOMAIN cl.parts : v[i] = cl.parts[i]
      /\ DOMAIN v = DOMAIN cl.parts \cup {n + 1}
  BY <1>1, <1>3, PartsMore
<1>5. Became(d, v, {n + 1}, TRUE, "none")
  BY <1>1, ReadBlock
<1>6. /\ t[n + 1] = x /\ Len(t) = n + 1 /\ \A i \in DOMAIN s : t[i] = s[i]
  BY Appended
<1>7. Listed(t)
  BY Appended
<1>8. OpenParts(t) = {n + 1}
  BY OpenMore
<1>9. DOMAIN t = 1..Len(t)
  BY <1>7, ListedIs
<1> HIDE DEF t, d, n, v
<1>10. DOMAIN t = DOMAIN s \cup {n + 1} /\ DOMAIN v = DOMAIN t
  <2>1. 1..(n + 1) = (1..n) \cup {n + 1}
    BY <1>2
  <2> QED
    BY <1>2, <1>4, <1>6, <1>9, <2>1
<1>11. \A i \in DOMAIN t : IsPart(v[i]) /\ v[i].kind = t[i].kind
  <2>1. \A i \in DOMAIN t : IsPart(v[i])
    BY <1>4, <1>10 DEF IsParts
  <2>2. \A i \in DOMAIN s : v[i].kind = t[i].kind
    BY <1>1, <1>2, <1>4, <1>6
  <2>3. v[n + 1].kind = t[n + 1].kind
    BY <1>4, <1>6
  <2> QED
    BY <1>10, <2>1, <2>2, <2>3
<1>12. Listed(v)
  BY <1>4 DEF IsParts
<1>13. Repeated("anthropic", d, t)
  BY <1>4, <1>5, <1>6, <1>8, <1>11, <1>12 DEF Repeated, Became, OpenParts
<1> QED
  BY <1>13 DEF d, t

\* goes on
LEMMA RepeatsDelta ==
  ASSUME NEW cl, Client(cl), NEW s, Repeated("anthropic", cl, s), NEW t, NEW i, Altered(s, t, i),
         s[i].open = TRUE, t[i].open = TRUE, t[i].kind = s[i].kind,
         NEW e, e.type = "block_delta", e.index + 1 = i, e.kind = s[i].kind
  PROVE  Repeated("anthropic", Read("anthropic", cl, e), t)
<1> DEFINE d == Read("anthropic", cl, e)
           v == More(cl.parts, i, e.data)
<1>1. /\ Listening(cl) /\ cl.started = TRUE /\ Listed(cl.parts) /\ Len(cl.parts) = Len(s)
      /\ cl.open = OpenParts(s) /\ cl.finish = "none"
      /\ \A j \in DOMAIN s : IsPart(cl.parts[j]) /\ cl.parts[j].kind = s[j].kind
  BY DEF Repeated, OpenParts
<1>2. /\ Listed(s) /\ DOMAIN t = DOMAIN s /\ Len(t) = Len(s) /\ i \in DOMAIN s
      /\ \A j \in DOMAIN s : j # i => t[j] = s[j]
  BY DEF Altered
<1>3. DOMAIN cl.parts = DOMAIN s
  BY <1>1, <1>2, ListedIs
<1>4. IsParts(cl.parts)
  BY <1>1, <1>3 DEF IsParts
<1>5. /\ IsParts(v) /\ Len(v) = Len(cl.parts) /\ DOMAIN v = DOMAIN cl.parts
      /\ \A j \in DOMAIN cl.parts : v[j].kind = cl.parts[j].kind
  BY <1>4, PartsExtended
<1>6. i \in cl.open /\ cl.parts[i].kind = e.kind
  BY <1>1, <1>2 DEF OpenParts
<1>7. Became(d, v, cl.open, TRUE, "none")
  <2>1. Became(d, More(cl.parts, e.index + 1, e.data), cl.open, cl.started, cl.finish)
    BY <1>1, <1>6, ReadDelta
  <2> QED
    BY <1>1, <2>1
<1>8. OpenParts(t) = OpenParts(s)
  BY OpenAltered
<1> HIDE DEF d, v
<1>9. \A j \in DOMAIN t : IsPart(v[j]) /\ v[j].kind = t[j].kind
  BY <1>1, <1>2, <1>3, <1>5 DEF IsParts
<1>10. Listed(v)
  BY <1>5 DEF IsParts
<1>11. Repeated("anthropic", d, t)
  BY <1>1, <1>2, <1>5, <1>7, <1>8, <1>9, <1>10 DEF Repeated, Became, OpenParts
<1> QED
  BY <1>11 DEF d

\* and stops.
LEMMA RepeatsStop ==
  ASSUME NEW cl, Client(cl), NEW s, Repeated("anthropic", cl, s), NEW t, NEW i, Altered(s, t, i),
         OpenParts(s) = {i}, t[i].open = FALSE, t[i].kind = s[i].kind,
         NEW e, e.type = "block_stop", e.index + 1 = i
  PROVE  Repeated("anthropic", Read("anthropic", cl, e), t)
<1> DEFINE d == Read("anthropic", cl, e)
<1>1. /\ Listening(cl) /\ cl.started = TRUE /\ Listed(cl.parts) /\ Len(cl.parts) = Len(s)
      /\ cl.open = {i} /\ cl.finish = "none"
      /\ \A j \in DOMAIN s : IsPart(cl.parts[j]) /\ cl.parts[j].kind = s[j].kind
  BY DEF Repeated, OpenParts
<1>2. /\ DOMAIN t = DOMAIN s /\ Len(t) = Len(s)
      /\ \A j \in DOMAIN s : j # i => t[j] = s[j]
  BY DEF Altered
<1>3. Became(d, cl.parts, {}, TRUE, "none")
  <2>1. cl.open = {e.index + 1}
    BY <1>1
  <2>2. Became(d, cl.parts, {}, cl.started, cl.finish)
    BY <1>1, <2>1, ReadBlockStop
  <2> QED
    BY <1>1, <2>2
<1>4. OpenParts(t) = {}
  <2>1. OpenParts(t) = OpenParts(s) \ {i}
    BY OpenClosed
  <2> QED
    BY <2>1
<1> HIDE DEF d
<1>5. \A j \in DOMAIN t : IsPart(cl.parts[j]) /\ cl.parts[j].kind = t[j].kind
  BY <1>1, <1>2
<1>6. Repeated("anthropic", d, t)
  BY <1>1, <1>2, <1>3, <1>4, <1>5 DEF Repeated, Became, OpenParts
<1> QED
  BY <1>6 DEF d

\* The parts of a Responses client are those that were said.
AsSaid(parts, s) == \A i \in DOMAIN s : parts[i] = Part(s[i].kind, s[i].name, s[i].data)

\* A Responses client: an item is added,
LEMMA RepeatsAdded ==
  ASSUME NEW cl, Client(cl), NEW s, Listed(s), Repeated("responses", cl, s),
         NEW x, x.open = TRUE, x.data = <<>>,
         NEW e, e.type = "added", e.index = Len(s), e.kind = x.kind, e.name = x.name
  PROVE  Repeated("responses", Read("responses", cl, e), Append(s, x))
<1> DEFINE t == Append(s, x)
           d == Read("responses", cl, e)
           n == Len(s)
           y == Part(e.kind, e.name, <<>>)
           v == Append(cl.parts, y)
<1>1. /\ Listening(cl) /\ cl.started = TRUE /\ Listed(cl.parts) /\ Len(cl.parts) = n
      /\ cl.open = OpenParts(s) /\ AsSaid(cl.parts, s)
  BY DEF Repeated, OpenParts, AsSaid
<1>2. n \in Nat /\ DOMAIN s = 1..n /\ DOMAIN cl.parts = 1..n
  BY <1>1, ListedIs
<1>3. Became(d, v, cl.open \cup {n + 1}, TRUE, cl.finish)
  BY <1>1, <1>2, ReadAdded
<1>4. /\ t[n + 1] = x /\ Len(t) = n + 1 /\ Listed(t) /\ \A i \in DOMAIN s : t[i] = s[i]
  BY Appended
<1>5. OpenParts(t) = OpenParts(s) \cup {n + 1}
  BY OpenMore
<1>6. y = Part(x.kind, x.name, x.data)
  OBVIOUS
<1> HIDE DEF y
<1>7. /\ v[n + 1] = y /\ Len(v) = n + 1 /\ Listed(v)
      /\ \A i \in DOMAIN cl.parts : v[i] = cl.parts[i]
  BY <1>1, Appended
<1>8. DOMAIN t = 1..Len(t)
  BY <1>4, ListedIs
<1> HIDE DEF t, d, n, v
<1>9. DOMAIN t = DOMAIN s \cup {n + 1}
  <2>1. 1..(n + 1) = (1..n) \cup {n + 1}
    BY <1>2
  <2> QED
    BY <1>2, <1>4, <1>8, <2>1
<1>10. AsSaid(v, t)
  <2>1. ASSUME NEW i \in DOMAIN s PROVE v[i] = Part(t[i].kind, t[i].name, t[i].data)
    BY <1>1, <1>2, <1>4, <1>7, <2>1 DEF AsSaid
  <2>2. v[n + 1] = Part(t[n + 1].kind, t[n + 1].name, t[n + 1].data)
    BY <1>4, <1>6, <1>7
  <2> QED
    BY <1>9, <2>1, <2>2 DEF AsSaid
<1>11. Repeated("responses", d, t)
  BY <1>1, <1>3, <1>4, <1>5, <1>7, <1>10 DEF Repeated, Became, OpenParts, AsSaid
<1> QED
  BY <1>11 DEF d, t

\* A client with one part changed, when what is said changes alike.
LEMMA RepeatsAltered ==
  ASSUME NEW cl, NEW s, Repeated("responses", cl, s), NEW t, NEW i, Altered(s, t, i),
         NEW data, t[i].data = data, t[i].kind = s[i].kind, t[i].name = s[i].name,
         NEW d, Became(d, [cl.parts EXCEPT ![i].data = data], OpenParts(t), TRUE, cl.finish)
  PROVE  Repeated("responses", d, t)
<1> DEFINE y == [cl.parts[i] EXCEPT !.data = data]
           v == [cl.parts EXCEPT ![i] = y]
<1>1. /\ Listed(cl.parts) /\ Len(cl.parts) = Len(s) /\ AsSaid(cl.parts, s)
  BY DEF Repeated, AsSaid
<1>2. /\ Listed(s) /\ DOMAIN t = DOMAIN s /\ Len(t) = Len(s) /\ i \in DOMAIN s
      /\ \A j \in DOMAIN s : j # i => t[j] = s[j]
  BY DEF Altered
<1>3. DOMAIN cl.parts = DOMAIN s
  BY <1>1, <1>2, ListedIs
<1>4. [cl.parts EXCEPT ![i].data = data] = v
  OBVIOUS
<1>5. y = Part(t[i].kind, t[i].name, t[i].data)
  <2>1. cl.parts[i] = Part(t[i].kind, t[i].name, s[i].data)
    BY <1>1, <1>2 DEF AsSaid
  <2> QED
    BY <2>1 DEF Part
<1> HIDE DEF y
<1>6. Altered(cl.parts, v, i) /\ v[i] = y
  BY <1>1, <1>2, <1>3, AlteredIs
<1> HIDE DEF v
<1>7. \A j \in DOMAIN s : j # i => v[j] = cl.parts[j]
  BY <1>3, <1>6 DEF Altered
<1>8. AsSaid(v, t)
  <2>1. ASSUME NEW j \in DOMAIN t, j # i PROVE v[j] = Part(t[j].kind, t[j].name, t[j].data)
    BY <1>1, <1>2, <1>7, <2>1 DEF AsSaid
  <2> QED
    BY <1>5, <1>6, <2>1 DEF AsSaid
<1>9. Listed(v) /\ Len(v) = Len(s)
  BY <1>1, <1>6 DEF Altered
<1>10. Became(d, v, OpenParts(t), TRUE, cl.finish)
  BY <1>4
<1> QED
  BY <1>2, <1>8, <1>9, <1>10 DEF Repeated, Became, OpenParts, AsSaid

\* goes on
LEMMA RepeatsMore ==
  ASSUME NEW cl, Client(cl), NEW s, Repeated("responses", cl, s), NEW t, NEW i, Altered(s, t, i),
         s[i].open = TRUE, t[i].open = TRUE, t[i].kind = s[i].kind, t[i].name = s[i].name,
         NEW e, e.type = "delta", e.index + 1 = i, e.kind = s[i].kind,
         t[i].data = s[i].data \o e.data
  PROVE  Repeated("responses", Read("responses", cl, e), t)
<1> DEFINE d == Read("responses", cl, e)
<1>1. /\ Listening(cl) /\ cl.started = TRUE /\ cl.open = OpenParts(s) /\ AsSaid(cl.parts, s)
  BY DEF Repeated, OpenParts, AsSaid
<1>2. i \in DOMAIN s
  BY DEF Altered
<1>3. cl.parts[i].kind = e.kind /\ cl.parts[i].data = s[i].data /\ i \in cl.open
  <2>1. cl.parts[i] = Part(s[i].kind, s[i].name, s[i].data)
    BY <1>1, <1>2 DEF AsSaid
  <2>2. i \in cl.open
    BY <1>1, <1>2 DEF OpenParts
  <2> QED
    BY <2>1, <2>2 DEF Part
<1>4. Became(d, More(cl.parts, i, e.data), cl.open, cl.started, cl.finish)
  BY <1>1, <1>3, ReadItemDelta
<1>5. More(cl.parts, i, e.data) = [cl.parts EXCEPT ![i].data = t[i].data]
  BY <1>3 DEF More
<1>6. OpenParts(t) = OpenParts(s)
  BY OpenAltered
<1> DEFINE data == t[i].data
<1>7. Became(d, [cl.parts EXCEPT ![i].data = data], OpenParts(t), TRUE, cl.finish)
  BY <1>1, <1>4, <1>5, <1>6
<1>8. t[i].data = data
  OBVIOUS
<1> HIDE DEF d, data
<1>9. Repeated("responses", d, t)
  BY <1>7, <1>8, RepeatsAltered
<1> QED
  BY <1>9 DEF d

\* and is done.
LEMMA RepeatsDone ==
  ASSUME NEW cl, Client(cl), NEW s, Repeated("responses", cl, s), NEW t, NEW i, Altered(s, t, i),
         s[i].open = TRUE, t[i].open = FALSE, t[i].kind = s[i].kind, t[i].name = s[i].name,
         NEW e, e.type = "done", e.index + 1 = i, t[i].data = e.data,
         s[i].data = <<>> \/ s[i].data = e.data
  PROVE  Repeated("responses", Read("responses", cl, e), t)
<1> DEFINE d == Read("responses", cl, e)
<1>1. /\ Listening(cl) /\ cl.started = TRUE /\ cl.open = OpenParts(s) /\ AsSaid(cl.parts, s)
  BY DEF Repeated, OpenParts, AsSaid
<1>2. i \in DOMAIN s
  BY DEF Altered
<1>3. cl.parts[i].data = s[i].data /\ i \in cl.open
  <2>1. cl.parts[i] = Part(s[i].kind, s[i].name, s[i].data)
    BY <1>1, <1>2 DEF AsSaid
  <2>2. i \in cl.open
    BY <1>1, <1>2 DEF OpenParts
  <2> QED
    BY <2>1, <2>2 DEF Part
<1>4. cl.parts[i].data \in {<<>>, e.data}
  BY <1>3
<1>5. Became(d, [cl.parts EXCEPT ![i].data = e.data], cl.open \ {i}, cl.started, cl.finish)
  BY <1>1, <1>3, <1>4, ReadItemDone
<1>6. OpenParts(t) = OpenParts(s) \ {i}
  BY OpenClosed
<1> DEFINE data == e.data
<1>7. Became(d, [cl.parts EXCEPT ![i].data = data], OpenParts(t), TRUE, cl.finish)
  BY <1>1, <1>5, <1>6
<1>8. t[i].data = data
  OBVIOUS
<1> HIDE DEF d, data
<1>9. Repeated("responses", d, t)
  BY <1>7, <1>8, RepeatsAltered
<1> QED
  BY <1>9 DEF d

\* What has been said, as the last event of a Responses upstream has it.
Whole(s, output) == output = [i \in DOMAIN s |-> Part(s[i].kind, s[i].name, s[i].data)]

\* The last event of a Responses upstream repeats what its client has.
LEMMA RepeatsWhole ==
  ASSUME NEW cl, Client(cl), NEW s, Listed(s), Repeated("responses", cl, s), OpenParts(s) = {},
         NEW e, e.type = "completed", Whole(s, e.output)
  PROVE  Read("responses", cl, e).bad = FALSE
<1>1. /\ Listening(cl) /\ cl.open = {} /\ AsSaid(cl.parts, s) /\ Listed(cl.parts)
      /\ Len(cl.parts) = Len(s)
  BY DEF Repeated, OpenParts, AsSaid
<1>2. DOMAIN cl.parts = DOMAIN s
  BY <1>1, ListedIs
<1>3. cl.parts = [i \in DOMAIN cl.parts |-> cl.parts[i]]
  BY <1>1 DEF Listed
<1>4. e.output = cl.parts
  <2>1. \A i \in DOMAIN s : e.output[i] = cl.parts[i]
    BY <1>1 DEF AsSaid, Whole
  <2>2. e.output = [i \in DOMAIN s |-> e.output[i]]
    BY DEF Whole
  <2> QED
    BY <1>2, <1>3, <2>1, <2>2
<1>5. Content(Read("responses", cl, e))
  BY <1>1, <1>4, ReadCompleted
<1> QED
  BY <1>5 DEF Content

\* The last events of a messages upstream.
LEMMA RepeatsEnd ==
  ASSUME NEW cl, Client(cl), NEW s, Repeated("anthropic", cl, s), OpenParts(s) = {},
         NEW a, a.type = "message_delta", a.finish # "none", NEW b, b.type = "message_stop"
  PROVE  Read("anthropic", Read("anthropic", cl, a), b).bad = FALSE
<1> DEFINE d == Read("anthropic", cl, a)
<1>1. Listening(cl) /\ cl.open = {} /\ cl.finish = "none"
  BY DEF Repeated, OpenParts
<1>2. Became(d, cl.parts, cl.open, cl.started, a.finish)
  BY <1>1, ReadFinish
<1> HIDE DEF d
<1>3. Client(d) /\ Listening(d) /\ d.finish # "none"
  BY <1>2 DEF Became
<1>4. Content(Read("anthropic", d, b))
  BY <1>3, ReadStop
<1> QED
  BY <1>4 DEF Content, d

\* An error event is always in place.
LEMMA RepeatsError ==
  ASSUME NEW cl, Client(cl), Listening(cl), NEW e
  PROVE  /\ e.type = "error" => Read("anthropic", cl, e).bad = FALSE
         /\ e.type = "failed" => Read("responses", cl, e).bad = FALSE
<1>1. e.type = "error" => Content(Read("anthropic", cl, e))
  BY ReadStop
<1>2. e.type = "failed" => Content(Read("responses", cl, e))
  BY ReadCompleted
<1> QED
  BY <1>1, <1>2 DEF Content

\* The first event of an answer, for a client that has nothing.
LEMMA RepeatsGreeting ==
  ASSUME NEW cl, Client(cl), cl = NewClient, NEW e
  PROVE  /\ e.type = "message_start" => Repeated("anthropic", Read("anthropic", cl, e), <<>>)
         /\ e.type = "created" => Repeated("responses", Read("responses", cl, e), <<>>)
<1>1. /\ Listening(cl) /\ cl.started = FALSE /\ cl.parts = <<>> /\ cl.open = {}
      /\ cl.finish = "none"
  BY DEF NewClient, Listening
<1>2. Listed(<<>>) /\ OpenParts(<<>>) = {} /\ DOMAIN <<>> = {}
  BY ListedIs DEF OpenParts
<1>3. e.type = "message_start" => Became(Read("anthropic", cl, e), <<>>, {}, TRUE, "none")
  BY <1>1, ReadStart
<1>4. e.type = "created" => Became(Read("responses", cl, e), <<>>, {}, TRUE, "none")
  BY <1>1, ReadCreated
<1>5. ASSUME NEW d, Became(d, <<>>, {}, TRUE, "none")
      PROVE  Repeated("anthropic", d, <<>>) /\ Repeated("responses", d, <<>>)
  BY <1>2, <1>5 DEF Became, Repeated, OpenParts
<1> QED
  BY <1>3, <1>4, <1>5

------------------------------------------------------------------------------
(* The calls among the parts that have been said *)

Finite(s) == Listed(s) /\ IsFiniteSet(DOMAIN s)

\* There are finitely many of them.
LEMMA CallsCount ==
  ASSUME NEW s, Finite(s)
  PROVE  IsFiniteSet(CallsSaid(s)) /\ NCalls(s) \in Nat
<1>1. CallsSaid(s) \subseteq DOMAIN s
  BY DEF CallsSaid
<1>2. IsFiniteSet(CallsSaid(s))
  BY <1>1, FS_Subset DEF Finite
<1> QED
  BY <1>2, FS_CardinalityType DEF NCalls

\* One more part is one more call or it is not.
LEMMA CallsMore ==
  ASSUME NEW s, Finite(s), NEW x
  PROVE  /\ Finite(Append(s, x))
         /\ x.kind \in CallKinds => NCalls(Append(s, x)) = NCalls(s) + 1
         /\ x.kind \notin CallKinds => NCalls(Append(s, x)) = NCalls(s)
<1> DEFINE t == Append(s, x)
           n == Len(s)
<1>1. /\ Listed(t) /\ Len(t) = n + 1 /\ t[n + 1] = x /\ \A i \in DOMAIN s : t[i] = s[i]
  BY Appended DEF Finite
<1>2. n \in Nat /\ DOMAIN s = 1..n
  BY ListedIs DEF Finite
<1>3. DOMAIN t = 1..Len(t)
  BY <1>1, ListedIs
<1> HIDE DEF t, n
<1>4. DOMAIN t = DOMAIN s \cup {n + 1} /\ n + 1 \notin DOMAIN s
  BY <1>1, <1>2, <1>3
<1>5. Finite(t)
  BY <1>1, <1>4, FS_AddElement DEF Finite
<1>6. x.kind \in CallKinds =>
        CallsSaid(t) = CallsSaid(s) \cup {n + 1} /\ n + 1 \notin CallsSaid(s)
  BY <1>1, <1>4 DEF CallsSaid
<1>7. x.kind \notin CallKinds => CallsSaid(t) = CallsSaid(s)
  BY <1>1, <1>4 DEF CallsSaid
<1>8. IsFiniteSet(CallsSaid(s))
  BY CallsCount
<1>9. x.kind \in CallKinds => NCalls(t) = NCalls(s) + 1
  BY <1>6, <1>8, FS_AddElement DEF NCalls
<1>10. x.kind \notin CallKinds => NCalls(t) = NCalls(s)
  BY <1>7 DEF NCalls
<1> QED
  BY <1>5, <1>9, <1>10 DEF t

\* What a part says makes no calls.
LEMMA CallsAltered ==
  ASSUME NEW s, NEW t, NEW i, Altered(s, t, i), t[i].kind = s[i].kind
  PROVE  /\ CallsSaid(t) = CallsSaid(s) /\ NCalls(t) = NCalls(s)
         /\ Finite(s) => Finite(t)
<1>1. /\ Listed(t) /\ DOMAIN t = DOMAIN s /\ i \in DOMAIN s
      /\ \A j \in DOMAIN s : j # i => t[j] = s[j]
  BY DEF Altered
<1>2. CallsSaid(t) = CallsSaid(s)
  BY <1>1 DEF CallsSaid
<1> QED
  BY <1>1, <1>2 DEF NCalls, Finite

\* The calls before a call are fewer than all.
LEMMA CallsBefore ==
  ASSUME NEW s, Finite(s), NEW i \in CallsSaid(s)
  PROVE  /\ Cardinality({j \in 1..(i - 1) : s[j].kind \in CallKinds}) \in 0..(NCalls(s) - 1)
         /\ NCalls(s) # 0
<1> DEFINE B == {j \in 1..(i - 1) : s[j].kind \in CallKinds}
           R == CallsSaid(s) \ {i}
<1>1. IsFiniteSet(CallsSaid(s)) /\ NCalls(s) \in Nat
  BY CallsCount
<1>2. IsFiniteSet(R) /\ Cardinality(R) = NCalls(s) - 1
  BY <1>1, FS_RemoveElement DEF NCalls
<1>3. B \subseteq R
  <2>1. Len(s) \in Nat /\ DOMAIN s = 1..Len(s) /\ i \in DOMAIN s
    BY ListedIs DEF Finite, CallsSaid
  <2> QED
    BY <2>1 DEF CallsSaid
<1> HIDE DEF B, R
<1>4. IsFiniteSet(B) /\ Cardinality(B) <= Cardinality(R) /\ Cardinality(B) \in Nat
         /\ Cardinality(R) \in Nat
  BY <1>2, <1>3, FS_Subset, FS_CardinalityType
<1> QED
  BY <1>1, <1>2, <1>4 DEF B

\* The calls before the next part are all.
LEMMA CallsSoFar ==
  ASSUME NEW s, Finite(s)
  PROVE  Cardinality({j \in 1..((Len(s) + 1) - 1) : s[j].kind \in CallKinds}) = NCalls(s)
<1>1. Len(s) \in Nat /\ DOMAIN s = 1..Len(s)
  BY ListedIs DEF Finite
<1>2. (Len(s) + 1) - 1 = Len(s)
  BY <1>1
<1>3. {j \in 1..((Len(s) + 1) - 1) : s[j].kind \in CallKinds} = CallsSaid(s)
  BY <1>1, <1>2 DEF CallsSaid
<1> QED
  BY <1>3 DEF NCalls

------------------------------------------------------------------------------
(* A talk goes on, event by event *)

\* Neither relayed nor whole: some converter or reader heeds it.
LEMMA TalkHeeds ==
  ASSUME NEW p, OnWay(p), p.stream = TRUE, ~Relayed(p), NEW s, Talk(p, s)
  PROVE  /\ Heeding(p) /\ Tuned(p, NCalls(s))
         /\ CallUnderWay(s) => Calling(p)
<1>1. Heeding(p)
  BY DEF Heeding, Bridged, Chatting, Relayed, OnWay, IsPipe, Protocols
<1>2. Tuned(p, NCalls(s)) /\ (CallUnderWay(s) => Calling(p))
  BY DEF Talk, Tuned, Knows, KnowsBy
<1> QED
  BY <1>1, <1>2

\* A stream that is heard is a talk.
LEMMA TalkHeard ==
  ASSUME NEW p, NEW f, Route(p, f), ~Relayed(p), NEW t, Tuned(f, NCalls(t)),
         CallUnderWay(t) => Calling(f)
  PROVE  Talk(f, t)
<1>1. ~Relayed(f)
  BY DEF Relayed, Route
<1> QED
  BY <1>1 DEF Talk, Tuned, Knows, KnowsBy

\* A call that is not a messages client's can always go on.
LEMMA CallingElse ==
  ASSUME NEW p, NEW f, Route(p, f), p.entry # "anthropic"
  PROVE  Calling(f)
  BY DEF Calling, Route

\* A call begins,
LEMMA TalkBegins ==
  ASSUME NEW p, OnWay(p), p.stream = TRUE, ~Relayed(p), NEW s, Talk(p, s), NEW e,
         Route(p, Handle(p, e)), Begins(p.up, e, NCalls(s)),
         NEW t, NCalls(t) = NCalls(s) + 1
  PROVE  Talk(Handle(p, e), t)
<1> DEFINE n == NCalls(s)
           m == NCalls(t)
<1>1. Heeding(p) /\ Tuned(p, n) /\ Begins(p.up, e, n)
  BY TalkHeeds
<1>2. m = n + 1
  OBVIOUS
<1> HIDE DEF n, m
<1>3. Tuned(Handle(p, e), n + 1) /\ Calling(Handle(p, e))
  BY <1>1, BeginsHeard
<1>4. Tuned(Handle(p, e), NCalls(t))
  BY <1>2, <1>3 DEF m
<1> QED
  BY <1>3, <1>4, TalkHeard

\* goes on,
LEMMA TalkGoesOn ==
  ASSUME NEW p, OnWay(p), p.stream = TRUE, ~Relayed(p), NEW s, Talk(p, s), NEW e,
         Route(p, Handle(p, e)), GoesOn(p.up, e, NCalls(s)), CallUnderWay(s),
         NEW t, NCalls(t) = NCalls(s)
  PROVE  Talk(Handle(p, e), t)
<1> DEFINE n == NCalls(s)
<1>1. Heeding(p) /\ Tuned(p, n) /\ Calling(p) /\ GoesOn(p.up, e, n)
  BY TalkHeeds
<1> HIDE DEF n
<1>2. Tuned(Handle(p, e), n) /\ Calling(Handle(p, e))
  BY <1>1, GoesOnHeard
<1>3. Tuned(Handle(p, e), NCalls(t))
  BY <1>2 DEF n
<1> QED
  BY <1>2, <1>3, TalkHeard

\* something is said,
LEMMA TalkSpeaks ==
  ASSUME NEW p, OnWay(p), p.stream = TRUE, ~Relayed(p), NEW s, Talk(p, s), NEW e,
         Route(p, Handle(p, e)), Speaks(p.up, e),
         NEW t, NCalls(t) = NCalls(s), CallUnderWay(t) => p.entry # "anthropic"
  PROVE  Talk(Handle(p, e), t)
<1> DEFINE n == NCalls(s)
<1>1. Heeding(p) /\ Tuned(p, n) /\ Speaks(p.up, e)
  BY TalkHeeds
<1> HIDE DEF n
<1>2. Tuned(Handle(p, e), n)
  BY <1>1, SpeaksHeard
<1>3. Tuned(Handle(p, e), NCalls(t))
  BY <1>2 DEF n
<1>4. CallUnderWay(t) => Calling(Handle(p, e))
  BY CallingElse
<1> QED
  BY <1>3, <1>4, TalkHeard

\* nothing is said,
LEMMA TalkSilence ==
  ASSUME NEW p, OnWay(p), p.stream = TRUE, ~Relayed(p), NEW s, Talk(p, s), NEW e,
         Route(p, Handle(p, e)), SaysNothing(p.up, e),
         NEW t, NCalls(t) = NCalls(s), CallUnderWay(t) => CallUnderWay(s) \/ p.entry # "anthropic"
  PROVE  Talk(Handle(p, e), t)
<1> DEFINE n == NCalls(s)
<1>1. Heeding(p) /\ Tuned(p, n) /\ (CallUnderWay(s) => Calling(p)) /\ SaysNothing(p.up, e)
  BY TalkHeeds
<1> HIDE DEF n
<1>2. Tuned(Handle(p, e), n) /\ (Calling(p) => Calling(Handle(p, e)))
  BY <1>1, SilenceHeard
<1>3. Tuned(Handle(p, e), NCalls(t))
  BY <1>2 DEF n
<1>4. CallUnderWay(t) => Calling(Handle(p, e))
  BY <1>1, <1>2, CallingElse
<1> QED
  BY <1>3, <1>4, TalkHeard

\* or nothing is sent.
LEMMA TalkStays ==
  ASSUME NEW p, ~Relayed(p), NEW s, Talk(p, s),
         NEW t, NCalls(t) = NCalls(s), CallUnderWay(t) => CallUnderWay(s) \/ p.entry # "anthropic"
  PROVE  Talk(p, t)
<1>1. CallUnderWay(t) => Calling(p)
  BY DEF Talk, Calling
<1> QED
  BY <1>1 DEF Talk

\* A client that is relayed an event reads it.
LEMMA RelayReads ==
  ASSUME NEW p, OnWay(p), p.stream = TRUE, Relayed(p), NEW e
  PROVE  Handle(p, e).client = Read(p.up, p.client, e)
<1> DEFINE f == Handle(p, e)
           v == MergeUsage(p.usage, e.usage)
           q == [p EXCEPT !.usage = v]
<1>1. IsPipe(p) /\ p.entry = p.up
  BY DEF OnWay, Relayed
<1>2. f = Deliver(q, <<e>>)
  <2>1. Passthrough(p)
    BY <1>1 DEF Passthrough
  <2>2. f = Pass(p, e)
    BY <2>1 DEF Handle
  <2>3. Pass(p, e) = Deliver(q, <<e>>)
    BY <1>1 DEF Pass, IsPipe
  <2> QED
    BY <2>2, <2>3
<1> HIDE DEF v
<1>3. IsPipe(q) /\ Kept(p, q) /\ q.client = p.client
  BY <1>1, UsageField
<1> HIDE DEF q, f
<1>4. f.client = ReadAll(q.entry, q.client, <<e>>)
  BY <1>2, <1>3, DeliverIs
<1>5. \A en, cl : ReadAll(en, cl, <<e>>) = Read(en, cl, e)
  BY ReadAllFew
<1> QED
  BY <1>1, <1>3, <1>4, <1>5 DEF Kept, Route, f

\* A stream that is relayed and whose client has what was said is a talk.
LEMMA TalkRelayed ==
  ASSUME NEW p, NEW f, Route(p, f), Relayed(p), NEW t, Repeated(p.up, f.client, t)
  PROVE  Talk(f, t)
<1>1. Relayed(f) /\ f.up = p.up
  BY DEF Relayed, Route
<1> QED
  BY <1>1 DEF Talk

------------------------------------------------------------------------------
(* What the events of an action make of any stream under way *)

Ready(p) ==
  Course(p, "no") /\ p.stream = TRUE /\ p.up = pipe.up /\ p.entry = pipe.entry

\* A stream whose upstream has said s has said t after the event,
Turns(e, s, t) ==
  \A p : Ready(p) /\ Talk(p, s) => Ready(Handle(p, e)) /\ Talk(Handle(p, e), t)

\* after the events,
Tells(events, s, t) == \A p : Ready(p) /\ Talk(p, s) => Talk(HandleAll(p, events), t)

\* or has been ended by them.
Closes(events, s) == \A p : Ready(p) /\ Talk(p, s) => Through(HandleAll(p, events))

\* A stream that is ready stays ready when something is said.
LEMMA ReadyStays ==
  ASSUME NEW p, Ready(p), NEW e, Mild(pipe.up, e)
  PROVE  Ready(Handle(p, e)) /\ Route(p, Handle(p, e))
<1>1. Course(p, "no") /\ ~OneBody(p) /\ Mild(p.up, e)
  BY DEF Ready, OneBody
<1>2. Course(Handle(p, e), "no") /\ Route(p, Handle(p, e))
  BY <1>1, MildHandled
<1> QED
  BY <1>2 DEF Ready, Route

\* What is known of a stream that is ready.
LEMMA ReadyIs ==
  ASSUME NEW p, Ready(p)
  PROVE  /\ OnWay(p) /\ IsPipe(p) /\ p.stream = TRUE /\ Client(p.client)
         /\ p.up = pipe.up /\ p.entry = pipe.entry /\ (Relayed(p) <=> Relayed(pipe))
  BY DEF Ready, Course, OnWay, IsPipe, Relayed

\* No event, one, or two.
LEMMA TellsFew ==
  /\ \A s, t : (\A p : Ready(p) /\ Talk(p, s) => Talk(p, t)) => Tells(<<>>, s, t)
  /\ \A e, s, t : Turns(e, s, t) => Tells(<<e>>, s, t)
  /\ \A a, b, s, r, t : Turns(a, s, r) /\ Turns(b, r, t) => Tells(<<a, b>>, s, t)
<1>1. ASSUME NEW s, NEW t, \A p : Ready(p) /\ Talk(p, s) => Talk(p, t)
      PROVE  Tells(<<>>, s, t)
  <2>1. \A p : HandleAll(p, <<>>) = p
    BY HandleLaw
  <2> QED
    BY <1>1, <2>1 DEF Tells
<1>2. ASSUME NEW e, NEW s, NEW t, Turns(e, s, t)
      PROVE  Tells(<<e>>, s, t)
  <2>1. \A p : HandleAll(p, <<e>>) = Handle(p, e)
    BY HandleLaw
  <2> QED
    BY <1>2, <2>1 DEF Tells, Turns
<1>3. ASSUME NEW a, NEW b, NEW s, NEW r, NEW t, Turns(a, s, r), Turns(b, r, t)
      PROVE  Tells(<<a, b>>, s, t)
  <2>1. \A p : HandleAll(p, <<a, b>>) = Handle(Handle(p, a), b)
    BY HandleLists
  <2>2. ASSUME NEW p, Ready(p), Talk(p, s)
        PROVE  Talk(Handle(Handle(p, a), b), t)
    <3> DEFINE q == Handle(p, a)
    <3>1. Ready(q) /\ Talk(q, r)
      BY <1>3, <2>2 DEF Turns
    <3> HIDE DEF q
    <3>2. Talk(Handle(q, b), t)
      BY <1>3, <3>1 DEF Turns
    <3> QED
      BY <3>2 DEF q
  <2> QED
    BY <2>1, <2>2 DEF Tells
<1> QED
  BY <1>1, <1>2, <1>3

\* A stream that is bridged: a call begins,
LEMMA TurnsBegun ==
  ASSUME ~Relayed(pipe), NEW e, Mild(pipe.up, e), NEW s, Begins(pipe.up, e, NCalls(s)),
         NEW t, NCalls(t) = NCalls(s) + 1
  PROVE  Turns(e, s, t)
<1> SUFFICES ASSUME NEW p, Ready(p), Talk(p, s)
             PROVE  Ready(Handle(p, e)) /\ Talk(Handle(p, e), t)
  BY DEF Turns
<1>1. OnWay(p) /\ p.stream = TRUE /\ p.up = pipe.up /\ ~Relayed(p)
  BY ReadyIs
<1>2. Ready(Handle(p, e)) /\ Route(p, Handle(p, e))
  BY ReadyStays
<1> QED
  BY <1>1, <1>2, TalkBegins

\* goes on,
LEMMA TurnsOn ==
  ASSUME ~Relayed(pipe), NEW e, Mild(pipe.up, e), NEW s, GoesOn(pipe.up, e, NCalls(s)),
         CallUnderWay(s), NEW t, NCalls(t) = NCalls(s)
  PROVE  Turns(e, s, t)
<1> SUFFICES ASSUME NEW p, Ready(p), Talk(p, s)
             PROVE  Ready(Handle(p, e)) /\ Talk(Handle(p, e), t)
  BY DEF Turns
<1>1. OnWay(p) /\ p.stream = TRUE /\ p.up = pipe.up /\ ~Relayed(p)
  BY ReadyIs
<1>2. Ready(Handle(p, e)) /\ Route(p, Handle(p, e))
  BY ReadyStays
<1> QED
  BY <1>1, <1>2, TalkGoesOn

\* something is said,
LEMMA TurnsSpoken ==
  ASSUME ~Relayed(pipe), NEW e, Mild(pipe.up, e), NEW s, Speaks(pipe.up, e),
         NEW t, NCalls(t) = NCalls(s), CallUnderWay(t) => pipe.entry # "anthropic"
  PROVE  Turns(e, s, t)
<1> SUFFICES ASSUME NEW p, Ready(p), Talk(p, s)
             PROVE  Ready(Handle(p, e)) /\ Talk(Handle(p, e), t)
  BY DEF Turns
<1>1. OnWay(p) /\ p.stream = TRUE /\ p.up = pipe.up /\ p.entry = pipe.entry /\ ~Relayed(p)
  BY ReadyIs
<1>2. Ready(Handle(p, e)) /\ Route(p, Handle(p, e))
  BY ReadyStays
<1> QED
  BY <1>1, <1>2, TalkSpeaks

\* nothing is said,
LEMMA TurnsSilent ==
  ASSUME ~Relayed(pipe), NEW e, Mild(pipe.up, e), NEW s, SaysNothing(pipe.up, e),
         NEW t, NCalls(t) = NCalls(s),
         CallUnderWay(t) => CallUnderWay(s) \/ pipe.entry # "anthropic"
  PROVE  Turns(e, s, t)
<1> SUFFICES ASSUME NEW p, Ready(p), Talk(p, s)
             PROVE  Ready(Handle(p, e)) /\ Talk(Handle(p, e), t)
  BY DEF Turns
<1>1. OnWay(p) /\ p.stream = TRUE /\ p.up = pipe.up /\ p.entry = pipe.entry /\ ~Relayed(p)
  BY ReadyIs
<1>2. Ready(Handle(p, e)) /\ Route(p, Handle(p, e))
  BY ReadyStays
<1> QED
  BY <1>1, <1>2, TalkSilence

\* or nothing is sent.
LEMMA TellsStay ==
  ASSUME ~Relayed(pipe), NEW s, NEW t, NCalls(t) = NCalls(s),
         CallUnderWay(t) => CallUnderWay(s) \/ pipe.entry # "anthropic"
  PROVE  Tells(<<>>, s, t)
<1>1. ASSUME NEW p, Ready(p), Talk(p, s)
      PROVE  Talk(p, t)
  <2>1. p.entry = pipe.entry /\ ~Relayed(p)
    BY <1>1, ReadyIs
  <2> QED
    BY <1>1, <2>1, TalkStays
<1> QED
  BY <1>1, TellsFew

\* What a client makes of an event that is relayed to it.
Repeating(e, s, t) ==
  \A cl : Client(cl) /\ Repeated(pipe.up, cl, s) => Repeated(pipe.up, Read(pipe.up, cl, e), t)

\* A stream that is relayed goes on as its client does.
LEMMA TurnsRepeated ==
  ASSUME Relayed(pipe), NEW e, Mild(pipe.up, e), NEW s, NEW t, Repeating(e, s, t)
  PROVE  Turns(e, s, t)
<1> SUFFICES ASSUME NEW p, Ready(p), Talk(p, s)
             PROVE  Ready(Handle(p, e)) /\ Talk(Handle(p, e), t)
  BY DEF Turns
<1>1. OnWay(p) /\ p.stream = TRUE /\ p.up = pipe.up /\ Relayed(p) /\ Client(p.client)
  BY ReadyIs
<1>2. Ready(Handle(p, e)) /\ Route(p, Handle(p, e))
  BY ReadyStays
<1> DEFINE f == Handle(p, e)
<1>3. f.client = Read(p.up, p.client, e)
  BY <1>1, RelayReads
<1>4. Repeated(p.up, p.client, s)
  BY <1>1 DEF Talk
<1> HIDE DEF f
<1>5. Repeated(p.up, f.client, t)
  BY <1>1, <1>3, <1>4 DEF Repeating
<1>6. Talk(f, t)
  BY <1>1, <1>2, <1>5, TalkRelayed DEF f
<1> QED
  BY <1>2, <1>6 DEF f

------------------------------------------------------------------------------
(* What an upstream says of a part *)

Placed(e, type, index, kind, name, data) ==
  /\ e.type = type /\ e.index = index /\ e.kind = kind /\ e.name = name /\ e.data = data

\* An event at a place says what it is given to say.
LEMMA AtPlace ==
  ASSUME NEW type, NEW i, NEW kind, NEW name, NEW data
  PROVE  Placed(At(type, i, kind, name, data), type, i - 1, WireKind(kind), name, data)
<1> DEFINE k == WireKind(kind)
           j == i - 1
           e == Event(type)
           a == [e EXCEPT !.index = j]
           b == [a EXCEPT !.kind = k]
           c == [b EXCEPT !.name = name]
           d == [c EXCEPT !.data = data]
<1>1. At(type, i, kind, name, data) = d
  BY DEF At
<1> HIDE DEF k, j
<1>2. Placed(e, type, 0, "none", 0, <<>>) /\ IsEvent(e)
  BY DEF Placed, Event, IsEvent
<1> HIDE DEF e
<1>3. Placed(a, type, j, "none", 0, <<>>) /\ IsEvent(a)
  BY <1>2 DEF Placed, IsEvent
<1> HIDE DEF a
<1>4. Placed(b, type, j, k, 0, <<>>) /\ IsEvent(b)
  BY <1>3 DEF Placed, IsEvent
<1> HIDE DEF b
<1>5. Placed(c, type, j, k, name, <<>>) /\ IsEvent(c)
  BY <1>4 DEF Placed, IsEvent
<1> HIDE DEF c
<1>6. Placed(d, type, j, k, name, data)
  BY <1>5 DEF Placed, IsEvent
<1> QED
  BY <1>1, <1>6 DEF k, j

\* One event on the way.
LEMMA MildOne ==
  ASSUME NEW u, NEW e, Murmur(u, <<e>>)
  PROVE  Mild(u, e)
<1>1. 1 \in DOMAIN <<e>> /\ <<e>>[1] = e
  OBVIOUS
<1> QED
  BY <1>1 DEF Murmur

\* The kind of a part on the wire.
LEMMA WireKindIs ==
  ASSUME NEW kind \in Kinds
  PROVE  /\ pipe.up = "anthropic" => (WireKind(kind) = "call" <=> kind \in CallKinds)
         /\ WireKind(kind) \in CallKinds <=> kind \in CallKinds
         /\ pipe.up = "responses" \/ kind # "custom" => WireKind(kind) = kind
  BY DEF WireKind, Kinds, CallKinds

\* More of a call.
LEMMA FragmentCall ==
  ASSUME IInv, ~Relayed(pipe), NEW kind \in CallKinds, NEW i, NEW data, Listed(data),
         NEW s, NEW t, NCalls(t) = NCalls(s), CallUnderWay(s), NCalls(s) # 0,
         ChatIndex(i) \in 0..(NCalls(s) - 1)
  PROVE  \E e : Fragment(kind, i, data) = <<e>> /\ Turns(e, s, t)
<1> DEFINE n == NCalls(s)
           k == WireKind(kind)
<1>1. Murmur(pipe.up, Fragment(kind, i, data))
  BY FragmentMild
<1>2. kind \in Kinds
  BY DEF CallKinds, Kinds
<1>3. \E e : Fragment(kind, i, data) = <<e>> /\ GoesOn(pipe.up, e, n)
  <2>1. CASE pipe.up = "openai"
    <3> DEFINE e == CallChunk(ChatIndex(i), 0, data)
    <3>1. Fragment(kind, i, data) = <<e>>
      BY <2>1 DEF Fragment
    <3>2. GoesOn(pipe.up, e, n)
      BY <2>1 DEF GoesOn
    <3> QED
      BY <3>1, <3>2
  <2>2. CASE pipe.up = "anthropic"
    <3> DEFINE e == At("block_delta", i, kind, 0, data)
    <3>1. Fragment(kind, i, data) = <<e>>
      BY <2>2 DEF Fragment
    <3>2. Placed(e, "block_delta", i - 1, k, 0, data) /\ k = "call"
      BY <1>2, <2>2, AtPlace, WireKindIs
    <3> HIDE DEF e, k
    <3>3. GoesOn(pipe.up, e, n)
      BY <2>2, <3>2 DEF GoesOn, Placed
    <3> QED
      BY <3>1, <3>3
  <2>3. CASE pipe.up = "responses"
    <3> DEFINE e == At("delta", i, kind, 0, data)
    <3>1. Fragment(kind, i, data) = <<e>>
      BY <2>3 DEF Fragment
    <3>2. Placed(e, "delta", i - 1, k, 0, data) /\ k \in CallKinds
      BY <1>2, <2>3, AtPlace, WireKindIs
    <3> HIDE DEF e, k
    <3>3. GoesOn(pipe.up, e, n)
      BY <2>3, <3>2 DEF GoesOn, Placed
    <3> QED
      BY <3>1, <3>3
  <2> QED
    BY <2>1, <2>2, <2>3 DEF IInv, IsPipe, Protocols
<1>4. PICK e : Fragment(kind, i, data) = <<e>> /\ GoesOn(pipe.up, e, n)
  BY <1>3
<1>5. Mild(pipe.up, e)
  BY <1>1, <1>4, MildOne
<1>6. Turns(e, s, t)
  BY <1>4, <1>5, TurnsOn
<1> QED
  BY <1>4, <1>6

\* More of what is said or thought.
LEMMA FragmentSpoken ==
  ASSUME IInv, ~Relayed(pipe), NEW kind \in Kinds, kind \notin CallKinds, NEW i,
         NEW data, Listed(data), NEW s, NEW t, NCalls(t) = NCalls(s),
         CallUnderWay(t) => pipe.entry # "anthropic"
  PROVE  \E e : Fragment(kind, i, data) = <<e>> /\ Turns(e, s, t)
<1> DEFINE k == WireKind(kind)
<1>1. Murmur(pipe.up, Fragment(kind, i, data))
  BY FragmentMild
<1>2. \E e : Fragment(kind, i, data) = <<e>> /\ Speaks(pipe.up, e)
  <2>1. CASE pipe.up = "openai"
    <3> DEFINE e == SayChunk(kind, data)
    <3>1. Fragment(kind, i, data) = <<e>>
      BY <2>1 DEF Fragment
    <3>2. Utters(e) /\ e.finish = "none"
      BY SpeechIs
    <3> HIDE DEF e
    <3> QED
      BY <2>1, <3>1, <3>2 DEF Speaks
  <2>2. CASE pipe.up = "anthropic"
    <3> DEFINE e == At("block_delta", i, kind, 0, data)
    <3>1. Fragment(kind, i, data) = <<e>>
      BY <2>2 DEF Fragment
    <3>2. Placed(e, "block_delta", i - 1, k, 0, data) /\ k # "call"
      BY <2>2, AtPlace, WireKindIs
    <3> HIDE DEF e, k
    <3>3. Speaks(pipe.up, e)
      BY <2>2, <3>2 DEF Speaks, Placed
    <3> QED
      BY <3>1, <3>3
  <2>3. CASE pipe.up = "responses"
    <3> DEFINE e == At("delta", i, kind, 0, data)
    <3>1. Fragment(kind, i, data) = <<e>>
      BY <2>3 DEF Fragment
    <3>2. Placed(e, "delta", i - 1, k, 0, data) /\ k \notin CallKinds
      BY <2>3, AtPlace, WireKindIs
    <3> HIDE DEF e, k
    <3>3. Speaks(pipe.up, e)
      BY <2>3, <3>2 DEF Speaks, Placed
    <3> QED
      BY <3>1, <3>3
  <2> QED
    BY <2>1, <2>2, <2>3 DEF IInv, IsPipe, Protocols
<1>3. PICK e : Fragment(kind, i, data) = <<e>> /\ Speaks(pipe.up, e)
  BY <1>2
<1>4. Mild(pipe.up, e)
  BY <1>1, <1>3, MildOne
<1>5. Turns(e, s, t)
  BY <1>3, <1>4, TurnsSpoken
<1> QED
  BY <1>3, <1>5

\* The wrapper of a custom tool's input is more of the call, where there is one.
LEMMA WrapperTold ==
  ASSUME IInv, ~Relayed(pipe), NEW kind, NEW i, NEW mark,
         NEW s, CallUnderWay(s), NCalls(s) # 0, ChatIndex(i) \in 0..(NCalls(s) - 1)
  PROVE  Wrapper(kind, i, mark) = <<>> \/ \E e : Wrapper(kind, i, mark) = <<e>> /\ Turns(e, s, s)
<1>1. CASE kind = "custom" /\ pipe.up # "responses"
  <2> DEFINE data == <<mark>>
  <2>1. Wrapper(kind, i, mark) = Fragment(kind, i, data)
    BY <1>1 DEF Wrapper
  <2>2. Listed(data) /\ kind \in CallKinds
    BY <1>1, ListedIs DEF CallKinds
  <2> HIDE DEF data
  <2> QED
    BY <2>1, <2>2, FragmentCall
<1>2. CASE ~(kind = "custom" /\ pipe.up # "responses")
  BY <1>2 DEF Wrapper
<1> QED
  BY <1>1, <1>2

------------------------------------------------------------------------------
(* A part opens *)

\* The parts after another has been opened.
Opened(kind, i, t) ==
  \E name : /\ name = (IF kind \in CallKinds THEN WireName(kind, i) ELSE 0)
            /\ t = Append(said, [kind |-> kind, name |-> name, data |-> <<>>, open |-> TRUE])

\* When a part may be opened.
Openable ==
  \A j \in DOMAIN said : said[j].open => entry \in Overlap /\ pipe.up # "anthropic"

\* A tool has a name.
LEMMA WireNamed ==
  ASSUME Listed(turns), Listed(said), NEW kind
  PROVE  WireName(kind, Len(said) + 1) \in Int \ {0}
<1> DEFINE n == Len(turns)
           i == Len(said) + 1
           name == 10 * n + i
<1>1. n \in Nat /\ Len(said) \in Nat
  BY ListedIs
<1> HIDE DEF n
<1>2. name \in Int /\ name > 0
  BY <1>1
<1>3. WireName(kind, i) = IF kind = "custom" /\ pipe.up # "responses" THEN -name ELSE name
  BY DEF WireName, n
<1> HIDE DEF name
<1>4. name \in Int \ {0} /\ -name \in Int \ {0}
  BY <1>2
<1> QED
  BY <1>3, <1>4

\* A part that may not be opened next to another leaves no two open.
LEMMA OpenedSaid ==
  ASSUME IInv, Sayings(pipe, said), Listed(turns), "anthropic" \notin Overlap,
         NEW kind \in Kinds, MayCall(kind), Openable,
         NEW t, Opened(kind, Len(said) + 1, t)
  PROVE  /\ Sayings(pipe, t)
         /\ "anthropic" \in {pipe.entry, pipe.up} => OpenParts(said) = {}
         /\ kind \in CallKinds =>
              /\ NCalls(t) = NCalls(said) + 1 /\ NCalls(said) \in Nat
              /\ CallUnderWay(t)
              /\ ChatIndex(Len(said) + 1) = NCalls(said)
         /\ kind \notin CallKinds =>
              NCalls(t) = NCalls(said) /\ (CallUnderWay(t) => CallUnderWay(said))
<1> DEFINE n == Len(said)
<1>1. PICK name : /\ name = (IF kind \in CallKinds THEN WireName(kind, n + 1) ELSE 0)
                  /\ t = Append(said, [kind |-> kind, name |-> name, data |-> <<>>, open |-> TRUE])
  BY DEF Opened
<1> DEFINE x == [kind |-> kind, name |-> name, data |-> <<>>, open |-> TRUE]
<1>2. Finite(said) /\ Listed(said)
  BY DEF Sayings, Finite
<1>3. /\ x = [kind |-> x.kind, name |-> x.name, data |-> x.data, open |-> x.open]
      /\ x.kind = kind /\ x.name = name /\ x.data = <<>> /\ x.open = TRUE
  OBVIOUS
<1>4. t = Append(said, x)
  BY <1>1
<1>5. name \in Int /\ (kind \in CallKinds => name # 0)
  <2>1. WireName(kind, n + 1) \in Int \ {0}
    BY <1>2, WireNamed
  <2> QED
    BY <1>1, <2>1
<1> HIDE DEF x
<1>6. IsSaid(x)
  BY <1>3, <1>5, ListedIs DEF IsSaid
<1>7. n \in Nat /\ DOMAIN said = 1..n
  BY <1>2, ListedIs
<1>8. /\ Listed(t) /\ Len(t) = n + 1 /\ t[n + 1] = x
      /\ \A i \in DOMAIN said : t[i] = said[i]
  BY <1>2, <1>4, Appended
<1> HIDE DEF n
<1>9. DOMAIN t = DOMAIN said \cup {n + 1} /\ n + 1 \notin DOMAIN said
  <2>1. DOMAIN t = 1..(n + 1)
    BY <1>8, ListedIs
  <2> QED
    BY <1>7, <2>1
<1>10. /\ Finite(t)
       /\ kind \in CallKinds => NCalls(t) = NCalls(said) + 1
       /\ kind \notin CallKinds => NCalls(t) = NCalls(said)
  BY <1>2, <1>3, <1>4, CallsMore
<1>11. ASSUME "anthropic" \in {pipe.entry, pipe.up}
       PROVE  OpenParts(said) = {}
  <2>1. ASSUME NEW j \in DOMAIN said, said[j].open = TRUE PROVE FALSE
    BY <1>11, <2>1 DEF Openable, entry
  <2> QED
    BY <2>1 DEF OpenParts
<1>12. Sayings(pipe, t)
  <2>1. \A i \in DOMAIN t : IsSaid(t[i])
    BY <1>6, <1>8, <1>9 DEF Sayings
  <2>2. kind = "custom" =>
          pipe.entry = "responses" \/ (pipe.entry = "openai" /\ pipe.up = "responses")
    BY DEF MayCall, entry
  <2>3. \A i \in DOMAIN t : t[i].kind = "custom" =>
          pipe.entry = "responses" \/ (pipe.entry = "openai" /\ pipe.up = "responses")
    BY <1>3, <1>8, <1>9, <2>2 DEF Sayings
  <2>4. "anthropic" \in {pipe.entry, pipe.up} =>
          \A i, j \in DOMAIN t : t[i].open = TRUE /\ t[j].open = TRUE => i = j
    <3> SUFFICES ASSUME "anthropic" \in {pipe.entry, pipe.up}
                 PROVE  \A i, j \in DOMAIN t : t[i].open = TRUE /\ t[j].open = TRUE => i = j
      OBVIOUS
    <3>1. \A i \in DOMAIN said : ~(said[i].open = TRUE)
      BY <1>11 DEF OpenParts
    <3>2. \A i \in DOMAIN t : t[i].open = TRUE => i = n + 1
      BY <1>8, <1>9, <3>1
    <3> QED
      BY <3>2
  <2> QED
    BY <1>10, <2>1, <2>3, <2>4 DEF Sayings, Finite
<1>13. ASSUME kind \in CallKinds PROVE CallUnderWay(t)
  <2>1. n + 1 \in CallsSaid(t)
    BY <1>3, <1>8, <1>9, <1>13 DEF CallsSaid
  <2>2. t[n + 1].open = TRUE
    BY <1>3, <1>8
  <2> QED
    BY <2>1, <2>2 DEF CallUnderWay
<1>14. ASSUME kind \notin CallKinds, CallUnderWay(t) PROVE CallUnderWay(said)
  <2>1. PICK i \in CallsSaid(t) : t[i].open = TRUE
    BY <1>14 DEF CallUnderWay
  <2>2. i \in CallsSaid(said) /\ said[i].open = TRUE
    BY <1>3, <1>8, <1>9, <1>14, <2>1 DEF CallsSaid
  <2> QED
    BY <2>2 DEF CallUnderWay
<1>15. ChatIndex(n + 1) = NCalls(said)
  BY <1>2, CallsSoFar DEF ChatIndex, n
<1>16. NCalls(said) \in Nat
  BY <1>2, CallsCount
<1> QED
  BY <1>10, <1>11, <1>12, <1>13, <1>14, <1>15, <1>16 DEF n

OpeningEvents(kind, i, name) ==
  CASE pipe.up = "openai" -> IF kind \in CallKinds
                               THEN <<CallChunk(ChatIndex(i), name, <<>>)>> ELSE <<>>
    [] pipe.up = "anthropic" -> <<At("block_start", i, kind, name, <<>>)>>
    [] pipe.up = "responses" -> <<At("added", i, kind, name, <<>>)>>

\* What opens a part is on the way, or is nothing.
LEMMA OpeningMild ==
  ASSUME IInv, NEW kind, NEW i, NEW name
  PROVE  \A e : OpeningEvents(kind, i, name) = <<e>> => Mild(pipe.up, e)
<1> SUFFICES ASSUME NEW e, OpeningEvents(kind, i, name) = <<e>>
             PROVE  Mild(pipe.up, e)
  OBVIOUS
<1>1. CASE pipe.up = "openai"
  <2>1. e = CallChunk(ChatIndex(i), name, <<>>)
    BY <1>1 DEF OpeningEvents
  <2> QED
    BY <1>1, <2>1, Chunks DEF Mild
<1>2. CASE pipe.up = "anthropic"
  <2>1. e = At("block_start", i, kind, name, <<>>)
    BY <1>2 DEF OpeningEvents
  <2> QED
    BY <1>2, <2>1, AtIs DEF Mild
<1>3. CASE pipe.up = "responses"
  <2>1. e = At("added", i, kind, name, <<>>)
    BY <1>3 DEF OpeningEvents
  <2> QED
    BY <1>3, <2>1, AtIs DEF Mild
<1> QED
  BY <1>1, <1>2, <1>3 DEF IInv, IsPipe, Protocols

\* What comes first, and then the wrapper.
LEMMA OneAndFew ==
  /\ <<>> \o <<>> = <<>>
  /\ \A a : <<a>> \o <<>> = <<a>> /\ <<>> \o <<a>> = <<a>>
  /\ \A a, b : <<a>> \o <<b>> = <<a, b>>
<1>1. <<>> \o <<>> = <<>>
  OBVIOUS
<1>2. ASSUME NEW a PROVE <<a>> \o <<>> = <<a>> /\ <<>> \o <<a>> = <<a>>
  OBVIOUS
<1>3. ASSUME NEW a, NEW b PROVE <<a>> \o <<b>> = <<a, b>>
  <2> DEFINE s == <<a>>
             t == <<b>>
             u == <<a, b>>
             v == s \o t
             X == {a, b}
  <2>1. s \in Seq(X) /\ t \in Seq(X) /\ u \in Seq(X)
    OBVIOUS
  <2>2. Len(s) = 1 /\ Len(t) = 1 /\ s[1] = a /\ t[1] = b /\ Len(u) = 2 /\ u[1] = a /\ u[2] = b
    OBVIOUS
  <2> HIDE DEF s, t, u, X
  <2>3. v \in Seq(X) /\ Len(v) = 2 /\ v[1] = a /\ v[2] = b
    <3>1. v \in Seq(X) /\ Len(v) = Len(s) + Len(t)
      BY <2>1
    <3>2. \A i \in 1..(Len(s) + Len(t)) : v[i] = IF i <= Len(s) THEN s[i] ELSE t[i - Len(s)]
      BY <2>1
    <3> HIDE DEF v
    <3>3. v[1] = s[1] /\ v[2] = t[1]
      BY <2>2, <3>2
    <3> QED
      BY <2>2, <3>1, <3>3
  <2> HIDE DEF v
  <2>4. v = u
    BY <2>1, <2>2, <2>3
  <2> QED
    BY <2>4 DEF s, t, u, v
<1> QED
  BY <1>1, <1>2, <1>3

\* A part opens on a stream that is bridged.
LEMMA OpenTold ==
  ASSUME IInv, Sayings(pipe, said), Listed(turns), "anthropic" \notin Overlap,
         NEW kind \in Kinds, MayCall(kind), Openable, ~Relayed(pipe),
         NEW t, Opened(kind, Len(said) + 1, t),
         NEW name, name = IF kind \in CallKinds THEN WireName(kind, Len(said) + 1) ELSE 0
  PROVE  Tells(OpeningEvents(kind, Len(said) + 1, name) \o Wrapper(kind, Len(said) + 1, Opening),
               said, t)
<1> DEFINE i == Len(said) + 1
           k == WireKind(kind)
           a == OpeningEvents(kind, i, name)
           w == Wrapper(kind, i, Opening)
<1>1. /\ kind \in CallKinds =>
           /\ NCalls(t) = NCalls(said) + 1 /\ NCalls(said) \in Nat /\ CallUnderWay(t)
           /\ ChatIndex(i) = NCalls(said)
      /\ kind \notin CallKinds =>
           NCalls(t) = NCalls(said) /\ (CallUnderWay(t) => CallUnderWay(said))
  BY OpenedSaid
<1>2. \A e : a = <<e>> => Mild(pipe.up, e)
  BY OpeningMild
<1>3. pipe.up \in Protocols
  BY DEF IInv, IsPipe
<1>4. WireName(kind, i) \in Int \ {0}
  BY WireNamed DEF IInv
<1> HIDE DEF i
<1>5. CASE kind \in CallKinds
  <2>1. \E e : a = <<e>> /\ Begins(pipe.up, e, NCalls(said))
    <3>1. name \in Int \ {0}
      BY <1>4, <1>5 DEF i
    <3>2. CASE pipe.up = "openai"
      <4> DEFINE e == CallChunk(ChatIndex(i), name, <<>>)
      <4>1. a = <<e>>
        BY <1>5, <3>2 DEF OpeningEvents
      <4>2. e = CallChunk(NCalls(said), name, <<>>)
        BY <1>1, <1>5
      <4> HIDE DEF e
      <4>3. Begins(pipe.up, e, NCalls(said))
        BY <3>1, <3>2, <4>2 DEF Begins
      <4> QED
        BY <4>1, <4>3
    <3>3. CASE pipe.up = "anthropic"
      <4> DEFINE e == At("block_start", i, kind, name, <<>>)
      <4>1. a = <<e>>
        BY <3>3 DEF OpeningEvents
      <4>2. Placed(e, "block_start", i - 1, k, name, <<>>) /\ k = "call"
        BY <1>5, <3>3, AtPlace, WireKindIs
      <4> HIDE DEF e, k
      <4>3. Begins(pipe.up, e, NCalls(said))
        BY <3>1, <3>3, <4>2 DEF Begins, Placed
      <4> QED
        BY <4>1, <4>3
    <3>4. CASE pipe.up = "responses"
      <4> DEFINE e == At("added", i, kind, name, <<>>)
      <4>1. a = <<e>>
        BY <3>4 DEF OpeningEvents
      <4>2. Placed(e, "added", i - 1, k, name, <<>>) /\ k \in CallKinds
        BY <1>5, <3>4, AtPlace, WireKindIs
      <4> HIDE DEF e, k
      <4>3. Begins(pipe.up, e, NCalls(said))
        BY <3>1, <3>4, <4>2 DEF Begins, Placed
      <4> QED
        BY <4>1, <4>3
    <3> QED
      BY <1>3, <3>2, <3>3, <3>4 DEF Protocols
  <2>2. PICK e : a = <<e>> /\ Begins(pipe.up, e, NCalls(said))
    BY <2>1
  <2>3. Turns(e, said, t)
    BY <1>1, <1>2, <1>5, <2>2, TurnsBegun
  <2>4. w = <<>> \/ \E f : w = <<f>> /\ Turns(f, t, t)
    <3> DEFINE n == NCalls(said)
               m == NCalls(t)
               c == ChatIndex(i)
    <3>1. m = n + 1 /\ n \in Nat /\ c = n
      BY <1>1, <1>5
    <3> HIDE DEF m, n, c
    <3>2. m # 0 /\ c \in 0..(m - 1)
      BY <3>1
    <3> QED
      BY <1>1, <1>5, <3>2, WrapperTold DEF c, m
  <2> HIDE DEF a, w
  <2>5. CASE w = <<>>
    <3>1. a \o w = <<e>>
      BY <2>2, <2>5, OneAndFew
    <3>2. Tells(<<e>>, said, t)
      BY <2>3, TellsFew
    <3> QED
      BY <3>1, <3>2 DEF a, w, i
  <2>6. CASE \E f : w = <<f>> /\ Turns(f, t, t)
    <3>1. PICK f : w = <<f>> /\ Turns(f, t, t)
      BY <2>6
    <3>2. a \o w = <<e, f>>
      BY <2>2, <3>1, OneAndFew
    <3>3. Tells(<<e, f>>, said, t)
      BY <2>3, <3>1, TellsFew
    <3> QED
      BY <3>2, <3>3 DEF a, w, i
  <2> QED
    BY <2>4, <2>5, <2>6
<1>6. CASE kind \notin CallKinds
  <2>1. w = <<>>
    BY <1>6 DEF Wrapper, CallKinds
  <2>2. CASE pipe.up = "openai"
    <3>1. a = <<>>
      BY <1>6, <2>2 DEF OpeningEvents
    <3> HIDE DEF a, w
    <3>2. a \o w = <<>>
      BY <2>1, <3>1, OneAndFew
    <3>3. Tells(<<>>, said, t)
      BY <1>1, <1>6, TellsStay
    <3> QED
      BY <3>2, <3>3 DEF a, w, i
  <2>3. CASE pipe.up # "openai"
    <3>1. \E e : a = <<e>> /\ SaysNothing(pipe.up, e)
      <4>1. CASE pipe.up = "anthropic"
        <5> DEFINE e == At("block_start", i, kind, name, <<>>)
        <5>1. a = <<e>>
          BY <4>1 DEF OpeningEvents
        <5>2. Placed(e, "block_start", i - 1, k, name, <<>>) /\ k # "call"
          BY <1>6, <4>1, AtPlace, WireKindIs
        <5> HIDE DEF e, k
        <5>3. SaysNothing(pipe.up, e)
          BY <4>1, <5>2 DEF SaysNothing, Placed
        <5> QED
          BY <5>1, <5>3
      <4>2. CASE pipe.up = "responses"
        <5> DEFINE e == At("added", i, kind, name, <<>>)
        <5>1. a = <<e>>
          BY <4>2 DEF OpeningEvents
        <5>2. Placed(e, "added", i - 1, k, name, <<>>) /\ k \notin CallKinds
          BY <1>6, <4>2, AtPlace, WireKindIs
        <5> HIDE DEF e, k
        <5>3. SaysNothing(pipe.up, e)
          BY <4>2, <5>2 DEF SaysNothing, Placed
        <5> QED
          BY <5>1, <5>3
      <4> QED
        BY <1>3, <2>3, <4>1, <4>2 DEF Protocols
    <3>2. PICK e : a = <<e>> /\ SaysNothing(pipe.up, e)
      BY <3>1
    <3>3. Turns(e, said, t)
      BY <1>1, <1>2, <1>6, <3>2, TurnsSilent
    <3> HIDE DEF a, w
    <3>4. a \o w = <<e>>
      BY <2>1, <3>2, OneAndFew
    <3>5. Tells(<<e>>, said, t)
      BY <3>3, TellsFew
    <3> QED
      BY <3>4, <3>5 DEF a, w, i
  <2> QED
    BY <2>2, <2>3
<1> QED
  BY <1>5, <1>6

\* A stream is relayed where the client speaks the upstream's protocol.
LEMMA RelayedKinds ==
  ASSUME IInv, Relayed(pipe)
  PROVE  /\ pipe.up \in {"anthropic", "responses"} /\ pipe.entry = pipe.up
         /\ \A kind \in Kinds : MayCall(kind) =>
              /\ WireKind(kind) = kind
              /\ \A i, mark : Wrapper(kind, i, mark) = <<>>
  BY DEF IInv, IsPipe, Protocols, Relayed, MayCall, WireKind, Wrapper, entry

\* A part opens on a stream that is relayed.
LEMMA OpenRelayed ==
  ASSUME IInv, Sayings(pipe, said), Listed(turns), "anthropic" \notin Overlap,
         NEW kind \in Kinds, MayCall(kind), Openable, Relayed(pipe),
         NEW t, Opened(kind, Len(said) + 1, t),
         NEW name, name = IF kind \in CallKinds THEN WireName(kind, Len(said) + 1) ELSE 0
  PROVE  Tells(OpeningEvents(kind, Len(said) + 1, name) \o Wrapper(kind, Len(said) + 1, Opening),
               said, t)
<1> DEFINE n == Len(said)
           i == n + 1
           k == WireKind(kind)
           a == OpeningEvents(kind, i, name)
           w == Wrapper(kind, i, Opening)
           x == [kind |-> kind, name |-> name, data |-> <<>>, open |-> TRUE]
<1>1. /\ pipe.up \in {"anthropic", "responses"} /\ pipe.entry = pipe.up
      /\ k = kind /\ w = <<>>
  BY RelayedKinds
<1>2. \A e : a = <<e>> => Mild(pipe.up, e)
  BY OpeningMild
<1>3. "anthropic" \in {pipe.entry, pipe.up} => OpenParts(said) = {}
  BY OpenedSaid
<1>4. t = Append(said, x)
  BY DEF Opened
<1>5. x.kind = kind /\ x.name = name /\ x.data = <<>> /\ x.open = TRUE
  OBVIOUS
<1>6. n \in Nat /\ Listed(said)
  BY ListedIs DEF IInv
<1> HIDE DEF n
<1>7. i - 1 = n
  BY <1>6
<1> HIDE DEF x, i
<1>8. \E e : a = <<e>> /\ Repeating(e, said, t)
  <2>1. CASE pipe.up = "anthropic"
    <3> DEFINE e == At("block_start", i, kind, name, <<>>)
    <3>1. a = <<e>>
      BY <2>1 DEF OpeningEvents
    <3>2. Placed(e, "block_start", i - 1, k, name, <<>>)
      BY AtPlace
    <3> HIDE DEF e, k
    <3>3. e.type = "block_start" /\ e.index = Len(said) /\ e.kind = x.kind
      BY <1>1, <1>5, <1>7, <3>2 DEF Placed, n
    <3>4. OpenParts(said) = {}
      BY <1>3, <2>1
    <3>5. ASSUME NEW cl, Client(cl), Repeated("anthropic", cl, said)
          PROVE  Repeated("anthropic", Read("anthropic", cl, e), t)
      BY <1>4, <1>5, <1>6, <3>3, <3>4, <3>5, RepeatsBlock
    <3> QED
      BY <2>1, <3>1, <3>5 DEF Repeating
  <2>2. CASE pipe.up = "responses"
    <3> DEFINE e == At("added", i, kind, name, <<>>)
    <3>1. a = <<e>>
      BY <2>2 DEF OpeningEvents
    <3>2. Placed(e, "added", i - 1, k, name, <<>>)
      BY AtPlace
    <3> HIDE DEF e, k
    <3>3. e.type = "added" /\ e.index = Len(said) /\ e.kind = x.kind /\ e.name = x.name
      BY <1>1, <1>5, <1>7, <3>2 DEF Placed, n
    <3>4. ASSUME NEW cl, Client(cl), Repeated("responses", cl, said)
          PROVE  Repeated("responses", Read("responses", cl, e), t)
      BY <1>4, <1>5, <1>6, <3>3, <3>4, RepeatsAdded
    <3> QED
      BY <2>2, <3>1, <3>4 DEF Repeating
  <2> QED
    BY <1>1, <2>1, <2>2
<1>9. PICK e : a = <<e>> /\ Repeating(e, said, t)
  BY <1>8
<1>10. Turns(e, said, t)
  BY <1>2, <1>9, TurnsRepeated
<1> HIDE DEF a, w
<1>11. a \o w = <<e>>
  BY <1>1, <1>9, OneAndFew
<1>12. Tells(<<e>>, said, t)
  BY <1>10, TellsFew
<1> QED
  BY <1>11, <1>12 DEF a, w, i, n

------------------------------------------------------------------------------
(* A part says more, and closes *)

\* Part i of those said, changed.
Changed(i, t) ==
  /\ Altered(said, t, i) /\ IsSaid(t[i])
  /\ t[i].kind = said[i].kind /\ t[i].name = said[i].name

\* What is changed in a part leaves the others and their number as they were.
LEMMA ChangedSaid ==
  ASSUME IInv, Sayings(pipe, said), NEW i, said[i].open = TRUE, NEW t, Changed(i, t)
  PROVE  /\ Sayings(pipe, t) /\ NCalls(t) = NCalls(said)
         /\ CallUnderWay(t) => CallUnderWay(said)
         /\ i \in DOMAIN said /\ said[i].kind \in Kinds /\ MayCall(said[i].kind)
         /\ said[i].kind \in CallKinds =>
              /\ CallUnderWay(said) /\ NCalls(said) # 0
              /\ ChatIndex(i) \in 0..(NCalls(said) - 1)
         /\ said[i].kind \notin CallKinds /\ CallUnderWay(t) => pipe.entry # "anthropic"
         /\ "anthropic" \in {pipe.entry, pipe.up} => OpenParts(said) = {i}
<1>1. /\ Listed(said) /\ Listed(t) /\ DOMAIN t = DOMAIN said /\ i \in DOMAIN said
      /\ \A j \in DOMAIN said : j # i => t[j] = said[j]
      /\ IsSaid(t[i]) /\ t[i].kind = said[i].kind /\ Altered(said, t, i)
  BY DEF Changed, Altered
<1>2. Finite(said)
  BY DEF Sayings, Finite
<1>3. /\ CallsSaid(t) = CallsSaid(said) /\ NCalls(t) = NCalls(said) /\ Finite(t)
  BY <1>1, <1>2, CallsAltered
<1>4. \A j \in DOMAIN t : t[j].open = TRUE => said[j].open = TRUE
  BY <1>1
<1>5. Sayings(pipe, t)
  <2>1. \A j \in DOMAIN t : IsSaid(t[j])
    BY <1>1 DEF Sayings
  <2>2. \A j \in DOMAIN t : t[j].kind = said[j].kind
    BY <1>1
  <2>3. \A j \in DOMAIN t : t[j].kind = "custom" =>
          pipe.entry = "responses" \/ (pipe.entry = "openai" /\ pipe.up = "responses")
    BY <1>1, <2>2 DEF Sayings
  <2>4. "anthropic" \in {pipe.entry, pipe.up} =>
          \A j, l \in DOMAIN t : t[j].open = TRUE /\ t[l].open = TRUE => j = l
    BY <1>1, <1>4 DEF Sayings
  <2> QED
    BY <1>3, <2>1, <2>3, <2>4 DEF Sayings, Finite
<1>6. CallUnderWay(t) => CallUnderWay(said)
  BY <1>1, <1>3, <1>4 DEF CallUnderWay, CallsSaid
<1>7. said[i].kind \in Kinds /\ MayCall(said[i].kind)
  BY <1>1 DEF Sayings, IsSaid, MayCall, entry
<1>8. ASSUME said[i].kind \in CallKinds
      PROVE  /\ CallUnderWay(said) /\ NCalls(said) # 0
             /\ ChatIndex(i) \in 0..(NCalls(said) - 1)
  <2>1. i \in CallsSaid(said)
    BY <1>1, <1>8 DEF CallsSaid
  <2>2. CallUnderWay(said)
    BY <2>1 DEF CallUnderWay
  <2>3. NCalls(said) # 0 /\ ChatIndex(i) \in 0..(NCalls(said) - 1)
    BY <1>2, <2>1, CallsBefore DEF ChatIndex
  <2> QED
    BY <2>2, <2>3
<1>9. ASSUME "anthropic" \in {pipe.entry, pipe.up}
      PROVE  OpenParts(said) = {i}
  <2>1. \A j \in DOMAIN said : said[j].open = TRUE => j = i
    BY <1>1, <1>9 DEF Sayings
  <2> QED
    BY <1>1, <2>1 DEF OpenParts
<1>10. ASSUME said[i].kind \notin CallKinds, CallUnderWay(t), pipe.entry = "anthropic"
       PROVE  FALSE
  <2>1. PICK j \in CallsSaid(said) : said[j].open = TRUE
    BY <1>6, <1>10 DEF CallUnderWay
  <2>2. j \in OpenParts(said)
    BY <2>1 DEF OpenParts, CallsSaid
  <2>3. j = i
    BY <1>9, <1>10, <2>2
  <2> QED
    BY <1>10, <2>1, <2>3 DEF CallsSaid
<1> QED
  BY <1>1, <1>3, <1>5, <1>6, <1>7, <1>8, <1>9, <1>10

\* A part says more.
LEMMA SayTold ==
  ASSUME IInv, Sayings(pipe, said), NEW i, said[i].open = TRUE, NEW t, Changed(i, t),
         t[i].open = TRUE, NEW data, Listed(data), t[i].data = said[i].data \o data
  PROVE  Tells(Fragment(said[i].kind, i, data), said, t)
<1> DEFINE kind == said[i].kind
           k == WireKind(kind)
           a == Fragment(kind, i, data)
<1>1. /\ NCalls(t) = NCalls(said) /\ kind \in Kinds /\ MayCall(kind) /\ i \in DOMAIN said
      /\ kind \in CallKinds =>
           /\ CallUnderWay(said) /\ NCalls(said) # 0
           /\ ChatIndex(i) \in 0..(NCalls(said) - 1)
      /\ kind \notin CallKinds => (CallUnderWay(t) => pipe.entry # "anthropic")
  BY ChangedSaid
<1>2. Altered(said, t, i) /\ t[i].kind = kind /\ t[i].name = said[i].name
  BY DEF Changed
<1>3. said[i].kind = kind
  OBVIOUS
<1> HIDE DEF kind, a
<1>4. \E e : a = <<e>> /\ Turns(e, said, t)
  <2>1. CASE ~Relayed(pipe) /\ kind \in CallKinds
    BY <1>1, <2>1, FragmentCall DEF a
  <2>2. CASE ~Relayed(pipe) /\ kind \notin CallKinds
    BY <1>1, <2>2, FragmentSpoken DEF a
  <2>3. CASE Relayed(pipe)
    <3>1. pipe.up \in {"anthropic", "responses"} /\ k = kind
      BY <1>1, <2>3, RelayedKinds
    <3>2. Murmur(pipe.up, a)
      BY FragmentMild DEF a
    <3>3. i \in Nat
      BY <1>1, ListedIs DEF IInv
    <3> DEFINE j == i - 1
    <3>4. j + 1 = i
      BY <3>3
    <3> HIDE DEF j
    <3>5. \E e : a = <<e>> /\ Repeating(e, said, t)
      <4>1. CASE pipe.up = "anthropic"
        <5> DEFINE e == At("block_delta", i, kind, 0, data)
        <5>1. a = <<e>>
          BY <4>1 DEF Fragment, a
        <5>2. Placed(e, "block_delta", i - 1, k, 0, data)
          BY AtPlace
        <5> HIDE DEF e, k
        <5>3. e.type = "block_delta" /\ e.index + 1 = i /\ e.kind = kind
          BY <3>1, <3>4, <5>2 DEF Placed, j
        <5>4. ASSUME NEW cl, Client(cl), Repeated("anthropic", cl, said)
              PROVE  Repeated("anthropic", Read("anthropic", cl, e), t)
          BY <1>2, <1>3, <5>3, <5>4, RepeatsDelta
        <5> QED
          BY <4>1, <5>1, <5>4 DEF Repeating
      <4>2. CASE pipe.up = "responses"
        <5> DEFINE e == At("delta", i, kind, 0, data)
        <5>1. a = <<e>>
          BY <4>2 DEF Fragment, a
        <5>2. Placed(e, "delta", i - 1, k, 0, data)
          BY AtPlace
        <5> HIDE DEF e, k
        <5>3. e.type = "delta" /\ e.index + 1 = i /\ e.kind = kind /\ e.data = data
          BY <3>1, <3>4, <5>2 DEF Placed, j
        <5>4. ASSUME NEW cl, Client(cl), Repeated("responses", cl, said)
              PROVE  Repeated("responses", Read("responses", cl, e), t)
          BY <1>2, <1>3, <5>3, <5>4, RepeatsMore
        <5> QED
          BY <4>2, <5>1, <5>4 DEF Repeating
      <4> QED
        BY <3>1, <4>1, <4>2
    <3>6. PICK e : a = <<e>> /\ Repeating(e, said, t)
      BY <3>5
    <3>7. Mild(pipe.up, e)
      BY <3>2, <3>6, MildOne
    <3>8. Turns(e, said, t)
      BY <2>3, <3>6, <3>7, TurnsRepeated
    <3> QED
      BY <3>6, <3>8
  <2> QED
    BY <2>1, <2>2, <2>3
<1>5. PICK e : a = <<e>> /\ Turns(e, said, t)
  BY <1>4
<1>6. Tells(<<e>>, said, t)
  BY <1>5, TellsFew
<1> QED
  BY <1>5, <1>6 DEF a, kind

\* What comes first says no more of the parts, what comes after it says the rest.
LEMMA TellsJoined ==
  ASSUME NEW s, NEW t, NEW w, NEW b,
         w = <<>> \/ \E f : w = <<f>> /\ Turns(f, s, s),
         \/ b = <<>> /\ (\A p : Ready(p) /\ Talk(p, s) => Talk(p, t))
         \/ \E g : b = <<g>> /\ Turns(g, s, t)
  PROVE  Tells(w \o b, s, t)
<1>1. CASE w = <<>> /\ b = <<>>
  <2>1. w \o b = <<>>
    BY <1>1, OneAndFew
  <2>2. Tells(<<>>, s, t)
    <3>1. CASE \A p : Ready(p) /\ Talk(p, s) => Talk(p, t)
      BY <3>1, TellsFew
    <3>2. CASE \E g : b = <<g>> /\ Turns(g, s, t)
      BY <1>1, <3>2, ListedIs
    <3> QED
      BY <3>1, <3>2
  <2> QED
    BY <2>1, <2>2
<1>2. ASSUME w = <<>>, NEW g, b = <<g>>, Turns(g, s, t)
      PROVE  Tells(w \o b, s, t)
  <2>1. w \o b = <<g>>
    BY <1>2, OneAndFew
  <2> QED
    BY <1>2, <2>1, TellsFew
<1>3. ASSUME NEW f, w = <<f>>, Turns(f, s, s), b = <<>>,
             \A p : Ready(p) /\ Talk(p, s) => Talk(p, t)
      PROVE  Tells(w \o b, s, t)
  <2>1. w \o b = <<f>>
    BY <1>3, OneAndFew
  <2>2. Turns(f, s, t)
    BY <1>3 DEF Turns
  <2> QED
    BY <2>1, <2>2, TellsFew
<1>4. ASSUME NEW f, w = <<f>>, Turns(f, s, s), NEW g, b = <<g>>, Turns(g, s, t)
      PROVE  Tells(w \o b, s, t)
  <2>1. w \o b = <<f, g>>
    BY <1>4, OneAndFew
  <2> QED
    BY <1>4, <2>1, TellsFew
<1> QED
  BY <1>1, <1>2, <1>3, <1>4

ClosingEvent(i, data) ==
  CASE pipe.up = "openai" -> <<>>
    [] pipe.up = "anthropic" -> <<At("block_stop", i, said[i].kind, 0, <<>>)>>
    [] pipe.up = "responses" -> <<At("done", i, said[i].kind, said[i].name, data)>>

\* What closes a part is on the way, or is nothing.
LEMMA ClosingMild ==
  ASSUME NEW i, NEW data, pipe.up \in Protocols
  PROVE  \A e : ClosingEvent(i, data) = <<e>> => Mild(pipe.up, e)
<1> SUFFICES ASSUME NEW e, ClosingEvent(i, data) = <<e>>
             PROVE  Mild(pipe.up, e)
  OBVIOUS
<1>1. CASE pipe.up = "openai"
  <2>1. <<e>> = <<>>
    BY <1>1 DEF ClosingEvent
  <2> QED
    BY <2>1, ListedIs
<1>2. CASE pipe.up = "anthropic"
  <2>1. e = At("block_stop", i, said[i].kind, 0, <<>>)
    BY <1>2 DEF ClosingEvent
  <2> QED
    BY <1>2, <2>1, AtIs DEF Mild
<1>3. CASE pipe.up = "responses"
  <2>1. e = At("done", i, said[i].kind, said[i].name, data)
    BY <1>3 DEF ClosingEvent
  <2> QED
    BY <1>3, <2>1, AtIs DEF Mild
<1> QED
  BY <1>1, <1>2, <1>3 DEF Protocols

\* A part closes.
LEMMA CloseTold ==
  ASSUME IInv, Sayings(pipe, said), NEW i, said[i].open = TRUE, NEW t, Changed(i, t),
         t[i].open = FALSE, NEW data, Listed(data), t[i].data = data,
         said[i].data = <<>> \/ said[i].data = data
  PROVE  Tells(CloseEvents(i, data), said, t)
<1> DEFINE kind == said[i].kind
           name == said[i].name
           k == WireKind(kind)
           w == Wrapper(kind, i, Closing)
           b == ClosingEvent(i, data)
           n == NCalls(said)
<1>1. /\ NCalls(t) = n /\ kind \in Kinds /\ MayCall(kind) /\ i \in DOMAIN said
      /\ CallUnderWay(t) => CallUnderWay(said)
      /\ kind \in CallKinds => CallUnderWay(said) /\ n # 0 /\ ChatIndex(i) \in 0..(n - 1)
      /\ "anthropic" \in {pipe.entry, pipe.up} => OpenParts(said) = {i}
  BY ChangedSaid
<1>2. Altered(said, t, i) /\ t[i].kind = kind /\ t[i].name = name
  BY DEF Changed
<1>3. said[i].kind = kind /\ said[i].name = name
  OBVIOUS
<1>4. pipe.up \in Protocols
  BY DEF IInv, IsPipe
<1>5. \A e : b = <<e>> => Mild(pipe.up, e)
  BY <1>4, ClosingMild
<1>6. CloseEvents(i, data) = w \o b
  BY DEF CloseEvents, ClosingEvent
<1>7. /\ pipe.up = "openai" => b = <<>>
      /\ pipe.up = "anthropic" => b = <<At("block_stop", i, kind, 0, <<>>)>>
      /\ pipe.up = "responses" => b = <<At("done", i, kind, name, data)>>
  BY DEF ClosingEvent
<1> HIDE DEF b, kind, name, n
<1>8. w = <<>> \/ \E f : w = <<f>> /\ Turns(f, said, said)
  <2>1. CASE Relayed(pipe)
    BY <1>1, <2>1, RelayedKinds
  <2>2. CASE ~Relayed(pipe) /\ kind \in CallKinds
    BY <1>1, <2>2, WrapperTold DEF n
  <2>3. CASE kind \notin CallKinds
    BY <2>3 DEF Wrapper, CallKinds
  <2> QED
    BY <2>1, <2>2, <2>3
<1>9. \/ b = <<>> /\ (\A p : Ready(p) /\ Talk(p, said) => Talk(p, t))
      \/ \E g : b = <<g>> /\ Turns(g, said, t)
  <2>1. CASE pipe.up = "openai"
    <3>1. ~Relayed(pipe)
      BY <2>1 DEF Relayed
    <3>2. ASSUME NEW p, Ready(p), Talk(p, said)
          PROVE  Talk(p, t)
      <4>1. ~Relayed(p)
        BY <3>1, <3>2, ReadyIs
      <4> QED
        BY <1>1, <3>2, <4>1, TalkStays DEF n
    <3> QED
      BY <1>7, <2>1, <3>2
  <2>2. CASE ~Relayed(pipe) /\ pipe.up = "anthropic"
    <3> DEFINE e == At("block_stop", i, kind, 0, <<>>)
    <3>1. b = <<e>>
      BY <1>7, <2>2
    <3>2. Placed(e, "block_stop", i - 1, k, 0, <<>>)
      BY AtPlace
    <3> HIDE DEF e, k
    <3>3. SaysNothing(pipe.up, e)
      BY <2>2, <3>2 DEF SaysNothing, Placed
    <3>4. Turns(e, said, t)
      BY <1>1, <1>5, <2>2, <3>1, <3>3, TurnsSilent DEF n
    <3> QED
      BY <3>1, <3>4
  <2>3. CASE ~Relayed(pipe) /\ pipe.up = "responses"
    <3> DEFINE e == At("done", i, kind, name, data)
    <3>1. b = <<e>>
      BY <1>7, <2>3
    <3>2. Placed(e, "done", i - 1, k, name, data) /\ (k \in CallKinds <=> kind \in CallKinds)
      BY <1>1, AtPlace, WireKindIs
    <3> HIDE DEF e, k
    <3>3. CASE kind \in CallKinds
      <4>1. GoesOn(pipe.up, e, n)
        BY <1>1, <2>3, <3>2, <3>3 DEF GoesOn, Placed
      <4>2. Turns(e, said, t)
        BY <1>1, <1>5, <2>3, <3>1, <3>3, <4>1, TurnsOn DEF n
      <4> QED
        BY <3>1, <4>2
    <3>4. CASE kind \notin CallKinds
      <4>1. SaysNothing(pipe.up, e)
        BY <2>3, <3>2, <3>4 DEF SaysNothing, Placed
      <4>2. Turns(e, said, t)
        BY <1>1, <1>5, <2>3, <3>1, <4>1, TurnsSilent DEF n
      <4> QED
        BY <3>1, <4>2
    <3> QED
      BY <3>3, <3>4
  <2>4. CASE Relayed(pipe)
    <3>1. pipe.up \in {"anthropic", "responses"} /\ k = kind
      BY <1>1, <2>4, RelayedKinds
    <3>2. i \in Nat
      BY <1>1, ListedIs DEF IInv
    <3> DEFINE j == i - 1
    <3>3. j + 1 = i
      BY <3>2
    <3> HIDE DEF j
    <3>4. \E e : b = <<e>> /\ Repeating(e, said, t)
      <4>1. CASE pipe.up = "anthropic"
        <5> DEFINE e == At("block_stop", i, kind, 0, <<>>)
        <5>1. b = <<e>>
          BY <1>7, <4>1
        <5>2. Placed(e, "block_stop", i - 1, k, 0, <<>>)
          BY AtPlace
        <5> HIDE DEF e, k
        <5>3. e.type = "block_stop" /\ e.index + 1 = i
          BY <3>3, <5>2 DEF Placed, j
        <5>4. OpenParts(said) = {i}
          BY <1>1, <4>1
        <5>5. ASSUME NEW cl, Client(cl), Repeated("anthropic", cl, said)
              PROVE  Repeated("anthropic", Read("anthropic", cl, e), t)
          BY <1>2, <1>3, <5>3, <5>4, <5>5, RepeatsStop
        <5> QED
          BY <4>1, <5>1, <5>5 DEF Repeating
      <4>2. CASE pipe.up = "responses"
        <5> DEFINE e == At("done", i, kind, name, data)
        <5>1. b = <<e>>
          BY <1>7, <4>2
        <5>2. Placed(e, "done", i - 1, k, name, data)
          BY AtPlace
        <5> HIDE DEF e, k
        <5>3. e.type = "done" /\ e.index + 1 = i /\ e.data = data
          BY <3>3, <5>2 DEF Placed, j
        <5>4. ASSUME NEW cl, Client(cl), Repeated("responses", cl, said)
              PROVE  Repeated("responses", Read("responses", cl, e), t)
          BY <1>2, <1>3, <5>3, <5>4, RepeatsDone
        <5> QED
          BY <4>2, <5>1, <5>4 DEF Repeating
      <4> QED
        BY <3>1, <4>1, <4>2
    <3>5. PICK e : b = <<e>> /\ Repeating(e, said, t)
      BY <3>4
    <3>6. Turns(e, said, t)
      BY <1>5, <2>4, <3>5, TurnsRepeated
    <3> QED
      BY <3>5, <3>6
  <2> QED
    BY <1>4, <2>1, <2>2, <2>3, <2>4 DEF Protocols
<1> HIDE DEF w
<1>10. Tells(w \o b, said, t)
  BY <1>8, <1>9, TellsJoined
<1> QED
  BY <1>6, <1>10

------------------------------------------------------------------------------
(* The end of a stream *)

\* A client without a converter reads the event as it is.
LEMMA PassReads ==
  ASSUME NEW p, IsPipe(p), p.entry = p.up, p.stream = TRUE, NEW e
  PROVE  Handle(p, e).client = Read(p.entry, p.client, e)
<1> DEFINE f == Handle(p, e)
           v == MergeUsage(p.usage, e.usage)
           q == [p EXCEPT !.usage = v]
<1>1. f = Deliver(q, <<e>>)
  <2>1. Passthrough(p)
    BY DEF Passthrough
  <2>2. f = Pass(p, e)
    BY <2>1 DEF Handle
  <2>3. Pass(p, e) = Deliver(q, <<e>>)
    BY DEF Pass, IsPipe
  <2> QED
    BY <2>2, <2>3
<1> HIDE DEF v
<1>2. IsPipe(q) /\ Kept(p, q) /\ q.client = p.client
  BY UsageField
<1> HIDE DEF q, f
<1>3. f.client = ReadAll(q.entry, q.client, <<e>>)
  BY <1>1, <1>2, DeliverIs
<1>4. \A en, cl : ReadAll(en, cl, <<e>>) = Read(en, cl, e)
  BY ReadAllFew
<1> QED
  BY <1>2, <1>3, <1>4 DEF Kept, Route, f

\* A chat upstream's last chunk has been handled.
Final(f) ==
  Chatting(f) /\ Ended(f) /\ (f.entry = "openai" => Listening(f.client))

\* What a stream still is after a chunk or the mark.
LEMMA ChattingOn ==
  ASSUME NEW p, Chatting(p), NEW e, e = DoneMark \/ IsChunk(e)
  PROVE  Chatting(Handle(p, e)) /\ Route(p, Handle(p, e))
<1>1. Fit(p, e) /\ ~OneBody(p)
  BY FitEvents DEF Chatting, OnWay, OneBody
<1>2. Handled(p, e, Handle(p, e))
  BY <1>1, HandleOne DEF Chatting
<1> QED
  BY <1>2 DEF Chatting, Handled, Route

\* The chunk with the finish reason,
LEMMA FinalHeard ==
  ASSUME NEW p, Chatting(p), NEW n, Heard(p, n), NEW c, Utters(c), c.finish # "none"
  PROVE  Final(Handle(p, c))
<1>1. n \in Nat
  BY HeardNat DEF Chatting, OnWay
<1>2. Fine(p, n, c, n)
  BY <1>1, SpeechFine
<1>3. Hears(p, c, n, Handle(p, c)) /\ Route(p, Handle(p, c))
  BY <1>2, ChunkHears
<1>4. IsChunk(c)
  BY ListedIs DEF Utters, IsChunk
<1>5. Chatting(Handle(p, c))
  BY <1>4, ChattingOn
<1> QED
  BY <1>3, <1>5 DEF Final, Hears, Route

\* the chunk that only carries usage,
LEMMA FinalUsage ==
  ASSUME NEW p, Final(p), NEW c, IsChunk(c), c.choices = FALSE
  PROVE  Final(Handle(p, c))
<1>1. Chatting(Handle(p, c)) /\ Route(p, Handle(p, c)) /\ IsPipe(p)
  BY ChattingOn DEF Final, Chatting, OnWay
<1>2. CASE p.entry = "openai"
  <2>1. Handle(p, c).client = Read("openai", p.client, c)
    BY <1>1, <1>2, PassReads DEF Final, Chatting
  <2>2. Client(p.client) /\ Listening(p.client) /\ c.type # "[DONE]"
    BY <1>2 DEF Final, IsPipe, Chatting, OnWay, IsChunk
  <2>3. Read("openai", p.client, c) = ReadChunk(p.client, c)
    BY <2>2, ReadsOn
  <2>4. ReadChunk(p.client, c) = p.client
    BY DEF ReadChunk
  <2> DEFINE f == Handle(p, c)
  <2>5. f.client = p.client /\ f.entry = "openai"
    BY <1>1, <1>2, <2>1, <2>3, <2>4 DEF Route
  <2> HIDE DEF f
  <2>6. Ended(f) /\ Listening(f.client)
    BY <2>2, <2>5 DEF Ended, Listening
  <2> QED
    BY <1>1, <2>6 DEF Final, f
<1>3. CASE p.entry # "openai"
  <2>1. c # DoneMark
    BY Marks DEF IsChunk
  <2>2. Handle(p, c) = FeedEntry(p, c)
    BY <1>3, <2>1 DEF Final, Chatting, Handle, Passthrough
  <2>3. Ended(Handle(p, c))
    BY <1>1, <2>2, FeedUsageEnded DEF Final
  <2> QED
    BY <1>1, <1>3, <2>3 DEF Final, Route
<1> QED
  BY <1>2, <1>3

\* and the mark.
LEMMA FinalMark ==
  ASSUME NEW p, Final(p)
  PROVE  Through(Handle(p, DoneMark))
<1>1. IsPipe(p) /\ p.up = "openai" /\ p.stream = TRUE
  BY DEF Final, Chatting, OnWay
<1>2. CASE p.entry = "openai"
  <2> DEFINE f == Handle(p, DoneMark)
             cl == p.client
             w == cl.ended > 0
             late == Complain(cl, w)
             x == [late EXCEPT !.ended = @ + 1]
  <2>1. f.client = Read("openai", cl, DoneMark)
    BY <1>1, <1>2, PassReads
  <2>2. Read("openai", cl, DoneMark) = x
    BY DEF Read
  <2>3. Client(cl) /\ ~w /\ cl.bad = FALSE
    BY <1>1, <1>2 DEF Final, Listening, IsPipe
  <2> HIDE DEF w, cl
  <2>4. x.bad = FALSE
    BY <2>3 DEF Complain, Client
  <2>5. f.entry = p.entry /\ f.up = p.up
    BY ChattingOn DEF Final, Route
  <2> HIDE DEF f, x
  <2>6. Through(f)
    BY <1>1, <1>2, <2>1, <2>2, <2>4, <2>5 DEF Through
  <2> QED
    BY <2>6 DEF f
<1>3. CASE p.entry # "openai"
  <2>1. Handle(p, DoneMark) = p
    BY <1>1, <1>3 DEF Handle, Passthrough
  <2> QED
    BY <1>1, <1>3, <2>1 DEF Through, Final, Ended
<1> QED
  BY <1>2, <1>3

\* The events that stop an answer.
LEMMA ReasonIs ==
  FinishReason # "none"
  BY DEF FinishReason

\* A stream that is ready goes to a converter and its emitter, or to a client as it is.
LEMMA ReadyTalk ==
  ASSUME NEW p, Ready(p), NEW s, Talk(p, s)
  PROVE  /\ p.up \in Protocols
         /\ ~Relayed(p) => /\ Heeding(p) /\ Tuned(p, NCalls(s)) /\ Heard(p, NCalls(s))
                           /\ p.up = "openai" => Chatting(p)
                           /\ p.up # "openai" => Bridged(p)
         /\ Relayed(p) => /\ p.entry = p.up /\ p.up \in {"anthropic", "responses"}
                          /\ Repeated(p.up, p.client, s) /\ Listening(p.client)
<1>1. OnWay(p) /\ IsPipe(p) /\ p.stream = TRUE
  BY ReadyIs
<1>2. p.up \in Protocols
  BY <1>1 DEF IsPipe
<1>3. ASSUME ~Relayed(p)
      PROVE  /\ Heeding(p) /\ Tuned(p, NCalls(s)) /\ Heard(p, NCalls(s))
             /\ p.up = "openai" => Chatting(p)
             /\ p.up # "openai" => Bridged(p)
  <2>1. Heeding(p) /\ Tuned(p, NCalls(s))
    BY <1>1, <1>3, TalkHeeds
  <2> QED
    BY <2>1 DEF Heeding, Tuned, Bridged, Chatting
<1>4. ASSUME Relayed(p)
      PROVE  /\ p.entry = p.up /\ p.up \in {"anthropic", "responses"}
             /\ Repeated(p.up, p.client, s) /\ Listening(p.client)
  BY <1>2, <1>4 DEF Relayed, Protocols, Talk, Repeated
<1> QED
  BY <1>2, <1>3, <1>4

\* A relayed stream is through when its client has nothing to complain of.
LEMMA ThroughRelayed ==
  ASSUME NEW p, Relayed(p), NEW f, Route(p, f), f.client.bad = FALSE
  PROVE  Through(f)
  BY DEF Through, Relayed, Route

\* A chat upstream stops.
LEMMA StopTalkChat ==
  ASSUME IInv, pipe.up = "openai", NEW events \in StopEvents, NEW s
  PROVE  Closes(events, s)
<1> DEFINE a == [FinalChunk EXCEPT !.usage = Reported]
           b == [Chunk EXCEPT !.choices = FALSE, !.usage = Reported]
           m == DoneMark
<1>1. events \in {<<a, m>>, <<FinalChunk, b, m>>}
  BY DEF StopEvents
<1>2. /\ Utters(a) /\ a.finish # "none"
      /\ Utters(FinalChunk) /\ FinalChunk.finish # "none"
  <2>1. /\ Utters([[Chunk EXCEPT !.finish = FinishReason] EXCEPT !.usage = Reported])
        /\ [[Chunk EXCEPT !.finish = FinishReason] EXCEPT !.usage = Reported].finish = FinishReason
        /\ Utters([Chunk EXCEPT !.finish = FinishReason])
        /\ [Chunk EXCEPT !.finish = FinishReason].finish = FinishReason
    BY SpeechEnd
  <2> QED
    BY <2>1, ReasonIs DEF FinalChunk
<1>3. IsChunk(b) /\ b.choices = FALSE
  BY ListedIs DEF IsChunk, Chunk
<1>4. ASSUME NEW q, Final(q) PROVE Through(Handle(q, m))
  BY <1>4, FinalMark
<1> HIDE DEF a, b, m
<1> SUFFICES ASSUME NEW p, Ready(p), Talk(p, s)
             PROVE  Through(HandleAll(p, events))
  BY DEF Closes
<1>5. Chatting(p) /\ Heard(p, NCalls(s))
  <2>1. p.up = "openai"
    BY ReadyIs
  <2>2. ~Relayed(p)
    BY <2>1 DEF Relayed
  <2> QED
    BY <2>1, <2>2, ReadyTalk
<1>6. CASE events = <<a, m>>
  <2> DEFINE q == Handle(p, a)
  <2>1. Final(q)
    BY <1>2, <1>5, FinalHeard
  <2>2. HandleAll(p, events) = Handle(q, m)
    BY <1>6, HandleLists
  <2> HIDE DEF q
  <2> QED
    BY <1>4, <2>1, <2>2
<1>7. CASE events = <<FinalChunk, b, m>>
  <2> DEFINE q == Handle(p, FinalChunk)
             r == Handle(q, b)
  <2>1. Final(q)
    BY <1>2, <1>5, FinalHeard
  <2>2. HandleAll(p, events) = Handle(r, m)
    BY <1>7, HandleLists
  <2> HIDE DEF q
  <2>3. Final(r)
    BY <1>3, <2>1, FinalUsage
  <2> HIDE DEF r
  <2> QED
    BY <1>4, <2>2, <2>3
<1> QED
  BY <1>1, <1>6, <1>7

\* A messages upstream stops.
LEMMA StopTalkMessages ==
  ASSUME IInv, pipe.up = "anthropic", NEW events \in StopEvents,
         NEW s, OpenParts(s) = {}
  PROVE  Closes(events, s)
<1> DEFINE d == Event("message_delta")
           c == [d EXCEPT !.finish = FinishReason]
           a == [c EXCEPT !.usage.completion = Reported.completion]
           b == Event("message_stop")
<1>1. events = <<a, b>>
  BY DEF StopEvents
<1>2. a.type = "message_delta" /\ a.finish # "none" /\ b.type = "message_stop"
  <2>1. IsEvent(d) /\ d.type = "message_delta"
    BY Marks
  <2> HIDE DEF d
  <2>2. IsEvent(c) /\ c.type = "message_delta" /\ c.finish = FinishReason
    BY <2>1 DEF IsEvent
  <2> HIDE DEF c
  <2>3. a.type = "message_delta" /\ a.finish = FinishReason
    BY <2>2 DEF IsEvent
  <2> HIDE DEF a
  <2>4. b.type = "message_stop"
    BY Marks
  <2> QED
    BY <2>3, <2>4, ReasonIs
<1> HIDE DEF a, b
<1> SUFFICES ASSUME NEW p, Ready(p), Talk(p, s)
             PROVE  Through(HandleAll(p, events))
  BY DEF Closes
<1> DEFINE q == Handle(p, a)
           f == Handle(q, b)
<1>3. HandleAll(p, events) = f
  BY <1>1, HandleLists
<1>4. /\ OnWay(p) /\ IsPipe(p) /\ p.stream = TRUE /\ p.up = "anthropic" /\ ~OneBody(p)
  BY ReadyIs DEF OneBody
<1>5. OnWay(q) /\ Route(p, q)
  <2>1. Fit(p, a)
    BY <1>2, <1>4, FitEvents
  <2>2. Handled(p, a, q)
    BY <1>4, <2>1, HandleOne
  <2> QED
    BY <2>2 DEF Handled
<1>6. Route(q, f)
  <2> HIDE DEF q
  <2>1. Fit(q, b) /\ ~OneBody(q)
    BY <1>2, <1>4, <1>5, FitEvents DEF OnWay, Route, OneBody
  <2>2. Handled(q, b, f)
    BY <1>5, <2>1, HandleOne
  <2> QED
    BY <2>2 DEF Handled
<1>7. CASE ~Relayed(p)
  <2> DEFINE n == NCalls(s)
  <2>1. Heeding(p) /\ Bridged(p) /\ Tuned(p, n)
    BY <1>4, <1>7, ReadyTalk
  <2> HIDE DEF n
  <2>2. SaysNothing(p.up, a)
    BY <1>2, <1>4 DEF SaysNothing
  <2>3. Tuned(q, n)
    BY <2>1, <2>2, SilenceHeard
  <2> HIDE DEF q
  <2>4. Bridged(q)
    BY <1>5, <2>1 DEF Bridged, Route
  <2>5. q.up = "anthropic"
    BY <1>4, <1>5 DEF Route
  <2>6. Through(f)
    BY <1>2, <2>3, <2>4, <2>5, EndHeard
  <2> QED
    BY <1>3, <2>6
<1>8. CASE Relayed(p)
  <2>1. p.entry = "anthropic" /\ Repeated("anthropic", p.client, s)
    BY <1>4, <1>8, ReadyTalk
  <2>2. q.client = Read("anthropic", p.client, a)
    BY <1>4, <2>1, PassReads
  <2> HIDE DEF q
  <2>3. q.entry = "anthropic" /\ q.up = "anthropic" /\ q.stream = TRUE /\ IsPipe(q)
    BY <1>4, <1>5, <2>1 DEF Route, OnWay
  <2>4. f.client = Read("anthropic", q.client, b)
    BY <2>3, PassReads
  <2>5. Client(p.client)
    BY <1>4 DEF IsPipe
  <2>6. f.client.bad = FALSE
    <3> DEFINE cl == p.client
    <3>1. Client(cl) /\ Repeated("anthropic", cl, s)
      BY <2>1, <2>5
    <3>2. f.client = Read("anthropic", Read("anthropic", cl, a), b)
      BY <2>2, <2>4
    <3> HIDE DEF cl, f
    <3>3. Read("anthropic", Read("anthropic", cl, a), b).bad = FALSE
      BY <1>2, <3>1, RepeatsEnd
    <3> QED
      BY <3>2, <3>3
  <2>7. Relayed(q)
    BY <2>3 DEF Relayed
  <2>8. Through(f)
    BY <1>6, <2>6, <2>7, ThroughRelayed
  <2> QED
    BY <1>3, <2>8
<1> QED
  BY <1>7, <1>8

\* The one event that ends what a messages or Responses upstream says.
LEMMA LastTold ==
  ASSUME NEW e, IsEvent(e), NEW s,
         \/ pipe.up = "anthropic" /\ e.type \in {"message_stop", "error"}
         \/ pipe.up = "responses" /\ e.type \in {"completed", "failed"},
         \A cl : Client(cl) /\ Repeated(pipe.up, cl, s) => Read(pipe.up, cl, e).bad = FALSE
  PROVE  Closes(<<e>>, s)
<1> SUFFICES ASSUME NEW p, Ready(p), Talk(p, s)
             PROVE  Through(Handle(p, e))
  <2>1. \A p : HandleAll(p, <<e>>) = Handle(p, e)
    BY HandleLaw
  <2> QED
    BY <2>1 DEF Closes
<1>1. OnWay(p) /\ IsPipe(p) /\ p.stream = TRUE /\ Client(p.client) /\ p.up = pipe.up
  BY ReadyIs
<1>2. \/ p.up = "anthropic" /\ e.type \in {"message_stop", "error"}
      \/ p.up = "responses" /\ e.type \in {"completed", "failed"}
  BY <1>1
<1>3. CASE ~Relayed(p)
  <2> DEFINE n == NCalls(s)
  <2>1. Bridged(p) /\ Tuned(p, n)
    BY <1>2, <1>3, ReadyTalk
  <2> HIDE DEF n
  <2> QED
    BY <1>2, <2>1, EndHeard
<1>4. CASE Relayed(p)
  <2>1. p.entry = p.up /\ Repeated(p.up, p.client, s)
    BY <1>4, ReadyTalk
  <2>2. Handle(p, e).client = Read(p.up, p.client, e)
    BY <1>1, <2>1, PassReads
  <2>3. Read(p.up, p.client, e).bad = FALSE
    BY <1>1, <2>1
  <2>4. Fit(p, e) /\ ~OneBody(p)
    BY <1>1, <1>2, FitEvents DEF OneBody
  <2>5. Route(p, Handle(p, e))
    BY <1>1, <2>4, HandleOne DEF Handled
  <2> DEFINE f == Handle(p, e)
  <2> HIDE DEF f
  <2>6. f.client.bad = FALSE /\ Route(p, f)
    BY <2>2, <2>3, <2>5 DEF f
  <2>7. Through(f)
    BY <1>4, <2>6, ThroughRelayed
  <2> QED
    BY <2>7 DEF f
<1> QED
  BY <1>3, <1>4

\* A Responses upstream stops: its last event has all it has sent.
LEMMA StopTalkResponses ==
  ASSUME IInv, pipe.up = "responses", NEW events \in StopEvents, OpenParts(said) = {},
         Listed(said)
  PROVE  Closes(events, said)
<1> DEFINE d == Event("completed")
           v == Sent(said)
           b == [d EXCEPT !.output = v]
           e == [b EXCEPT !.usage = Reported]
<1>1. events = <<e>>
  BY DEF StopEvents
<1>2. v = [i \in DOMAIN said |-> Part(said[i].kind, said[i].name, said[i].data)]
  BY DEF Sent, WireKind
<1> HIDE DEF v
<1>3. e.type = "completed" /\ e.output = v /\ IsEvent(e)
  <2>1. IsEvent(d) /\ d.type = "completed"
    BY Marks
  <2> HIDE DEF d
  <2>2. IsEvent(b) /\ b.type = "completed" /\ b.output = v
    BY <2>1 DEF IsEvent
  <2> HIDE DEF b
  <2> QED
    BY <2>2 DEF IsEvent
<1> HIDE DEF e
<1>4. ASSUME NEW cl, Client(cl), Repeated(pipe.up, cl, said)
      PROVE  Read(pipe.up, cl, e).bad = FALSE
  <2>1. Repeated("responses", cl, said)
    BY <1>4
  <2>2. Read("responses", cl, e).bad = FALSE
    <3> DEFINE s == said
    <3>1. OpenParts(s) = {} /\ Listed(s) /\ Repeated("responses", cl, s)
      BY <2>1
    <3>2. Whole(s, e.output)
      BY <1>2, <1>3 DEF Whole
    <3>3. Client(cl) /\ e.type = "completed"
      BY <1>3, <1>4
    <3> HIDE DEF s
    <3> QED
      BY ONLY <3>1, <3>2, <3>3, RepeatsWhole
  <2> QED
    BY <2>2
<1>5. Closes(<<e>>, said)
  BY <1>3, <1>4, LastTold
<1> QED
  BY <1>1, <1>5

\* A messages or Responses upstream fails.
LEMMA FailTalk ==
  ASSUME pipe.up \in {"anthropic", "responses"}, NEW s
  PROVE  Closes(<<Event(IF pipe.up = "anthropic" THEN "error" ELSE "failed")>>, s)
<1> DEFINE type == IF pipe.up = "anthropic" THEN "error" ELSE "failed"
           e == Event(type)
<1>1. e.type = type /\ IsEvent(e)
  BY Marks
<1> HIDE DEF e
<1>2. ASSUME NEW cl, Client(cl), Repeated(pipe.up, cl, s)
      PROVE  Read(pipe.up, cl, e).bad = FALSE
  <2>1. Listening(cl)
    BY <1>2 DEF Repeated
  <2>2. /\ e.type = "error" => Read("anthropic", cl, e).bad = FALSE
        /\ e.type = "failed" => Read("responses", cl, e).bad = FALSE
    BY <1>2, <2>1, RepeatsError
  <2> QED
    BY <1>1, <2>2
<1>3. Closes(<<e>>, s)
  BY <1>1, <1>2, LastTold
<1> QED
  BY <1>3 DEF e

------------------------------------------------------------------------------
(* The events of an action, whoever holds them *)

\* What holds of a stream whose upstream has said s, or has ended it.
Fares(p, end, s) == IF end = "no" THEN Talk(p, s) ELSE Through(p)

\* What the events of an action make of any stream under way.
Reach(events, end, t) ==
  \A p : Ready(p) /\ Talk(p, said) => Fares(HandleAll(p, events), end, t)

\* A client in talk has nothing to complain of, and neither has one that has got nothing.
LEMMA FaresFine ==
  ASSUME NEW p, NEW end, Course(p, end), NEW s, p.stream = TRUE => Fares(p, end, s)
  PROVE  p.client.bad = FALSE
<1>1. IsPipe(p)
  BY DEF Course, OnWay
<1>2. CASE p.stream = TRUE /\ end # "no"
  BY <1>2 DEF Fares, Through
<1>3. CASE p.stream = TRUE /\ end = "no"
  <2>1. Talk(p, s) /\ p.entry \in Protocols
    BY <1>1, <1>3 DEF Fares, IsPipe
  <2>2. Relayed(p) => Listening(p.client)
    BY <2>1 DEF Talk, Repeated
  <2>3. ~Relayed(p) => Heard(p, NCalls(s))
    BY <2>1 DEF Talk
  <2>4. ASSUME NEW n, Heard(p, n) PROVE Listening(p.client)
    BY <2>1, <2>4 DEF Heard, ChatHeard, InBlocks, InItems, Protocols
  <2>5. Listening(p.client)
    BY <2>2, <2>3, <2>4
  <2> QED
    BY <2>5 DEF Listening
<1>4. CASE p.stream # TRUE
  <2>1. ~p.stream
    BY <1>1, <1>4 DEF IsPipe
  <2>2. p.client = NewClient
    BY <2>1, BodyToCome
  <2> QED
    BY <2>2 DEF NewClient
<1> QED
  BY <1>2, <1>3, <1>4

\* What is passed on and what is held back, in the state that follows.
LEMMA LegalNext ==
  ASSUME NEW q, q = HandleAll(pipe', held'), NEW end, stopped' = end,
         q.stream = pipe'.stream, pipe'.stream = TRUE => Fares(q, end, said'),
         pipe'.client.bad = FALSE
  PROVE  LegalSoFar'
  BY DEF LegalSoFar, Fares

\* After the events of an action the stream is as legal as they make any.
LEMMA EmitTells ==
  ASSUME IInv, LegalSoFar, Speaking, NEW events, NEW end \in {"no", "stop", "fail"},
         Emit(events), stopped' = end, Bring(events, end),
         pipe.up = "responses" => \E e : events = <<e>>,
         pipe.stream = TRUE => Reach(events, end, said')
  PROVE  LegalSoFar'
<1> USE DEF InFlight
<1> DEFINE g == HandleAll(pipe, held)
<1>1. /\ pc \in {"peek", "flow"} /\ stopped = "no" /\ IsPipe(pipe) /\ Listed(held)
      /\ Course(g, "no") /\ Route(pipe, g)
      /\ pc = "flow" => held = <<>>
      /\ pipe.client.bad = FALSE /\ (pipe.stream = TRUE => Talk(g, said))
  BY DEF IInv, Flying, Speaking, LegalSoFar
<1>2. CASE OneBody(pipe)
  <2>1. UNCHANGED <<pc, held, pipe, outcome>> /\ pipe.stream # TRUE
    BY <1>2 DEF Emit, OneBody
  <2> QED
    BY <1>1, <2>1 DEF LegalSoFar
<1>3. CASE ~OneBody(pipe)
  <2> DEFINE q == HandleAll(g, events)
  <2> HIDE DEF g
  <2>1. ~OneBody(g) /\ g.up = pipe.up /\ g.entry = pipe.entry /\ g.stream = pipe.stream
    BY <1>1, <1>3, RouteSame DEF Route
  <2>2. Course(q, end) /\ Route(g, q)
    BY <1>1, <2>1 DEF Bring
  <2>3. pipe.stream = TRUE => Fares(q, end, said')
    <3>1. ASSUME pipe.stream = TRUE PROVE Ready(g) /\ Talk(g, said)
      BY <1>1, <2>1, <3>1 DEF Ready
    <3> QED
      BY <3>1 DEF Reach
  <2>4. q.stream = pipe.stream
    BY <2>1, <2>2 DEF Route
  <2>5. q.client.bad = FALSE
    <3> HIDE DEF q
    <3> QED
      BY <2>2, <2>3, <2>4, FaresFine
  <2>6. CASE pc = "flow"
    <3>1. UNCHANGED <<pc, held, outcome>> /\ pipe' = HandleAll(pipe, events)
      BY <1>3, <2>6 DEF Emit, Arrive
    <3>2. g = pipe
      BY <1>1, <2>6, HandleLaw DEF g
    <3>3. pipe' = q /\ held' = <<>>
      BY <1>1, <2>6, <3>1, <3>2
    <3> HIDE DEF q
    <3>4. HandleAll(pipe', held') = q
      BY <3>3, HandleLaw
    <3> QED
      BY <2>3, <2>4, <2>5, <3>3, <3>4, LegalNext
  <2>7. CASE pc = "peek"
    <3>1. PICK e : events = <<e>>
      <4>1. pipe.up = "responses"
        BY <2>7, PeekedClient
      <4> QED
        BY <4>1
    <3> DEFINE h == Append(held, e)
    <3>2. events[1] = e
      BY <3>1
    <3>3. HandleAll(pipe, h) = q
      <4>1. HandleAll(pipe, h) = Handle(HandleAll(pipe, held), e)
        BY <1>1, HandleMore
      <4>2. HandleAll(g, <<e>>) = Handle(g, e)
        BY HandleLaw
      <4> QED
        BY <3>1, <4>1, <4>2 DEF g
    <3> HIDE DEF q, h
    <3>4. CASE ~UserOutput(e) /\ Retries(e)
      <4>1. pc' = "over" /\ UNCHANGED <<held, pipe>>
        BY <1>3, <2>7, <3>2, <3>4 DEF Emit, Arrive
      <4> QED
        BY <1>1, <4>1 DEF LegalSoFar
    <3>5. CASE ~(~UserOutput(e) /\ Retries(e)) /\ (UserOutput(e) \/ Full(Len(held) + 1))
      <4>1. held' = <<>> /\ pipe' = q
        BY <1>3, <2>7, <3>2, <3>3, <3>5 DEF Emit, Arrive, Release, h
      <4>2. HandleAll(pipe', held') = q
        BY <4>1, HandleLaw
      <4> QED
        BY <2>3, <2>4, <2>5, <4>1, <4>2, LegalNext
    <3>6. CASE ~(~UserOutput(e) /\ Retries(e)) /\ ~(UserOutput(e) \/ Full(Len(held) + 1))
      <4>1. held' = h /\ pipe' = pipe
        BY <1>3, <2>7, <3>2, <3>6 DEF Emit, Arrive, h
      <4>2. HandleAll(pipe', held') = q
        BY <3>3, <4>1
      <4> QED
        BY <1>1, <2>3, <2>4, <4>1, <4>2, LegalNext
    <3> QED
      BY <3>4, <3>5, <3>6
  <2> QED
    BY <1>1, <2>6, <2>7
<1> QED
  BY <1>2, <1>3

------------------------------------------------------------------------------
(* The actions *)

\* The invariant: what has been said has its shape, and the client has seen and will see
\* nothing that is not legal.
Legal == Sayings(pipe, said) /\ Listed(turns) /\ LegalSoFar

\* A call stays on its way whatever its upstream says.
LEMMA EmitRoute ==
  ASSUME IInv, Speaking, NEW events, NEW end \in {"no", "stop", "fail"},
         Emit(events), Bring(events, end), pipe.up = "responses" => \E e : events = <<e>>
  PROVE  Route(pipe, pipe')
<1> USE DEF InFlight
<1> DEFINE g == HandleAll(pipe, held)
<1>1. /\ pc \in {"peek", "flow"} /\ IsPipe(pipe) /\ Listed(held)
      /\ Course(g, "no") /\ Route(pipe, g) /\ (pc = "flow" => held = <<>>)
  BY DEF IInv, Flying, Speaking
<1>2. CASE pipe' = pipe
  BY <1>2 DEF Route
<1>3. CASE pipe' # pipe
  <2> DEFINE q == HandleAll(g, events)
  <2>1. ~OneBody(pipe)
    BY <1>3 DEF Emit
  <2> HIDE DEF g
  <2>2. ~OneBody(g) /\ g.up = pipe.up
    BY <1>1, <2>1, RouteSame DEF Route
  <2>3. Route(g, q)
    BY <1>1, <2>2 DEF Bring
  <2>4. CASE pc = "flow"
    <3>1. pipe' = HandleAll(pipe, events)
      BY <2>1, <2>4 DEF Emit, Arrive
    <3>2. g = pipe
      BY <1>1, <2>4, HandleLaw DEF g
    <3> QED
      BY <2>3, <3>1, <3>2
  <2>5. CASE pc = "peek"
    <3>1. PICK e : events = <<e>>
      <4>1. pipe.up = "responses"
        BY <2>5, PeekedClient
      <4> QED
        BY <4>1
    <3>2. events[1] = e
      BY <3>1
    <3>3. pipe' = HandleAll(pipe, Append(held, e))
      BY <1>3, <2>1, <2>5, <3>2 DEF Emit, Arrive, Release
    <3>4. HandleAll(pipe, Append(held, e)) = Handle(HandleAll(pipe, held), e)
      BY <1>1, HandleMore
    <3>5. HandleAll(g, <<e>>) = Handle(g, e)
      BY HandleLaw
    <3>6. pipe' = q
      BY <3>1, <3>3, <3>4, <3>5 DEF g
    <3> HIDE DEF q
    <3> QED
      BY <1>1, <2>3, <3>6 DEF Route
  <2> QED
    BY <1>1, <2>4, <2>5
<1> QED
  BY <1>2, <1>3

\* The way decides what may be said.
LEMMA SayingsKept ==
  ASSUME NEW p, NEW q, Route(p, q), NEW s, Sayings(p, s)
  PROVE  Sayings(q, s)
BY DEF Sayings, Route

\* What is said keeps the invariant when its events do what they should.
LEMMA EmitLegal ==
  ASSUME IInv, Legal, Speaking, NEW events, NEW end \in {"no", "stop", "fail"},
         Emit(events), stopped' = end, Bring(events, end),
         pipe.up = "responses" => \E e : events = <<e>>,
         Sayings(pipe, said'), pipe.stream = TRUE => Reach(events, end, said')
  PROVE  Legal'
<1>1. LegalSoFar'
  BY EmitTells DEF Legal
<1>2. Route(pipe, pipe')
  BY EmitRoute
<1>3. Sayings(pipe', said')
  BY <1>2, SayingsKept
<1>4. Listed(turns)'
  BY DEF Legal, Emit
<1> QED
  BY <1>1, <1>3, <1>4 DEF Legal

\* An event of someone who speaks on.
LEMMA SpeakLegal ==
  ASSUME IInv, Legal, Speaking, NEW events, Saids(events), Emit(events), stopped' = stopped,
         Sayings(pipe, said'), Tells(events, said, said')
  PROVE  Legal'
<1>1. Bring(events, "no") /\ (pipe.up = "responses" => \E e : events = <<e>>)
  BY SaidsBring DEF Saids
<1>2. stopped' = "no" /\ "no" \in {"no", "stop", "fail"}
  BY DEF Speaking
<1>3. Reach(events, "no", said')
  BY DEF Reach, Fares, Tells
<1> QED
  BY <1>1, <1>2, <1>3, EmitLegal

\* A part opens,
LEMMA OpenLegal ==
  ASSUME IInv, Legal, "anthropic" \notin Overlap, NEW kind \in Kinds, Open(kind)
  PROVE  Legal'
<1> DEFINE i == Len(said) + 1
           name == IF kind \in CallKinds THEN WireName(kind, i) ELSE 0
           t == Append(said, [kind |-> kind, name |-> name, data |-> <<>>, open |-> TRUE])
           events == OpeningEvents(kind, i, name) \o Wrapper(kind, i, Opening)
<1>1. Speaking /\ said' = t /\ Emit(events) /\ stopped' = stopped /\ MayCall(kind)
  BY DEF Open, OpeningEvents
<1>2. Openable
  BY DEF Open, Openable
<1>3. Saids(events)
  BY OpenMild DEF OpeningEvents
<1>4. Opened(kind, i, t)
  BY DEF Opened
<1> HIDE DEF t
<1>5. Sayings(pipe, said) /\ Listed(turns)
  BY DEF Legal
<1>6. Sayings(pipe, t)
  BY <1>1, <1>2, <1>4, <1>5, OpenedSaid
<1>7. Tells(events, said, t)
  <2> HIDE DEF name
  <2>1. name = IF kind \in CallKinds THEN WireName(kind, Len(said) + 1) ELSE 0
    BY DEF name
  <2>2. CASE Relayed(pipe)
    BY <1>1, <1>2, <1>4, <1>5, <2>1, <2>2, OpenRelayed
  <2>3. CASE ~Relayed(pipe)
    BY <1>1, <1>2, <1>4, <1>5, <2>1, <2>3, OpenTold
  <2> QED
    BY <2>2, <2>3
<1> HIDE DEF events
<1>8. Sayings(pipe, said') /\ Tells(events, said, said')
  BY <1>1, <1>6, <1>7
<1> QED
  BY <1>1, <1>3, <1>8, SpeakLegal

\* One element more is a sequence of one more.
LEMMA AppendedIs ==
  ASSUME NEW s, Listed(s), NEW e
  PROVE  Append(s, e) = s \o <<e>> /\ Listed(s \o <<e>>)
<1>1. PICK X : s \in Seq(X)
  BY DEF Listed
<1> DEFINE Y == X \cup {e}
<1>2. s \in Seq(Y) /\ e \in Y
  BY <1>1
<1> HIDE DEF Y
<1>3. Append(s, e) = s \o <<e>>
  BY <1>2
<1>4. Listed(Append(s, e))
  BY Appended
<1> QED
  BY <1>3, <1>4

\* says more,
LEMMA SayLegal ==
  ASSUME IInv, Legal, NEW i \in DOMAIN said, Say(i)
  PROVE  Legal'
<1> DEFINE f == Fragments + 1
           data == <<f>>
           v == [said[i] EXCEPT !.data = Append(@, f)]
           t == [said EXCEPT ![i] = v]
           events == Fragment(said[i].kind, i, data)
<1>1. Speaking /\ said' = t /\ Emit(events) /\ stopped' = stopped /\ said[i].open = TRUE
  <2>1. said[i].open
    BY DEF Say
  <2>2. IsSaid(said[i])
    BY DEF Legal, Sayings
  <2>3. said[i].open = TRUE
    BY <2>1, <2>2 DEF IsSaid
  <2> QED
    BY <2>3 DEF Say
<1>2. Saids(events)
  BY FragmentMild DEF Saids
<1> HIDE DEF events, f
<1>3. Sayings(pipe, said) /\ IsSaid(said[i]) /\ Listed(said)
  BY DEF Legal, Sayings
<1>4. /\ v = [kind |-> said[i].kind, name |-> said[i].name,
              data |-> Append(said[i].data, f), open |-> said[i].open]
  <2> DEFINE x == said[i]
             w == Append(x.data, f)
  <2>1. x = [kind |-> x.kind, name |-> x.name, data |-> x.data, open |-> x.open]
    BY <1>3 DEF IsSaid
  <2>2. v = [x EXCEPT !.data = w]
    OBVIOUS
  <2> HIDE DEF x, w, v
  <2>3. v = [kind |-> x.kind, name |-> x.name, data |-> w, open |-> x.open]
    BY <2>1, <2>2
  <2> QED
    BY <2>3 DEF x, w
<1>5. Append(said[i].data, f) = said[i].data \o data /\ Listed(said[i].data \o data)
  BY <1>3, AppendedIs DEF IsSaid
<1> HIDE DEF v
<1>6. Altered(said, t, i) /\ t[i] = v
  BY <1>3, AlteredIs
<1> HIDE DEF t
<1>7. IsSaid(v) /\ v.kind = said[i].kind /\ v.name = said[i].name
      /\ v.open = TRUE /\ v.data = said[i].data \o data
  BY <1>1, <1>3, <1>4, <1>5 DEF IsSaid
<1>8. Changed(i, t) /\ t[i].open = TRUE /\ t[i].data = said[i].data \o data
  BY <1>6, <1>7 DEF Changed
<1>9. Sayings(pipe, t)
  BY <1>1, <1>3, <1>8, ChangedSaid
<1>10. Listed(data)
  BY ListedIs
<1> HIDE DEF data
<1>11. Tells(Fragment(said[i].kind, i, data), said, t)
  BY <1>1, <1>3, <1>8, <1>10, SayTold
<1>12. Sayings(pipe, said') /\ Tells(events, said, said')
  BY <1>1, <1>9, <1>11 DEF events
<1> QED
  BY <1>1, <1>2, <1>12, SpeakLegal

\* closes with its data, told before or only now,
LEMMA CloseLegal ==
  ASSUME IInv, Legal, NEW i \in DOMAIN said, Close(i) \/ CloseWhole(i)
  PROVE  Legal'
<1>1. Sayings(pipe, said) /\ IsSaid(said[i]) /\ Listed(said)
  BY DEF Legal, Sayings
<1> DEFINE x == said[i]
<1>2. PICK data, v : /\ Speaking /\ said' = [said EXCEPT ![i] = v]
                     /\ Emit(CloseEvents(i, data)) /\ stopped' = stopped
                     /\ v = [kind |-> x.kind, name |-> x.name, data |-> data, open |-> FALSE]
                     /\ x.open /\ Listed(data) /\ (x.data = <<>> \/ x.data = data)
  <2>1. CASE Close(i)
    <3> DEFINE v == [said[i] EXCEPT !.open = FALSE]
               data == said[i].data
    <3>1. /\ Speaking /\ said' = [said EXCEPT ![i] = v] /\ said[i].open
          /\ Emit(CloseEvents(i, data)) /\ stopped' = stopped
      BY <2>1 DEF Close
    <3>2. x = [kind |-> x.kind, name |-> x.name, data |-> x.data, open |-> x.open]
          /\ Listed(x.data)
      BY <1>1 DEF IsSaid
    <3>3. v = [x EXCEPT !.open = FALSE] /\ data = x.data
      OBVIOUS
    <3> HIDE DEF x, v, data
    <3>4. v = [kind |-> x.kind, name |-> x.name, data |-> data, open |-> FALSE]
      BY <3>2, <3>3
    <3> QED
      BY <3>1, <3>2, <3>3, <3>4 DEF x
  <2>2. CASE CloseWhole(i)
    <3> DEFINE f == Fragments + 1
               data == <<f>>
               v == [said[i] EXCEPT !.data = data, !.open = FALSE]
    <3>1. /\ Speaking /\ Emit(CloseEvents(i, data)) /\ stopped' = stopped
          /\ said' = [said EXCEPT ![i].data = data, ![i].open = FALSE]
          /\ said[i].open /\ said[i].data = <<>>
      BY <2>2 DEF CloseWhole
    <3>2. [said EXCEPT ![i].data = data, ![i].open = FALSE] = [said EXCEPT ![i] = v]
      OBVIOUS
    <3>3. x = [kind |-> x.kind, name |-> x.name, data |-> x.data, open |-> x.open]
      BY <1>1 DEF IsSaid
    <3>4. Listed(data)
      BY ListedIs
    <3>5. v = [[x EXCEPT !.data = data] EXCEPT !.open = FALSE]
      OBVIOUS
    <3> DEFINE w == [x EXCEPT !.data = data]
    <3>6. said' = [said EXCEPT ![i] = v] /\ x.open /\ x.data = <<>>
      BY <3>1, <3>2
    <3> HIDE DEF x, v, data
    <3>7. w = [kind |-> x.kind, name |-> x.name, data |-> data, open |-> x.open]
      BY <3>3
    <3>8. v = [w EXCEPT !.open = FALSE]
      BY <3>5
    <3> HIDE DEF w
    <3>9. v = [kind |-> x.kind, name |-> x.name, data |-> data, open |-> FALSE]
      BY <3>7, <3>8
    <3> QED
      BY <3>1, <3>4, <3>6, <3>9
  <2> QED
    BY <2>1, <2>2
<1> HIDE DEF x
<1> DEFINE t == [said EXCEPT ![i] = v]
           events == CloseEvents(i, data)
<1>3. x.open = TRUE
  BY <1>1, <1>2 DEF IsSaid, x
<1>4. Saids(events)
  BY CloseMild
<1>5. Altered(said, t, i) /\ t[i] = v /\ said' = t
  BY <1>1, <1>2, AlteredIs
<1> HIDE DEF t, events
<1>6. IsSaid(v) /\ v.kind = x.kind /\ v.name = x.name /\ v.open = FALSE /\ v.data = data
  BY <1>1, <1>2 DEF IsSaid, x
<1>7. Changed(i, t) /\ t[i].open = FALSE /\ t[i].data = data
  BY <1>5, <1>6 DEF Changed, x
<1>8. said[i].open = TRUE /\ (said[i].data = <<>> \/ said[i].data = data) /\ Listed(data)
  BY <1>2, <1>3 DEF x
<1>9. Sayings(pipe, t)
  BY <1>1, <1>7, <1>8, ChangedSaid
<1>10. Tells(CloseEvents(i, data), said, t)
  BY <1>1, <1>7, <1>8, CloseTold
<1>11. Sayings(pipe, said') /\ Tells(events, said, said') /\ Emit(events)
  BY <1>2, <1>5, <1>9, <1>10 DEF events
<1> QED
  BY <1>2, <1>4, <1>11, SpeakLegal

\* stops
LEMMA StopLegal ==
  ASSUME IInv, Legal, Stop
  PROVE  Legal'
<1>1. Speaking /\ stopped' = "stop" /\ said' = said /\ MayStop
  BY DEF Stop
<1>2. PICK events \in StopEvents : Emit(events)
  BY DEF Stop
<1>3. Bring(events, "stop") /\ (pipe.up = "responses" => \E e : events = <<e>>)
  BY <1>2, StopBrings
<1>4. Sayings(pipe, said) /\ Listed(said) /\ pipe.up \in Protocols
  BY DEF Legal, Sayings, IInv, IsPipe
<1>5. ASSUME pipe.stream = TRUE
      PROVE  Reach(events, "stop", said')
  <2>1. {i \in DOMAIN said : said[i].open} = {}
    BY <1>1, <1>5 DEF MayStop
  <2>2. OpenParts(said) = {}
    BY <2>1 DEF OpenParts
  <2>3. Closes(events, said)
    <3>1. CASE pipe.up = "openai"
      BY <3>1, StopTalkChat
    <3>2. CASE pipe.up = "anthropic"
      BY <2>2, <3>2, StopTalkMessages
    <3>3. CASE pipe.up = "responses"
      BY <1>4, <2>2, <3>3, StopTalkResponses
    <3> QED
      BY <1>4, <3>1, <3>2, <3>3 DEF Protocols
  <2> QED
    BY <2>3 DEF Closes, Reach, Fares
<1>6. Sayings(pipe, said')
  BY <1>1, <1>4
<1> QED
  BY <1>1, <1>2, <1>3, <1>5, <1>6, EmitLegal

\* or fails.
LEMMA FailLegal ==
  ASSUME IInv, Legal, Fail
  PROVE  Legal'
<1> DEFINE type == IF pipe.up = "anthropic" THEN "error" ELSE "failed"
           e == Event(type)
           events == <<e>>
<1>1. Speaking /\ stopped' = "fail" /\ said' = said /\ Emit(events)
  BY DEF Fail
<1>2. IF OneBody(pipe) THEN TRUE ELSE pipe.up # "openai"
  BY DEF Fail
<1>3. Sayings(pipe, said') /\ Sayings(pipe, said) /\ Listed(turns) /\ LegalSoFar
  BY <1>1 DEF Legal
<1>4. CASE OneBody(pipe)
  <2>1. UNCHANGED <<pc, held, pipe, turns>> /\ pipe.stream # TRUE
    BY <1>1, <1>4 DEF Emit, OneBody
  <2>2. LegalSoFar'
    BY <1>3, <2>1 DEF LegalSoFar
  <2> QED
    BY <1>3, <2>1, <2>2 DEF Legal
<1>5. CASE ~OneBody(pipe)
  <2>1. pipe.up \in {"anthropic", "responses"}
    BY <1>2, <1>5 DEF IInv, IsPipe, Protocols
  <2>2. Closes(events, said)
    BY <2>1, FailTalk
  <2>3. e.type = type /\ IsEvent(e) /\ e.usage = NoUsage
    BY Marks
  <2>4. \E d : events = <<d>>
    OBVIOUS
  <2> HIDE DEF e
  <2>5. ASSUME NEW p, Course(p, "no"), ~OneBody(p), p.up = pipe.up
        PROVE  Course(HandleAll(p, events), "fail") /\ Route(p, HandleAll(p, events))
    <3>1. \/ p.up = "anthropic" /\ e.type = "error"
          \/ p.up = "responses" /\ e.type = "failed"
      BY <2>1, <2>3, <2>5
    <3>2. Course(Handle(p, e), "fail") /\ Route(p, Handle(p, e))
      BY <2>3, <2>5, <3>1, FailHandled
    <3>3. HandleAll(p, events) = Handle(p, e)
      BY HandleLaw
    <3> QED
      BY <3>2, <3>3
  <2> HIDE DEF events
  <2>6. Bring(events, "fail")
    BY <2>5 DEF Bring
  <2>7. Reach(events, "fail", said')
    BY <2>2 DEF Closes, Reach, Fares
  <2> QED
    BY <1>1, <1>3, <2>4, <2>6, <2>7, EmitLegal
<1> QED
  BY <1>4, <1>5

\* Nothing has been said yet.
LEMMA NothingSaid ==
  /\ NCalls(<<>>) = 0 /\ ~CallUnderWay(<<>>)
  /\ \A p : Sayings(p, <<>>)
<1>1. CallsSaid(<<>>) = {} /\ DOMAIN <<>> = {}
  BY DEF CallsSaid
<1>2. Cardinality({}) = 0 /\ IsFiniteSet({})
  BY FS_EmptySet
<1> QED
  BY <1>1, <1>2, ListedIs DEF NCalls, CallUnderWay, Sayings

\* A new client and its emitter have heard of no call.
LEMMA NewHeard ==
  ASSUME NEW p, p.client = NewClient, p.entry \in Protocols,
         p.out = IF p.entry = "responses" THEN NewResponsesOut ELSE NewMessagesOut
  PROVE  Heard(p, 0)
<1> DEFINE cl == NewClient
           e == <<>>
<1>1. cl.bad = FALSE /\ cl.ended = 0 /\ cl.finish = "none" /\ cl.parts = e /\ cl.open = {}
      /\ cl.started = FALSE
  BY DEF NewClient
<1>2. Len(e) = 0 /\ DOMAIN e = {} /\ Listed(e)
  BY ListedIs
<1> HIDE DEF cl, e
<1>3. Listening(cl) /\ IsParts(cl.parts)
  BY <1>1, <1>2 DEF Listening, IsParts
<1>4. CASE p.entry = "openai"
  <2>1. CallPlaces(cl.parts) = {}
    BY <1>1, <1>2 DEF CallPlaces
  <2>2. Cardinality({}) = 0 /\ IsFiniteSet({})
    BY FS_EmptySet
  <2>3. Ranked(cl.parts, 0)
    BY <1>3, <2>1, <2>2 DEF Ranked
  <2> QED
    BY <1>1, <1>3, <1>4, <2>3 DEF Heard, ChatHeard, cl
<1>5. CASE p.entry = "anthropic"
  <2> DEFINE st == p.out
  <2>1. st.blockIndex = 0 /\ st.finish # "none" /\ st.started = FALSE /\ st.curKind = "none"
        /\ st.sent = FALSE
    BY <1>5 DEF NewMessagesOut
  <2>2. InBlocks(st, cl)
    BY <1>1, <1>2, <1>3, <2>1 DEF InBlocks
  <2> QED
    BY <1>5, <2>1, <2>2 DEF Heard, cl
<1>6. CASE p.entry = "responses"
  <2> DEFINE st == p.out
  <2>1. st.items = e /\ st.keys = e /\ st.started = FALSE /\ st.sent = FALSE
    BY <1>6 DEF NewResponsesOut, e
  <2>2. InItems(st, cl)
    BY <1>1, <1>2, <1>3, <2>1 DEF InItems
  <2> QED
    BY <1>6, <2>1, <2>2 DEF Heard, cl
<1> QED
  BY <1>4, <1>5, <1>6 DEF Protocols

\* A new stream that goes to a converter.
LEMMA NewTuned ==
  ASSUME NEW en \in Protocols, NEW u \in Protocols
  PROVE  LET p == NewPipe(en, u, TRUE) IN
         ~Relayed(p) => Heeding(p) /\ Tuned(p, 0)
<1> DEFINE p == NewPipe(en, u, TRUE)
           e == <<>>
<1>1. OnWay(p) /\ p.entry = en /\ p.up = u /\ p.stream = TRUE /\ p.client = NewClient
  BY NewPipeIs
<1>2. /\ p.out = IF p.entry = "responses" THEN NewResponsesOut ELSE NewMessagesOut
      /\ u = "anthropic" => p.in = NewAnthropicIn
      /\ u = "responses" => p.in = NewCodexIn
  BY DEF NewPipe
<1>3. Listed(e) /\ Len(e) = 0
  BY ListedIs
<1> HIDE DEF e
<1>4. KnowsBlocks(NewAnthropicIn, 0) /\ KnowsItems(NewCodexIn, 0)
  BY <1>3 DEF KnowsBlocks, KnowsItems, NewAnthropicIn, NewCodexIn, e
<1> HIDE DEF p
<1>5. Heard(p, 0)
  BY <1>1, <1>2, NewHeard
<1>6. KnowsBy(p.up, p.in, 0)
  BY <1>1, <1>2, <1>4 DEF KnowsBy
<1>7. ASSUME ~Relayed(p) PROVE Heeding(p)
  BY <1>1, <1>7 DEF Relayed, Heeding, Bridged, Chatting, Protocols
<1> QED
  BY <1>5, <1>6, <1>7 DEF Tuned, p

\* After its first event nothing has been said.
LEMMA GreetingTold ==
  ASSUME NEW en \in Protocols, NEW u \in Protocols
  PROVE  Talk(Handle(NewPipe(en, u, TRUE), Greeting(u)), <<>>)
<1> DEFINE p == NewPipe(en, u, TRUE)
           e == Greeting(u)
           f == Handle(p, e)
           n == 0
           s == <<>>
<1>1. OnWay(p) /\ IsPipe(p) /\ p.entry = en /\ p.up = u /\ p.stream = TRUE
      /\ p.client = NewClient /\ Client(p.client)
  <2>1. OnWay(p) /\ p.entry = en /\ p.up = u /\ p.stream = TRUE /\ p.client = NewClient
    BY NewPipeIs
  <2> HIDE DEF p
  <2> QED
    BY <2>1 DEF OnWay, IsPipe
<1>2. ~OneBody(p) /\ TRUE \in BOOLEAN
  BY <1>1 DEF OneBody
<1>3. Route(p, f)
  BY <1>2, Greeted
<1>4. /\ u = "openai" => Utters(e) /\ e.finish = "none"
      /\ u = "anthropic" => e.type = "message_start"
      /\ u = "responses" => e.type = "created"
  <2>1. CASE u = "openai"
    BY <2>1, SpeechIs DEF Greeting
  <2>2. CASE u = "anthropic"
    <3> DEFINE d == Event("message_start")
    <3>1. IsEvent(d) /\ d.type = "message_start"
      BY Marks
    <3> HIDE DEF d
    <3>2. [d EXCEPT !.usage.prompt = Reported.prompt].type = "message_start"
      BY <3>1 DEF IsEvent
    <3> QED
      BY <2>2, <3>2 DEF Greeting, d
  <2>3. CASE u = "responses"
    BY <2>3, Marks DEF Greeting
  <2> QED
    BY <2>1, <2>2, <2>3 DEF Protocols
<1>5. ~Relayed(p) => Heeding(p) /\ Tuned(p, n)
  BY NewTuned
<1>6. NCalls(s) = n /\ ~CallUnderWay(s)
  BY NothingSaid
<1> HIDE DEF p, e
<1>7. CASE Relayed(p)
  <2>1. en = u /\ u \in {"anthropic", "responses"}
    BY <1>1, <1>7 DEF Relayed, Protocols
  <2>2. f.client = Read(u, p.client, e)
    BY <1>1, <2>1, PassReads
  <2>3. /\ e.type = "message_start" => Repeated("anthropic", Read("anthropic", p.client, e), s)
        /\ e.type = "created" => Repeated("responses", Read("responses", p.client, e), s)
    BY <1>1, RepeatsGreeting
  <2> HIDE DEF s, f
  <2>4. Repeated(p.up, f.client, s)
    BY <1>1, <1>4, <2>1, <2>2, <2>3
  <2> QED
    BY <1>3, <1>7, <2>4, TalkRelayed DEF p, e, f, s
<1>8. CASE ~Relayed(p)
  <2> HIDE DEF n, s
  <2>1. Tuned(f, n)
    <3>1. CASE u \in {"openai", "anthropic"}
      <4>1. Speaks(p.up, e)
        BY <1>1, <1>4, <3>1 DEF Speaks
      <4> QED
        BY <1>5, <1>8, <4>1, SpeaksHeard
    <3>2. CASE u = "responses"
      <4>1. SaysNothing(p.up, e)
        BY <1>1, <1>4, <3>2 DEF SaysNothing
      <4> QED
        BY <1>5, <1>8, <4>1, SilenceHeard
    <3> QED
      BY <3>1, <3>2 DEF Protocols
  <2> HIDE DEF f
  <2>2. Tuned(f, NCalls(s)) /\ (CallUnderWay(s) => Calling(f))
    BY <1>6, <2>1
  <2>3. Talk(f, s)
    BY <1>3, <1>8, <2>2, TalkHeard
  <2> QED
    BY <2>3 DEF p, e, f, s
<1> QED
  BY <1>7, <1>8

\* At first nothing has been said,
LEMMA InitLegal ==
  ASSUME Init
  PROVE  Legal
<1>1. PICK en \in Protocols : pipe = NewPipe(en, "openai", FALSE)
  BY DEF Init
<1>2. pc = "client" /\ said = <<>>
  BY DEF Init
<1>3. pipe.client.bad = FALSE
  BY <1>1 DEF NewPipe, NewClient
<1>4. Listed(turns)
  BY ListedIs DEF Init
<1>5. Sayings(pipe, said)
  BY <1>2, NothingSaid
<1> QED
  BY <1>2, <1>3, <1>4, <1>5 DEF Legal, LegalSoFar, InFlight

\* nor when a call begins: its greeting is held back or has been handled.
LEMMA SendLegal ==
  ASSUME IInv, Legal, NEW u \in Protocols, NEW s \in BOOLEAN, Send(u, s)
  PROVE  Legal'
<1> DEFINE en == pipe.entry
           p == NewPipe(en, u, s)
           f == Handle(p, Greeting(u))
<1>1. en \in Protocols
  BY DEF IInv, IsPipe
<1>2. /\ said' = <<>> /\ stopped' = "no" /\ turns' = turns
      /\ IF u = "responses"
           THEN pc' = "peek" /\ pipe' = p /\ held' = <<Greeting(u)>>
           ELSE /\ pc' = "flow" /\ held' = <<>>
                /\ pipe' = IF OneBody(p) THEN p ELSE f
  BY DEF Send, entry
<1> HIDE DEF en
<1>3. /\ p.entry = en /\ p.up = u /\ p.stream = s /\ p.client = NewClient
  BY <1>1, NewPipeIs
<1>4. /\ OneBody(p) => Course(p, "no")
      /\ u = "responses" => Course(p, "no")
      /\ ~OneBody(p) => Course(f, "no") /\ Route(p, f)
  BY <1>1, Greeted
<1>5. s = TRUE => Talk(f, <<>>)
  BY <1>1, GreetingTold
<1> HIDE DEF p
<1>6. HandleAll(p, <<Greeting(u)>>) = f
  BY HandleLaw
<1> HIDE DEF f
<1>7. NewClient.bad = FALSE
  BY DEF NewClient
<1>8. LegalSoFar'
  <2>1. CASE u = "responses"
    <3>1. HandleAll(pipe', held') = f /\ pipe' = p
      BY <1>2, <1>6, <2>1
    <3>2. f.stream = pipe'.stream
      BY <1>3, <1>4, <2>1, <3>1 DEF Route, OneBody
    <3>3. pipe'.stream = TRUE => Fares(f, "no", said')
      BY <1>2, <1>3, <1>5, <3>1 DEF Fares
    <3> QED
      BY <1>2, <1>3, <1>7, <3>1, <3>2, <3>3, LegalNext
  <2>2. CASE u # "responses" /\ OneBody(p)
    <3>1. pipe' = p /\ p.stream # TRUE
      BY <1>2, <2>2 DEF OneBody
    <3> QED
      BY <1>3, <1>7, <3>1 DEF LegalSoFar
  <2>3. CASE u # "responses" /\ ~OneBody(p)
    <3>1. pipe' = f /\ held' = <<>>
      BY <1>2, <2>3
    <3>2. HandleAll(pipe', held') = f
      BY <3>1, HandleLaw
    <3>3. pipe'.stream = TRUE => Fares(f, "no", said')
      BY <1>2, <1>3, <1>4, <1>5, <2>3, <3>1 DEF Fares, Route
    <3>4. f.client.bad = FALSE
      BY <1>4, <2>3, <3>1, <3>3, FaresFine
    <3> QED
      BY <1>2, <3>1, <3>2, <3>3, <3>4, LegalNext
  <2> QED
    BY <2>1, <2>2, <2>3
<1>9. Sayings(pipe', said')
  BY <1>2, NothingSaid
<1> QED
  BY <1>2, <1>8, <1>9 DEF Legal

\* The client's turn: the call is a new one.
LEMMA AskLegal ==
  ASSUME IInv, Legal, Ask
  PROVE  Legal'
<1>1. /\ pipe' = NewPipe(entry, pipe.up, pipe.stream) /\ said' = <<>> /\ pc' = pc
      /\ pc = "client"
  BY DEF Ask
<1>2. pipe'.client.bad = FALSE
  BY <1>1 DEF NewPipe, NewClient
<1>3. \E x : turns' = Append(turns, x)
  BY DEF Ask
<1>4. Listed(turns')
  BY <1>3, Appended DEF Legal
<1>5. Sayings(pipe', said')
  BY <1>1, NothingSaid
<1> QED
  BY <1>1, <1>2, <1>4, <1>5 DEF Legal, LegalSoFar, InFlight

\* A call that is passed on has shown its client nothing.
LEMMA PassedOnLegal ==
  ASSUME Legal, pc' = "over", UNCHANGED <<turns, pipe, said>>
  PROVE  Legal'
<1>1. LegalSoFar'
  BY DEF Legal, LegalSoFar, InFlight
<1> QED
  BY <1>1 DEF Legal

------------------------------------------------------------------------------
(* What the handler still writes when the upstream's stream is over *)

\* The mark is the first end a chat client sees.
LEMMA MarkFine ==
  ASSUME NEW cl, Client(cl), cl.bad = FALSE, cl.ended = 0
  PROVE  Read("openai", cl, DoneMark).bad = FALSE
<1> DEFINE w == cl.ended > 0
           late == Complain(cl, w)
           x == [late EXCEPT !.ended = @ + 1]
<1>1. Read("openai", cl, DoneMark) = x
  BY DEF Read
<1>2. ~w
  OBVIOUS
<1> HIDE DEF w
<1>3. x.bad = FALSE
  BY <1>2 DEF Complain, Client
<1> HIDE DEF x
<1> QED
  BY <1>1, <1>3

\* A client reads two events one after the other.
LEMMA ReadAllTwo ==
  ASSUME NEW en, NEW cl, NEW a, NEW b
  PROVE  ReadAll(en, cl, <<a, b>>) = Read(en, Read(en, cl, a), b)
<1> DEFINE s == <<a, b>>
           z == <<a>>
<1>1. s \in Seq({a, b}) /\ z \in Seq({a, b}) /\ s = Append(z, b)
  OBVIOUS
<1>2. ReadAll(en, cl, z) = Read(en, cl, a)
  BY ReadAllFew
<1> HIDE DEF s, z
<1>3. ReadAll(en, cl, s) = Fold("read", en, cl, s) /\ ReadAll(en, cl, z) = Fold("read", en, cl, z)
  BY <1>1, ReadFold
<1>4. Fold("read", en, cl, Append(z, b)) = Applied("read", en, Fold("read", en, cl, z), b)
  BY <1>1, FoldMore
<1> QED
  BY <1>1, <1>2, <1>3, <1>4 DEF Applied, s

\* It reads the mark.
LEMMA MarkRead ==
  \A en, cl : ReadAll(en, cl, <<DoneMark>>) = Read(en, cl, DoneMark)
<1>1. ASSUME NEW en, NEW cl, NEW e
      PROVE  ReadAll(en, cl, <<e>>) = Read(en, cl, e)
  BY ReadAllFew
<1> DEFINE m == DoneMark
<1> HIDE DEF m
<1>2. \A en, cl : ReadAll(en, cl, <<m>>) = Read(en, cl, m)
  BY <1>1
<1> QED
  BY <1>2 DEF m

\* What a stream that is not passed on as it is has come to: its client is in talk, or it
\* is through.
LEMMA FaresSplit ==
  ASSUME NEW p, OnWay(p), p.stream = TRUE, ~Passthrough(p), NEW end, NEW s, Fares(p, end, s)
  PROVE  \/ \E n : Heard(p, n) /\ Knows(p, n)
         \/ p.client.bad = FALSE
              /\ IF p.entry = "openai" THEN p.in.sent = TRUE ELSE p.out.sent = TRUE
<1>1. ~Relayed(p) /\ p.entry # p.up
  BY DEF Passthrough, Relayed
<1> QED
  BY <1>1 DEF Fares, Talk, Through

\* The messages emitter closes the block it is in and ends the message, once.
LEMMA FinishMessagesFine ==
  ASSUME NEW p, OnWay(p), p.stream = TRUE, ~Passthrough(p), p.entry = "anthropic",
         NEW end, NEW s, Fares(p, end, s)
  PROVE  Finish(p).client.bad = FALSE
<1> DEFINE o == <<>>
           a == [st |-> p.out, out |-> o]
           r == FinishMessages(a)
           cl == p.client
<1>1. IsPipe(p) /\ Client(cl) /\ MessagesOut(p.out) /\ p.out.sent \in BOOLEAN
  BY DEF OnWay, IsPipe, OutShape
<1>2. Finish(p) = ToClient(p, r)
  BY DEF Finish
<1>3. Quiet("anthropic", o)
  BY QuietNothing
<1>4. Reading("anthropic", cl, a) = cl
  BY FoldNothing DEF Reading
<1>5. Writing(a, p.out.sent) /\ a.st = p.out /\ a.out = o
  <2> HIDE DEF o
  <2> QED
    BY <1>1, <1>3, WritingIs
<1> HIDE DEF o, a
<1>6. MessagesOut(r.st) /\ Emits("anthropic", p.out.sent, r) /\ r.st.sent = TRUE
  BY <1>1, <1>5, FinishMessagesEmits
<1>7. OutShape(p.entry, r.st)
  BY <1>6 DEF OutShape
<1>8. ReadAll("anthropic", cl, r.out) = Reading("anthropic", cl, r)
  <2>1. Listed(r.out)
    BY <1>6, EmittedListed
  <2> HIDE DEF r
  <2>2. PICK X : r.out \in Seq(X)
    BY <2>1 DEF Listed
  <2> QED
    BY <2>2, ReadFold DEF Reading
<1>9. ToClient(p, r).client = Reading("anthropic", cl, r)
  <2> HIDE DEF r
  <2> QED
    BY <1>1, <1>7, <1>8, ToClientIs
<1>10. CASE p.client.bad = FALSE /\ p.out.sent = TRUE
  <2>1. r = a
    BY <1>5, <1>10 DEF FinishMessages
  <2> QED
    BY <1>2, <1>4, <1>9, <1>10, <2>1
<1>11. ASSUME NEW n, Heard(p, n)
       PROVE  Finish(p).client.bad = FALSE
  <2>1. InBlocks(p.out, cl) /\ p.out.sent = FALSE
    BY <1>11 DEF Heard
  <2>2. Writing(a, FALSE) /\ Blocks(cl, a)
    BY <1>4, <1>5, <2>1 DEF Blocks
  <2>3. Content(Reading("anthropic", cl, r))
    BY <1>1, <2>2, BlocksFinish
  <2> QED
    BY <1>2, <1>9, <2>3 DEF Content
<1> QED
  BY <1>10, <1>11, FaresSplit

\* The Responses emitter closes its items, kind by kind, and repeats them in the output.
LEMMA FinishResponsesFine ==
  ASSUME NEW p, OnWay(p), p.stream = TRUE, ~Passthrough(p), p.entry = "responses",
         NEW end, NEW s, Fares(p, end, s)
  PROVE  Finish(p).client.bad = FALSE
<1> DEFINE o == <<>>
           a == [st |-> p.out, out |-> o]
           r == FinishResponses(a)
           cl == p.client
<1>1. IsPipe(p) /\ Client(cl) /\ ResponsesOut(p.out) /\ p.out.sent \in BOOLEAN
  BY DEF OnWay, IsPipe, OutShape
<1>2. Finish(p) = ToClient(p, r)
  BY DEF Finish
<1>3. Quiet("responses", o)
  BY QuietNothing
<1>4. \A X : Restoring(X, cl, a) = cl
  BY RestoredNothing, FoldNothing DEF Restoring
<1>5. Adding(a, p.out.sent) /\ a.st = p.out /\ a.out = o
  <2> HIDE DEF o
  <2> QED
    BY <1>1, <1>3, AddingIs
<1> HIDE DEF o, a
<1>6. ResponsesOut(r.st) /\ Emits("responses", p.out.sent, r) /\ r.st.sent = TRUE
  BY <1>1, <1>5, FinishResponsesEmits
<1>7. OutShape(p.entry, r.st)
  BY <1>6 DEF OutShape
<1>8. \A X : ReadAll("responses", cl, Restored(X, r.out)) = Restoring(X, cl, r)
  <2> HIDE DEF r
  <2>1. Quiet("responses", r.out) \/ Ending("responses", r.out)
    BY <1>6 DEF Emits
  <2> QED
    BY <2>1, RestoringAll DEF Restoring
<1>9. ToClient(p, r).client = Restoring(r.st.items, cl, r)
  <2> HIDE DEF r
  <2> QED
    BY <1>1, <1>7, <1>8, ToClientIs
<1>10. CASE p.client.bad = FALSE /\ p.out.sent = TRUE
  <2>1. r = a
    BY <1>5, <1>10 DEF FinishResponses
  <2> QED
    BY <1>2, <1>4, <1>9, <1>10, <2>1
<1>11. ASSUME NEW n, Heard(p, n)
       PROVE  Finish(p).client.bad = FALSE
  <2>1. InItems(p.out, cl) /\ p.out.sent = FALSE
    BY <1>11 DEF Heard
  <2>2. Adding(a, FALSE) /\ Follows(cl, a)
    BY <1>4, <1>5, <2>1 DEF Follows
  <2>3. Content(Restoring(a.st.items, cl, r)) /\ r.st.items = a.st.items
    BY <1>1, <2>2, ItemsFinish
  <2> QED
    BY <1>2, <1>9, <2>3 DEF Content
<1> QED
  BY <1>10, <1>11, FaresSplit

\* A chat client gets its last chunk, if it has not had it, and then [DONE].
LEMMA FinishChatFine ==
  ASSUME NEW p, OnWay(p), p.stream = TRUE, p.entry = "openai", p.up = "anthropic",
         NEW end, NEW s, Fares(p, end, s)
  PROVE  Finish(p).client.bad = FALSE
<1> DEFINE ch == Chunk
           r == FinishChat(p.in, ch)
           q == [p EXCEPT !.in = r.st]
           m == DoneMark
           t == r.out \o <<m>>
           f == Deliver(q, t)
           cl == p.client
<1>1. ~Passthrough(p) /\ Finish(p) = f
  BY DEF Finish, Passthrough
<1>2. IsPipe(p) /\ Client(cl) /\ cl.ended = 0
  BY <1>1 DEF OnWay, IsPipe, Clock
<1>3. /\ p.in.sent = TRUE => r = [st |-> p.in, out |-> <<>>]
      /\ p.in.sent = FALSE /\ p.in.finish # "none" => LastChunk(r.out)
  <2> HIDE DEF r
  <2>1. FinishChat(p.in, Chunk) = r
    BY DEF r
  <2> QED
    BY <2>1, FinishChatIs
<1> HIDE DEF r, ch
<1>4. IsPipe(q) /\ Route(p, q) /\ q.client = p.client
  BY <1>2, InField
<1> HIDE DEF q
<1>5. f.client = ReadAll("openai", cl, t)
  <2> HIDE DEF t
  <2> QED
    BY <1>4, DeliverIs DEF Route
<1>6. CASE p.client.bad = FALSE /\ p.in.sent = TRUE
  <2>1. t = <<m>>
    <3>1. r.out = <<>>
      BY <1>3, <1>6
    <3> HIDE DEF m
    <3> QED
      BY <3>1, OneAndFew
  <2>2. ReadAll("openai", cl, <<m>>) = Read("openai", cl, m)
    BY MarkRead
  <2>3. f.client = Read("openai", cl, DoneMark)
    BY <1>5, <2>1, <2>2
  <2> HIDE DEF f
  <2> QED
    BY <1>1, <1>2, <1>6, <2>3, MarkFine
<1>7. ASSUME NEW n, Heard(p, n), Knows(p, n)
      PROVE  Finish(p).client.bad = FALSE
  <2>1. p.in.sent = FALSE /\ p.in.finish # "none"
    BY <1>7 DEF Knows, KnowsBlocks
  <2>2. PICK c : r.out = <<c>> /\ Utters(c)
    BY <1>3, <2>1 DEF LastChunk
  <2>3. ChatHeard(cl, n) /\ n \in Nat
    BY <1>2, <1>7, HeardNat DEF Heard
  <2>4. Orderly(n, c, n)
    BY <2>2, <2>3, SpeechFine DEF Fine
  <2> DEFINE d == Read("openai", cl, c)
  <2>5. Client(d) /\ Listening(d)
    BY <1>2, <2>3, <2>4, ReadChunkHeard
  <2>6. t = <<c, m>>
    <3> HIDE DEF m
    <3> QED
      BY <2>2, OneAndFew
  <2>7. f.client = Read("openai", d, DoneMark)
    <3>1. f.client = ReadAll("openai", cl, <<c, m>>)
      BY <1>5, <2>6
    <3>2. ReadAll("openai", cl, <<c, m>>) = Read("openai", d, m)
      <4> HIDE DEF m
      <4> QED
        BY ReadAllTwo
    <3> QED
      BY <3>1, <3>2
  <2> HIDE DEF f, d
  <2>8. Read("openai", d, DoneMark).bad = FALSE
    BY <2>5, MarkFine DEF Listening
  <2> QED
    BY <1>1, <2>7, <2>8
<1> QED
  BY <1>1, <1>6, <1>7, FaresSplit

\* A chat client whose Responses upstream has not finished gets [DONE].
LEMMA FinishCodexFine ==
  ASSUME NEW p, OnWay(p), p.stream = TRUE, p.entry = "openai", p.up = "responses",
         NEW end, NEW s, Fares(p, end, s)
  PROVE  Finish(p).client.bad = FALSE
<1> DEFINE m == DoneMark
           t == <<m>>
           f == Deliver(p, t)
           cl == p.client
<1>1. ~Passthrough(p) /\ IsPipe(p) /\ Client(cl)
  BY DEF Passthrough, OnWay, IsPipe
<1>2. CASE p.client.bad = FALSE /\ p.in.sent = TRUE
  <2>1. Finish(p) = p
    BY <1>1, <1>2 DEF Finish
  <2> QED
    BY <1>2, <2>1
<1>3. ASSUME NEW n, Heard(p, n), Knows(p, n)
      PROVE  Finish(p).client.bad = FALSE
  <2>1. p.in.sent = FALSE
    BY <1>3 DEF Knows, KnowsItems
  <2>2. Finish(p) = f
    BY <1>1, <2>1 DEF Finish
  <2>3. f.client = ReadAll("openai", cl, t)
    <3> HIDE DEF t
    <3> QED
      BY <1>1, DeliverIs
  <2>4. f.client = Read("openai", cl, DoneMark)
    BY <2>3, MarkRead
  <2>5. Listening(cl)
    BY <1>3 DEF Heard, ChatHeard
  <2> HIDE DEF f
  <2> QED
    BY <1>1, <2>2, <2>4, <2>5, MarkFine DEF Listening
<1> QED
  BY <1>1, <1>2, <1>3, FaresSplit

\* Whatever a stream has come to, its client accepts what the handler ends it with.
LEMMA FinishFine ==
  ASSUME NEW p, NEW end, Course(p, end), p.stream = TRUE, NEW s, Fares(p, end, s)
  PROVE  Finish(p).client.bad = FALSE
<1>1. OnWay(p) /\ p.entry \in Protocols /\ p.up \in Protocols
  BY DEF Course, OnWay, IsPipe
<1>2. CASE Passthrough(p)
  <2>1. Finish(p) = p
    BY <1>2 DEF Finish
  <2> QED
    BY <2>1, FaresFine
<1>3. CASE ~Passthrough(p)
  <2>1. p.entry = "openai" => p.up \in {"anthropic", "responses"}
    BY <1>1, <1>3 DEF Passthrough, Protocols
  <2> QED
    BY <1>1, <1>3, <2>1, FinishMessagesFine, FinishResponsesFine, FinishChatFine,
       FinishCodexFine DEF Protocols
<1> QED
  BY <1>2, <1>3

------------------------------------------------------------------------------
(* The end of an answer, and every step *)

\* A body that is written at once has nothing a client complains of.
LEMMA AnsweredFine ==
  ASSUME NEW p, Course(p, stopped), p.stream = FALSE
  PROVE  Answered(p).client.bad = FALSE
<1> DEFINE parts == IF Passthrough(p) THEN Sent(said) ELSE WriteEntryJSON(p.entry, Collected(p))
           cl == p.client
           told == [cl EXCEPT !.parts = parts]
           v == [told EXCEPT !.ended = @ + 1]
           w == Collected(p).usage
           b == [p EXCEPT !.client = v]
           q == [b EXCEPT !.usage = w]
<1>1. IsPipe(p) /\ Client(cl) /\ cl.bad = FALSE
  <2>1. IsPipe(p) /\ Client(cl)
    BY DEF Course, OnWay, IsPipe
  <2>2. cl = NewClient
    <3>1. ~p.stream
      OBVIOUS
    <3> QED
      BY <3>1, BodyToCome
  <2> QED
    BY <2>1, <2>2 DEF NewClient
<1>2. Answered(p) = q
  BY DEF Body, Answered
<1> HIDE DEF parts, w, cl
<1>3. told.bad = FALSE /\ DOMAIN told = DOMAIN cl
  BY <1>1 DEF Client
<1> HIDE DEF told
<1>5. v.bad = FALSE
  BY <1>1, <1>3 DEF Client
<1> HIDE DEF v
<1>7. q.client = v
  BY <1>1 DEF IsPipe
<1> HIDE DEF q
<1> QED
  BY <1>2, <1>5, <1>7

\* The upstream's body ends.
LEMMA EofLegal ==
  ASSUME IInv, Legal, Eof
  PROVE  Legal'
<1> DEFINE p == HandleAll(pipe, held)
           q == IF pipe.stream THEN Finish(p) ELSE Answered(p)
           failed == ~pipe.stream /\ AggFailed(Collected(p))
<1>1. InFlight /\ said' = said
  BY DEF Eof, InFlight
<1>2. failed => pc' = "over" /\ UNCHANGED <<turns, pipe>>
  BY DEF Eof
<1>3. ~failed => pipe' = q /\ Record(q)
  BY DEF Eof
<1>4. /\ Course(p, stopped) /\ Route(pipe, p) /\ stopped \in {"no", "stop", "fail"}
      /\ pipe.stream = TRUE => Fares(p, stopped, said)
  BY <1>1 DEF IInv, Flying, Legal, LegalSoFar, Fares
<1>5. OneBody(p) => stopped # "no"
  BY <1>4, RouteSame DEF Eof
<1>6. p.stream = pipe.stream /\ p.stream \in BOOLEAN
  BY <1>4 DEF Route, Course, OnWay, IsPipe
<1> HIDE DEF p
<1>7. Route(p, q) /\ q.client.bad = FALSE
  <2>1. CASE pipe.stream = TRUE
    <3>1. q = Finish(p) /\ p.stream
      BY <1>6, <2>1
    <3>2. Over(p, Finish(p), stopped)
      BY <1>4, <3>1, FinishedOver
    <3>3. Finish(p).client.bad = FALSE
      BY <1>4, <1>6, <2>1, FinishFine
    <3> QED
      BY <3>1, <3>2, <3>3 DEF Over
  <2>2. CASE pipe.stream = FALSE
    <3>1. q = Answered(p) /\ ~p.stream
      BY <1>6, <2>2
    <3>2. Over(p, Answered(p), stopped)
      BY <1>4, <1>5, <3>1, AnsweredOver DEF IInv
    <3>3. Answered(p).client.bad = FALSE
      BY <1>4, <1>6, <2>2, AnsweredFine
    <3> QED
      BY <3>1, <3>2, <3>3 DEF Over
  <2> QED
    BY <1>6, <2>1, <2>2
<1> HIDE DEF q
<1>8. CASE failed
  BY <1>1, <1>2, <1>8, PassedOnLegal
<1>9. CASE ~failed
  <2>1. pc' \in {"client", "over"}
    BY <1>3, <1>9 DEF Record
  <2>2. Listed(turns')
    <3>1. turns' = turns \/ \E x : turns' = Append(turns, x)
      BY <1>3, <1>9 DEF Record
    <3> QED
      BY <3>1, Appended DEF Legal
  <2>3. pipe' = q /\ Route(pipe, q)
    BY <1>3, <1>4, <1>7, <1>9 DEF Route
  <2>4. Sayings(pipe', said')
    BY <1>1, <2>3, SayingsKept DEF Legal
  <2> QED
    BY <1>7, <2>1, <2>2, <2>3, <2>4 DEF Legal, LegalSoFar, InFlight
<1> QED
  BY <1>8, <1>9

\* The connection breaks.
LEMMA CutLegal ==
  ASSUME IInv, Legal, Cut
  PROVE  Legal'
<1> DEFINE p == HandleAll(pipe, held)
           q == Finish(p)
<1>1. InFlight /\ said' = said /\ turns' = turns /\ pc' = "over"
  BY DEF Cut, InFlight
<1>2. IF pipe.stream THEN pipe' = q ELSE pipe' = pipe
  BY DEF Cut
<1>3. /\ Course(p, stopped) /\ Route(pipe, p)
      /\ pipe.stream = TRUE => Fares(p, stopped, said)
  BY <1>1 DEF IInv, Flying, Legal, LegalSoFar, Fares
<1>4. p.stream = pipe.stream /\ p.stream \in BOOLEAN
  BY <1>3 DEF Route, Course, OnWay, IsPipe
<1> HIDE DEF p
<1>5. CASE pipe.stream = TRUE
  <2>1. Over(p, q, stopped)
    BY <1>3, <1>4, <1>5, FinishedOver
  <2>2. q.client.bad = FALSE
    BY <1>3, <1>4, <1>5, FinishFine
  <2> HIDE DEF q
  <2>3. pipe' = q /\ Route(pipe, q)
    BY <1>2, <1>3, <1>5, <2>1 DEF Over, Route
  <2>4. Sayings(pipe', said')
    BY <1>1, <2>3, SayingsKept DEF Legal
  <2> QED
    BY <1>1, <2>2, <2>3, <2>4 DEF Legal, LegalSoFar, InFlight
<1>6. CASE pipe.stream = FALSE
  <2>1. pipe' = pipe
    BY <1>2, <1>6
  <2> QED
    BY <1>1, <2>1, PassedOnLegal
<1> QED
  BY <1>4, <1>5, <1>6

\* Every step keeps what the client has seen legal.
LEMMA NextIsLegal ==
  ASSUME IInv, Legal, "anthropic" \notin Overlap, [Next]_vars
  PROVE  Legal'
<1>1. ASSUME NEW u \in Protocols, NEW s \in BOOLEAN, Send(u, s)
      PROVE  Legal'
  BY <1>1, SendLegal
<1>2. CASE Ask
  BY <1>2, AskLegal
<1>3. ASSUME NEW kind \in Kinds, Open(kind)
      PROVE  Legal'
  BY <1>3, OpenLegal
<1>4. ASSUME NEW i \in DOMAIN said, Say(i) \/ Close(i) \/ CloseWhole(i)
      PROVE  Legal'
  BY <1>4, SayLegal, CloseLegal
<1>5. CASE Stop
  BY <1>5, StopLegal
<1>6. CASE Fail
  BY <1>6, FailLegal
<1>7. CASE NotSSE
  <2>1. pc' = "over" /\ UNCHANGED <<turns, pipe, said>>
    BY <1>7 DEF NotSSE
  <2> QED
    BY <2>1, PassedOnLegal
<1>8. CASE Eof
  BY <1>8, EofLegal
<1>9. CASE Cut
  BY <1>9, CutLegal
<1>10. CASE UNCHANGED vars
  BY <1>10 DEF vars, Legal, LegalSoFar, Sayings, InFlight
<1> QED
  BY <1>1, <1>2, <1>3, <1>4, <1>5, <1>6, <1>7, <1>8, <1>9, <1>10 DEF Next

\* Whatever the upstream says, in whatever order and however it ends, and whichever of
\* the bridges it goes through, a client never sees a stream that is not one of its
\* protocol: blocks that come one at a time and in order, stable output indexes, nothing
\* before the start or after the end, an output that repeats the items
\* (stream_bridge.go:209-331, 414-596).  A messages client has no way to tell parts apart
\* that overlap, so its upstream is one that says them one after the other.
THEOREM StreamsAreLegal ==
  ASSUME "anthropic" \notin Overlap
  PROVE  Spec => []LegalStream
<1>1. Init => Legal
  BY InitLegal
<1>2. IInv /\ Legal /\ [Next]_vars => Legal'
  BY NextIsLegal
<1>3. Legal => LegalStream
  BY DEF Legal, LegalSoFar, LegalStream
<1> QED
  BY <1>1, <1>2, <1>3, CallsOnCourse, PTL DEF Spec
==============================================================================
