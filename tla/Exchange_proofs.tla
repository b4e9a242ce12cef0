--------------------------- MODULE Exchange_proofs ---------------------------
(***************************************************************************)
(* Theorems about Exchange: how an answer ends for its client, what is     *)
(* billed, when another channel is tried, the tools that are sent, and     *)
(* that calls are answered.                                                *)
(*                                                                         *)
(* The argument has four parts.                                            *)
(*                                                                         *)
(* 1. Folds.  The handler, the emitters and the clients fold a step over a *)
(*    sequence.  A fold is the table its recursion fills in (Table); that  *)
(*    there is exactly one such table follows from the least element of a  *)
(*    set of numbers, and with it FoldNothing and FoldMore, which is all   *)
(*    that is used of a fold afterwards.                                   *)
(*                                                                         *)
(* 2. One event.  Each emitter, converter and reader keeps a count of ends *)
(*    (Emits, CodexAnswer, AnthropicAnswer, ReadOne); together they give   *)
(*    Handled: what the handler makes of one event, whichever of the nine  *)
(*    pairs of protocols it goes between.  FinishEnds is the same for the  *)
(*    end of a stream.                                                     *)
(*                                                                         *)
(* 3. The calls.  Course says where a call is, given how its upstream has  *)
(*    ended, and IInv that a call in flight is on its course once what is  *)
(*    held back has been handled, and that one that is over is settled.    *)
(*                                                                         *)
(* 4. The conversation.  Talks says that each turn of the client's history *)
(*    answers the calls of the turn before it; from that, turn by turn,    *)
(*    Asking says it of the messages the turns are taken apart into.       *)
(*                                                                         *)
(* The last sections go further into one event, for ExchangeLegal_proofs:  *)
(* what it does to the reader of each protocol, and that an emitter of     *)
(* Messages events and its client stay together.                           *)
(***************************************************************************)
EXTENDS Exchange, FiniteSetTheorems, WellFoundedInduction, TLAPS

(* Folds *)

\* The steps that are folded over sequences, each under a name; x is what a step
\* closes over.
DoneEvent(items, kind, i) ==
  [Event("done") EXCEPT !.index = i - 1, !.kind = kind, !.name = items[i].name,
                        !.data = items[i].data]

Done(x, q, i) == IF x[1][i].kind # x[2] THEN q ELSE Write(q, DoneEvent(x[1], x[2], i))

Applied(step, x, a, e) ==
  CASE step = "handle" -> Handle(a, e)
    [] step = "feed" -> FeedEntry(a, e)
    [] step = "read" -> Read(x, a, e)
    [] step = "call" -> ReadCall(a, e)
    [] step = "block" -> CallInBlock(a, e)
    [] step = "item" -> CallInItem(a, e)
    [] step = "done" -> Done(x, a, e)
    [] step = "select" -> IF e.kind \in CallKinds THEN Append(a, e) ELSE a
    [] step = "reject" -> IF e.item # x THEN Append(a, e) ELSE a
    [] step = "message" -> AddItemMessage(a, e)

\* g is the table MapThenFoldSet recurs through: what folding a subset of the first n
\* elements gives.
Table(step, x, base, s, n, g) ==
  g = [S \in SUBSET (1..n) |->
         IF S = {} THEN base ELSE Applied(step, x, g[S \ {Max(S)}], s[Max(S)])]

Fold(step, x, base, s) ==
  (CHOOSE g : Table(step, x, base, s, Len(s), g))[1..Len(s)]

\* A set of naturals has a least element: the one form of induction used here.
LEMMA Least ==
  ASSUME NEW T \in SUBSET Nat, T # {}
  PROVE  \E m \in T : \A k \in T : m <= k
  <1> DEFINE R == {y \in Nat \X Nat : y[1] < y[2]}
  <1>1. OpToRel(<, Nat) = R
    BY Zenon DEF OpToRel
  <1>2. IsWellFoundedOn(R, Nat)
    BY <1>1, NatLessThanWellFounded
  <1> HIDE DEF R
  <1>3. PICK m \in T : \A k \in T : ~(<<k, m>> \in R)
    BY <1>2, WFMin
  <1>4. ASSUME NEW k \in T PROVE m <= k
    <2>1. <<k, m>> \in Nat \X Nat
      OBVIOUS
    <2> QED
      BY <1>3, <2>1 DEF R
  <1> QED
    BY <1>4

\* Induction over the first n numbers, for a set.
LEMMA Climb ==
  ASSUME NEW n \in Nat, NEW I, 0 \in I, \A i \in 1..n : i - 1 \in I => i \in I
  PROVE  n \in I
  <1> DEFINE T == {k \in 0..n : k \notin I}
  <1> SUFFICES ASSUME T # {} PROVE FALSE
    OBVIOUS
  <1>1. T \in SUBSET Nat
    OBVIOUS
  <1>2. PICK m \in T : \A k \in T : m <= k
    BY <1>1, Least
  <1>3. m # 0 /\ m \in 1..n
    OBVIOUS
  <1>4. m - 1 \notin T /\ m - 1 \in 0..n
    BY <1>2, <1>3
  <1> QED
    BY <1>3, <1>4

\* The last element of the first n is the largest.
LEMMA MaxOf ==
  ASSUME NEW n \in Nat, NEW S \in SUBSET (1..n), n \in S
  PROVE  Max(S) = n
  <1> DEFINE P(m) == m \in S /\ \A y \in S : m >= y
  <1>1. P(n)
    OBVIOUS
  <1>2. \A y : P(y) => y = n
    BY \A y : P(y) => y >= n /\ y \in 1..n
  <1> QED
    BY <1>1, <1>2 DEF Max

\* The table of no elements.
LEMMA TableZero ==
  ASSUME NEW step, NEW x, NEW base, NEW s
  PROVE  \E g : Table(step, x, base, s, 0, g)
  <1> DEFINE g == [S \in SUBSET (1..0) |-> base]
  <1>1. \A S \in SUBSET (1..0) : S = {}
    OBVIOUS
  <1>2. g = [S \in SUBSET (1..0) |->
               IF S = {} THEN base ELSE Applied(step, x, g[S \ {Max(S)}], s[Max(S)])]
    BY <1>1
  <1> HIDE DEF g
  <1> QED
    BY <1>2 DEF Table

\* A table for one element more.
LEMMA TableNext ==
  ASSUME NEW step, NEW x, NEW base, NEW s, NEW n \in Nat,
         NEW g, Table(step, x, base, s, n, g)
  PROVE  \E h : Table(step, x, base, s, n + 1, h)
  <1> DEFINE h == [S \in SUBSET (1..(n + 1)) |->
                     IF n + 1 \in S THEN Applied(step, x, g[S \ {n + 1}], s[n + 1])
                     ELSE g[S]]
             Made(S) == IF S = {} THEN base
                        ELSE Applied(step, x, h[S \ {Max(S)}], s[Max(S)])
  <1>1. ASSUME NEW S \in SUBSET (1..(n + 1)) PROVE h[S] = Made(S)
    <2>1. CASE n + 1 \in S
      <3>1. Max(S) = n + 1
        BY <2>1, MaxOf
      <3>2. S \ {n + 1} \in SUBSET (1..(n + 1)) /\ n + 1 \notin S \ {n + 1}
        OBVIOUS
      <3>3. h[S \ {n + 1}] = g[S \ {n + 1}]
        BY <3>2
      <3> QED
        BY <2>1, <3>1, <3>3
    <2>2. CASE n + 1 \notin S
      <3>1. S \in SUBSET (1..n)
        BY <2>2
      <3>2. h[S] = g[S]
        BY <2>2
      <3>3. S \ {Max(S)} \in SUBSET (1..(n + 1)) /\ n + 1 \notin S \ {Max(S)}
        BY <2>2
      <3>4. h[S \ {Max(S)}] = g[S \ {Max(S)}]
        BY <3>3
      <3>5. g[S] = IF S = {} THEN base
                   ELSE Applied(step, x, g[S \ {Max(S)}], s[Max(S)])
        BY <3>1 DEF Table
      <3> QED
        BY <3>2, <3>4, <3>5
    <2> QED
      BY <2>1, <2>2
  <1>2. h = [S \in SUBSET (1..(n + 1)) |-> h[S]]
    OBVIOUS
  <1> HIDE DEF h
  <1>3. h = [S \in SUBSET (1..(n + 1)) |-> Made(S)]
    BY <1>1, <1>2, Zenon
  <1> QED
    BY <1>3 DEF Table

\* There is a table for any number of elements.
LEMMA TableExists ==
  ASSUME NEW step, NEW x, NEW base, NEW s, NEW n \in Nat
  PROVE  \E g : Table(step, x, base, s, n, g)
  <1> DEFINE I == {k \in Nat : \E g : Table(step, x, base, s, k, g)}
  <1>1. 0 \in I
    BY TableZero
  <1>2. ASSUME NEW i \in 1..n, i - 1 \in I PROVE i \in I
    <2>1. i - 1 \in Nat /\ (i - 1) + 1 = i
      OBVIOUS
    <2>2. PICK g : Table(step, x, base, s, i - 1, g)
      BY <1>2
    <2> QED
      BY <2>1, <2>2, TableNext
  <1> HIDE DEF I
  <1>3. n \in I
    BY <1>1, <1>2, Climb
  <1> QED
    BY <1>3 DEF I

\* Two tables agree as far as their sequences do.
LEMMA TablesAgree ==
  ASSUME NEW step, NEW x, NEW base, NEW s, NEW t, NEW n \in Nat, NEW m \in Nat,
         NEW l \in 0..n, l <= m, \A i \in 1..l : s[i] = t[i],
         NEW g, Table(step, x, base, s, n, g),
         NEW h, Table(step, x, base, t, m, h)
  PROVE  g[1..l] = h[1..l]
  <1> DEFINE I == {i \in 0..l : g[1..i] = h[1..i]}
  <1>1. 0 \in I
    <2>1. 1..0 = {} /\ {} \in SUBSET (1..n) /\ {} \in SUBSET (1..m)
      OBVIOUS
    <2>2. g[{}] = base /\ h[{}] = base
      BY <2>1 DEF Table
    <2> QED
      BY <2>1, <2>2
  <1>2. ASSUME NEW i \in 1..l, i - 1 \in I PROVE i \in I
    <2> DEFINE S == 1..i
    <2>1. S \in SUBSET (1..n) /\ S \in SUBSET (1..m) /\ S # {} /\ i \in S /\ i \in Nat
      OBVIOUS
    <2>2. Max(S) = i /\ S \ {i} = 1..(i - 1)
      BY <2>1, MaxOf
    <2> HIDE DEF S
    <2>3. /\ g[S] = Applied(step, x, g[S \ {Max(S)}], s[Max(S)])
          /\ h[S] = Applied(step, x, h[S \ {Max(S)}], t[Max(S)])
      BY <2>1 DEF Table
    <2>4. s[i] = t[i] /\ g[1..(i - 1)] = h[1..(i - 1)] /\ i \in 0..l
      BY <1>2
    <2>5. g[S] = h[S]
      BY <2>2, <2>3, <2>4
    <2> QED
      BY <2>4, <2>5 DEF S
  <1> HIDE DEF I
  <1>3. l \in I
    BY <1>1, <1>2, Climb
  <1> QED
    BY <1>3 DEF I

\* So any table gives the fold.
LEMMA FoldIs ==
  ASSUME NEW step, NEW x, NEW base, NEW s, Len(s) \in Nat,
         NEW g, Table(step, x, base, s, Len(s), g)
  PROVE  Fold(step, x, base, s) = g[1..Len(s)]
  <1> DEFINE h == CHOOSE f : Table(step, x, base, s, Len(s), f)
  <1>1. Table(step, x, base, s, Len(s), h)
    BY TableExists
  <1>2. Fold(step, x, base, s) = h[1..Len(s)]
    BY DEF Fold
  <1> HIDE DEF h
  <1>3. Len(s) \in 0..Len(s) /\ Len(s) <= Len(s) /\ \A i \in 1..Len(s) : s[i] = s[i]
    OBVIOUS
  <1>4. h[1..Len(s)] = g[1..Len(s)]
    BY <1>1, <1>3, TablesAgree
  <1> QED
    BY <1>2, <1>4

\* The law of a fold: nothing gives the base, one element more is one step more.
LEMMA FoldNothing ==
  ASSUME NEW step, NEW x, NEW base
  PROVE  Fold(step, x, base, <<>>) = base
  <1>1. PICK g : Table(step, x, base, <<>>, 0, g)
    BY TableExists
  <1>2. 1..0 = {} /\ {} \in SUBSET (1..0) /\ Len(<<>>) = 0
    OBVIOUS
  <1>3. g[{}] = base
    BY <1>1, <1>2 DEF Table
  <1> QED
    BY <1>1, <1>2, <1>3, FoldIs

\* One element more is one step more.
LEMMA FoldMore ==
  ASSUME NEW step, NEW x, NEW base, NEW X, NEW s \in Seq(X), NEW e
  PROVE  Fold(step, x, base, Append(s, e))
           = Applied(step, x, Fold(step, x, base, s), e)
  <1> DEFINE n == Len(s)
             t == Append(s, e)
  <1>1. /\ n \in Nat /\ n + 1 \in Nat /\ n \in 0..n /\ n <= n + 1
        /\ Len(t) = n + 1 /\ t[n + 1] = e /\ \A i \in 1..n : s[i] = t[i]
    <2>1. s \in Seq(X \cup {e}) /\ e \in X \cup {e}
      OBVIOUS
    <2> QED
      BY <2>1
  <1> HIDE DEF n, t
  <1>2. PICK g : Table(step, x, base, s, n, g)
    BY <1>1, TableExists
  <1>3. PICK h : Table(step, x, base, t, n + 1, h)
    BY <1>1, TableExists
  <1>4. g[1..n] = h[1..n]
    <2> DEFINE m == n + 1
    <2>1. m \in Nat /\ n <= m
      BY <1>1
    <2> HIDE DEF m
    <2>2. Table(step, x, base, t, m, h)
      BY <1>3 DEF m
    <2> QED
      <3>1. n \in Nat /\ n \in 0..n
        BY <1>1
      <3>2. \A i \in 1..n : s[i] = t[i]
        BY <1>1
      <3> QED
        BY <3>1, <3>2, <1>2, <2>1, <2>2, TablesAgree
  <1>5. 1..(n + 1) \in SUBSET (1..(n + 1)) /\ 1..(n + 1) # {} /\ n + 1 \in 1..(n + 1)
        /\ (1..(n + 1)) \ {n + 1} = 1..n
    BY <1>1
  <1>6. Max(1..(n + 1)) = n + 1
    BY <1>1, <1>5, MaxOf
  <1>7. h[1..(n + 1)] = Applied(step, x, h[1..n], e)
    BY <1>1, <1>3, <1>5, <1>6 DEF Table
  <1>8. Fold(step, x, base, s) = g[1..n]
    BY <1>1, <1>2, FoldIs DEF n
  <1>9. Fold(step, x, base, t) = h[1..(n + 1)]
    BY <1>1, <1>3, FoldIs
  <1> QED
    BY <1>4, <1>7, <1>8, <1>9 DEF t

\* What a fold has made of the first i elements.
Run(step, x, base, s, v) ==
  /\ v[0] = base
  /\ v[Len(s)] = Fold(step, x, base, s)
  /\ \A i \in 1..Len(s) : v[i] = Applied(step, x, v[i - 1], s[i])

\* A fold has its intermediate results, as a function of how many elements are read.
LEMMA Runs ==
  ASSUME NEW step, NEW x, NEW base, NEW X, NEW s \in Seq(X)
  PROVE  \E v : Run(step, x, base, s, v)
  <1> DEFINE n == Len(s)
  <1>1. n \in Nat
    OBVIOUS
  <1> HIDE DEF n
  <1>2. PICK g : Table(step, x, base, s, n, g)
    BY <1>1, TableExists
  <1> DEFINE v == [i \in 0..n |-> g[1..i]]
  <1>3. v[0] = base
    <2>1. 1..0 = {} /\ {} \in SUBSET (1..n)
      OBVIOUS
    <2>2. g[{}] = base
      BY <1>2, <2>1 DEF Table
    <2>3. 0 \in 0..n
      BY <1>1
    <2> QED
      BY <2>1, <2>2, <2>3
  <1>4. v[n] = Fold(step, x, base, s)
    <2>1. n \in 0..n
      BY <1>1
    <2>2. Fold(step, x, base, s) = g[1..n]
      BY <1>1, <1>2, FoldIs DEF n
    <2> QED
      BY <2>1, <2>2
  <1>5. ASSUME NEW i \in 1..n PROVE v[i] = Applied(step, x, v[i - 1], s[i])
    <2> DEFINE S == 1..i
    <2>1. i \in Nat /\ 1 <= i /\ i <= n /\ i \in 0..n /\ i - 1 \in 0..n
      BY <1>1
    <2>2. S \in SUBSET (1..n) /\ S # {} /\ i \in S
      BY <1>1, <2>1
    <2>3. Max(S) = i /\ S \ {i} = 1..(i - 1)
      BY <2>1, <2>2, MaxOf
    <2> HIDE DEF S
    <2>4. g[S] = Applied(step, x, g[S \ {Max(S)}], s[Max(S)])
      BY <1>2, <2>2 DEF Table
    <2>5. v[i] = g[S] /\ v[i - 1] = g[1..(i - 1)]
      BY <2>1 DEF S
    <2> QED
      BY <2>3, <2>4, <2>5
  <1> HIDE DEF v
  <1> QED
    BY <1>3, <1>4, <1>5 DEF n, Run

\* The folds of the model are such folds: the handler over events,
LEMMA HandleFold ==
  ASSUME NEW p, NEW X, NEW s \in Seq(X)
  PROVE  HandleAll(p, s) = Fold("handle", 0, p, s)
  <1> DEFINE F(g) == g = [S \in SUBSET (DOMAIN s) |->
                            IF S = {} THEN p
                            ELSE LET m == Max(S) IN Handle(g[S \ {m}], s[m])]
             h == CHOOSE g : F(g)
  <1>1. Len(s) \in Nat /\ DOMAIN s = 1..Len(s)
    OBVIOUS
  <1>2. HandleAll(p, s) = h[DOMAIN s]
    BY Zenon DEF HandleAll, FoldLeft, MapThenFoldSet
  <1>3. \A a, e : Applied("handle", 0, a, e) = Handle(a, e)
    BY DEF Applied
  <1>4. \A g : Table("handle", 0, p, s, Len(s), g) <=> F(g)
    BY <1>1, <1>3, Zenon DEF Table
  <1>5. F(h)
    BY <1>1, <1>4, TableExists
  <1>6. Table("handle", 0, p, s, Len(s), h)
    BY <1>4, <1>5
  <1> HIDE DEF h
  <1>7. Fold("handle", 0, p, s) = h[1..Len(s)]
    BY <1>1, <1>6, FoldIs
  <1> QED
    BY <1>1, <1>2, <1>7

\* the entry's emitter over chunks,
LEMMA FeedFold ==
  ASSUME NEW p, NEW X, NEW s \in Seq(X)
  PROVE  FoldLeft(FeedEntry, p, s) = Fold("feed", 0, p, s)
  <1> DEFINE F(g) == g = [S \in SUBSET (DOMAIN s) |->
                            IF S = {} THEN p
                            ELSE LET m == Max(S) IN FeedEntry(g[S \ {m}], s[m])]
             h == CHOOSE g : F(g)
  <1>1. Len(s) \in Nat /\ DOMAIN s = 1..Len(s)
    OBVIOUS
  <1>2. FoldLeft(FeedEntry, p, s) = h[DOMAIN s]
    BY Zenon DEF  FoldLeft, MapThenFoldSet
  <1>3. \A a, e : Applied("feed", 0, a, e) = FeedEntry(a, e)
    BY DEF Applied
  <1>4. \A g : Table("feed", 0, p, s, Len(s), g) <=> F(g)
    BY <1>1, <1>3, Zenon DEF Table
  <1>5. F(h)
    BY <1>1, <1>4, TableExists
  <1>6. Table("feed", 0, p, s, Len(s), h)
    BY <1>4, <1>5
  <1> HIDE DEF h
  <1>7. Fold("feed", 0, p, s) = h[1..Len(s)]
    BY <1>1, <1>6, FoldIs
  <1> QED
    BY <1>1, <1>2, <1>7

\* a chat client over the calls of a chunk,
LEMMA CallFold ==
  ASSUME NEW cl, NEW X, NEW s \in Seq(X)
  PROVE  FoldLeft(ReadCall, cl, s) = Fold("call", 0, cl, s)
  <1> DEFINE F(g) == g = [S \in SUBSET (DOMAIN s) |->
                            IF S = {} THEN cl
                            ELSE LET m == Max(S) IN ReadCall(g[S \ {m}], s[m])]
             h == CHOOSE g : F(g)
  <1>1. Len(s) \in Nat /\ DOMAIN s = 1..Len(s)
    OBVIOUS
  <1>2. FoldLeft(ReadCall, cl, s) = h[DOMAIN s]
    BY Zenon DEF  FoldLeft, MapThenFoldSet
  <1>3. \A a, e : Applied("call", 0, a, e) = ReadCall(a, e)
    BY DEF Applied
  <1>4. \A g : Table("call", 0, cl, s, Len(s), g) <=> F(g)
    BY <1>1, <1>3, Zenon DEF Table
  <1>5. F(h)
    BY <1>1, <1>4, TableExists
  <1>6. Table("call", 0, cl, s, Len(s), h)
    BY <1>4, <1>5
  <1> HIDE DEF h
  <1>7. Fold("call", 0, cl, s) = h[1..Len(s)]
    BY <1>1, <1>6, FoldIs
  <1> QED
    BY <1>1, <1>2, <1>7

\* the messages emitter over the calls of a chunk,
LEMMA BlockFold ==
  ASSUME NEW r, NEW X, NEW s \in Seq(X)
  PROVE  FoldLeft(CallInBlock, r, s) = Fold("block", 0, r, s)
  <1> DEFINE F(g) == g = [S \in SUBSET (DOMAIN s) |->
                            IF S = {} THEN r
                            ELSE LET m == Max(S) IN CallInBlock(g[S \ {m}], s[m])]
             h == CHOOSE g : F(g)
  <1>1. Len(s) \in Nat /\ DOMAIN s = 1..Len(s)
    OBVIOUS
  <1>2. FoldLeft(CallInBlock, r, s) = h[DOMAIN s]
    BY Zenon DEF  FoldLeft, MapThenFoldSet
  <1>3. \A a, e : Applied("block", 0, a, e) = CallInBlock(a, e)
    BY DEF Applied
  <1>4. \A g : Table("block", 0, r, s, Len(s), g) <=> F(g)
    BY <1>1, <1>3, Zenon DEF Table
  <1>5. F(h)
    BY <1>1, <1>4, TableExists
  <1>6. Table("block", 0, r, s, Len(s), h)
    BY <1>4, <1>5
  <1> HIDE DEF h
  <1>7. Fold("block", 0, r, s) = h[1..Len(s)]
    BY <1>1, <1>6, FoldIs
  <1> QED
    BY <1>1, <1>2, <1>7

\* the Responses emitter over the calls of a chunk,
LEMMA ItemFold ==
  ASSUME NEW r, NEW X, NEW s \in Seq(X)
  PROVE  FoldLeft(CallInItem, r, s) = Fold("item", 0, r, s)
  <1> DEFINE F(g) == g = [S \in SUBSET (DOMAIN s) |->
                            IF S = {} THEN r
                            ELSE LET m == Max(S) IN CallInItem(g[S \ {m}], s[m])]
             h == CHOOSE g : F(g)
  <1>1. Len(s) \in Nat /\ DOMAIN s = 1..Len(s)
    OBVIOUS
  <1>2. FoldLeft(CallInItem, r, s) = h[DOMAIN s]
    BY Zenon DEF  FoldLeft, MapThenFoldSet
  <1>3. \A a, e : Applied("item", 0, a, e) = CallInItem(a, e)
    BY DEF Applied
  <1>4. \A g : Table("item", 0, r, s, Len(s), g) <=> F(g)
    BY <1>1, <1>3, Zenon DEF Table
  <1>5. F(h)
    BY <1>1, <1>4, TableExists
  <1>6. Table("item", 0, r, s, Len(s), h)
    BY <1>4, <1>5
  <1> HIDE DEF h
  <1>7. Fold("item", 0, r, s) = h[1..Len(s)]
    BY <1>1, <1>6, FoldIs
  <1> QED
    BY <1>1, <1>2, <1>7

\* a client over what is written to it,
LEMMA ReadFold ==
  ASSUME NEW en, NEW cl, NEW X, NEW s \in Seq(X)
  PROVE  ReadAll(en, cl, s) = Fold("read", en, cl, s)
  <1> DEFINE F(g) == g = [S \in SUBSET (DOMAIN s) |->
                            IF S = {} THEN cl
                            ELSE LET m == Max(S) IN Read(en, g[S \ {m}], s[m])]
             h == CHOOSE g : F(g)
  <1>1. Len(s) \in Nat /\ DOMAIN s = 1..Len(s)
    OBVIOUS
  <1>2. ReadAll(en, cl, s) = h[DOMAIN s]
    BY Zenon DEF ReadAll, FoldLeft, MapThenFoldSet
  <1>3. \A a, e : Applied("read", en, a, e) = Read(en, a, e)
    BY DEF Applied
  <1>4. \A g : Table("read", en, cl, s, Len(s), g) <=> F(g)
    BY <1>1, <1>3, Zenon DEF Table
  <1>5. F(h)
    BY <1>1, <1>4, TableExists
  <1>6. Table("read", en, cl, s, Len(s), h)
    BY <1>4, <1>5
  <1> HIDE DEF h
  <1>7. Fold("read", en, cl, s) = h[1..Len(s)]
    BY <1>1, <1>6, FoldIs
  <1> QED
    BY <1>1, <1>2, <1>7

\* the Responses emitter over the items it ends,
LEMMA DoneFold ==
  ASSUME NEW r, NEW items, NEW kind, NEW X, [i \in DOMAIN items |-> i] \in Seq(X)
  PROVE  ItemsDone(r, items, kind)
           = Fold("done", <<items, kind>>, r, [i \in DOMAIN items |-> i])
  <1> DEFINE s == [i \in DOMAIN items |-> i]
             x == <<items, kind>>
             D(q, i) == IF items[i].kind # kind THEN q ELSE Write(q, DoneEvent(items, kind, i))
             F(g) == g = [S \in SUBSET (DOMAIN s) |->
                            IF S = {} THEN r ELSE LET m == Max(S) IN D(g[S \ {m}], s[m])]
             h == CHOOSE g : F(g)
  <1>1. Len(s) \in Nat /\ DOMAIN s = 1..Len(s)
    OBVIOUS
  <1>2. ItemsDone(r, items, kind) = h[DOMAIN s]
    BY Zenon DEF ItemsDone, FoldLeft, MapThenFoldSet, DoneEvent
  <1>3. \A a, e : Applied("done", x, a, e) = D(a, e)
    BY DEF Applied, Done
  <1> HIDE DEF s, D, x
  <1>4. \A g : Table("done", x, r, s, Len(s), g) <=> F(g)
    BY <1>1, <1>3, Zenon DEF Table
  <1>5. F(h)
    BY <1>1, <1>4, TableExists
  <1>6. Table("done", x, r, s, Len(s), h)
    BY <1>4, <1>5
  <1> HIDE DEF h
  <1>7. Fold("done", x, r, s) = h[1..Len(s)]
    BY <1>1, <1>6, FoldIs
  <1> QED
    BY <1>1, <1>2, <1>7 DEF s, x

\* the calls among parts,
LEMMA CallsFold ==
  ASSUME NEW X, NEW s \in Seq(X)
  PROVE  Calls(s) = Fold("select", 0, <<>>, s)
  <1> DEFINE A(a, e) == IF e.kind \in CallKinds THEN Append(a, e) ELSE a
             F(g) == g = [S \in SUBSET (DOMAIN s) |->
                            IF S = {} THEN <<>> ELSE LET m == Max(S) IN A(g[S \ {m}], s[m])]
             h == CHOOSE g : F(g)
  <1>1. Len(s) \in Nat /\ DOMAIN s = 1..Len(s)
    OBVIOUS
  <1>2. Calls(s) = h[DOMAIN s]
    BY Zenon DEF Calls, Selected, FoldLeft, MapThenFoldSet
  <1>3. \A a, e : Applied("select", 0, a, e) = A(a, e)
    BY DEF Applied
  <1> HIDE DEF A
  <1>4. \A g : Table("select", 0, <<>>, s, Len(s), g) <=> F(g)
    BY <1>1, <1>3, Zenon DEF Table
  <1>5. F(h)
    BY <1>1, <1>4, TableExists
  <1>6. Table("select", 0, <<>>, s, Len(s), h)
    BY <1>4, <1>5
  <1> HIDE DEF h
  <1>7. Fold("select", 0, <<>>, s) = h[1..Len(s)]
    BY <1>1, <1>6, FoldIs
  <1> QED
    BY <1>1, <1>2, <1>7

\* the pending calls of other items,
LEMMA OthersFold ==
  ASSUME NEW item, NEW agg, NEW X, agg.pending \in Seq(X)
  PROVE  Unclaimed(agg, item) = Fold("reject", item, <<>>, agg.pending)
  <1> DEFINE s == agg.pending
             A(a, e) == IF e.item # item THEN Append(a, e) ELSE a
             F(g) == g = [S \in SUBSET (DOMAIN s) |->
                            IF S = {} THEN <<>> ELSE LET m == Max(S) IN A(g[S \ {m}], s[m])]
             h == CHOOSE g : F(g)
  <1>1. Len(s) \in Nat /\ DOMAIN s = 1..Len(s)
    OBVIOUS
  <1>2. Unclaimed(agg, item) = h[DOMAIN s]
    BY Zenon DEF Unclaimed, Selected, FoldLeft, MapThenFoldSet
  <1>3. \A a, e : Applied("reject", item, a, e) = A(a, e)
    BY DEF Applied
  <1> HIDE DEF A, s
  <1>4. \A g : Table("reject", item, <<>>, s, Len(s), g) <=> F(g)
    BY <1>1, <1>3, Zenon DEF Table
  <1>5. F(h)
    BY <1>1, <1>4, TableExists
  <1>6. Table("reject", item, <<>>, s, Len(s), h)
    BY <1>4, <1>5
  <1> HIDE DEF h
  <1>7. Fold("reject", item, <<>>, s) = h[1..Len(s)]
    BY <1>1, <1>6, FoldIs
  <1> QED
    BY <1>1, <1>2, <1>7 DEF s

\* and the messages of a Responses client's items.
LEMMA MessageFold ==
  ASSUME NEW X, NEW s \in Seq(X)
  PROVE  ResponsesToPivot(s) = Fold("message", 0, <<>>, s)
  <1> DEFINE A(a, e) == AddItemMessage(a, e)
             F(g) == g = [S \in SUBSET (DOMAIN s) |->
                            IF S = {} THEN <<>> ELSE LET m == Max(S) IN A(g[S \ {m}], s[m])]
             h == CHOOSE g : F(g)
  <1>1. Len(s) \in Nat /\ DOMAIN s = 1..Len(s)
    OBVIOUS
  <1>2. ResponsesToPivot(s) = h[DOMAIN s]
    BY Zenon DEF ResponsesToPivot, FoldLeft, MapThenFoldSet
  <1>3. \A a, e : Applied("message", 0, a, e) = A(a, e)
    BY DEF Applied
  <1> HIDE DEF A
  <1>4. \A g : Table("message", 0, <<>>, s, Len(s), g) <=> F(g)
    BY <1>1, <1>3, Zenon DEF Table
  <1>5. F(h)
    BY <1>1, <1>4, TableExists
  <1>6. Table("message", 0, <<>>, s, Len(s), h)
    BY <1>4, <1>5
  <1> HIDE DEF h
  <1>7. Fold("message", 0, <<>>, s) = h[1..Len(s)]
    BY <1>1, <1>6, FoldIs
  <1> QED
    BY <1>1, <1>2, <1>7

\* Sequences whose elements are of no matter.
Listed(s) == \E X : s \in Seq(X)

\* What the provers need to know of a sequence.
LEMMA ListedIs ==
  /\ Listed(<<>>)
  /\ \A e : Listed(<<e>>) /\ Len(<<e>>) = 1 /\ <<e>>[1] = e /\ <<e>> = Append(<<>>, e)
  /\ \A s : Listed(s) => /\ Len(s) \in Nat /\ DOMAIN s = 1..Len(s)
                         /\ s # <<>> => 1 \in DOMAIN s
  <1>1. <<>> \in Seq({})
    OBVIOUS
  <1>2. ASSUME NEW e
        PROVE  /\ <<e>> \in Seq({e}) /\ Len(<<e>>) = 1 /\ <<e>>[1] = e
               /\ <<e>> = Append(<<>>, e)
    OBVIOUS
  <1>3. ASSUME NEW s, Listed(s)
        PROVE  Len(s) \in Nat /\ DOMAIN s = 1..Len(s) /\ (s # <<>> => 1 \in DOMAIN s)
    <2>1. PICK X : s \in Seq(X)
      BY <1>3 DEF Listed
    <2> QED
      BY <2>1
  <1> QED
    BY <1>1, <1>2, <1>3 DEF Listed

\* A sequence and one element more.
LEMMA Appended ==
  ASSUME NEW s, Listed(s), NEW e
  PROVE  /\ Listed(Append(s, e))
         /\ Len(Append(s, e)) = Len(s) + 1
         /\ \A i \in DOMAIN Append(s, e) : Append(s, e)[i] = e \/ (i \in DOMAIN s /\ Append(s, e)[i] = s[i])
         /\ \A i \in DOMAIN s : i \in DOMAIN Append(s, e) /\ Append(s, e)[i] = s[i]
         /\ Append(s, e)[Len(s) + 1] = e
         /\ Append(s, e) # <<>>
  <1>1. PICK X : s \in Seq(X)
    BY DEF Listed
  <1>2. s \in Seq(X \cup {e}) /\ e \in X \cup {e}
    BY <1>1
  <1>3. Append(s, e) \in Seq(X \cup {e})
    BY <1>2
  <1> QED
    BY <1>2, <1>3 DEF Listed

\* A sequence with an element changed.
LEMMA ListedChanged ==
  ASSUME NEW s, Listed(s), NEW i, NEW x
  PROVE  Listed([s EXCEPT ![i] = x])
  <1>1. PICK X : s \in Seq(X)
    BY DEF Listed
  <1> DEFINE Y == X \cup {x}
             n == Len(s)
             t == [s EXCEPT ![i] = x]
  <1>2. n \in Nat /\ s \in [1..n -> Y]
    BY <1>1
  <1> HIDE DEF Y, n
  <1>3. x \in Y
    BY DEF Y
  <1>4. t \in [1..n -> Y]
    BY <1>2, <1>3
  <1> HIDE DEF t
  <1>5. t \in Seq(Y)
    BY <1>2, <1>4
  <1>6. Listed(t)
    BY <1>5 DEF Listed
  <1> QED
    BY <1>6 DEF t

\* Sequences joined are a sequence.
LEMMA ListedJoined ==
  ASSUME NEW s, Listed(s), NEW t, Listed(t)
  PROVE  Listed(s \o t)
  <1>1. PICK X : s \in Seq(X)
    BY DEF Listed
  <1>2. PICK Y : t \in Seq(Y)
    BY DEF Listed
  <1>3. s \in Seq(X \cup Y) /\ t \in Seq(X \cup Y)
    BY <1>1, <1>2
  <1>4. s \o t \in Seq(X \cup Y)
    BY <1>3
  <1> QED
    BY <1>4 DEF Listed

\* A sequence with each element made into another.
LEMMA ListedMapped ==
  ASSUME NEW s, Listed(s), NEW t, t = [i \in DOMAIN s |-> t[i]]
  PROVE  Listed(t) /\ Len(t) = Len(s) /\ DOMAIN t = DOMAIN s
  <1> DEFINE n == Len(s)
             Y == {t[i] : i \in DOMAIN s}
  <1>1. n \in Nat /\ DOMAIN s = 1..n
    BY ListedIs
  <1>2. \A i \in DOMAIN s : t[i] \in Y
    OBVIOUS
  <1> HIDE DEF n, Y
  <1>3. t \in [1..n -> Y]
    BY <1>1, <1>2
  <1>4. t \in Seq(Y) /\ Len(t) = n /\ DOMAIN t = DOMAIN s
    BY <1>1, <1>3
  <1> QED
    BY <1>4 DEF Listed, n

\* What is selected from a sequence is a sequence, one step at a time.
LEMMA SelectedListed ==
  ASSUME NEW step \in {"select", "reject"}, NEW x, NEW X, NEW s \in Seq(X)
  PROVE  Listed(Fold(step, x, <<>>, s))
  <1> DEFINE n == Len(s)
  <1>1. PICK v : Run(step, x, <<>>, s, v)
    BY Runs
  <1>2. /\ n \in Nat
        /\ v[0] = <<>> /\ v[n] = Fold(step, x, <<>>, s)
        /\ \A i \in 1..n : v[i] = Applied(step, x, v[i - 1], s[i])
    BY <1>1 DEF Run
  <1> HIDE DEF n
  <1> DEFINE I == {i \in 0..n : Listed(v[i])}
  <1>3. 0 \in I
    BY <1>2, ListedIs
  <1>4. ASSUME NEW i \in 1..n, i - 1 \in I PROVE i \in I
    <2>1. v[i] = v[i - 1] \/ v[i] = Append(v[i - 1], s[i])
      BY <1>2 DEF Applied
    <2> DEFINE u == v[i - 1]
               e == s[i]
    <2>3. Listed(u)
      BY <1>4
    <2> HIDE DEF u, e
    <2>4. Listed(Append(u, e))
      BY <2>3, Appended
    <2>2. Listed(v[i])
      BY <2>1, <2>3, <2>4 DEF u, e
    <2> QED
      BY <2>2
  <1> HIDE DEF I
  <1>5. n \in I
    BY <1>2, <1>3, <1>4, Climb
  <1> QED
    BY <1>2, <1>5 DEF I

\* So are the calls among parts, and the pending calls of other items.
LEMMA CallsListed ==
  ASSUME NEW s, Listed(s)
  PROVE  Listed(Calls(s))
  <1>1. PICK X : s \in Seq(X)
    BY DEF Listed
  <1> QED
    BY <1>1, CallsFold, SelectedListed

\* The pending calls of other items.
LEMMA OthersListed ==
  ASSUME NEW agg, Listed(agg.pending), NEW item
  PROVE  Listed(Unclaimed(agg, item))
  <1>1. PICK X : agg.pending \in Seq(X)
    BY DEF Listed
  <1> QED
    BY <1>1, OthersFold, SelectedListed

\* One event more is one call of the handler more,
LEMMA HandleMore ==
  ASSUME NEW p, NEW s, Listed(s), NEW e
  PROVE  HandleAll(p, Append(s, e)) = Handle(HandleAll(p, s), e)
  <1>1. PICK X : s \in Seq(X)
    BY DEF Listed
  <1>2. PICK Y : Append(s, e) \in Seq(Y)
    BY Appended DEF Listed
  <1>3. HandleAll(p, Append(s, e)) = Fold("handle", 0, p, Append(s, e))
    BY <1>2, HandleFold
  <1>4. HandleAll(p, s) = Fold("handle", 0, p, s)
    BY <1>1, HandleFold
  <1>5. Fold("handle", 0, p, Append(s, e)) = Applied("handle", 0, Fold("handle", 0, p, s), e)
    BY <1>1, FoldMore
  <1> QED
    BY <1>3, <1>4, <1>5 DEF Applied

\* no event none, one event one,
LEMMA HandleLaw ==
  ASSUME NEW p
  PROVE  /\ HandleAll(p, <<>>) = p
         /\ \A e : HandleAll(p, <<e>>) = Handle(p, e)
  <1>1. HandleAll(p, <<>>) = p
    <2>1. <<>> \in Seq({})
      OBVIOUS
    <2>2. HandleAll(p, <<>>) = Fold("handle", 0, p, <<>>)
      BY <2>1, HandleFold
    <2> QED
      BY <2>2, FoldNothing
  <1>2. ASSUME NEW e PROVE HandleAll(p, <<e>>) = Handle(p, e)
    <2> DEFINE z == <<>>
    <2>1. Listed(z) /\ HandleAll(p, z) = p /\ <<e>> = Append(z, e)
      BY <1>1, ListedIs
    <2> HIDE DEF z
    <2>2. HandleAll(p, Append(z, e)) = Handle(HandleAll(p, z), e)
      BY <2>1, HandleMore
    <2> QED
      BY <2>1, <2>2
  <1> QED
    BY <1>1, <1>2

\* and so on for the events of one action.
LEMMA HandleLists ==
  ASSUME NEW p
  PROVE  /\ \A a, b : HandleAll(p, <<a, b>>) = Handle(Handle(p, a), b)
         /\ \A a, b, c : HandleAll(p, <<a, b, c>>) = Handle(Handle(Handle(p, a), b), c)
  <1>1. ASSUME NEW a, NEW b PROVE HandleAll(p, <<a, b>>) = Handle(Handle(p, a), b)
    <2> DEFINE t == <<a>>
    <2>1. <<a, b>> = Append(t, b)
      OBVIOUS
    <2>2. Listed(t) /\ HandleAll(p, t) = Handle(p, a)
      BY HandleLaw, ListedIs
    <2> HIDE DEF t
    <2>3. HandleAll(p, Append(t, b)) = Handle(HandleAll(p, t), b)
      BY <2>2, HandleMore
    <2> QED
      BY <2>1, <2>2, <2>3
  <1>2. ASSUME NEW a, NEW b, NEW c
        PROVE  HandleAll(p, <<a, b, c>>) = Handle(Handle(Handle(p, a), b), c)
    <2> DEFINE t == <<a, b>>
    <2>1. <<a, b, c>> = Append(t, c) /\ t \in Seq({a, b})
      OBVIOUS
    <2>2. Listed(t) /\ HandleAll(p, t) = Handle(Handle(p, a), b)
      BY <1>1, <2>1 DEF Listed
    <2> HIDE DEF t
    <2>3. HandleAll(p, Append(t, c)) = Handle(HandleAll(p, t), c)
      BY <2>2, HandleMore
    <2> QED
      BY <2>1, <2>2, <2>3
  <1> QED
    BY <1>1, <1>2

\* The same for chunks.
LEMMA FeedLaw ==
  ASSUME NEW p
  PROVE  /\ FoldLeft(FeedEntry, p, <<>>) = p
         /\ \A c : FoldLeft(FeedEntry, p, <<c>>) = FeedEntry(p, c)
  <1>1. FoldLeft(FeedEntry, p, <<>>) = p
    <2>1. <<>> \in Seq({})
      OBVIOUS
    <2>2. FoldLeft(FeedEntry, p, <<>>) = Fold("feed", 0, p, <<>>)
      BY <2>1, FeedFold
    <2> QED
      BY <2>2, FoldNothing
  <1>2. ASSUME NEW c PROVE FoldLeft(FeedEntry, p, <<c>>) = FeedEntry(p, c)
    <2>1. <<>> \in Seq({}) /\ <<c>> \in Seq({c}) /\ <<c>> = Append(<<>>, c)
      OBVIOUS
    <2>2. FoldLeft(FeedEntry, p, <<c>>) = Fold("feed", 0, p, <<c>>)
      BY <2>1, FeedFold
    <2> DEFINE z == <<>>
    <2>3. z \in Seq({})
      BY <2>1
    <2> HIDE DEF z
    <2>4. Fold("feed", 0, p, Append(z, c)) = Applied("feed", 0, Fold("feed", 0, p, z), c)
      BY <2>3, FoldMore
    <2>5. Fold("feed", 0, p, <<>>) = p
      BY FoldNothing
    <2> QED
      BY <2>1, <2>2, <2>4, <2>5 DEF Applied, z
  <1> QED
    BY <1>1, <1>2

------------------------------------------------------------------------------
(* The client: what a reader makes of an event, as far as ends are concerned *)

Client(cl) ==
  /\ cl = [parts |-> cl.parts, open |-> cl.open, started |-> cl.started,
           finish |-> cl.finish, ended |-> cl.ended, bad |-> cl.bad]
  /\ cl.ended \in Nat /\ Listed(cl.parts)

Terminal(en, e) ==
  \/ e = DoneMark
  \/ en = "anthropic" /\ e.type \in {"message_stop", "error"}
  \/ en = "responses" /\ e.type \in {"completed", "failed"}

IsEvent(e) ==
  e = [type |-> e.type, index |-> e.index, kind |-> e.kind, name |-> e.name, data |-> e.data,
       output |-> e.output, finish |-> e.finish, usage |-> e.usage]

\* Events a client of the protocol knows.
Known(en, e) ==
  \/ e = DoneMark
  \/ en = "openai" /\ e.type = "chunk" /\ Listed(e.calls)
  \/ /\ en = "anthropic"
     /\ e.type \in {"message_start", "block_start", "block_delta", "block_stop",
                    "message_delta", "message_stop", "error"}
  \/ /\ en = "responses"
     /\ e.type \in {"created", "added", "delta", "done", "completed", "failed"}
     /\ IsEvent(e)

Same(cl, d) == Client(d) /\ d.ended = cl.ended

\* What a client puts together does not touch the ends it has counted.
LEMMA ClientFields ==
  ASSUME NEW cl, Client(cl), NEW v
  PROVE  /\ Listed(v) => Same(cl, [cl EXCEPT !.parts = v])
         /\ Same(cl, [cl EXCEPT !.open = v])
         /\ Same(cl, [cl EXCEPT !.started = v])
         /\ Same(cl, [cl EXCEPT !.finish = v])
         /\ Same(cl, Complain(cl, v))
         /\ Same(cl, cl)
  BY DEF Client, Same, Complain

\* Two fields at a time.
LEMMA ClientPairs ==
  ASSUME NEW cl, Client(cl), NEW v, NEW w
  PROVE  /\ Listed(v) => Same(cl, [cl EXCEPT !.parts = v, !.open = w])
         /\ Same(cl, [cl EXCEPT !.started = v, !.finish = w])
  <1> DEFINE d == [cl EXCEPT !.parts = v]
             f == [cl EXCEPT !.started = v]
  <1>1. (Listed(v) => Same(cl, d)) /\ Same(cl, f)
    BY ClientFields
  <1>2. [cl EXCEPT !.parts = v, !.open = w] = [d EXCEPT !.open = w]
    OBVIOUS
  <1>3. [cl EXCEPT !.started = v, !.finish = w] = [f EXCEPT !.finish = w]
    OBVIOUS
  <1> HIDE DEF d, f
  <1>4. Listed(v) => Same(d, [d EXCEPT !.open = w])
    BY <1>1, ClientFields DEF Same
  <1>5. Same(f, [f EXCEPT !.finish = w])
    BY <1>1, ClientFields DEF Same
  <1> QED
    BY <1>1, <1>2, <1>3, <1>4, <1>5 DEF Same

\* Nor does more of a part,
LEMMA ExtendSame ==
  ASSUME NEW cl, Client(cl), NEW i, NEW data
  PROVE  Same(cl, Extend(cl, i, data))
  <1> DEFINE v == [cl.parts EXCEPT ![i] = [cl.parts[i] EXCEPT !.data = cl.parts[i].data \o data]]
  <1>1. Extend(cl, i, data) = [cl EXCEPT !.parts = v]
    BY DEF Extend
  <1>2. Listed(v)
    BY ListedChanged DEF Client
  <1> HIDE DEF v
  <1> QED
    BY <1>1, <1>2, ClientFields

\* An end is counted once.
LEMMA EndedMore ==
  ASSUME NEW cl, Client(cl), NEW v, NEW w
  PROVE  /\ Client([cl EXCEPT !.ended = @ + 1])
         /\ [cl EXCEPT !.ended = @ + 1].ended = cl.ended + 1
         /\ Client([cl EXCEPT !.ended = @ + 1, !.finish = v])
         /\ [cl EXCEPT !.ended = @ + 1, !.finish = v].ended = cl.ended + 1
  <1> DEFINE d == [cl EXCEPT !.ended = @ + 1]
  <1>1. Client(d) /\ d.ended = cl.ended + 1
    BY DEF Client
  <1>2. [cl EXCEPT !.ended = @ + 1, !.finish = v] = [d EXCEPT !.finish = v]
    OBVIOUS
  <1> HIDE DEF d
  <1>3. Same(d, [d EXCEPT !.finish = v])
    BY <1>1, ClientFields
  <1> QED
    BY <1>1, <1>2, <1>3 DEF Same, d

\* an item that is done,
LEMMA ItemDone ==
  ASSUME NEW cl, Client(cl), NEW i, NEW data, NEW w
  PROVE  Same(cl, [cl EXCEPT !.parts[i].data = data, !.open = w])
  <1> DEFINE v == [cl.parts EXCEPT ![i] = [cl.parts[i] EXCEPT !.data = data]]
  <1>1. [cl EXCEPT !.parts[i].data = data, !.open = w] = [cl EXCEPT !.parts = v, !.open = w]
    OBVIOUS
  <1>2. Listed(v)
    BY ListedChanged DEF Client
  <1> HIDE DEF v
  <1> QED
    BY <1>1, <1>2, ClientPairs

\* a part more,
LEMMA PartSame ==
  ASSUME NEW cl, Client(cl), NEW x, NEW w
  PROVE  /\ Same(cl, [cl EXCEPT !.parts = Append(@, x)])
         /\ Same(cl, [cl EXCEPT !.parts = Append(@, x), !.open = w])
  <1> DEFINE v == Append(cl.parts, x)
  <1>1. Listed(v)
    BY Appended DEF Client
  <1> HIDE DEF v
  <1>2. Same(cl, [cl EXCEPT !.parts = v]) /\ Same(cl, [cl EXCEPT !.parts = v, !.open = w])
    BY <1>1, ClientFields, ClientPairs
  <1> QED
    BY <1>2 DEF v

\* or a complaint.
LEMMA Complains ==
  ASSUME NEW cl, NEW d, Same(cl, d), NEW v
  PROVE  Same(cl, Complain(d, v))
  BY ClientFields DEF Same

\* Nothing a chat chunk brings is an end: no text,
LEMMA ReadTextSame ==
  ASSUME NEW cl, Client(cl), NEW kind, NEW data
  PROVE  Same(cl, ReadText(cl, kind, data))
  BY ClientFields, PartSame, ExtendSame DEF ReadText

\* no call,
LEMMA ReadCallSame ==
  ASSUME NEW cl, Client(cl), NEW c
  PROVE  Same(cl, ReadCall(cl, c))
  <1> DEFINE d == [cl EXCEPT !.parts = Append(@, Part("call", c.name, c.args))]
  <1>1. Same(cl, d)
    BY PartSame
  <1>2. \A v : Same(d, Complain(d, v))
    BY <1>1, ClientFields DEF Same
  <1> HIDE DEF d
  <1>3. \A v : Same(cl, Complain(d, v))
    BY <1>1, <1>2 DEF Same
  <1>4. \A i, a : Same(cl, Extend(cl, i, a))
    BY ExtendSame
  <1> QED
    BY <1>3, <1>4 DEF ReadCall, d

\* and no sequence of calls.
LEMMA ReadChunkSame ==
  ASSUME NEW cl, Client(cl), NEW c, Listed(c.calls)
  PROVE  Same(cl, ReadChunk(cl, c))
  <1> DEFINE t == ReadText(ReadText(cl, "text", c.text), "think", c.think)
             f == FoldLeft(ReadCall, t, c.calls)
  <1>1. Same(cl, t)
    <2>1. Same(cl, ReadText(cl, "text", c.text))
      BY ReadTextSame
    <2> QED
      BY <2>1, ReadTextSame DEF Same
  <1> HIDE DEF t
  <1>2. Same(cl, f)
    <2>1. PICK X : c.calls \in Seq(X)
      BY DEF Listed
    <2> DEFINE n == Len(c.calls)
               s == c.calls
    <2> HIDE DEF s
    <2>2. s \in Seq(X)
      BY <2>1 DEF s
    <2>3. PICK v : Run("call", 0, t, s, v)
      BY <2>2, Runs
    <2>4. /\ v[0] = t
          /\ v[n] = Fold("call", 0, t, c.calls)
          /\ \A i \in 1..n : v[i] = Applied("call", 0, v[i - 1], c.calls[i])
      BY <2>3 DEF Run, s
    <2> DEFINE I == {i \in 0..n : Same(cl, v[i])}
    <2>5. n \in Nat
      BY <2>1
    <2> HIDE DEF n
    <2>6. 0 \in I
      BY <1>1, <2>4, <2>5
    <2>7. ASSUME NEW i \in 1..n, i - 1 \in I PROVE i \in I
      <3>1. v[i] = ReadCall(v[i - 1], c.calls[i])
        BY <2>4 DEF Applied
      <3>2. Client(v[i - 1]) /\ v[i - 1].ended = cl.ended
        BY <2>7 DEF Same
      <3>3. Same(cl, v[i])
        BY <3>1, <3>2, ReadCallSame DEF Same
      <3> QED
        BY <3>3
    <2> HIDE DEF I
    <2>8. n \in I
      BY <2>5, <2>6, <2>7, Climb
    <2>9. f = Fold("call", 0, t, c.calls)
      BY <2>1, CallFold
    <2> QED
      BY <2>4, <2>8, <2>9 DEF I
  <1> HIDE DEF f
  <1>3. \A v, w, u : Same(cl, Complain([f EXCEPT !.started = v, !.finish = w], u))
    <2> TAKE v, w, u
    <2>1. Client(f)
      BY <1>2 DEF Same
    <2>2. Same(f, [f EXCEPT !.started = v, !.finish = w])
      BY <2>1, ClientPairs
    <2>3. Same(cl, [f EXCEPT !.started = v, !.finish = w])
      BY <1>2, <2>2 DEF Same
    <2> QED
      BY <2>3, Complains
  <1>4. Same(cl, cl)
    BY ClientFields
  <1> QED
    BY <1>3, <1>4 DEF ReadChunk, f, t

\* A client counts an end for the terminal events of its protocol and for no other.
LEMMA ReadOne ==
  ASSUME NEW en, NEW cl, Client(cl), NEW e, Known(en, e)
  PROVE  /\ Client(Read(en, cl, e))
         /\ Read(en, cl, e).ended = cl.ended + IF Terminal(en, e) THEN 1 ELSE 0
  <1> DEFINE late == Complain(cl, cl.ended > 0)
  <1>1. Same(cl, late)
    BY ClientFields
  <1> HIDE DEF late
  <1>2. CASE e = DoneMark
    <2>1. Read(en, cl, e) = [late EXCEPT !.ended = @ + 1]
      BY <1>2 DEF Read, late
    <2> QED
      BY <1>1, <1>2, <2>1 DEF Same, Client, Terminal
  <1>3. CASE e # DoneMark /\ en = "openai"
    BY <1>3, ReadChunkSame DEF Read, Known, Terminal, Same, Client
  <1>4. CASE e # DoneMark /\ en = "anthropic"
    <2>1. Read(en, cl, e) = ReadMessages(late, e)
      BY <1>4 DEF Read, late
    <2>2. CASE e.type \notin {"message_stop", "error"}
      <3>1. Same(late, ReadMessages(late, e))
        <4>1. e.type \in {"message_start", "block_start", "block_delta", "block_stop",
                          "message_delta"}
          BY <1>4, <2>2 DEF Known
        <4>2. Client(late)
          BY <1>1 DEF Same
        <4>3. \A i, a, v : Same(late, Complain(Extend(late, i, a), v))
          BY <4>2, ExtendSame, Complains
        <4>4. /\ \A x, w, u : Same(late, Complain([late EXCEPT !.parts = Append(@, x),
                                                               !.open = w], u))
              /\ \A v, u : Same(late, Complain([late EXCEPT !.started = v], u))
              /\ \A v, u : Same(late, Complain([late EXCEPT !.finish = v], u))
              /\ \A v, u : Same(late, Complain([late EXCEPT !.open = v], u))
              /\ \A u : Same(late, Complain(late, u))
          BY <4>2, ClientFields, PartSame, Complains
        <4> QED
          BY <4>1, <4>3, <4>4 DEF ReadMessages
      <3> QED
        BY <1>1, <1>4, <2>1, <2>2, <3>1 DEF Same, Client, Terminal
    <2>3. CASE e.type \in {"message_stop", "error"}
      <3>1. /\ Client(ReadMessages(late, e))
            /\ ReadMessages(late, e).ended = late.ended + 1
        <4>1. Client(late)
          BY <1>1 DEF Same
        <4> DEFINE d == [late EXCEPT !.ended = @ + 1]
        <4>2. Client(d) /\ d.ended = late.ended + 1
          BY <4>1, EndedMore
        <4> HIDE DEF d
        <4>3. \A u : Same(d, Complain(d, u))
          BY <4>2, ClientFields
        <4> QED
          BY <2>3, <4>2, <4>3 DEF Same, ReadMessages, d
      <3> QED
        BY <1>1, <1>4, <2>1, <2>3, <3>1 DEF Same, Terminal
    <2> QED
      BY <2>2, <2>3
  <1>5. CASE e # DoneMark /\ en = "responses"
    <2>1. Read(en, cl, e) = ReadResponses(late, e)
      BY <1>5 DEF Read, late
    <2>2. CASE e.type \notin {"completed", "failed"}
      <3>1. Same(late, ReadResponses(late, e))
        <4>1. e.type \in {"created", "added", "delta", "done"}
          BY <1>5, <2>2 DEF Known
        <4>2. Client(late)
          BY <1>1 DEF Same
        <4>3. \A i, a, v : Same(late, Complain(Extend(late, i, a), v))
          BY <4>2, ExtendSame, Complains
        <4>4. /\ \A x, w, u : Same(late, Complain([late EXCEPT !.parts = Append(@, x),
                                                               !.open = w], u))
              /\ \A v, u : Same(late, Complain([late EXCEPT !.started = v], u))
              /\ \A u : Same(late, Complain(late, u))
          BY <4>2, ClientFields, PartSame, Complains
        <4>5. \A i, a, w, u :
                Same(late, Complain([late EXCEPT !.parts[i].data = a, !.open = w], u))
          BY <4>2, ItemDone, Complains
        <4> QED
          BY <4>1, <4>3, <4>4, <4>5 DEF ReadResponses
      <3> QED
        BY <1>1, <1>5, <2>1, <2>2, <3>1 DEF Same, Client, Terminal
    <2>3. CASE e.type \in {"completed", "failed"}
      <3>1. /\ Client(ReadResponses(late, e))
            /\ ReadResponses(late, e).ended = late.ended + 1
        <4>1. Client(late)
          BY <1>1 DEF Same
        <4> DEFINE d == [late EXCEPT !.ended = @ + 1, !.finish = "stop"]
                   f == [late EXCEPT !.ended = @ + 1]
        <4>2. /\ Client(d) /\ d.ended = late.ended + 1
              /\ Client(f) /\ f.ended = late.ended + 1
          BY <4>1, EndedMore
        <4> HIDE DEF d, f
        <4>3. \A u : Same(d, Complain(d, u))
          BY <4>2, ClientFields
        <4> QED
          BY <2>3, <4>2, <4>3 DEF Same, ReadResponses, d, f
      <3> QED
        BY <1>1, <1>5, <2>1, <2>3, <3>1 DEF Same, Terminal
    <2> QED
      BY <2>2, <2>3
  <1> QED
    BY <1>2, <1>3, <1>4, <1>5 DEF Known

Harmless(en, e) == Known(en, e) /\ ~Terminal(en, e)

\* Lists of events that leave the stream open, and those whose last event ends it.
Quiet(en, s) == Listed(s) /\ \A i \in DOMAIN s : Harmless(en, s[i])

Ending(en, s) ==
  \E t, e : s = Append(t, e) /\ Quiet(en, t) /\ Known(en, e) /\ Terminal(en, e)

\* Harmless events after harmless ones.
LEMMA QuietMore ==
  ASSUME NEW en, NEW s, Quiet(en, s), NEW e, Harmless(en, e)
  PROVE  Quiet(en, Append(s, e))
  BY Appended DEF Quiet

\* A client that reads them has seen no end,
LEMMA ReadQuiet ==
  ASSUME NEW en, NEW cl, Client(cl), NEW s, Quiet(en, s)
  PROVE  Same(cl, Fold("read", en, cl, s))
  <1>1. PICK X : s \in Seq(X)
    BY DEF Quiet, Listed
  <1> DEFINE n == Len(s)
  <1>2. PICK v : Run("read", en, cl, s, v)
    BY <1>1, Runs
  <1>3. /\ v[0] = cl
        /\ v[n] = Fold("read", en, cl, s)
        /\ \A i \in 1..n : v[i] = Applied("read", en, v[i - 1], s[i])
    BY <1>2 DEF Run
  <1>4. n \in Nat /\ DOMAIN s = 1..n
    BY <1>1
  <1> HIDE DEF n
  <1> DEFINE I == {i \in 0..n : Same(cl, v[i])}
  <1>5. 0 \in I
    <2>1. 0 \in 0..n /\ Same(cl, cl)
      BY <1>4 DEF Same
    <2> QED
      BY <1>3, <2>1
  <1>6. ASSUME NEW i \in 1..n, i - 1 \in I PROVE i \in I
    <2>1. v[i] = Read(en, v[i - 1], s[i])
      BY <1>3 DEF Applied
    <2>2. Client(v[i - 1]) /\ v[i - 1].ended = cl.ended
      BY <1>6 DEF Same
    <2>3. Known(en, s[i]) /\ ~Terminal(en, s[i])
      BY <1>4 DEF Quiet, Harmless
    <2>4. Client(v[i]) /\ v[i].ended = v[i - 1].ended + 0
      BY <2>1, <2>2, <2>3, ReadOne
    <2>5. Same(cl, v[i])
      BY <2>2, <2>4 DEF Same, Client
    <2> QED
      BY <2>5
  <1> HIDE DEF I
  <1>7. n \in I
    BY <1>4, <1>5, <1>6, Climb
  <1> QED
    BY <1>3, <1>7 DEF I

\* and one when the last is terminal.
LEMMA ReadEnding ==
  ASSUME NEW en, NEW cl, Client(cl), NEW s, Ending(en, s)
  PROVE  /\ Client(Fold("read", en, cl, s))
         /\ Fold("read", en, cl, s).ended = cl.ended + 1
         /\ Listed(s)
  <1>1. PICK t, e : s = Append(t, e) /\ Quiet(en, t) /\ Known(en, e) /\ Terminal(en, e)
    BY DEF Ending
  <1>2. PICK X : t \in Seq(X)
    BY <1>1 DEF Quiet, Listed
  <1> DEFINE d == Fold("read", en, cl, t)
  <1>3. Same(cl, d)
    BY <1>1, ReadQuiet
  <1>4. Fold("read", en, cl, s) = Applied("read", en, d, e)
    BY <1>1, <1>2, FoldMore
  <1> HIDE DEF d
  <1>5. Fold("read", en, cl, s) = Read(en, d, e)
    BY <1>4 DEF Applied
  <1>6. Client(Read(en, d, e)) /\ Read(en, d, e).ended = d.ended + 1
    BY <1>1, <1>3, ReadOne DEF Same
  <1>7. Listed(s)
    BY <1>1, Appended DEF Quiet
  <1> QED
    BY <1>3, <1>5, <1>6, <1>7 DEF Same

------------------------------------------------------------------------------
(* The emitter of the messages protocol *)

MessagesOut(st) ==
  st = [started |-> st.started, blockIndex |-> st.blockIndex, curKind |-> st.curKind,
           finish |-> st.finish, sent |-> st.sent, usage |-> st.usage]

\* The emitter's fields change one at a time.
LEMMA MessagesFields ==
  ASSUME NEW st, MessagesOut(st), NEW v
  PROVE  /\ MessagesOut([st EXCEPT !.started = v]) /\ [st EXCEPT !.started = v].sent = st.sent
         /\ MessagesOut([st EXCEPT !.blockIndex = v]) /\ [st EXCEPT !.blockIndex = v].sent = st.sent
         /\ MessagesOut([st EXCEPT !.curKind = v]) /\ [st EXCEPT !.curKind = v].sent = st.sent
         /\ MessagesOut([st EXCEPT !.finish = v]) /\ [st EXCEPT !.finish = v].sent = st.sent
         /\ MessagesOut([st EXCEPT !.usage = v]) /\ [st EXCEPT !.usage = v].sent = st.sent
         /\ MessagesOut([st EXCEPT !.sent = v]) /\ [st EXCEPT !.sent = v].sent = v
  <1>1. MessagesOut([st EXCEPT !.started = v]) /\ [st EXCEPT !.started = v].sent = st.sent
    BY DEF MessagesOut
  <1>2. MessagesOut([st EXCEPT !.blockIndex = v]) /\ [st EXCEPT !.blockIndex = v].sent = st.sent
    BY DEF MessagesOut
  <1>3. MessagesOut([st EXCEPT !.curKind = v]) /\ [st EXCEPT !.curKind = v].sent = st.sent
    BY DEF MessagesOut
  <1>4. MessagesOut([st EXCEPT !.finish = v]) /\ [st EXCEPT !.finish = v].sent = st.sent
    BY DEF MessagesOut
  <1>5. MessagesOut([st EXCEPT !.usage = v]) /\ [st EXCEPT !.usage = v].sent = st.sent
    BY DEF MessagesOut
  <1>6. MessagesOut([st EXCEPT !.sent = v]) /\ [st EXCEPT !.sent = v].sent = v
    BY DEF MessagesOut
  <1> QED
    BY <1>1, <1>2, <1>3, <1>4, <1>5, <1>6

\* A converter on its way: its state, and a list of events that ends nothing.
Writing(r, sent) ==
  /\ r = [st |-> r.st, out |-> r.out]
  /\ MessagesOut(r.st) /\ r.st.sent = sent
  /\ Quiet("anthropic", r.out)

\* Harmless events written, the end not sent.
LEMMA WritingIs ==
  ASSUME NEW sent, NEW st, MessagesOut(st), st.sent = sent,
         NEW out, Quiet("anthropic", out)
  PROVE  Writing([st |-> st, out |-> out], sent)
  BY DEF Writing

\* The same with another state of the emitter,
LEMMA WritingState ==
  ASSUME NEW sent, NEW r, Writing(r, sent), NEW v
  PROVE  /\ Writing([r EXCEPT !.st.started = v], sent)
         /\ Writing([r EXCEPT !.st.blockIndex = v], sent)
         /\ Writing([r EXCEPT !.st.curKind = v], sent)
         /\ Writing([r EXCEPT !.st.sent = v], v)
  <1>1. MessagesOut(r.st) /\ r.st.sent = sent /\ Quiet("anthropic", r.out)
    BY DEF Writing
  <1>2. Writing([r EXCEPT !.st.started = v], sent)
    <2> DEFINE d == [r.st EXCEPT !.started = v]
               q == [r EXCEPT !.st.started = v]
    <2>1. MessagesOut(d) /\ d.sent = sent
      BY <1>1, MessagesFields
    <2>2. q = [st |-> d, out |-> r.out]
      BY DEF Writing
    <2> HIDE DEF d, q
    <2>3. Writing(q, sent)
      BY <1>1, <2>1, <2>2, WritingIs
    <2> QED
      BY <2>3 DEF q
  <1>3. Writing([r EXCEPT !.st.blockIndex = v], sent)
    <2> DEFINE d == [r.st EXCEPT !.blockIndex = v]
               q == [r EXCEPT !.st.blockIndex = v]
    <2>1. MessagesOut(d) /\ d.sent = sent
      BY <1>1, MessagesFields
    <2>2. q = [st |-> d, out |-> r.out]
      BY DEF Writing
    <2> HIDE DEF d, q
    <2>3. Writing(q, sent)
      BY <1>1, <2>1, <2>2, WritingIs
    <2> QED
      BY <2>3 DEF q
  <1>4. Writing([r EXCEPT !.st.curKind = v], sent)
    <2> DEFINE d == [r.st EXCEPT !.curKind = v]
               q == [r EXCEPT !.st.curKind = v]
    <2>1. MessagesOut(d) /\ d.sent = sent
      BY <1>1, MessagesFields
    <2>2. q = [st |-> d, out |-> r.out]
      BY DEF Writing
    <2> HIDE DEF d, q
    <2>3. Writing(q, sent)
      BY <1>1, <2>1, <2>2, WritingIs
    <2> QED
      BY <2>3 DEF q
  <1>5. Writing([r EXCEPT !.st.sent = v], v)
    <2> DEFINE d == [r.st EXCEPT !.sent = v]
               q == [r EXCEPT !.st.sent = v]
    <2>1. MessagesOut(d) /\ d.sent = v
      BY <1>1, MessagesFields
    <2>2. q = [st |-> d, out |-> r.out]
      BY DEF Writing
    <2> HIDE DEF d, q
    <2>3. Writing(q, v)
      BY <1>1, <2>1, <2>2, WritingIs
    <2> QED
      BY <2>3 DEF q
  <1> QED
    BY <1>2, <1>3, <1>4, <1>5

\* or another harmless event written.
LEMMA WritingMore ==
  ASSUME NEW sent, NEW r, Writing(r, sent), NEW e, Harmless("anthropic", e)
  PROVE  Writing(Write(r, e), sent)
  <1>1. Write(r, e) = [st |-> r.st, out |-> Append(r.out, e)]
    BY DEF Writing, Write
  <1> QED
    BY <1>1, QuietMore DEF Writing

\* What the emitter writes.
LEMMA MessagesEvents ==
  ASSUME NEW i, NEW kind, NEW name, NEW data, NEW finish, NEW usage
  PROVE  /\ Harmless("anthropic", [Event("message_start") EXCEPT !.usage.prompt = i])
         /\ Harmless("anthropic", [Event("block_stop") EXCEPT !.index = i])
         /\ Harmless("anthropic", [Event("block_start") EXCEPT !.index = i, !.kind = kind,
                                                               !.name = name])
         /\ Harmless("anthropic", [Event("block_delta") EXCEPT !.index = i, !.kind = kind,
                                                               !.data = data])
         /\ Harmless("anthropic", [Event("message_delta") EXCEPT !.finish = finish,
                                                                 !.usage = usage])
         /\ Known("anthropic", Event("message_stop"))
         /\ Terminal("anthropic", Event("message_stop"))
  <1>1. [Event("message_start") EXCEPT !.usage.prompt = i].type = "message_start"
    BY DEF Event
  <1>2. [Event("block_stop") EXCEPT !.index = i].type = "block_stop"
    BY DEF Event
  <1>3. [Event("block_start") EXCEPT !.index = i, !.kind = kind, !.name = name].type
          = "block_start"
    BY DEF Event
  <1>4. [Event("block_delta") EXCEPT !.index = i, !.kind = kind, !.data = data].type
          = "block_delta"
    BY DEF Event
  <1>5. [Event("message_delta") EXCEPT !.finish = finish, !.usage = usage].type
          = "message_delta"
    BY DEF Event
  <1>6. Event("message_stop").type = "message_stop" /\ DoneMark.type = "[DONE]"
    BY DEF Event, DoneMark
  <1> QED
    BY <1>1, <1>2, <1>3, <1>4, <1>5, <1>6 DEF Harmless, Known, Terminal

\* The steps of the emitter write harmless events and send no end:
LEMMA MessagesSteps ==
  ASSUME NEW sent, NEW r, Writing(r, sent)
  PROVE  /\ Writing(MessageStart(r), sent)
         /\ Writing(CloseBlock(r), sent)
         /\ \A kind, name : Writing(OpenBlock(r, kind, name), sent)
         /\ \A kind, data : Writing(BlockDelta(r, kind, data), sent)
  <1>1. Writing(MessageStart(r), sent)
    <2> DEFINE q == [r EXCEPT !.st.started = TRUE]
    <2>1. Writing(q, sent)
      BY WritingState
    <2> HIDE DEF q
    <2>2. \A i : Writing(Write(q, [Event("message_start") EXCEPT !.usage.prompt = i]), sent)
      BY <2>1, WritingMore, MessagesEvents
    <2> QED
      BY <2>2 DEF MessageStart, q
  <1>2. Writing(CloseBlock(r), sent)
    <2> DEFINE d == [r EXCEPT !.st.curKind = "none"]
               q == [r EXCEPT !.st.curKind = "none", !.st.blockIndex = @ + 1]
    <2>1. Writing(d, sent)
      BY WritingState
    <2>2. q = [d EXCEPT !.st.blockIndex = @ + 1]
      OBVIOUS
    <2> HIDE DEF d
    <2>3. Writing(q, sent)
      BY <2>1, <2>2, WritingState
    <2> HIDE DEF q
    <2>4. \A i : Writing(Write(q, [Event("block_stop") EXCEPT !.index = i]), sent)
      BY <2>3, WritingMore, MessagesEvents
    <2> QED
      BY <2>4 DEF CloseBlock, q
  <1>3. ASSUME NEW kind, NEW name PROVE Writing(OpenBlock(r, kind, name), sent)
    <2> DEFINE q == CloseBlock(r)
               d == [q EXCEPT !.st.curKind = kind]
    <2> HIDE DEF q
    <2>1. Writing(d, sent)
      BY <1>2, WritingState DEF q
    <2> HIDE DEF d
    <2>2. \A i : Writing(Write(d, [Event("block_start") EXCEPT !.index = i, !.kind = kind,
                                                               !.name = name]), sent)
      BY <2>1, WritingMore, MessagesEvents
    <2> QED
      BY <2>2 DEF OpenBlock, d, q
  <1>4. ASSUME NEW kind, NEW data PROVE Writing(BlockDelta(r, kind, data), sent)
    <2>1. \A i : Writing(Write(r, [Event("block_delta") EXCEPT !.index = i, !.kind = kind,
                                                               !.data = data]), sent)
      BY WritingMore, MessagesEvents
    <2> QED
      BY <2>1 DEF BlockDelta
  <1> QED
    BY <1>1, <1>2, <1>3, <1>4

\* text, reasoning and calls,
LEMMA MessagesSayings ==
  ASSUME NEW sent, NEW r, Writing(r, sent)
  PROVE  /\ \A kind, data : Writing(SayInBlock(r, kind, data), sent)
         /\ \A c : Writing(CallInBlock(r, c), sent)
  <1>1. ASSUME NEW kind, NEW data PROVE Writing(SayInBlock(r, kind, data), sent)
    <2>1. Writing(OpenBlock(r, kind, 0), sent)
      BY MessagesSteps
    <2>2. Writing(IF r.st.curKind = kind THEN r ELSE OpenBlock(r, kind, 0), sent)
      BY <2>1
    <2> QED
      BY <2>2, MessagesSteps DEF SayInBlock
  <1>2. ASSUME NEW c PROVE Writing(CallInBlock(r, c), sent)
    <2> DEFINE q == IF c.name # 0 THEN OpenBlock(r, "call", c.name) ELSE r
    <2>1. Writing(q, sent)
      BY MessagesSteps
    <2> HIDE DEF q
    <2>2. Writing(BlockDelta(q, "call", c.args), sent)
      BY <2>1, MessagesSteps
    <2> QED
      BY <2>1, <2>2 DEF CallInBlock, q
  <1> QED
    BY <1>1, <1>2

\* and all calls of a chunk.
LEMMA CallsWriting ==
  ASSUME NEW sent, NEW r, Writing(r, sent), NEW s, Listed(s)
  PROVE  Writing(FoldLeft(CallInBlock, r, s), sent)
  <1>1. PICK X : s \in Seq(X)
    BY DEF Listed
  <1>2. FoldLeft(CallInBlock, r, s) = Fold("block", 0, r, s)
    BY <1>1, BlockFold
  <1> DEFINE n == Len(s)
  <1>3. n \in Nat
    BY <1>1
  <1>4. PICK v : Run("block", 0, r, s, v)
    BY <1>1, Runs
  <1>5. /\ v[0] = r /\ v[n] = Fold("block", 0, r, s)
        /\ \A i \in 1..n : v[i] = Applied("block", 0, v[i - 1], s[i])
    BY <1>4 DEF Run
  <1> HIDE DEF n
  <1> DEFINE I == {i \in 0..n : Writing(v[i], sent)}
  <1>6. 0 \in I
    BY <1>3, <1>5
  <1>7. ASSUME NEW i \in 1..n, i - 1 \in I PROVE i \in I
    <2>1. v[i] = CallInBlock(v[i - 1], s[i])
      BY <1>5 DEF Applied
    <2>2. Writing(v[i - 1], sent)
      BY <1>7
    <2>3. Writing(v[i], sent)
      BY <2>1, <2>2, MessagesSayings
    <2> QED
      BY <2>3
  <1> HIDE DEF I
  <1>8. n \in I
    BY <1>3, <1>6, <1>7, Climb
  <1> QED
    BY <1>2, <1>5, <1>8 DEF I

\* What an emitter that had sent the end or not leaves behind: the end is sent with the
\* event that ends the stream, and that event comes last.
Emits(en, sent, r) ==
  \/ r.st.sent = sent /\ Quiet(en, r.out)
  \/ sent = FALSE /\ r.st.sent = TRUE /\ Ending(en, r.out)

\* The emitter sends the end once, as its last event.
LEMMA FinishMessagesEmits ==
  ASSUME NEW sent \in BOOLEAN, NEW r, Writing(r, sent)
  PROVE  /\ MessagesOut(FinishMessages(r).st)
         /\ Emits("anthropic", sent, FinishMessages(r))
         /\ FinishMessages(r).st.sent = TRUE
  <1>1. CASE sent = TRUE
    BY <1>1 DEF FinishMessages, Writing, Emits
  <1>2. CASE sent = FALSE
    <2> DEFINE a == [r EXCEPT !.st.sent = TRUE]
               q == CloseBlock(MessageStart(a))
               d == Write(q, [Event("message_delta") EXCEPT !.finish = q.st.finish,
                                                            !.usage = q.st.usage])
               f == Write(d, Event("message_stop"))
    <2>1. \A v : Writing([r EXCEPT !.st.sent = v], v)
      BY WritingState
    <2>2. Writing(a, TRUE)
      BY <2>1
    <2> HIDE DEF a
    <2>3. Writing(q, TRUE)
      <3>1. Writing(MessageStart(a), TRUE)
        BY <2>2, MessagesSteps
      <3> QED
        BY <3>1, MessagesSteps
    <2> HIDE DEF q
    <2>4. Writing(d, TRUE)
      <3>1. \A v, w : Harmless("anthropic", [Event("message_delta") EXCEPT !.finish = v,
                                                                           !.usage = w])
        BY MessagesEvents
      <3> QED
        BY <2>3, <3>1, WritingMore
    <2>5. FinishMessages(r) = f
      BY <1>2 DEF FinishMessages, Writing, a, q
    <2> HIDE DEF d
    <2>6. f = [st |-> d.st, out |-> Append(d.out, Event("message_stop"))]
      BY <2>4 DEF Write, Writing
    <2>7. MessagesOut(d.st) /\ d.st.sent = TRUE /\ Quiet("anthropic", d.out)
      BY <2>4 DEF Writing
    <2>8. Ending("anthropic", Append(d.out, Event("message_stop")))
      BY <2>7, MessagesEvents DEF Ending
    <2> HIDE DEF f
    <2> QED
      BY <1>2, <2>5, <2>6, <2>7, <2>8 DEF Emits
  <1> QED
    BY <1>1, <1>2

\* The empty sequence is harmless.
LEMMA QuietNothing == \A en : Quiet(en, <<>>)
  BY ListedIs DEF Quiet

\* A chunk ends the answer only with a finish reason, and only once.
LEMMA FeedMessagesEmits ==
  ASSUME NEW st, MessagesOut(st), st.sent \in BOOLEAN, NEW c, Listed(c.calls)
  PROVE  /\ MessagesOut(FeedMessages(st, c).st)
         /\ Emits("anthropic", st.sent, FeedMessages(st, c))
         /\ c.finish = "none" => FeedMessages(st, c).st.sent = st.sent
  <1> DEFINE noted == Noted(st, c)
             r == [st |-> noted, out |-> <<>>]
             spoken == SayInBlock(SayInBlock(MessageStart(r), "text", c.text), "think", c.think)
             called == FoldLeft(CallInBlock, spoken, c.calls)
  <1>1. FeedMessages(st, c) = IF ~c.choices THEN r
                              ELSE IF c.finish # "none" THEN FinishMessages(called) ELSE called
    BY DEF FeedMessages
  <1>2. MessagesOut(noted) /\ noted.sent = st.sent
    <2> DEFINE a == [st EXCEPT !.usage = c.usage]
    <2>1. MessagesOut(a) /\ a.sent = st.sent
      BY MessagesFields
    <2> HIDE DEF a
    <2>2. MessagesOut([a EXCEPT !.finish = c.finish]) /\ [a EXCEPT !.finish = c.finish].sent = st.sent
      BY <2>1, MessagesFields
    <2>3. MessagesOut([st EXCEPT !.finish = c.finish]) /\ [st EXCEPT !.finish = c.finish].sent = st.sent
      BY MessagesFields
    <2> QED
      BY <2>1, <2>2, <2>3 DEF Noted, a
  <1> HIDE DEF noted
  <1>3. Writing(r, st.sent)
    BY <1>2, QuietNothing, WritingIs
  <1> HIDE DEF r
  <1>4. Writing(spoken, st.sent)
    <2>1. Writing(MessageStart(r), st.sent)
      BY <1>3, MessagesSteps
    <2>2. Writing(SayInBlock(MessageStart(r), "text", c.text), st.sent)
      BY <2>1, MessagesSayings
    <2> QED
      BY <2>2, MessagesSayings
  <1> HIDE DEF spoken
  <1>5. Writing(called, st.sent)
    BY <1>4, CallsWriting
  <1> HIDE DEF called
  <1>6. /\ MessagesOut(FinishMessages(called).st)
        /\ Emits("anthropic", st.sent, FinishMessages(called))
    BY <1>5, FinishMessagesEmits
  <1>7. /\ MessagesOut(r.st) /\ r.st.sent = st.sent /\ Quiet("anthropic", r.out)
        /\ MessagesOut(called.st) /\ called.st.sent = st.sent /\ Quiet("anthropic", called.out)
    BY <1>3, <1>5 DEF Writing
  <1>8. CASE ~c.choices
    BY <1>1, <1>7, <1>8 DEF Emits
  <1>9. CASE c.choices /\ c.finish = "none"
    BY <1>1, <1>7, <1>9 DEF Emits
  <1>10. CASE c.choices /\ c.finish # "none"
    BY <1>1, <1>6, <1>10
  <1> QED
    BY <1>8, <1>9, <1>10

------------------------------------------------------------------------------
(* The emitter of the Responses protocol *)

ResponsesOut(st) ==
  /\ st = [started |-> st.started, items |-> st.items, keys |-> st.keys,
           finish |-> st.finish, sent |-> st.sent, usage |-> st.usage]
  /\ Listed(st.items)

\* The emitter's fields change one at a time.
LEMMA ResponsesFields ==
  ASSUME NEW st, ResponsesOut(st), NEW v
  PROVE  /\ ResponsesOut([st EXCEPT !.started = v]) /\ [st EXCEPT !.started = v].sent = st.sent
         /\ Listed(v) => ResponsesOut([st EXCEPT !.items = v])
         /\ [st EXCEPT !.items = v].sent = st.sent
         /\ ResponsesOut([st EXCEPT !.keys = v]) /\ [st EXCEPT !.keys = v].sent = st.sent
         /\ ResponsesOut([st EXCEPT !.finish = v]) /\ [st EXCEPT !.finish = v].sent = st.sent
         /\ ResponsesOut([st EXCEPT !.usage = v]) /\ [st EXCEPT !.usage = v].sent = st.sent
         /\ ResponsesOut([st EXCEPT !.sent = v]) /\ [st EXCEPT !.sent = v].sent = v
  <1>1. ResponsesOut([st EXCEPT !.started = v]) /\ [st EXCEPT !.started = v].sent = st.sent
    BY DEF ResponsesOut
  <1>2. (Listed(v) => ResponsesOut([st EXCEPT !.items = v])) /\ [st EXCEPT !.items = v].sent = st.sent
    BY DEF ResponsesOut
  <1>3. ResponsesOut([st EXCEPT !.keys = v]) /\ [st EXCEPT !.keys = v].sent = st.sent
    BY DEF ResponsesOut
  <1>4. ResponsesOut([st EXCEPT !.finish = v]) /\ [st EXCEPT !.finish = v].sent = st.sent
    BY DEF ResponsesOut
  <1>5. ResponsesOut([st EXCEPT !.usage = v]) /\ [st EXCEPT !.usage = v].sent = st.sent
    BY DEF ResponsesOut
  <1>6. ResponsesOut([st EXCEPT !.sent = v]) /\ [st EXCEPT !.sent = v].sent = v
    BY DEF ResponsesOut
  <1> QED
    BY <1>1, <1>2, <1>3, <1>4, <1>5, <1>6

Adding(r, sent) ==
  /\ r = [st |-> r.st, out |-> r.out]
  /\ ResponsesOut(r.st) /\ r.st.sent = sent
  /\ Quiet("responses", r.out)

\* Harmless events written, the end not sent.
LEMMA AddingIs ==
  ASSUME NEW sent, NEW st, ResponsesOut(st), st.sent = sent,
         NEW out, Quiet("responses", out)
  PROVE  Adding([st |-> st, out |-> out], sent)
  BY DEF Adding

\* The same with another state of the emitter,
LEMMA AddingState ==
  ASSUME NEW sent, NEW r, Adding(r, sent), NEW v
  PROVE  /\ Adding([r EXCEPT !.st.started = v], sent)
         /\ Listed(v) => Adding([r EXCEPT !.st.items = v], sent)
         /\ Adding([r EXCEPT !.st.keys = v], sent)
         /\ Adding([r EXCEPT !.st.sent = v], v)
  <1>1. ResponsesOut(r.st) /\ r.st.sent = sent /\ Quiet("responses", r.out)
    BY DEF Adding
  <1>2. Adding([r EXCEPT !.st.started = v], sent)
    <2> DEFINE d == [r.st EXCEPT !.started = v]
               q == [r EXCEPT !.st.started = v]
    <2>1. ResponsesOut(d) /\ d.sent = sent
      BY <1>1, ResponsesFields
    <2>2. q = [st |-> d, out |-> r.out]
      BY DEF Adding
    <2> HIDE DEF d, q
    <2>3. Adding(q, sent)
      BY <1>1, <2>1, <2>2, AddingIs
    <2> QED
      BY <2>3 DEF q
  <1>3. ASSUME Listed(v) PROVE Adding([r EXCEPT !.st.items = v], sent)
    <2> DEFINE d == [r.st EXCEPT !.items = v]
               q == [r EXCEPT !.st.items = v]
    <2>1. ResponsesOut(d) /\ d.sent = sent
      BY <1>1, <1>3, ResponsesFields
    <2>2. q = [st |-> d, out |-> r.out]
      BY DEF Adding
    <2> HIDE DEF d, q
    <2>3. Adding(q, sent)
      BY <1>1, <2>1, <2>2, AddingIs
    <2> QED
      BY <2>3 DEF q
  <1>4. Adding([r EXCEPT !.st.keys = v], sent)
    <2> DEFINE d == [r.st EXCEPT !.keys = v]
               q == [r EXCEPT !.st.keys = v]
    <2>1. ResponsesOut(d) /\ d.sent = sent
      BY <1>1, ResponsesFields
    <2>2. q = [st |-> d, out |-> r.out]
      BY DEF Adding
    <2> HIDE DEF d, q
    <2>3. Adding(q, sent)
      BY <1>1, <2>1, <2>2, AddingIs
    <2> QED
      BY <2>3 DEF q
  <1>5. Adding([r EXCEPT !.st.sent = v], v)
    <2> DEFINE d == [r.st EXCEPT !.sent = v]
               q == [r EXCEPT !.st.sent = v]
    <2>1. ResponsesOut(d) /\ d.sent = v
      BY <1>1, ResponsesFields
    <2>2. q = [st |-> d, out |-> r.out]
      BY DEF Adding
    <2> HIDE DEF d, q
    <2>3. Adding(q, v)
      BY <1>1, <2>1, <2>2, AddingIs
    <2> QED
      BY <2>3 DEF q
  <1> QED
    BY <1>2, <1>3, <1>4, <1>5

\* or another harmless event written.
LEMMA AddingMore ==
  ASSUME NEW sent, NEW r, Adding(r, sent), NEW e, Harmless("responses", e)
  PROVE  Adding(Write(r, e), sent)
  <1>1. Write(r, e) = [st |-> r.st, out |-> Append(r.out, e)]
    BY DEF Adding, Write
  <1> QED
    BY <1>1, QuietMore DEF Adding

\* An event with another field is an event of the same type.
LEMMA EventFields ==
  ASSUME NEW e, IsEvent(e), NEW v
  PROVE  /\ IsEvent([e EXCEPT !.index = v]) /\ [e EXCEPT !.index = v].type = e.type
         /\ IsEvent([e EXCEPT !.kind = v]) /\ [e EXCEPT !.kind = v].type = e.type
         /\ IsEvent([e EXCEPT !.name = v]) /\ [e EXCEPT !.name = v].type = e.type
         /\ IsEvent([e EXCEPT !.data = v]) /\ [e EXCEPT !.data = v].type = e.type
         /\ IsEvent([e EXCEPT !.output = v]) /\ [e EXCEPT !.output = v].type = e.type
         /\ IsEvent([e EXCEPT !.finish = v]) /\ [e EXCEPT !.finish = v].type = e.type
         /\ IsEvent([e EXCEPT !.usage = v]) /\ [e EXCEPT !.usage = v].type = e.type
  <1>1. IsEvent([e EXCEPT !.index = v]) /\ [e EXCEPT !.index = v].type = e.type
    BY DEF IsEvent
  <1>2. IsEvent([e EXCEPT !.kind = v]) /\ [e EXCEPT !.kind = v].type = e.type
    BY DEF IsEvent
  <1>3. IsEvent([e EXCEPT !.name = v]) /\ [e EXCEPT !.name = v].type = e.type
    BY DEF IsEvent
  <1>4. IsEvent([e EXCEPT !.data = v]) /\ [e EXCEPT !.data = v].type = e.type
    BY DEF IsEvent
  <1>5. IsEvent([e EXCEPT !.output = v]) /\ [e EXCEPT !.output = v].type = e.type
    BY DEF IsEvent
  <1>6. IsEvent([e EXCEPT !.finish = v]) /\ [e EXCEPT !.finish = v].type = e.type
    BY DEF IsEvent
  <1>7. IsEvent([e EXCEPT !.usage = v]) /\ [e EXCEPT !.usage = v].type = e.type
    BY DEF IsEvent
  <1> QED
    BY <1>1, <1>2, <1>3, <1>4, <1>5, <1>6, <1>7

\* The events the emitter writes, and the one of them that is an end.
LEMMA ResponsesEvents ==
  ASSUME NEW i, NEW kind, NEW name, NEW data, NEW output, NEW usage
  PROVE  /\ Harmless("responses", Event("created"))
         /\ Harmless("responses", [Event("added") EXCEPT !.index = i, !.kind = kind,
                                                         !.name = name])
         /\ Harmless("responses", [Event("delta") EXCEPT !.index = i, !.kind = kind,
                                                         !.data = data])
         /\ Harmless("responses", [Event("done") EXCEPT !.index = i, !.kind = kind,
                                                        !.name = name, !.data = data])
         /\ Known("responses", [Event("completed") EXCEPT !.output = output,
                                                          !.usage = usage])
         /\ Terminal("responses", [Event("completed") EXCEPT !.output = output,
                                                             !.usage = usage])
  <1>1. \A type : IsEvent(Event(type)) /\ Event(type).type = type
    BY DEF Event, IsEvent
  <1>2. Event("created").type = "created" /\ IsEvent(Event("created"))
    BY <1>1
  <1>3. DoneMark.type = "[DONE]"
    BY <1>1 DEF DoneMark
  <1>4. /\ IsEvent([Event("added") EXCEPT !.index = i, !.kind = kind, !.name = name])
        /\ [Event("added") EXCEPT !.index = i, !.kind = kind, !.name = name].type = "added"
    <2> DEFINE a == [Event("added") EXCEPT !.index = i]
               b == [Event("added") EXCEPT !.index = i, !.kind = kind]
               c == [Event("added") EXCEPT !.index = i, !.kind = kind, !.name = name]
    <2>1. b = [a EXCEPT !.kind = kind]
      OBVIOUS
    <2>2. c = [b EXCEPT !.name = name]
      OBVIOUS
    <2>3. IsEvent(a) /\ a.type = "added"
      BY <1>1, EventFields
    <2> HIDE DEF a, b, c
    <2>4. IsEvent(b) /\ b.type = "added"
      BY <2>3, <2>1, EventFields
    <2>5. IsEvent(c) /\ c.type = "added"
      BY <2>4, <2>2, EventFields
    <2> QED
      BY <2>5 DEF c
  <1>5. /\ IsEvent([Event("delta") EXCEPT !.index = i, !.kind = kind, !.data = data])
        /\ [Event("delta") EXCEPT !.index = i, !.kind = kind, !.data = data].type = "delta"
    <2> DEFINE a == [Event("delta") EXCEPT !.index = i]
               b == [Event("delta") EXCEPT !.index = i, !.kind = kind]
               c == [Event("delta") EXCEPT !.index = i, !.kind = kind, !.data = data]
    <2>1. b = [a EXCEPT !.kind = kind]
      OBVIOUS
    <2>2. c = [b EXCEPT !.data = data]
      OBVIOUS
    <2>3. IsEvent(a) /\ a.type = "delta"
      BY <1>1, EventFields
    <2> HIDE DEF a, b, c
    <2>4. IsEvent(b) /\ b.type = "delta"
      BY <2>3, <2>1, EventFields
    <2>5. IsEvent(c) /\ c.type = "delta"
      BY <2>4, <2>2, EventFields
    <2> QED
      BY <2>5 DEF c
  <1>6. /\ IsEvent([Event("done") EXCEPT !.index = i, !.kind = kind, !.name = name, !.data = data])
        /\ [Event("done") EXCEPT !.index = i, !.kind = kind, !.name = name, !.data = data].type = "done"
    <2> DEFINE a == [Event("done") EXCEPT !.index = i]
               b == [Event("done") EXCEPT !.index = i, !.kind = kind]
               c == [Event("done") EXCEPT !.index = i, !.kind = kind, !.name = name]
               d == [Event("done") EXCEPT !.index = i, !.kind = kind, !.name = name, !.data = data]
    <2>1. b = [a EXCEPT !.kind = kind]
      OBVIOUS
    <2>2. c = [b EXCEPT !.name = name]
      OBVIOUS
    <2>3. d = [c EXCEPT !.data = data]
      OBVIOUS
    <2>4. IsEvent(a) /\ a.type = "done"
      BY <1>1, EventFields
    <2> HIDE DEF a, b, c, d
    <2>5. IsEvent(b) /\ b.type = "done"
      BY <2>4, <2>1, EventFields
    <2>6. IsEvent(c) /\ c.type = "done"
      BY <2>5, <2>2, EventFields
    <2>7. IsEvent(d) /\ d.type = "done"
      BY <2>6, <2>3, EventFields
    <2> QED
      BY <2>7 DEF d
  <1>7. /\ IsEvent([Event("completed") EXCEPT !.output = output, !.usage = usage])
        /\ [Event("completed") EXCEPT !.output = output, !.usage = usage].type = "completed"
    <2> DEFINE a == [Event("completed") EXCEPT !.output = output]
               b == [Event("completed") EXCEPT !.output = output, !.usage = usage]
    <2>1. b = [a EXCEPT !.usage = usage]
      OBVIOUS
    <2>2. IsEvent(a) /\ a.type = "completed"
      BY <1>1, EventFields
    <2> HIDE DEF a, b
    <2>3. IsEvent(b) /\ b.type = "completed"
      BY <2>2, <2>1, EventFields
    <2> QED
      BY <2>3 DEF b
  <1> QED
    BY <1>2, <1>4, <1>5, <1>6, <1>7, <1>3 DEF Harmless, Known, Terminal

\* The steps of the emitter write harmless events and send no end:
LEMMA ResponsesSteps ==
  ASSUME NEW sent, NEW r, Adding(r, sent)
  PROVE  /\ Adding(Created(r), sent)
         /\ \A kind, key, name : Adding(AddItem(r, kind, key, name), sent)
         /\ \A kind, key, data : Adding(ItemDelta(r, kind, key, data), sent)
  <1>1. Adding(Created(r), sent)
    <2> DEFINE q == [r EXCEPT !.st.started = TRUE]
    <2>1. Adding(q, sent)
      BY AddingState
    <2> HIDE DEF q
    <2>2. Adding(Write(q, Event("created")), sent)
      BY <2>1, AddingMore, ResponsesEvents
    <2> QED
      BY <2>2 DEF Created, q
  <1>2. ASSUME NEW kind, NEW key, NEW name PROVE Adding(AddItem(r, kind, key, name), sent)
    <2> DEFINE v == Append(r.st.items, Part(kind, name, <<>>))
               w == Append(r.st.keys, key)
               d == [r EXCEPT !.st.items = v]
               q == [r EXCEPT !.st.items = v, !.st.keys = w]
    <2>1. q = [r EXCEPT !.st.items = Append(@, Part(kind, name, <<>>)),
                        !.st.keys = Append(@, key)]
      BY DEF Adding, ResponsesOut
    <2>2. Listed(v)
      BY Appended DEF Adding, ResponsesOut
    <2> HIDE DEF v, w
    <2>3. Adding(d, sent)
      BY <2>2, AddingState
    <2>4. q = [d EXCEPT !.st.keys = w]
      OBVIOUS
    <2> HIDE DEF d
    <2>5. Adding(q, sent)
      BY <2>3, <2>4, AddingState
    <2> HIDE DEF q
    <2>6. \A i : Adding(Write(q, [Event("added") EXCEPT !.index = i, !.kind = kind,
                                                        !.name = name]), sent)
      BY <2>5, AddingMore, ResponsesEvents
    <2> QED
      BY <2>1, <2>6 DEF AddItem
  <1>3. ASSUME NEW kind, NEW key, NEW data PROVE Adding(ItemDelta(r, kind, key, data), sent)
    <2>1. ASSUME NEW i
          PROVE  Adding(Write([r EXCEPT !.st.items[i].data = @ \o data],
                              [Event("delta") EXCEPT !.index = i - 1, !.kind = kind,
                                                     !.data = data]), sent)
      <3> DEFINE v == [r.st.items EXCEPT ![i] =
                         [r.st.items[i] EXCEPT !.data = r.st.items[i].data \o data]]
                 q == [r EXCEPT !.st.items = v]
      <3>1. [r EXCEPT !.st.items[i].data = @ \o data] = q
        OBVIOUS
      <3>2. Listed(v)
        BY ListedChanged DEF Adding, ResponsesOut
      <3> HIDE DEF v
      <3>3. Adding(q, sent)
        BY <3>2, AddingState
      <3> HIDE DEF q
      <3>4. Adding(Write(q, [Event("delta") EXCEPT !.index = i - 1, !.kind = kind,
                                                   !.data = data]), sent)
        BY <3>3, AddingMore, ResponsesEvents
      <3> QED
        BY <3>1, <3>4
    <2> DEFINE j == CHOOSE i \in ItemOf(r.st, kind, key) : TRUE
    <2>2. ItemDelta(r, kind, key, data) =
            IF data = <<>> THEN r
            ELSE Write([r EXCEPT !.st.items[j].data = @ \o data],
                       [Event("delta") EXCEPT !.index = j - 1, !.kind = kind, !.data = data])
      BY DEF ItemDelta
    <2> HIDE DEF j
    <2> QED
      BY <2>1, <2>2
  <1> QED
    BY <1>1, <1>2, <1>3

\* text, reasoning, calls and the ends of items,
LEMMA ResponsesSayings ==
  ASSUME NEW sent, NEW r, Adding(r, sent)
  PROVE  /\ \A kind, data : Adding(SayInItem(r, kind, data), sent)
         /\ \A c : Adding(CallInItem(r, c), sent)
         /\ \A items, kind, i : Adding(Done(<<items, kind>>, r, i), sent)
  <1>1. ASSUME NEW kind, NEW data PROVE Adding(SayInItem(r, kind, data), sent)
    <2>1. Adding(AddItem(r, kind, 0, 0), sent)
      BY ResponsesSteps
    <2>2. Adding(ItemDelta(AddItem(r, kind, 0, 0), kind, 0, data), sent)
      BY <2>1, ResponsesSteps
    <2> QED
      BY <2>2 DEF SayInItem
  <1>2. ASSUME NEW c PROVE Adding(CallInItem(r, c), sent)
    <2>1. Adding(AddItem(r, "call", c.index, c.name), sent)
      BY ResponsesSteps
    <2>2. Adding(ItemDelta(AddItem(r, "call", c.index, c.name), "call", c.index, c.args), sent)
      BY <2>1, ResponsesSteps
    <2> QED
      BY <2>2 DEF CallInItem
  <1>3. ASSUME NEW items, NEW kind, NEW i PROVE Adding(Done(<<items, kind>>, r, i), sent)
    <2>1. Harmless("responses", DoneEvent(items, kind, i))
      BY ResponsesEvents DEF DoneEvent
    <2>2. Adding(Write(r, DoneEvent(items, kind, i)), sent)
      BY <2>1, AddingMore
    <2> QED
      BY <2>2 DEF Done
  <1> QED
    BY <1>1, <1>2, <1>3

\* all calls of a chunk,
LEMMA ItemsAdding ==
  ASSUME NEW sent, NEW r, Adding(r, sent), NEW s, Listed(s)
  PROVE  Adding(FoldLeft(CallInItem, r, s), sent)
  <1>1. PICK X : s \in Seq(X)
    BY DEF Listed
  <1>2. FoldLeft(CallInItem, r, s) = Fold("item", 0, r, s)
    BY <1>1, ItemFold
  <1> DEFINE n == Len(s)
  <1>3. n \in Nat
    BY <1>1
  <1>4. PICK v : Run("item", 0, r, s, v)
    BY <1>1, Runs
  <1>5. /\ v[0] = r /\ v[n] = Fold("item", 0, r, s)
        /\ \A i \in 1..n : v[i] = Applied("item", 0, v[i - 1], s[i])
    BY <1>4 DEF Run
  <1> HIDE DEF n
  <1> DEFINE I == {i \in 0..n : Adding(v[i], sent)}
  <1>6. 0 \in I
    BY <1>3, <1>5
  <1>7. ASSUME NEW i \in 1..n, i - 1 \in I PROVE i \in I
    <2>1. v[i] = CallInItem(v[i - 1], s[i])
      BY <1>5 DEF Applied
    <2>2. Adding(v[i - 1], sent)
      BY <1>7
    <2>3. Adding(v[i], sent)
      BY <2>1, <2>2, ResponsesSayings
    <2> QED
      BY <2>3
  <1> HIDE DEF I
  <1>8. n \in I
    BY <1>3, <1>6, <1>7, Climb
  <1> QED
    BY <1>2, <1>5, <1>8 DEF I

\* and the ends of all items of a kind.
LEMMA DoneAdding ==
  ASSUME NEW sent, NEW r, Adding(r, sent), NEW items, Listed(items), NEW kind
  PROVE  Adding(ItemsDone(r, items, kind), sent)
  <1> DEFINE s == [i \in DOMAIN items |-> i]
             n == Len(s)
             x == <<items, kind>>
  <1>1. s \in Seq(Nat) /\ n \in Nat
    <2>1. Len(items) \in Nat /\ DOMAIN items = 1..Len(items)
      BY ListedIs
    <2>2. s \in Seq(Nat)
      BY <2>1
    <2> HIDE DEF s
    <2> QED
      BY <2>2
  <1>2. ItemsDone(r, items, kind) = Fold("done", x, r, s)
    BY <1>1, DoneFold
  <1> HIDE DEF s
  <1>3. PICK v : Run("done", x, r, s, v)
    BY <1>1, Runs
  <1>4. /\ v[0] = r /\ v[n] = Fold("done", x, r, s)
        /\ \A i \in 1..n : v[i] = Applied("done", x, v[i - 1], s[i])
    BY <1>3 DEF Run
  <1> HIDE DEF n
  <1> DEFINE I == {i \in 0..n : Adding(v[i], sent)}
  <1>5. 0 \in I
    BY <1>1, <1>4
  <1>6. ASSUME NEW i \in 1..n, i - 1 \in I PROVE i \in I
    <2>1. v[i] = Done(<<items, kind>>, v[i - 1], s[i])
      BY <1>4 DEF Applied, x
    <2>2. Adding(v[i - 1], sent)
      BY <1>6
    <2>3. Adding(v[i], sent)
      BY <2>1, <2>2, ResponsesSayings
    <2> QED
      BY <2>3
  <1> HIDE DEF I
  <1>7. n \in I
    BY <1>1, <1>5, <1>6, Climb
  <1> QED
    BY <1>2, <1>4, <1>7 DEF I

\* The emitter sends the end once, as its last event.
LEMMA FinishResponsesEmits ==
  ASSUME NEW sent \in BOOLEAN, NEW r, Adding(r, sent)
  PROVE  /\ ResponsesOut(FinishResponses(r).st)
         /\ Emits("responses", sent, FinishResponses(r))
         /\ FinishResponses(r).st.sent = TRUE
  <1>1. CASE sent = TRUE
    BY <1>1 DEF FinishResponses, Adding, Emits
  <1>2. CASE sent = FALSE
    <2> DEFINE items == r.st.items
               a == [r EXCEPT !.st.sent = TRUE]
               b == Created(a)
               d == ItemsDone(ItemsDone(ItemsDone(b, items, "think"), items, "text"),
                              items, "call")
               e == [Event("completed") EXCEPT !.output = items, !.usage = r.st.usage]
               f == Write(d, e)
    <2>1. \A v : Adding([r EXCEPT !.st.sent = v], v)
      BY AddingState
    <2>2. Adding(a, TRUE)
      BY <2>1
    <2> HIDE DEF a
    <2>3. Adding(b, TRUE)
      BY <2>2, ResponsesSteps
    <2> HIDE DEF b
    <2>4. Listed(items)
      BY DEF Adding, ResponsesOut
    <2>5. FinishResponses(r) = f
      BY <1>2 DEF FinishResponses, Adding, a, b
    <2> HIDE DEF items
    <2>6. Adding(d, TRUE)
      <3>1. Adding(ItemsDone(b, items, "think"), TRUE)
        BY <2>3, <2>4, DoneAdding
      <3>2. Adding(ItemsDone(ItemsDone(b, items, "think"), items, "text"), TRUE)
        BY <2>4, <3>1, DoneAdding
      <3> QED
        BY <2>4, <3>2, DoneAdding
    <2> HIDE DEF d
    <2>7. f = [st |-> d.st, out |-> Append(d.out, e)]
      BY <2>6 DEF Write, Adding
    <2>8. ResponsesOut(d.st) /\ d.st.sent = TRUE /\ Quiet("responses", d.out)
      BY <2>6 DEF Adding
    <2>9. Known("responses", e) /\ Terminal("responses", e)
      BY ResponsesEvents
    <2> HIDE DEF e
    <2>10. Ending("responses", Append(d.out, e))
      BY <2>8, <2>9 DEF Ending
    <2> HIDE DEF f
    <2> QED
      BY <1>2, <2>5, <2>7, <2>8, <2>10 DEF Emits
  <1> QED
    BY <1>1, <1>2

\* A chunk ends the answer only with a finish reason, and only once.
LEMMA FeedResponsesEmits ==
  ASSUME NEW st, ResponsesOut(st), st.sent \in BOOLEAN, NEW c, Listed(c.calls)
  PROVE  /\ ResponsesOut(FeedResponses(st, c).st)
         /\ Emits("responses", st.sent, FeedResponses(st, c))
         /\ c.finish = "none" => FeedResponses(st, c).st.sent = st.sent
  <1> DEFINE noted == Noted(st, c)
             r == [st |-> noted, out |-> <<>>]
             spoken == SayInItem(SayInItem(Created(r), "text", c.text), "think", c.think)
             called == FoldLeft(CallInItem, spoken, c.calls)
  <1>1. FeedResponses(st, c) = IF ~c.choices THEN r
                               ELSE IF c.finish # "none" THEN FinishResponses(called) ELSE called
    BY DEF FeedResponses
  <1>2. ResponsesOut(noted) /\ noted.sent = st.sent
    <2> DEFINE a == [st EXCEPT !.usage = c.usage]
    <2>1. ResponsesOut(a) /\ a.sent = st.sent
      BY ResponsesFields
    <2> HIDE DEF a
    <2>2. /\ ResponsesOut([a EXCEPT !.finish = c.finish])
          /\ [a EXCEPT !.finish = c.finish].sent = st.sent
      BY <2>1, ResponsesFields
    <2>3. /\ ResponsesOut([st EXCEPT !.finish = c.finish])
          /\ [st EXCEPT !.finish = c.finish].sent = st.sent
      BY ResponsesFields
    <2> QED
      BY <2>1, <2>2, <2>3 DEF Noted, a
  <1> HIDE DEF noted
  <1>3. Adding(r, st.sent)
    BY <1>2, QuietNothing, AddingIs
  <1> HIDE DEF r
  <1>4. Adding(spoken, st.sent)
    <2>1. Adding(Created(r), st.sent)
      BY <1>3, ResponsesSteps
    <2>2. Adding(SayInItem(Created(r), "text", c.text), st.sent)
      BY <2>1, ResponsesSayings
    <2> QED
      BY <2>2, ResponsesSayings
  <1> HIDE DEF spoken
  <1>5. Adding(called, st.sent)
    BY <1>4, ItemsAdding
  <1> HIDE DEF called
  <1>6. /\ ResponsesOut(FinishResponses(called).st)
        /\ Emits("responses", st.sent, FinishResponses(called))
    BY <1>5, FinishResponsesEmits
  <1>7. /\ ResponsesOut(r.st) /\ r.st.sent = st.sent /\ Quiet("responses", r.out)
        /\ ResponsesOut(called.st) /\ called.st.sent = st.sent /\ Quiet("responses", called.out)
    BY <1>3, <1>5 DEF Adding
  <1>8. CASE ~c.choices
    BY <1>1, <1>7, <1>8 DEF Emits
  <1>9. CASE c.choices /\ c.finish = "none"
    BY <1>1, <1>7, <1>9 DEF Emits
  <1>10. CASE c.choices /\ c.finish # "none"
    BY <1>1, <1>6, <1>10
  <1> QED
    BY <1>8, <1>9, <1>10

------------------------------------------------------------------------------
(* The tools of a Responses client, restored in what the emitter writes *)

\* What follows harmless events decides whether all of it ends.
LEMMA Joined ==
  ASSUME NEW en, NEW s, Quiet(en, s), NEW t
  PROVE  /\ Quiet(en, t) => Quiet(en, s \o t)
         /\ Ending(en, t) => Ending(en, s \o t)
  <1>1. ASSUME NEW u, Quiet(en, u) PROVE Quiet(en, s \o u)
    <2>1. PICK X : s \in Seq(X)
      BY DEF Quiet, Listed
    <2>2. PICK Y : u \in Seq(Y)
      BY <1>1 DEF Quiet, Listed
    <2> DEFINE Z == X \cup Y
    <2>3. s \in Seq(Z) /\ u \in Seq(Z)
      BY <2>1, <2>2
    <2> HIDE DEF Z
    <2>4. /\ s \o u \in Seq(Z)
          /\ \A i \in DOMAIN (s \o u) : \/ i \in DOMAIN s /\ (s \o u)[i] = s[i]
                                        \/ i - Len(s) \in DOMAIN u /\ (s \o u)[i] = u[i - Len(s)]
      BY <2>3
    <2> QED
      BY <1>1, <2>4 DEF Quiet, Listed
  <1>2. ASSUME Ending(en, t) PROVE Ending(en, s \o t)
    <2>1. PICK u, e : t = Append(u, e) /\ Quiet(en, u) /\ Known(en, e) /\ Terminal(en, e)
      BY <1>2 DEF Ending
    <2>2. Quiet(en, s \o u)
      BY <1>1, <2>1
    <2>3. PICK X : s \in Seq(X)
      BY DEF Quiet, Listed
    <2>4. PICK Y : u \in Seq(Y)
      BY <2>1 DEF Quiet, Listed
    <2> DEFINE Z == (X \cup Y) \cup {e}
    <2>5. s \in Seq(Z) /\ u \in Seq(Z) /\ e \in Z
      BY <2>3, <2>4
    <2> HIDE DEF Z
    <2>6. s \o Append(u, e) = Append(s \o u, e)
      BY <2>5
    <2> QED
      BY <2>1, <2>2, <2>6 DEF Ending
  <1> QED
    BY <1>1, <1>2

\* v[i] is what the first i lists of s are together.
Glued(s, v) ==
  /\ v[1] = s[1]
  /\ \A i \in 2..Len(s) : v[i] = v[i - 1] \o s[i]
  /\ FlattenSeq(s) = v[Len(s)]

Flat(s, k, f) == f = [i \in 1..k |-> IF i = 1 THEN s[i] ELSE f[i - 1] \o s[i]]

\* The first k sequences of a sequence, joined: one more can be added,
LEMMA FlatNext ==
  ASSUME NEW s, NEW k \in Nat \ {0}, NEW f, Flat(s, k - 1, f)
  PROVE  \E g : Flat(s, k, g)
  <1> DEFINE x == IF k = 1 THEN s[k] ELSE f[k - 1] \o s[k]
             g == [i \in 1..k |-> IF i = k THEN x ELSE f[i]]
             G(i) == IF i = 1 THEN s[i] ELSE g[i - 1] \o s[i]
  <1>1. ASSUME NEW i \in 1..k PROVE g[i] = G(i)
    <2>1. CASE i = k
      <3>1. g[i] = x
        BY <2>1
      <3>2. i # 1 => g[i - 1] = f[i - 1]
        <4>1. i # 1 => i - 1 \in 1..k /\ i - 1 # k
          BY <2>1
        <4> QED
          BY <4>1
      <3> QED
        BY <2>1, <3>1, <3>2
    <2>2. CASE i # k
      <3>1. i \in 1..(k - 1)
        BY <2>2
      <3>2. f[i] = IF i = 1 THEN s[i] ELSE f[i - 1] \o s[i]
        BY <3>1 DEF Flat
      <3>3. g[i] = f[i]
        BY <2>2
      <3>4. i # 1 => g[i - 1] = f[i - 1]
        <4>1. i # 1 => i - 1 \in 1..k /\ i - 1 # k
          BY <3>1
        <4> QED
          BY <4>1
      <3> QED
        BY <3>2, <3>3, <3>4
    <2> QED
      BY <2>1, <2>2
  <1>2. g = [i \in 1..k |-> g[i]]
    OBVIOUS
  <1> HIDE DEF g
  <1>3. g = [i \in 1..k |-> G(i)]
    <2> HIDE DEF G
    <2> QED
      BY <1>1, <1>2, Zenon
  <1> QED
    BY <1>3 DEF Flat

\* so they exist for any number,
LEMMA FlatExists ==
  ASSUME NEW s, NEW n \in Nat
  PROVE  \E f : Flat(s, n, f)
  <1> DEFINE I == {k \in 0..n : \E f : Flat(s, k, f)}
  <1>1. 0 \in I
    <2> DEFINE f == [i \in 1..0 |-> 0]
               G(i) == IF i = 1 THEN s[i] ELSE f[i - 1] \o s[i]
    <2>1. 1..0 = {}
      OBVIOUS
    <2>2. f = [i \in 1..0 |-> G(i)]
      <3> HIDE DEF G
      <3> QED
        BY <2>1
    <2>3. Flat(s, 0, f)
      BY <2>2 DEF Flat
    <2> QED
      BY <2>3
  <1>2. ASSUME NEW k \in 1..n, k - 1 \in I PROVE k \in I
    <2>1. PICK f : Flat(s, k - 1, f)
      BY <1>2
    <2>2. k \in Nat \ {0} /\ k \in 0..n
      OBVIOUS
    <2> QED
      BY <2>1, <2>2, FlatNext
  <1> HIDE DEF I
  <1>3. n \in I
    BY <1>1, <1>2, Climb
  <1> QED
    BY <1>3 DEF I

\* and give what FlattenSeq gives.
LEMMA Glues ==
  ASSUME NEW s, Listed(s), s # <<>>
  PROVE  \E v : Glued(s, v)
  <1> DEFINE n == Len(s)
             h == CHOOSE f : Flat(s, n, f)
  <1>1. n \in Nat \ {0}
    <2>1. PICK X : s \in Seq(X)
      BY DEF Listed
    <2> QED
      BY <2>1
  <1>2. FlattenSeq(s) = h[n]
    <2>1. Len(s) # 0
      BY <1>1
    <2> QED
      BY <2>1, Zenon DEF FlattenSeq, Flat
  <1> HIDE DEF n
  <1>3. Flat(s, n, h)
    BY <1>1, FlatExists
  <1> HIDE DEF h
  <1>4. ASSUME NEW i \in 1..n PROVE h[i] = IF i = 1 THEN s[i] ELSE h[i - 1] \o s[i]
    BY <1>3 DEF Flat
  <1>5. h[1] = s[1]
    BY <1>1, <1>4
  <1>6. ASSUME NEW i \in 2..n PROVE h[i] = h[i - 1] \o s[i]
    <2>1. i \in 1..n /\ i # 1
      BY <1>1
    <2> QED
      BY <1>4, <2>1
  <1> QED
    BY <1>2, <1>5, <1>6 DEF Glued, n

\* Harmless sequences joined are harmless.
LEMMA FlatQuiet ==
  ASSUME NEW en, NEW s, Listed(s), NEW m \in Nat, m <= Len(s),
         NEW v, Glued(s, v), \A i \in 1..m : Quiet(en, s[i]), m # 0
  PROVE  Quiet(en, v[m])
  <1> DEFINE I == {i \in 0..m : i = 0 \/ Quiet(en, v[i])}
             n == Len(s)
  <1>1. n \in Nat
    BY ListedIs
  <1>2. 0 \in I
    OBVIOUS
  <1>3. v[1] = s[1] /\ \A i \in 2..n : v[i] = v[i - 1] \o s[i]
    BY DEF Glued
  <1>4. m <= n
    OBVIOUS
  <1> HIDE DEF n
  <1>5. ASSUME NEW i \in 1..m, i - 1 \in I PROVE i \in I
    <2>1. Quiet(en, s[i])
      OBVIOUS
    <2>2. CASE i = 1
      BY <1>3, <2>1, <2>2
    <2>3. CASE i # 1
      <3>1. i \in 2..n
        BY <1>1, <1>4, <2>3
      <3>2. v[i] = v[i - 1] \o s[i]
        BY <1>3, <3>1
      <3>3. Quiet(en, v[i - 1])
        BY <1>5, <2>3
      <3>4. Quiet(en, v[i])
        BY <2>1, <3>2, <3>3, Joined
      <3> QED
        BY <3>4
    <2> QED
      BY <2>2, <2>3
  <1> HIDE DEF I
  <1>6. m \in I
    BY <1>2, <1>5, Climb
  <1> QED
    BY <1>6 DEF I

\* One or two harmless events.
LEMMA QuietFew ==
  ASSUME NEW en, NEW e, Harmless(en, e)
  PROVE  /\ Quiet(en, <<e>>)
         /\ \A d : Harmless(en, d) => Quiet(en, <<e, d>>)
  <1>1. Quiet(en, <<e>>)
    <2>1. <<e>> \in Seq({e}) /\ DOMAIN <<e>> = {1} /\ <<e>>[1] = e
      OBVIOUS
    <2> QED
      BY <2>1 DEF Quiet, Listed
  <1>2. ASSUME NEW d, Harmless(en, d) PROVE Quiet(en, <<e, d>>)
    <2>1. /\ <<e, d>> \in Seq({e, d}) /\ DOMAIN <<e, d>> = {1, 2}
          /\ <<e, d>>[1] = e /\ <<e, d>>[2] = d
      OBVIOUS
    <2> QED
      BY <1>2, <2>1 DEF Quiet, Listed
  <1> QED
    BY <1>1, <1>2

\* A terminal event alone.
LEMMA EndingOne ==
  ASSUME NEW en, NEW e, Known(en, e), Terminal(en, e)
  PROVE  Ending(en, <<e>>)
  <1>1. Quiet(en, <<>>) /\ <<e>> = Append(<<>>, e)
    BY QuietNothing, ListedIs
  <1> QED
    BY <1>1 DEF Ending

\* An event restored to the client's tools is still harmless,
LEMMA ToolEventsQuiet ==
  ASSUME NEW items, NEW e, Harmless("responses", e)
  PROVE  Quiet("responses", ToolEvents(items, e))
  <1> DEFINE p == RestoreItem(items[e.index + 1])
             custom == e.index + 1 \in DOMAIN items /\ items[e.index + 1].name < 0
  <1>1. e.type \in {"created", "added", "delta", "done"} /\ IsEvent(e)
    BY DEF Harmless, Known, Terminal
  <1>2. \A d : IsEvent(d) /\ d.type \in {"created", "added", "delta", "done"}
                 => Harmless("responses", d)
    <2>1. DoneMark.type = "[DONE]"
      BY DEF DoneMark, Event
    <2> QED
      BY <2>1 DEF Harmless, Known, Terminal
  <1> HIDE DEF p, custom
  <1>3. CASE e.type = "added" /\ custom
    <2> DEFINE a == [e EXCEPT !.kind = p.kind]
               b == [e EXCEPT !.kind = p.kind, !.name = p.name]
    <2>1. b = [a EXCEPT !.name = p.name]
      OBVIOUS
    <2>2. IsEvent(a) /\ a.type = e.type
      BY <1>1, EventFields
    <2> HIDE DEF a
    <2>3. IsEvent(b) /\ b.type = e.type
      <3>1. \A v : IsEvent([a EXCEPT !.name = v]) /\ [a EXCEPT !.name = v].type = a.type
        BY <2>2, EventFields
      <3> QED
        BY <2>1, <2>2, <3>1
    <2>4. ToolEvents(items, e) = <<b>>
      BY <1>3 DEF ToolEvents, p, custom
    <2> HIDE DEF b
    <2> QED
      BY <1>1, <1>2, <2>3, <2>4, QuietFew
  <1>4. CASE e.type = "delta" /\ custom
    <2>1. ToolEvents(items, e) = <<>>
      BY <1>4 DEF ToolEvents, custom
    <2> QED
      BY <2>1, QuietNothing
  <1>5. CASE e.type = "done" /\ custom
    <2> DEFINE a == [e EXCEPT !.type = "delta"]
               b == [e EXCEPT !.type = "delta", !.kind = p.kind]
               c == [e EXCEPT !.type = "delta", !.kind = p.kind, !.data = p.data]
               f == [e EXCEPT !.kind = p.kind]
               g == [e EXCEPT !.kind = p.kind, !.name = p.name]
               h == [e EXCEPT !.kind = p.kind, !.name = p.name, !.data = p.data]
    <2>1. /\ b = [a EXCEPT !.kind = p.kind] /\ c = [b EXCEPT !.data = p.data]
          /\ g = [f EXCEPT !.name = p.name] /\ h = [g EXCEPT !.data = p.data]
      OBVIOUS
    <2>2. IsEvent(a) /\ a.type = "delta"
      BY <1>1 DEF IsEvent
    <2>3. IsEvent(f) /\ f.type = "done"
      BY <1>1, <1>5, EventFields
    <2>4. ToolEvents(items, e) = <<c, h>>
      BY <1>5 DEF ToolEvents, p, custom
    <2> HIDE DEF a, b, c, f, g, h
    <2>5. IsEvent(b) /\ b.type = "delta" /\ IsEvent(g) /\ g.type = "done"
      <3>1. \A v : IsEvent([a EXCEPT !.kind = v]) /\ [a EXCEPT !.kind = v].type = a.type
        BY <2>2, EventFields
      <3>2. \A v : IsEvent([f EXCEPT !.name = v]) /\ [f EXCEPT !.name = v].type = f.type
        BY <2>3, EventFields
      <3> QED
        BY <2>1, <2>2, <2>3, <3>1, <3>2
    <2>6. IsEvent(c) /\ c.type = "delta" /\ IsEvent(h) /\ h.type = "done"
      <3>1. \A v : IsEvent([b EXCEPT !.data = v]) /\ [b EXCEPT !.data = v].type = b.type
        BY <2>5, EventFields
      <3>2. \A v : IsEvent([g EXCEPT !.data = v]) /\ [g EXCEPT !.data = v].type = g.type
        BY <2>5, EventFields
      <3> QED
        BY <2>1, <2>5, <3>1, <3>2
    <2> QED
      BY <1>2, <2>4, <2>6, QuietFew
  <1>6. CASE ~custom \/ e.type = "created"
    <2>1. ToolEvents(items, e) = <<e>>
      BY <1>1, <1>6 DEF ToolEvents, custom
    <2> QED
      BY <2>1, QuietFew
  <1> QED
    BY <1>1, <1>3, <1>4, <1>5, <1>6

\* or still the end,
LEMMA ToolEventsEnding ==
  ASSUME NEW items, NEW e, Known("responses", e), Terminal("responses", e)
  PROVE  Ending("responses", ToolEvents(items, e))
  <1>1. DoneMark.type = "[DONE]"
    BY DEF DoneMark, Event
  <1>2. CASE e.type = "completed"
    <2> DEFINE v == [i \in DOMAIN e.output |-> RestoreItem(e.output[i])]
               d == [e EXCEPT !.output = v]
    <2>1. ToolEvents(items, e) = <<d>>
      BY <1>2 DEF ToolEvents
    <2>2. IsEvent(e)
      BY <1>1, <1>2 DEF Known
    <2> HIDE DEF v
    <2>3. IsEvent(d) /\ d.type = "completed"
      BY <1>2, <2>2, EventFields
    <2> HIDE DEF d
    <2>4. Known("responses", d) /\ Terminal("responses", d)
      BY <2>3 DEF Known, Terminal
    <2> QED
      BY <2>1, <2>4, EndingOne
  <1>3. CASE e.type # "completed"
    <2>1. e.type \in {"failed", "[DONE]"}
      BY <1>1, <1>3 DEF Terminal
    <2>2. ToolEvents(items, e) = <<e>>
      BY <2>1 DEF ToolEvents
    <2> QED
      BY <2>2, EndingOne
  <1> QED
    BY <1>2, <1>3

Restored(items, out) == FlattenSeq([i \in DOMAIN out |-> ToolEvents(items, out[i])])

\* and so is a sequence of them.
LEMMA RestoredQuiet ==
  ASSUME NEW items, NEW out
  PROVE  /\ Quiet("responses", out) => Quiet("responses", Restored(items, out))
         /\ Ending("responses", out) => Ending("responses", Restored(items, out))
  <1> DEFINE s == [i \in DOMAIN out |-> ToolEvents(items, out[i])]
             n == Len(s)
  <1>1. ASSUME Listed(out)
        PROVE  Listed(s) /\ n = Len(out) /\ n \in Nat /\ DOMAIN out = 1..n
               /\ \A i \in 1..n : s[i] = ToolEvents(items, out[i])
    <2>1. Len(out) \in Nat /\ DOMAIN out = 1..Len(out)
      BY <1>1, ListedIs
    <2> DEFINE T(i) == ToolEvents(items, out[i])
               X == {T(i) : i \in 1..Len(out)}
    <2>2. s = [i \in 1..Len(out) |-> T(i)]
      BY <2>1
    <2> HIDE DEF T
    <2>3. s \in Seq(X)
      BY <2>1, <2>2
    <2>4. Len(s) = Len(out)
      BY <2>1, <2>2
    <2> QED
      BY <2>1, <2>2, <2>3, <2>4 DEF Listed, T
  <1>2. ASSUME Quiet("responses", out) PROVE Quiet("responses", Restored(items, out))
    <2>1. Listed(out) /\ \A i \in DOMAIN out : Harmless("responses", out[i])
      BY <1>2 DEF Quiet
    <2>2. \A i \in 1..n : Quiet("responses", s[i])
      BY <1>1, <2>1, ToolEventsQuiet
    <2>3. Listed(s) /\ n \in Nat /\ DOMAIN s = 1..n
      BY <1>1, <2>1, ListedIs
    <2>4. Restored(items, out) = FlattenSeq(s)
      BY DEF Restored
    <2> HIDE DEF s
    <2>5. CASE n = 0
      <3>1. FlattenSeq(s) = s
        BY <2>5 DEF FlattenSeq
      <3> QED
        BY <2>3, <2>4, <2>5, <3>1 DEF Quiet
    <2>6. CASE n # 0
      <3>1. s # <<>>
        BY <2>6
      <3>2. PICK v : Glued(s, v)
        BY <2>3, <3>1, Glues
      <3>3. n <= Len(s) /\ FlattenSeq(s) = v[n]
        BY <2>3, <3>2 DEF Glued
      <3> HIDE DEF n
      <3>4. Quiet("responses", v[n])
        BY <2>2, <2>3, <2>6, <3>2, <3>3, FlatQuiet
      <3> QED
        BY <2>4, <3>3, <3>4
    <2> QED
      BY <2>5, <2>6
  <1>3. ASSUME Ending("responses", out) PROVE Ending("responses", Restored(items, out))
    <2>1. PICK t, e : /\ out = Append(t, e) /\ Quiet("responses", t)
                      /\ Known("responses", e) /\ Terminal("responses", e)
      BY <1>3 DEF Ending
    <2>2. /\ Listed(out) /\ Len(out) = Len(t) + 1 /\ out[Len(t) + 1] = e
          /\ \A i \in DOMAIN t : out[i] = t[i]
          /\ Len(t) \in Nat /\ DOMAIN t = 1..Len(t)
      BY <2>1, Appended, ListedIs DEF Quiet
    <2> DEFINE m == Len(t)
    <2>3. /\ Listed(s) /\ n = m + 1 /\ n \in Nat /\ m \in Nat
          /\ \A i \in 1..n : s[i] = ToolEvents(items, out[i])
      BY <1>1, <2>2
    <2>4. \A i \in 1..m : Quiet("responses", s[i])
      <3> TAKE i \in 1..m
      <3>1. i \in 1..n /\ out[i] = t[i] /\ i \in DOMAIN t
        BY <2>2, <2>3
      <3>2. Harmless("responses", t[i])
        BY <2>1, <3>1 DEF Quiet
      <3> QED
        BY <2>3, <3>1, <3>2, ToolEventsQuiet
    <2>5. Ending("responses", s[n])
      <3>1. n \in 1..n /\ out[n] = e
        BY <2>2, <2>3
      <3>2. s[n] = ToolEvents(items, e)
        BY <2>3, <3>1
      <3> QED
        BY <2>1, <3>2, ToolEventsEnding
    <2>6. Restored(items, out) = FlattenSeq(s)
      BY DEF Restored
    <2> HIDE DEF s, m
    <2>7. s # <<>>
      BY <2>3
    <2>8. PICK v : Glued(s, v)
      BY <2>3, <2>7, Glues
    <2>9. v[1] = s[1] /\ (\A i \in 2..n : v[i] = v[i - 1] \o s[i]) /\ FlattenSeq(s) = v[n]
      BY <2>8 DEF Glued
    <2>10. CASE m = 0
      BY <2>3, <2>5, <2>6, <2>9, <2>10
    <2>11. CASE m # 0
      <3>1. m <= Len(s)
        BY <2>3
      <3>2. Quiet("responses", v[m])
        BY <2>3, <2>4, <2>8, <2>11, <3>1, FlatQuiet
      <3>3. n \in 2..n /\ n - 1 = m
        BY <2>3, <2>11
      <3>4. v[n] = v[m] \o s[n]
        BY <2>9, <3>3
      <3> QED
        BY <2>5, <2>6, <2>9, <3>2, <3>4, Joined
    <2> QED
      BY <2>10, <2>11
  <1> QED
    BY <1>2, <1>3

------------------------------------------------------------------------------
(* The pipe: what reaches the client *)

\* What is written decides how many ends the client counts.
LEMMA ReadAllEnds ==
  ASSUME NEW en, NEW cl, Client(cl), NEW s
  PROVE  /\ Quiet(en, s) => Same(cl, ReadAll(en, cl, s))
         /\ Ending(en, s) => /\ Client(ReadAll(en, cl, s))
                             /\ ReadAll(en, cl, s).ended = cl.ended + 1
  <1>1. ASSUME Listed(s) PROVE ReadAll(en, cl, s) = Fold("read", en, cl, s)
    <2>1. PICK X : s \in Seq(X)
      BY <1>1 DEF Listed
    <2> QED
      BY <2>1, ReadFold
  <1>2. Quiet(en, s) => Same(cl, ReadAll(en, cl, s))
    BY <1>1, ReadQuiet DEF Quiet
  <1>3. ASSUME Ending(en, s)
        PROVE  Client(ReadAll(en, cl, s)) /\ ReadAll(en, cl, s).ended = cl.ended + 1
    <2>1. /\ Client(Fold("read", en, cl, s)) /\ Fold("read", en, cl, s).ended = cl.ended + 1
          /\ Listed(s)
      BY <1>3, ReadEnding
    <2> QED
      BY <1>1, <2>1
  <1> QED
    BY <1>2, <1>3

OutShape(en, st) ==
  /\ IF en = "responses" THEN ResponsesOut(st) ELSE MessagesOut(st)
  /\ st.sent \in BOOLEAN

IsPipe(p) ==
  /\ p = [entry |-> p.entry, up |-> p.up, stream |-> p.stream, in |-> p.in, out |-> p.out,
          agg |-> p.agg, usage |-> p.usage, client |-> p.client]
  /\ p.entry \in Protocols /\ p.up \in Protocols /\ p.stream \in BOOLEAN
  /\ OutShape(p.entry, p.out)
  /\ Client(p.client)

\* q is p on the same way.
Route(p, q) == q.entry = p.entry /\ q.up = p.up /\ q.stream = p.stream

Kept(p, q) == Route(p, q) /\ q.in = p.in /\ q.agg = p.agg

\* A call with another converter state,
LEMMA InField ==
  ASSUME NEW p, IsPipe(p)
  PROVE  \A v : /\ IsPipe([p EXCEPT !.in = v])
               /\ Route(p, [p EXCEPT !.in = v])
               /\ [p EXCEPT !.in = v].in = v
               /\ [p EXCEPT !.in = v].agg = p.agg
               /\ [p EXCEPT !.in = v].out = p.out
               /\ [p EXCEPT !.in = v].usage = p.usage
               /\ [p EXCEPT !.in = v].client = p.client
  BY DEF IsPipe, Route

\* another aggregate,
LEMMA AggField ==
  ASSUME NEW p, IsPipe(p)
  PROVE  \A v : /\ IsPipe([p EXCEPT !.agg = v])
               /\ Route(p, [p EXCEPT !.agg = v])
               /\ [p EXCEPT !.agg = v].in = p.in
               /\ [p EXCEPT !.agg = v].agg = v
               /\ [p EXCEPT !.agg = v].out = p.out
               /\ [p EXCEPT !.agg = v].usage = p.usage
               /\ [p EXCEPT !.agg = v].client = p.client
  BY DEF IsPipe, Route

\* another usage,
LEMMA UsageField ==
  ASSUME NEW p, IsPipe(p)
  PROVE  \A v : /\ IsPipe([p EXCEPT !.usage = v])
               /\ Kept(p, [p EXCEPT !.usage = v])
               /\ [p EXCEPT !.usage = v].out = p.out
               /\ [p EXCEPT !.usage = v].usage = v
               /\ [p EXCEPT !.usage = v].client = p.client
  BY DEF IsPipe, Route, Kept

\* another emitter state
LEMMA OutField ==
  ASSUME NEW p, IsPipe(p)
  PROVE  \A v : /\ OutShape(p.entry, v) => IsPipe([p EXCEPT !.out = v])
               /\ Kept(p, [p EXCEPT !.out = v])
               /\ [p EXCEPT !.out = v].out = v
               /\ [p EXCEPT !.out = v].usage = p.usage
               /\ [p EXCEPT !.out = v].client = p.client
  BY DEF IsPipe, Route, Kept

\* or another client is a call on the same way.
LEMMA ClientField ==
  ASSUME NEW p, IsPipe(p)
  PROVE  \A v : /\ Client(v) => IsPipe([p EXCEPT !.client = v])
               /\ Kept(p, [p EXCEPT !.client = v])
               /\ [p EXCEPT !.client = v].out = p.out
               /\ [p EXCEPT !.client = v].usage = p.usage
               /\ [p EXCEPT !.client = v].client = v
  BY DEF IsPipe, Route, Kept

\* The client counts an end when one is delivered.
LEMMA DeliverEnds ==
  ASSUME NEW p, IsPipe(p), NEW s
  PROVE  /\ Quiet(p.entry, s) \/ Ending(p.entry, s)
              => /\ IsPipe(Deliver(p, s)) /\ Kept(p, Deliver(p, s))
                 /\ Deliver(p, s).out = p.out /\ Deliver(p, s).usage = p.usage
         /\ Quiet(p.entry, s) => Deliver(p, s).client.ended = p.client.ended
         /\ Ending(p.entry, s) => Deliver(p, s).client.ended = p.client.ended + 1
  <1> DEFINE v == ReadAll(p.entry, p.client, s)
             q == [p EXCEPT !.client = v]
  <1>1. Deliver(p, s) = q
    BY DEF Deliver
  <1>2. /\ Quiet(p.entry, s) => Same(p.client, v)
        /\ Ending(p.entry, s) => Client(v) /\ v.ended = p.client.ended + 1
    BY ReadAllEnds DEF IsPipe
  <1> HIDE DEF v
  <1>3. /\ Client(v) => IsPipe(q)
        /\ Kept(p, q) /\ q.out = p.out /\ q.usage = p.usage /\ q.client = v
    BY ClientField
  <1> HIDE DEF q
  <1> QED
    BY <1>1, <1>2, <1>3 DEF Same

\* The client sees the end when the emitter has sent it.
Ends(p, q) ==
  \/ q.out.sent = p.out.sent /\ q.client.ended = p.client.ended
  \/ p.out.sent = FALSE /\ q.out.sent = TRUE /\ q.client.ended = p.client.ended + 1

\* An emitter that has kept its books about the end keeps them with the client.
LEMMA ToClientEnds ==
  ASSUME NEW p, IsPipe(p), p.entry # "openai", NEW r,
         Emits(p.entry, p.out.sent, r),
         IF p.entry = "responses" THEN ResponsesOut(r.st) ELSE MessagesOut(r.st)
  PROVE  /\ IsPipe(ToClient(p, r)) /\ Kept(p, ToClient(p, r))
         /\ ToClient(p, r).usage = p.usage /\ ToClient(p, r).out = r.st
         /\ Ends(p, ToClient(p, r))
  <1> DEFINE q == [p EXCEPT !.out = r.st]
             s == IF p.entry = "responses" THEN Restored(r.st.items, r.out) ELSE r.out
  <1>1. ToClient(p, r) = Deliver(q, s)
    BY DEF ToClient, Restored
  <1>2. OutShape(p.entry, r.st)
    BY DEF OutShape, Emits, IsPipe
  <1>3. /\ IsPipe(q) /\ Kept(p, q) /\ q.out = r.st /\ q.usage = p.usage
        /\ q.client = p.client
    BY <1>2, OutField
  <1> HIDE DEF q
  <1>4. /\ Quiet(p.entry, r.out) => Quiet(q.entry, s)
        /\ Ending(p.entry, r.out) => Ending(q.entry, s)
    BY <1>3, RestoredQuiet DEF Kept, Route
  <1> HIDE DEF s
  <1>5. CASE r.st.sent = p.out.sent /\ Quiet(p.entry, r.out)
    <2>1. Quiet(q.entry, s)
      BY <1>4, <1>5
    <2>2. /\ IsPipe(Deliver(q, s)) /\ Kept(q, Deliver(q, s))
          /\ Deliver(q, s).out = q.out /\ Deliver(q, s).usage = q.usage
          /\ Deliver(q, s).client.ended = q.client.ended
      BY <1>3, <2>1, DeliverEnds
    <2> QED
      BY <1>1, <1>3, <1>5, <2>2 DEF Kept, Route, Ends
  <1>6. CASE p.out.sent = FALSE /\ r.st.sent = TRUE /\ Ending(p.entry, r.out)
    <2>1. Ending(q.entry, s)
      BY <1>4, <1>6
    <2>2. /\ IsPipe(Deliver(q, s)) /\ Kept(q, Deliver(q, s))
          /\ Deliver(q, s).out = q.out /\ Deliver(q, s).usage = q.usage
          /\ Deliver(q, s).client.ended = q.client.ended + 1
      BY <1>3, <2>1, DeliverEnds
    <2> QED
      BY <1>1, <1>3, <1>6, <2>2 DEF Kept, Route, Ends
  <1> QED
    BY <1>5, <1>6 DEF Emits

IsChunk(c) == c.type = "chunk" /\ Listed(c.calls)

\* A chat chunk ends nothing: [DONE] does.
LEMMA ChunkHarmless ==
  \A c : IsChunk(c) => Harmless("openai", c)
  <1>1. DoneMark.type = "[DONE]"
    BY DEF DoneMark, Event
  <1> QED
    BY <1>1 DEF Harmless, Known, Terminal, IsChunk

\* A chunk on its way to the client: its usage is billed, its finish reason ends.
LEMMA FeedEntryEnds ==
  ASSUME NEW p, IsPipe(p), NEW c, IsChunk(c)
  PROVE  /\ IsPipe(FeedEntry(p, c)) /\ Kept(p, FeedEntry(p, c))
         /\ FeedEntry(p, c).usage = IF c.usage = NoUsage THEN p.usage ELSE c.usage
         /\ p.entry = "openai" => FeedEntry(p, c).client.ended = p.client.ended
         /\ p.entry # "openai" =>
              /\ Ends(p, FeedEntry(p, c))
              /\ c.finish = "none" => FeedEntry(p, c).out.sent = p.out.sent
  <1> DEFINE q == IF c.usage = NoUsage THEN p ELSE [p EXCEPT !.usage = c.usage]
             f == FeedEntry(p, c)
  <1>1. /\ IsPipe(q) /\ Kept(p, q) /\ q.out = p.out /\ q.client = p.client
        /\ q.usage = IF c.usage = NoUsage THEN p.usage ELSE c.usage
    <2> DEFINE d == [p EXCEPT !.usage = c.usage]
    <2>1. IsPipe(d) /\ Kept(p, d) /\ d.out = p.out /\ d.usage = c.usage /\ d.client = p.client
      BY UsageField
    <2> HIDE DEF d
    <2> QED
      BY <2>1 DEF Kept, Route, d
  <1>2. f = CASE p.entry = "openai"    -> Deliver(q, <<c>>)
              [] p.entry = "anthropic" -> ToClient(q, FeedMessages(q.out, c))
              [] p.entry = "responses" -> ToClient(q, FeedResponses(q.out, c))
    BY DEF FeedEntry
  <1>3. q.entry = p.entry /\ OutShape(p.entry, q.out)
    BY <1>1 DEF Kept, Route, IsPipe
  <1> HIDE DEF q, f
  <1>4. CASE p.entry = "openai"
    <2>1. Harmless("openai", c)
      BY ChunkHarmless
    <2>2. Quiet(q.entry, <<c>>)
      BY <1>3, <1>4, <2>1, QuietFew
    <2>3. /\ IsPipe(Deliver(q, <<c>>)) /\ Kept(q, Deliver(q, <<c>>))
          /\ Deliver(q, <<c>>).usage = q.usage
          /\ Deliver(q, <<c>>).client.ended = q.client.ended
      BY <1>1, <2>2, DeliverEnds
    <2>4. f = Deliver(q, <<c>>)
      BY <1>2, <1>4
    <2> QED
      BY <1>1, <1>4, <2>3, <2>4 DEF Kept, Route, f
  <1>5. CASE p.entry = "anthropic"
    <2> DEFINE r == FeedMessages(q.out, c)
               d == ToClient(q, r)
    <2>1. /\ MessagesOut(r.st) /\ Emits("anthropic", q.out.sent, r)
          /\ c.finish = "none" => r.st.sent = q.out.sent
      BY <1>3, <1>5, FeedMessagesEmits DEF OutShape, IsChunk
    <2> HIDE DEF r
    <2>2. IsPipe(d) /\ Kept(q, d) /\ d.usage = q.usage /\ d.out = r.st /\ Ends(q, d)
      BY <1>1, <1>3, <1>5, <2>1, ToClientEnds
    <2>3. f = d
      BY <1>2, <1>5 DEF r
    <2> HIDE DEF d
    <2> QED
      BY <1>1, <1>5, <2>1, <2>2, <2>3 DEF Kept, Route, Ends, f
  <1>6. CASE p.entry = "responses"
    <2> DEFINE r == FeedResponses(q.out, c)
               d == ToClient(q, r)
    <2>1. /\ ResponsesOut(r.st) /\ Emits("responses", q.out.sent, r)
          /\ c.finish = "none" => r.st.sent = q.out.sent
      BY <1>3, <1>6, FeedResponsesEmits DEF OutShape, IsChunk
    <2> HIDE DEF r
    <2>2. IsPipe(d) /\ Kept(q, d) /\ d.usage = q.usage /\ d.out = r.st /\ Ends(q, d)
      BY <1>1, <1>3, <1>6, <2>1, ToClientEnds
    <2>3. f = d
      BY <1>2, <1>6 DEF r
    <2> HIDE DEF d
    <2> QED
      BY <1>1, <1>6, <2>1, <2>2, <2>3 DEF Kept, Route, Ends, f
  <1> QED
    BY <1>4, <1>5, <1>6 DEF IsPipe, Protocols

------------------------------------------------------------------------------
(* The converters of upstream events *)

\* Chunks without a usage, and those that do not finish the answer either.
Plain(c) == IsChunk(c) /\ c.usage = NoUsage

Saying(c) == Plain(c) /\ c.finish = "none"

\* What a converter makes of an event: a chunk or nothing.
Brief(out) == out = <<>> \/ \E c : Plain(c) /\ out = <<c>>

Midway(out) == out = <<>> \/ \E c : Saying(c) /\ out = <<c>>

Finishable(c) == \A v : Plain([c EXCEPT !.finish = v])

\* The chunks the converters begin with say nothing of usage or the end.
LEMMA Chunks ==
  /\ Saying(Chunk)
  /\ \A index, name, args : Saying(CallChunk(index, name, args))
  /\ \A kind, data : Saying(SayChunk(kind, data))
  /\ Finishable(Chunk) /\ Finishable(SayChunk("text", <<ErrorText>>))
  <1>1. Listed(<<>>) /\ \A e : Listed(<<e>>)
    BY ListedIs
  <1>2. Saying(Chunk)
    BY <1>1 DEF Saying, Plain, IsChunk, Chunk
  <1>3. ASSUME NEW index, NEW name, NEW args PROVE Saying(CallChunk(index, name, args))
    <2>1. \A v : /\ [Chunk EXCEPT !.calls = v].type = "chunk"
                 /\ [Chunk EXCEPT !.calls = v].calls = v
                 /\ [Chunk EXCEPT !.calls = v].usage = NoUsage
                 /\ [Chunk EXCEPT !.calls = v].finish = "none"
      BY DEF Chunk
    <2> QED
      BY <1>1, <2>1 DEF Saying, Plain, IsChunk, CallChunk
  <1>4. ASSUME NEW kind, NEW data PROVE Saying(SayChunk(kind, data))
    BY <1>1 DEF Saying, Plain, IsChunk, SayChunk, Chunk
  <1>5. ASSUME NEW v PROVE Plain([Chunk EXCEPT !.finish = v])
    BY <1>1 DEF Plain, IsChunk, Chunk
  <1>6. ASSUME NEW v PROVE Plain([SayChunk("text", <<ErrorText>>) EXCEPT !.finish = v])
    BY <1>1 DEF Plain, IsChunk, SayChunk, Chunk
  <1> QED
    BY <1>2, <1>3, <1>4, <1>5, <1>6 DEF Finishable

\* A converter answers an event with at most one chunk.
LEMMA MidwayIsBrief ==
  \A out : Midway(out) => Brief(out)
  BY DEF Midway, Brief, Saying

CodexIn(st) ==
  /\ st = [toolIdxByItem |-> st.toolIdxByItem, argsEmitted |-> st.argsEmitted,
           custom |-> st.custom, finish |-> st.finish, sent |-> st.sent, usage |-> st.usage]
  /\ st.sent \in BOOLEAN

AnthropicIn(st) ==
  /\ st = [blockToTool |-> st.blockToTool, finish |-> st.finish, sent |-> st.sent,
           usage |-> st.usage]
  /\ st.usage = [prompt |-> st.usage.prompt, completion |-> st.usage.completion]
  /\ st.sent \in BOOLEAN

\* The converter goes on.
SameIn(st, u) == u.sent = st.sent /\ u.usage = st.usage

\* A converter that has sent the end.
LEMMA InSent ==
  /\ \A st : CodexIn(st) => /\ CodexIn([st EXCEPT !.sent = TRUE])
                            /\ [st EXCEPT !.sent = TRUE].sent = TRUE
                            /\ [st EXCEPT !.sent = TRUE].usage = st.usage
                            /\ st.sent = TRUE \/ st.sent = FALSE
  /\ \A st : AnthropicIn(st) => /\ AnthropicIn([st EXCEPT !.sent = TRUE])
                                /\ [st EXCEPT !.sent = TRUE].usage = st.usage
                                /\ st.sent = TRUE \/ st.sent = FALSE
  <1>1. ASSUME NEW st, CodexIn(st)
        PROVE  /\ CodexIn([st EXCEPT !.sent = TRUE])
               /\ [st EXCEPT !.sent = TRUE].sent = TRUE
               /\ [st EXCEPT !.sent = TRUE].usage = st.usage
               /\ st.sent = TRUE \/ st.sent = FALSE
    <2>1. \A v : [st EXCEPT !.sent = v].sent = v /\ [st EXCEPT !.sent = v].usage = st.usage
      BY <1>1 DEF CodexIn
    <2>2. \A v \in BOOLEAN : CodexIn([st EXCEPT !.sent = v])
      BY <1>1 DEF CodexIn
    <2>3. st.sent \in BOOLEAN
      BY <1>1 DEF CodexIn
    <2> QED
      BY <2>1, <2>2, <2>3
  <1>2. ASSUME NEW st, AnthropicIn(st)
        PROVE  /\ AnthropicIn([st EXCEPT !.sent = TRUE])
               /\ [st EXCEPT !.sent = TRUE].usage = st.usage
               /\ st.sent = TRUE \/ st.sent = FALSE
    <2>1. \A v : [st EXCEPT !.sent = v].sent = v /\ [st EXCEPT !.sent = v].usage = st.usage
      BY <1>2 DEF AnthropicIn
    <2>2. \A v \in BOOLEAN : AnthropicIn([st EXCEPT !.sent = v])
      BY <1>2 DEF AnthropicIn
    <2>3. st.sent \in BOOLEAN
      BY <1>2 DEF AnthropicIn
    <2> QED
      BY <2>1, <2>2, <2>3
  <1> QED
    BY <1>1, <1>2

\* The chunk that finishes the chat has been written.
Finished(st, r) ==
  /\ CodexIn(st) => CodexIn(r.st) /\ r.st.sent = TRUE
  /\ AnthropicIn(st) => AnthropicIn(r.st)
  /\ r.st.usage = st.usage
  /\ Brief(r.out)

\* A converter finishes once.
LEMMA FinishChatOnce ==
  ASSUME NEW st, CodexIn(st) \/ AnthropicIn(st), NEW c, Finishable(c)
  PROVE  Finished(st, FinishChat(st, c))
  <1>1. st.sent = TRUE \/ st.sent = FALSE
    BY InSent
  <1>2. CASE st.sent = TRUE
    BY <1>2 DEF FinishChat, Brief, Finished
  <1>3. CASE st.sent = FALSE
    <2> DEFINE v == IF c.text = <<ErrorText>> THEN "stop" ELSE st.finish
               u == [st EXCEPT !.sent = TRUE]
    <2>1. FinishChat(st, c) = [st |-> u, out |-> <<[c EXCEPT !.finish = v]>>]
      BY <1>3 DEF FinishChat
    <2> HIDE DEF v
    <2>2. Plain([c EXCEPT !.finish = v])
      BY DEF Finishable
    <2>3. CodexIn(st) => CodexIn(u) /\ u.sent = TRUE /\ u.usage = st.usage
      BY InSent
    <2>4. AnthropicIn(st) => AnthropicIn(u) /\ u.usage = st.usage
      BY InSent
    <2> HIDE DEF u
    <2> QED
      BY <2>1, <2>2, <2>3, <2>4 DEF Brief, Finished
  <1> QED
    BY <1>1, <1>2, <1>3

\* A call that begins finishes nothing,
LEMMA CallAddedOut ==
  ASSUME NEW st, CodexIn(st), NEW e
  PROVE  /\ CodexIn(CallAdded(st, e).st) /\ SameIn(st, CallAdded(st, e).st)
         /\ Midway(CallAdded(st, e).out)
  <1>1. ASSUME NEW v, NEW w
        PROVE  LET u == [st EXCEPT !.toolIdxByItem = v, !.finish = "tool_calls", !.custom = w]
               IN  CodexIn(u) /\ SameIn(st, u)
    <2> DEFINE a == [st EXCEPT !.toolIdxByItem = v]
               b == [a EXCEPT !.finish = "tool_calls"]
               d == [b EXCEPT !.custom = w]
    <2>1. [st EXCEPT !.toolIdxByItem = v, !.finish = "tool_calls", !.custom = w] = d
      OBVIOUS
    <2>2. CodexIn(a) /\ SameIn(st, a)
      BY DEF CodexIn, SameIn
    <2> HIDE DEF a
    <2>3. CodexIn(b) /\ SameIn(a, b)
      BY <2>2 DEF CodexIn, SameIn
    <2> HIDE DEF b
    <2>4. CodexIn(d) /\ SameIn(b, d)
      BY <2>3 DEF CodexIn, SameIn
    <2> HIDE DEF d
    <2> QED
      BY <2>1, <2>2, <2>3, <2>4 DEF SameIn
  <1> DEFINE idx == Len(st.toolIdxByItem)
             v == Append(st.toolIdxByItem, e.index)
             w == IF e.kind = "custom" THEN st.custom \cup {idx} ELSE st.custom
             a == IF e.kind = "custom" THEN <<Opening>> ELSE <<>>
  <1>2. CallAdded(st, e) = [st |-> [st EXCEPT !.toolIdxByItem = v, !.finish = "tool_calls",
                                              !.custom = w],
                            out |-> <<CallChunk(idx, e.name, a)>>]
    BY DEF CallAdded
  <1> DEFINE u == [st EXCEPT !.toolIdxByItem = v, !.finish = "tool_calls", !.custom = w]
             c == CallChunk(idx, e.name, a)
  <1>3. CodexIn(u) /\ SameIn(st, u)
    BY <1>1
  <1>4. Saying(c)
    BY Chunks
  <1>5. CallAdded(st, e) = [st |-> u, out |-> <<c>>]
    BY <1>2
  <1> HIDE DEF v, w, a, idx, u, c
  <1> QED
    BY <1>3, <1>4, <1>5 DEF Midway

\* nor do its arguments.
LEMMA CallArgsOut ==
  ASSUME NEW st, CodexIn(st), NEW idx, NEW args
  PROVE  /\ CodexIn(CallArgs(st, idx, args).st) /\ SameIn(st, CallArgs(st, idx, args).st)
         /\ Midway(CallArgs(st, idx, args).out)
  <1>1. \A v : /\ CodexIn([st EXCEPT !.argsEmitted = v])
               /\ SameIn(st, [st EXCEPT !.argsEmitted = v])
    BY DEF CodexIn, SameIn
  <1>2. Saying(CallChunk(idx, 0, args))
    BY Chunks
  <1>3. CASE args = <<>>
    BY <1>3 DEF CallArgs, SameIn, Midway
  <1>4. CASE args # <<>>
    BY <1>1, <1>2, <1>4 DEF CallArgs, Midway
  <1> QED
    BY <1>3, <1>4

\* An event of a Responses upstream finishes the chat with completed or failed only,
\* and completed brings the usage.
CodexAnswer(st, e, r) ==
  /\ CodexIn(r.st) /\ Brief(r.out)
  /\ e.type \notin {"completed", "failed"} => SameIn(st, r.st) /\ Midway(r.out)
  /\ e.type = "completed" => r.st.sent = TRUE /\ r.st.usage = e.usage
  /\ e.type = "failed" => r.st.sent = TRUE /\ r.st.usage = st.usage

\* The Responses converter finishes on completed and failed, and takes the usage of completed.
LEMMA ConvertCodexOut ==
  ASSUME NEW st, CodexIn(st), NEW e
  PROVE  CodexAnswer(st, e, ConvertCodexEvent(st, e))
  <1> DEFINE r == ConvertCodexEvent(st, e)
             idx == ToolIndexFor(st, e.index)
             a == CallAdded(st, e)
             b == CallArgs(st, idx, e.data)
             c == CallArgs(st, idx, ArgsOfDone(st, idx, e.data))
             d == SayChunk(e.kind, e.data)
             u == [st EXCEPT !.usage = e.usage]
             f == FinishChat(u, Chunk)
             g == FinishChat(st, SayChunk("text", <<ErrorText>>))
  <1>1. r = CASE e.type = "added" /\ e.kind \in CallKinds -> a
              [] e.type = "delta" /\ e.kind \in CallKinds -> b
              [] e.type = "delta" /\ e.kind \notin CallKinds -> [st |-> st, out |-> <<d>>]
              [] e.type = "done" /\ e.kind \in CallKinds -> c
              [] e.type = "completed" -> f
              [] e.type = "failed" -> g
              [] OTHER -> [st |-> st, out |-> <<>>]
    BY DEF ConvertCodexEvent
  <1>2. CodexIn(a.st) /\ SameIn(st, a.st) /\ Midway(a.out)
    BY CallAddedOut
  <1>3. CodexIn(b.st) /\ SameIn(st, b.st) /\ Midway(b.out)
    BY CallArgsOut
  <1>4. CodexIn(c.st) /\ SameIn(st, c.st) /\ Midway(c.out)
    BY CallArgsOut
  <1>5. Saying(d)
    BY Chunks
  <1>6. CodexIn(u) /\ u.usage = e.usage /\ u.sent \in BOOLEAN
    BY DEF CodexIn
  <1>7. CodexIn(f.st) /\ f.st.sent = TRUE /\ f.st.usage = e.usage /\ Brief(f.out)
    <2> HIDE DEF u
    <2>1. Finished(u, f)
      BY <1>6, Chunks, FinishChatOnce
    <2> HIDE DEF f
    <2> QED
      BY <1>6, <2>1 DEF Finished
  <1>8. CodexIn(g.st) /\ g.st.sent = TRUE /\ g.st.usage = st.usage /\ Brief(g.out)
    <2>1. Finished(st, g)
      BY Chunks, FinishChatOnce
    <2> HIDE DEF g
    <2> QED
      BY <2>1 DEF Finished
  <1>9. CodexIn(st) /\ SameIn(st, st) /\ Midway(<<>>) /\ Midway(<<d>>)
    BY <1>5 DEF SameIn, Midway
  <1> SUFFICES CodexAnswer(st, e, r)
    OBVIOUS
  <1> HIDE DEF r, a, b, c, d, f, g
  <1>10. CASE e.type = "added" /\ e.kind \in CallKinds
    BY <1>1, <1>2, <1>10, MidwayIsBrief DEF CodexAnswer
  <1>11. CASE e.type = "delta" /\ e.kind \in CallKinds
    BY <1>1, <1>3, <1>11, MidwayIsBrief DEF CodexAnswer
  <1>12. CASE e.type = "delta" /\ e.kind \notin CallKinds
    BY <1>1, <1>9, <1>12, MidwayIsBrief DEF CodexAnswer
  <1>13. CASE e.type = "done" /\ e.kind \in CallKinds
    BY <1>1, <1>4, <1>13, MidwayIsBrief DEF CodexAnswer
  <1>14. CASE e.type = "completed"
    BY <1>1, <1>7, <1>14 DEF CodexAnswer
  <1>15. CASE e.type = "failed"
    BY <1>1, <1>8, <1>15 DEF CodexAnswer
  <1>16. CASE /\ ~(e.type = "added" /\ e.kind \in CallKinds) /\ e.type # "delta"
              /\ ~(e.type = "done" /\ e.kind \in CallKinds)
              /\ e.type # "completed" /\ e.type # "failed"
    BY <1>1, <1>9, <1>16, MidwayIsBrief DEF CodexAnswer
  <1> QED
    BY <1>10, <1>11, <1>12, <1>13, <1>14, <1>15, <1>16

\* An event of a messages upstream finishes the chat with message_stop or error only;
\* the usage comes with message_start and message_delta.
AnthropicAnswer(st, e, r) ==
  /\ AnthropicIn(r.st) /\ Brief(r.out)
  /\ e.type \notin {"message_stop", "error"} => r.st.sent = st.sent /\ Midway(r.out)
  /\ e.type \notin {"message_start", "message_delta"} => r.st.usage = st.usage
  /\ e.type = "message_start" =>
       r.st.usage = [prompt |-> e.usage.prompt, completion |-> st.usage.completion]
  /\ e.type = "message_delta" =>
       r.st.usage = [prompt |-> IF e.usage.prompt > 0 THEN e.usage.prompt
                                ELSE st.usage.prompt,
                     completion |-> e.usage.completion]

\* The messages converter finishes on its end or an error; its usage comes in two parts.
LEMMA FeedAnthropicOut ==
  ASSUME NEW st, AnthropicIn(st), NEW e
  PROVE  AnthropicAnswer(st, e, FeedAnthropicEvent(st, e))
  <1> DEFINE r == FeedAnthropicEvent(st, e)
             a == [st EXCEPT !.usage.prompt = e.usage.prompt]
             v == Append(st.blockToTool, e.index)
             b == [st EXCEPT !.blockToTool = v, !.finish = "tool_calls"]
             p == IF e.usage.prompt > 0 THEN e.usage.prompt ELSE st.usage.prompt
             c == [st EXCEPT !.finish = e.finish, !.usage.completion = e.usage.completion,
                             !.usage.prompt = p]
             d == CallChunk(Len(st.blockToTool), e.name, <<>>)
             g == CallChunk(ToolOfBlock(st, e.index), 0, e.data)
             h == SayChunk(e.kind, e.data)
             f == FinishChat(st, Chunk)
             k == FinishChat(st, SayChunk("text", <<ErrorText>>))
  <1>1. r = CASE e.type = "message_start" -> [st |-> a, out |-> <<Chunk>>]
              [] e.type = "block_start" /\ e.kind = "call" -> [st |-> b, out |-> <<d>>]
              [] e.type = "block_delta" /\ e.kind = "call" -> [st |-> st, out |-> <<g>>]
              [] e.type = "block_delta" /\ e.kind # "call" -> [st |-> st, out |-> <<h>>]
              [] e.type = "message_delta" -> [st |-> c, out |-> <<>>]
              [] e.type = "message_stop" -> f
              [] e.type = "error" -> k
              [] OTHER -> [st |-> st, out |-> <<>>]
    BY DEF FeedAnthropicEvent
  <1>2. /\ AnthropicIn(a) /\ a.sent = st.sent
        /\ a.usage = [prompt |-> e.usage.prompt, completion |-> st.usage.completion]
    BY DEF AnthropicIn
  <1> HIDE DEF v
  <1>3. AnthropicIn(b) /\ b.sent = st.sent /\ b.usage = st.usage
    <2> DEFINE x == [st EXCEPT !.blockToTool = v]
    <2>1. b = [x EXCEPT !.finish = "tool_calls"]
      OBVIOUS
    <2>2. AnthropicIn(x) /\ x.sent = st.sent /\ x.usage = st.usage
      BY DEF AnthropicIn
    <2> HIDE DEF x, b
    <2> QED
      BY <2>1, <2>2 DEF AnthropicIn
  <1> HIDE DEF p
  <1>4. /\ AnthropicIn(c) /\ c.sent = st.sent
        /\ c.usage = [prompt |-> p, completion |-> e.usage.completion]
    <2> DEFINE x == [st EXCEPT !.finish = e.finish]
               y == [x EXCEPT !.usage.completion = e.usage.completion]
    <2>1. c = [y EXCEPT !.usage.prompt = p]
      OBVIOUS
    <2>2. AnthropicIn(x) /\ x.sent = st.sent
      BY DEF AnthropicIn
    <2> HIDE DEF x
    <2>3. AnthropicIn(y) /\ y.sent = x.sent /\ y.usage.completion = e.usage.completion
      BY <2>2 DEF AnthropicIn
    <2> HIDE DEF y, c
    <2> QED
      BY <2>1, <2>2, <2>3 DEF AnthropicIn
  <1>5. Midway(<<Chunk>>) /\ Midway(<<d>>) /\ Midway(<<g>>) /\ Midway(<<h>>) /\ Midway(<<>>)
    BY Chunks DEF Midway
  <1>6. AnthropicIn(f.st) /\ f.st.usage = st.usage /\ Brief(f.out)
    <2>1. Finished(st, f)
      BY Chunks, FinishChatOnce
    <2> HIDE DEF f
    <2> QED
      BY <2>1 DEF Finished
  <1>7. AnthropicIn(k.st) /\ k.st.usage = st.usage /\ Brief(k.out)
    <2>1. Finished(st, k)
      BY Chunks, FinishChatOnce
    <2> HIDE DEF k
    <2> QED
      BY <2>1 DEF Finished
  <1> SUFFICES AnthropicAnswer(st, e, r)
    OBVIOUS
  <1> HIDE DEF r, a, b, c, d, f, g, h, k
  <1>8. CASE e.type = "message_start"
    BY <1>1, <1>2, <1>5, <1>8, MidwayIsBrief DEF AnthropicAnswer
  <1>9. CASE e.type = "block_start" /\ e.kind = "call"
    BY <1>1, <1>3, <1>5, <1>9, MidwayIsBrief DEF AnthropicAnswer
  <1>10. CASE e.type = "block_delta" /\ e.kind = "call"
    BY <1>1, <1>5, <1>10, MidwayIsBrief DEF AnthropicAnswer
  <1>11. CASE e.type = "block_delta" /\ e.kind # "call"
    BY <1>1, <1>5, <1>11, MidwayIsBrief DEF AnthropicAnswer
  <1>12. CASE e.type = "message_delta"
    BY <1>1, <1>4, <1>5, <1>12, MidwayIsBrief DEF p, AnthropicAnswer
  <1>13. CASE e.type = "message_stop"
    BY <1>1, <1>6, <1>13 DEF AnthropicAnswer
  <1>14. CASE e.type = "error"
    BY <1>1, <1>7, <1>14 DEF AnthropicAnswer
  <1>15. CASE /\ e.type \notin {"message_start", "block_delta", "message_delta"}
              /\ e.type \notin {"message_stop", "error"}
              /\ ~(e.type = "block_start" /\ e.kind = "call")
    BY <1>1, <1>5, <1>15, MidwayIsBrief DEF AnthropicAnswer
  <1> QED
    BY <1>8, <1>9, <1>10, <1>11, <1>12, <1>13, <1>14, <1>15

------------------------------------------------------------------------------
(* The handler, event by event *)

\* A chunk at most, and without a usage, has been fed to the entry's emitter.
Fed(p, out, f) ==
  /\ IsPipe(f) /\ Kept(p, f) /\ f.usage = p.usage
  /\ p.entry = "openai" => f.client.ended = p.client.ended
  /\ p.entry # "openai" => Ends(p, f)
  /\ p.entry # "openai" /\ Midway(out) => f.out.sent = p.out.sent

\* At most one chunk: at most one end for the client.
LEMMA FeedBriefEnds ==
  ASSUME NEW p, IsPipe(p), NEW out, Brief(out)
  PROVE  Fed(p, out, FoldLeft(FeedEntry, p, out))
  <1>1. CASE out = <<>>
    <2>1. FoldLeft(FeedEntry, p, out) = p
      BY <1>1, FeedLaw
    <2> QED
      BY <2>1 DEF Fed, Kept, Route, Ends
  <1>2. ASSUME NEW c, Plain(c), out = <<c>>
        PROVE  Fed(p, out, FoldLeft(FeedEntry, p, out))
    <2> DEFINE f == FeedEntry(p, c)
    <2>1. FoldLeft(FeedEntry, p, out) = f
      BY <1>2, FeedLaw
    <2>2. /\ IsPipe(f) /\ Kept(p, f)
          /\ f.usage = IF c.usage = NoUsage THEN p.usage ELSE c.usage
          /\ p.entry = "openai" => f.client.ended = p.client.ended
          /\ p.entry # "openai" =>
               /\ Ends(p, f)
               /\ c.finish = "none" => f.out.sent = p.out.sent
      BY <1>2, FeedEntryEnds DEF Plain
    <2>3. Midway(out) => c.finish = "none"
      <3>1. ASSUME NEW d, Saying(d), out = <<d>> PROVE c.finish = "none"
        <4>1. c = d
          BY <1>2, <3>1
        <4> QED
          BY <3>1, <4>1 DEF Saying
      <3>2. out # <<>>
        BY <1>2
      <3> QED
        BY <3>1, <3>2 DEF Midway
    <2> HIDE DEF f
    <2> QED
      BY <1>2, <2>1, <2>2, <2>3 DEF Fed, Plain
  <1> QED
    BY <1>1, <1>2 DEF Brief

\* What a converter leaves of the pipe: its new state, its usage to bill.
Converting(p, st) == [[p EXCEPT !.in = st] EXCEPT !.usage = st.usage]

Converted(p, st, q) ==
  /\ IsPipe(q) /\ Route(p, q) /\ q.in = st /\ q.agg = p.agg /\ q.usage = st.usage
  /\ q.out = p.out /\ q.client = p.client

\* The call takes over the converter's state and usage.
LEMMA ConvertingIs ==
  ASSUME NEW p, IsPipe(p), NEW st
  PROVE  Converted(p, st, Converting(p, st))
  <1> DEFINE q == [p EXCEPT !.in = st]
             d == [q EXCEPT !.usage = st.usage]
  <1>1. /\ IsPipe(q) /\ Route(p, q) /\ q.in = st /\ q.agg = p.agg /\ q.out = p.out
        /\ q.client = p.client
    BY InField
  <1> HIDE DEF q
  <1>2. IsPipe(d) /\ Kept(q, d) /\ d.out = q.out /\ d.usage = st.usage /\ d.client = q.client
    BY <1>1, UsageField
  <1>3. Converting(p, st) = d
    BY DEF Converting, q
  <1> HIDE DEF d
  <1> QED
    BY <1>1, <1>2, <1>3 DEF Kept, Route, Converted

\* The pipe after an event of a Responses upstream.
CodexStep(p, e, f) ==
  /\ IsPipe(f) /\ Route(p, f) /\ f.agg = p.agg
  /\ CodexIn(f.in) /\ f.usage = f.in.usage
  /\ f.in.usage = IF e.type = "completed" THEN e.usage ELSE p.in.usage
  /\ p.entry = "openai" =>
       \/ f.in.sent = p.in.sent /\ f.client.ended = p.client.ended
       \/ p.in.sent = FALSE /\ f.in.sent = TRUE /\ f.client.ended = p.client.ended + 1
  /\ p.entry # "openai" => Ends(p, f)
  /\ e.type \notin {"completed", "failed"} =>
       f.in.sent = p.in.sent /\ (p.entry # "openai" => f.out.sent = p.out.sent)

\* An event of a Responses upstream, through converter and emitter.
LEMMA FeedCodexStep ==
  ASSUME NEW p, IsPipe(p), CodexIn(p.in), NEW e
  PROVE  CodexStep(p, e, FeedCodex(p, e))
  <1> DEFINE r == ConvertCodexEvent(p.in, e)
             q == Converting(p, r.st)
             f == FoldLeft(FeedEntry, q, r.out)
             d == Deliver(f, <<DoneMark>>)
  <1>1. CodexAnswer(p.in, e, r)
    BY ConvertCodexOut
  <1> HIDE DEF r
  <1>2. Converted(p, r.st, q)
    BY ConvertingIs
  <1>3. FeedCodex(p, e) = IF p.entry = "openai" /\ r.st.sent /\ ~p.in.sent THEN d ELSE f
    <2>1. [p EXCEPT !.in = r.st, !.usage = r.st.usage] = q
      BY DEF Converting
    <2> QED
      BY <2>1 DEF FeedCodex, r
  <1> HIDE DEF q
  <1>4. Brief(r.out)
    BY <1>1 DEF CodexAnswer
  <1>5. Fed(q, r.out, f)
    BY <1>2, <1>4, FeedBriefEnds DEF Converted
  <1> HIDE DEF f
  <1>6. /\ IsPipe(f) /\ Route(p, f) /\ f.agg = p.agg /\ f.in = r.st /\ f.usage = r.st.usage
        /\ p.entry = "openai" => f.client.ended = p.client.ended
        /\ p.entry # "openai" => Ends(p, f)
        /\ p.entry # "openai" /\ Midway(r.out) => f.out.sent = p.out.sent
    BY <1>2, <1>5 DEF Fed, Kept, Route, Ends, Converted
  <1>7. ASSUME p.entry = "openai"
        PROVE  /\ IsPipe(d) /\ Route(p, d) /\ d.agg = p.agg /\ d.in = r.st
               /\ d.usage = r.st.usage /\ d.client.ended = p.client.ended + 1
    <2>1. f.entry = "openai"
      BY <1>6, <1>7 DEF Route
    <2>2. Ending(f.entry, <<DoneMark>>)
      BY EndingOne DEF Known, Terminal
    <2>3. /\ IsPipe(d) /\ Kept(f, d) /\ d.usage = f.usage
          /\ d.client.ended = f.client.ended + 1
      BY <1>6, <2>2, DeliverEnds
    <2> HIDE DEF d
    <2> QED
      BY <1>6, <1>7, <2>3 DEF Kept, Route
  <1> HIDE DEF d
  <1>8. /\ CodexIn(r.st)
        /\ r.st.usage = IF e.type = "completed" THEN e.usage ELSE p.in.usage
        /\ e.type \notin {"completed", "failed"} => r.st.sent = p.in.sent /\ Midway(r.out)
        /\ e.type \in {"completed", "failed"} => r.st.sent = TRUE
    BY <1>1 DEF CodexAnswer, SameIn
  <1>9. /\ r.st.sent = TRUE \/ r.st.sent = FALSE
        /\ p.in.sent = TRUE \/ p.in.sent = FALSE
    BY <1>8, InSent
  <1>10. CASE p.entry = "openai" /\ r.st.sent = TRUE /\ p.in.sent = FALSE
    BY <1>3, <1>7, <1>8, <1>10 DEF CodexStep
  <1>11. CASE p.entry = "openai" /\ ~(r.st.sent = TRUE /\ p.in.sent = FALSE)
    <2>1. r.st.sent = p.in.sent
      BY <1>8, <1>9, <1>11
    <2>2. FeedCodex(p, e) = f
      BY <1>3, <1>9, <1>11
    <2> QED
      BY <1>6, <1>8, <1>11, <2>1, <2>2 DEF CodexStep
  <1>12. CASE p.entry # "openai"
    BY <1>3, <1>6, <1>8, <1>12 DEF CodexStep
  <1> QED
    BY <1>9, <1>10, <1>11, <1>12

\* The pipe after an event of a messages upstream.
AnthropicStep(p, e, f) ==
  /\ IsPipe(f) /\ Route(p, f) /\ f.agg = p.agg
  /\ AnthropicIn(f.in) /\ f.usage = f.in.usage
  /\ e.type \notin {"message_start", "message_delta"} => f.in.usage = p.in.usage
  /\ e.type = "message_start" =>
       f.in.usage = [prompt |-> e.usage.prompt, completion |-> p.in.usage.completion]
  /\ e.type = "message_delta" =>
       f.in.usage = [prompt |-> IF e.usage.prompt > 0 THEN e.usage.prompt
                                ELSE p.in.usage.prompt,
                     completion |-> e.usage.completion]
  /\ p.entry = "openai" => f.client.ended = p.client.ended
  /\ p.entry # "openai" => Ends(p, f)
  /\ e.type \notin {"message_stop", "error"} /\ p.entry # "openai" => f.out.sent = p.out.sent

\* An event of a messages upstream, through converter and emitter.
LEMMA FeedAnthropicStep ==
  ASSUME NEW p, IsPipe(p), AnthropicIn(p.in), NEW e
  PROVE  AnthropicStep(p, e, FeedAnthropic(p, e))
  <1> DEFINE r == FeedAnthropicEvent(p.in, e)
             q == Converting(p, r.st)
             f == FoldLeft(FeedEntry, q, r.out)
  <1>1. AnthropicAnswer(p.in, e, r)
    BY FeedAnthropicOut
  <1> HIDE DEF r
  <1>2. Converted(p, r.st, q)
    BY ConvertingIs
  <1>3. FeedAnthropic(p, e) = f
    <2>1. [p EXCEPT !.in = r.st, !.usage = r.st.usage] = q
      BY DEF Converting
    <2> QED
      BY <2>1 DEF FeedAnthropic, r
  <1> HIDE DEF q
  <1>4. Brief(r.out)
    BY <1>1 DEF AnthropicAnswer
  <1>5. Fed(q, r.out, f)
    BY <1>2, <1>4, FeedBriefEnds DEF Converted
  <1> HIDE DEF f
  <1>6. /\ IsPipe(f) /\ Route(p, f) /\ f.agg = p.agg /\ f.in = r.st /\ f.usage = r.st.usage
        /\ p.entry = "openai" => f.client.ended = p.client.ended
        /\ p.entry # "openai" => Ends(p, f)
        /\ p.entry # "openai" /\ Midway(r.out) => f.out.sent = p.out.sent
    BY <1>2, <1>5 DEF Fed, Kept, Route, Ends, Converted
  <1> QED
    BY <1>1, <1>3, <1>6 DEF AnthropicStep, AnthropicAnswer

\* The pipe after an event that is passed on as it is.
PassStep(p, e, f) ==
  /\ IsPipe(f) /\ Kept(p, f) /\ f.usage = MergeUsage(p.usage, e.usage)
  /\ f.client.ended = IF Terminal(p.entry, e) THEN p.client.ended + 1 ELSE p.client.ended

\* An event passed on as it is: the usage is merged and the client reads it.
LEMMA PassOne ==
  ASSUME NEW p, IsPipe(p), NEW e, Known(p.entry, e)
  PROVE  PassStep(p, e, Pass(p, e))
  <1> DEFINE u == MergeUsage(p.usage, e.usage)
             q == [p EXCEPT !.usage = u]
             f == Deliver(q, <<e>>)
  <1>1. Pass(p, e) = f
    BY DEF Pass
  <1> HIDE DEF u
  <1>2. /\ IsPipe(q) /\ Kept(p, q) /\ q.out = p.out /\ q.usage = u /\ q.client = p.client
    BY UsageField
  <1> HIDE DEF q
  <1>3. q.entry = p.entry
    BY <1>2 DEF Kept, Route
  <1>4. CASE Terminal(p.entry, e)
    <2>1. Ending(q.entry, <<e>>)
      BY <1>3, <1>4, EndingOne
    <2>2. /\ IsPipe(f) /\ Kept(q, f) /\ f.usage = q.usage
          /\ f.client.ended = q.client.ended + 1
      BY <1>2, <2>1, DeliverEnds
    <2> HIDE DEF f
    <2> QED
      BY <1>1, <1>2, <1>4, <2>2 DEF PassStep, Kept, Route, u
  <1>5. CASE ~Terminal(p.entry, e)
    <2>1. Quiet(q.entry, <<e>>)
      BY <1>3, <1>5, QuietFew DEF Harmless
    <2>2. /\ IsPipe(f) /\ Kept(q, f) /\ f.usage = q.usage
          /\ f.client.ended = q.client.ended
      BY <1>2, <2>1, DeliverEnds
    <2> HIDE DEF f
    <2> QED
      BY <1>1, <1>2, <1>5, <2>2 DEF PassStep, Kept, Route, u
  <1> QED
    BY <1>4, <1>5

IsAgg(agg) ==
  /\ agg = [text |-> agg.text, think |-> agg.think, calls |-> agg.calls,
            pending |-> agg.pending, err |-> agg.err, usage |-> agg.usage]
  /\ Listed(agg.calls) /\ Listed(agg.pending)

\* An aggregate with another field and the same usage.
SameAgg(agg, b) == IsAgg(b) /\ b.usage = agg.usage

\* Collecting changes no usage,
LEMMA AggFields ==
  ASSUME NEW agg, IsAgg(agg), NEW v
  PROVE  /\ SameAgg(agg, [agg EXCEPT !.text = v])
         /\ SameAgg(agg, [agg EXCEPT !.think = v])
         /\ Listed(v) => SameAgg(agg, [agg EXCEPT !.calls = v])
         /\ Listed(v) => SameAgg(agg, [agg EXCEPT !.pending = v])
         /\ SameAgg(agg, [agg EXCEPT !.err = v])
  <1>1. SameAgg(agg, [agg EXCEPT !.text = v])
    BY DEF IsAgg, SameAgg
  <1>2. SameAgg(agg, [agg EXCEPT !.think = v])
    BY DEF IsAgg, SameAgg
  <1>3. Listed(v) => SameAgg(agg, [agg EXCEPT !.calls = v])
    BY DEF IsAgg, SameAgg
  <1>4. Listed(v) => SameAgg(agg, [agg EXCEPT !.pending = v])
    BY DEF IsAgg, SameAgg
  <1>5. SameAgg(agg, [agg EXCEPT !.err = v])
    BY DEF IsAgg, SameAgg
  <1> QED
    BY <1>1, <1>2, <1>3, <1>4, <1>5

\* except where it is told,
LEMMA AggUsage ==
  ASSUME NEW agg, IsAgg(agg)
  PROVE  \A v : IsAgg([agg EXCEPT !.usage = v]) /\ [agg EXCEPT !.usage = v].usage = v
  BY DEF IsAgg

\* which is in completed.
LEMMA ApplyUsage ==
  ASSUME NEW agg, IsAgg(agg), NEW e
  PROVE  /\ IsAgg(ApplyCodexEvent(agg, e))
         /\ ApplyCodexEvent(agg, e).usage = IF e.type = "completed" THEN e.usage
                                            ELSE agg.usage
  <1> DEFINE mine == Claimed(agg, e.index)
             t == agg.text \o e.data
             k == IF agg.think = <<>> THEN e.data ELSE agg.think \o <<Newline>> \o e.data
             added == Append(agg.pending, [item |-> e.index, part |-> Part(e.kind, e.name, <<>>)])
             longer == [i \in DOMAIN agg.pending |->
                          IF agg.pending[i].item = e.index
                            THEN [agg.pending[i] EXCEPT !.part.data = @ \o e.data]
                            ELSE agg.pending[i]]
             data == IF mine = <<>> \/ mine[1].part.data = <<>> THEN e.data
                     ELSE mine[1].part.data
             rest == Unclaimed(agg, e.index)
             more == Append(agg.calls, Part(e.kind, e.name, data))
             all == agg.calls \o [i \in DOMAIN agg.pending |-> agg.pending[i].part]
             none == <<>>
             a == [agg EXCEPT !.text = t]
             b == [agg EXCEPT !.think = k]
             c == [agg EXCEPT !.pending = added]
             d == [agg EXCEPT !.pending = longer]
             f == [[agg EXCEPT !.pending = rest] EXCEPT !.calls = more]
             g == [[[agg EXCEPT !.calls = all] EXCEPT !.pending = none] EXCEPT !.usage = e.usage]
             h == [agg EXCEPT !.err = TRUE]
  <1>1. ApplyCodexEvent(agg, e) =
          CASE e.type = "delta" /\ e.kind = "text" -> a
            [] e.type = "delta" /\ e.kind = "think" -> b
            [] e.type = "added" /\ e.kind \in CallKinds -> c
            [] e.type = "delta" /\ e.kind \in CallKinds -> d
            [] e.type = "done" /\ e.kind \in CallKinds -> f
            [] e.type = "completed" -> g
            [] e.type = "failed" -> h
            [] OTHER -> agg
    BY DEF ApplyCodexEvent
  <1>6. Listed(added) /\ Listed(longer) /\ Listed(rest) /\ Listed(more) /\ Listed(all) /\ Listed(none)
    <2>1. Listed(agg.calls) /\ Listed(agg.pending)
      BY DEF IsAgg
    <2>2. Listed(added) /\ Listed(more)
      <3> HIDE DEF data
      <3> QED
        BY <2>1, Appended
    <2>3. Listed(longer)
      <3>1. longer = [i \in DOMAIN agg.pending |-> longer[i]]
        OBVIOUS
      <3> HIDE DEF longer
      <3> QED
        BY <2>1, <3>1, ListedMapped
    <2>4. Listed(rest)
      BY <2>1, OthersListed
    <2>5. Listed(all)
      <3> DEFINE t2 == [i \in DOMAIN agg.pending |-> agg.pending[i].part]
      <3>1. t2 = [i \in DOMAIN agg.pending |-> t2[i]]
        OBVIOUS
      <3> HIDE DEF t2
      <3>2. Listed(t2)
        BY <2>1, <3>1, ListedMapped
      <3> QED
        BY <2>1, <3>2, ListedJoined DEF t2
    <2> QED
      BY <2>2, <2>3, <2>4, <2>5, ListedIs
  <1> HIDE DEF mine, t, k, added, longer, data, rest, more, all, none
  <1>2. SameAgg(agg, a) /\ SameAgg(agg, b) /\ SameAgg(agg, c) /\ SameAgg(agg, d) /\ SameAgg(agg, h)
    <2>1. SameAgg(agg, a)
      BY AggFields
    <2>2. SameAgg(agg, b)
      BY AggFields
    <2>3. SameAgg(agg, c)
      BY <1>6, AggFields
    <2>4. SameAgg(agg, d)
      BY <1>6, AggFields
    <2>5. SameAgg(agg, h)
      BY AggFields
    <2> QED
      BY <2>1, <2>2, <2>3, <2>4, <2>5
  <1>3. SameAgg(agg, f)
    <2> DEFINE x == [agg EXCEPT !.pending = rest]
    <2>1. SameAgg(agg, x)
      BY <1>6, AggFields
    <2> HIDE DEF x
    <2>2. SameAgg(x, [x EXCEPT !.calls = more])
      BY <1>6, <2>1, AggFields DEF SameAgg
    <2> QED
      BY <2>1, <2>2 DEF SameAgg, x
  <1>4. IsAgg(g) /\ g.usage = e.usage
    <2> DEFINE x == [agg EXCEPT !.calls = all]
               y == [x EXCEPT !.pending = none]
    <2>1. SameAgg(agg, x)
      BY <1>6, AggFields
    <2> HIDE DEF x
    <2>2. SameAgg(x, y)
      BY <1>6, <2>1, AggFields DEF SameAgg
    <2> HIDE DEF y
    <2>3. IsAgg([y EXCEPT !.usage = e.usage]) /\ [y EXCEPT !.usage = e.usage].usage = e.usage
      BY <2>2, AggUsage DEF SameAgg
    <2> QED
      BY <2>3 DEF x, y
  <1>5. IsAgg(agg)
    OBVIOUS
  <1> HIDE DEF a, b, c, d, f, g, h
  <1> QED
    BY <1>1, <1>2, <1>3, <1>4, <1>5 DEF SameAgg

\* Every part of a call on its way has its shape.
InShape(p) ==
  /\ p.up = "anthropic" => AnthropicIn(p.in)
  /\ p.up = "responses" => CodexIn(p.in)
  /\ IsAgg(p.agg)

\* The usage to bill is the converter's.
Synced(p) ==
  /\ p.up # "openai" /\ ~Passthrough(p) /\ p.stream => p.in.usage = p.usage
  /\ p.up = "responses" /\ ~p.stream => p.agg.usage = p.usage

Told(ended, sent) == (ended = 0 /\ sent = FALSE) \/ (ended = 1 /\ sent = TRUE)

\* A bridged stream has ended for the client when its converters say so.
Clock(p) ==
  ~Passthrough(p) =>
    /\ ~p.stream => p.client = NewClient
    /\ p.stream /\ p.entry = "openai" /\ p.up = "anthropic" => p.client.ended = 0
    /\ p.stream /\ p.entry = "openai" /\ p.up = "responses" => Told(p.client.ended, p.in.sent)
    /\ p.stream /\ p.entry # "openai" => Told(p.client.ended, p.out.sent)

OnWay(p) == IsPipe(p) /\ InShape(p) /\ Synced(p) /\ Clock(p)

\* Events the handler is made for, and those that end nothing.
Fit(p, e) ==
  IF Passthrough(p) THEN Known(p.entry, e)
  ELSE p.up = "openai" => e = DoneMark \/ IsChunk(e)

EndsAt(p, e) ==
  CASE Passthrough(p) -> Terminal(p.entry, e)
    [] ~Passthrough(p) /\ p.up = "openai" -> e # DoneMark /\ e.finish # "none"
    [] ~Passthrough(p) /\ p.up = "anthropic" -> e.type \in {"message_stop", "error"}
    [] ~Passthrough(p) /\ p.up = "responses" -> e.type \in {"completed", "failed"}

UsageAfter(p, e) ==
  CASE Passthrough(p) -> MergeUsage(p.usage, e.usage)
    [] ~Passthrough(p) /\ p.up = "openai" ->
         IF e = DoneMark \/ e.usage = NoUsage THEN p.usage ELSE e.usage
    [] ~Passthrough(p) /\ p.up = "anthropic" ->
         [prompt |-> IF e.type = "message_start" \/ (e.type = "message_delta" /\ e.usage.prompt > 0)
                       THEN e.usage.prompt ELSE p.usage.prompt,
          completion |-> IF e.type = "message_delta" THEN e.usage.completion
                         ELSE p.usage.completion]
    [] ~Passthrough(p) /\ p.up = "responses" ->
         IF e.type = "completed" THEN e.usage ELSE p.usage

Handled(p, e, f) ==
  /\ OnWay(f) /\ Route(p, f)
  /\ f.usage = UsageAfter(p, e)
  /\ Passthrough(p) =>
       f.client.ended = IF Terminal(p.entry, e) THEN p.client.ended + 1 ELSE p.client.ended
  /\ ~EndsAt(p, e) => f.client.ended = p.client.ended

\* The way decides whether a call is passed through and whether it is one body.
LEMMA RouteSame ==
  ASSUME NEW p, NEW q, Route(p, q)
  PROVE  (Passthrough(q) <=> Passthrough(p)) /\ (OneBody(q) <=> OneBody(p))
  BY DEF Route, Passthrough, OneBody

\* An event that is passed on,
LEMMA HandlePassed ==
  ASSUME NEW p, OnWay(p), Passthrough(p), NEW e, Known(p.entry, e)
  PROVE  Handled(p, e, Handle(p, e))
  <1> DEFINE f == Pass(p, e)
  <1>1. Handle(p, e) = f
    BY DEF Handle
  <1>2. PassStep(p, e, f)
    BY PassOne DEF OnWay
  <1> HIDE DEF f
  <1>3. Route(p, f) /\ Passthrough(f)
    BY <1>2, RouteSame DEF PassStep, Kept
  <1>4. p.up = "responses" => p.stream
    BY DEF Passthrough
  <1>5. OnWay(f)
    BY <1>2, <1>3, <1>4 DEF OnWay, PassStep, Kept, Route, InShape, Synced, Clock
  <1> QED
    BY <1>1, <1>2, <1>3, <1>5 DEF Handled, PassStep, UsageAfter, EndsAt

\* one that is collected,
LEMMA HandleCollected ==
  ASSUME NEW p, OnWay(p), p.up = "responses", ~p.stream, NEW e
  PROVE  Handled(p, e, Handle(p, e))
  <1> DEFINE agg == ApplyCodexEvent(p.agg, e)
             q == [p EXCEPT !.agg = agg]
             f == [q EXCEPT !.usage = agg.usage]
  <1>1. ~Passthrough(p)
    BY DEF Passthrough
  <1>2. Handle(p, e) = f
    <2>1. Handle(p, e) = [p EXCEPT !.agg = agg, !.usage = agg.usage]
      BY <1>1 DEF Handle
    <2>2. [p EXCEPT !.agg = agg, !.usage = agg.usage] = f
      OBVIOUS
    <2> QED
      BY <2>1, <2>2
  <1>3. IsAgg(agg) /\ agg.usage = IF e.type = "completed" THEN e.usage ELSE p.agg.usage
    BY ApplyUsage DEF OnWay, InShape
  <1> HIDE DEF agg
  <1>4. /\ IsPipe(q) /\ Route(p, q) /\ q.in = p.in /\ q.agg = agg /\ q.out = p.out
        /\ q.client = p.client
    BY AggField DEF OnWay
  <1> HIDE DEF q
  <1>5. IsPipe(f) /\ Kept(q, f) /\ f.out = q.out /\ f.usage = agg.usage /\ f.client = q.client
    BY <1>4, UsageField
  <1> HIDE DEF f
  <1>6. Route(p, f) /\ ~Passthrough(f)
    BY <1>1, <1>4, <1>5 DEF Route, Kept, Passthrough
  <1>7. f.in = p.in /\ f.agg = agg /\ f.usage = agg.usage /\ f.client = p.client
    BY <1>4, <1>5 DEF Kept
  <1>8. OnWay(f)
    <2>1. InShape(f)
      BY <1>3, <1>6, <1>7 DEF OnWay, InShape, Route
    <2>2. Synced(f)
      BY <1>6, <1>7 DEF Synced, Route
    <2>3. Clock(f)
      BY <1>1, <1>6, <1>7 DEF OnWay, Clock, Route
    <2> QED
      BY <1>5, <2>1, <2>2, <2>3 DEF OnWay
  <1>9. f.usage = UsageAfter(p, e)
    <2>1. p.agg.usage = p.usage
      BY DEF OnWay, Synced
    <2> QED
      BY <1>1, <1>3, <1>7, <2>1 DEF UsageAfter
  <1> QED
    BY <1>1, <1>2, <1>6, <1>7, <1>8, <1>9 DEF Handled

\* one of a Responses upstream that is bridged,
LEMMA HandleCodex ==
  ASSUME NEW p, OnWay(p), p.up = "responses", p.stream, ~Passthrough(p), NEW e
  PROVE  Handled(p, e, Handle(p, e))
  <1> DEFINE f == FeedCodex(p, e)
  <1>1. Handle(p, e) = f
    BY DEF Handle
  <1>2. CodexStep(p, e, f)
    BY FeedCodexStep DEF OnWay, InShape
  <1> HIDE DEF f
  <1>3. Route(p, f) /\ ~Passthrough(f)
    BY <1>2, RouteSame DEF CodexStep
  <1>4. InShape(f)
    BY <1>2, <1>3 DEF CodexStep, OnWay, InShape, Route
  <1>5. Synced(f)
    BY <1>2, <1>3 DEF CodexStep, Synced, Route
  <1>6. Clock(f)
    <2>1. CASE p.entry = "openai"
      <3>1. Told(p.client.ended, p.in.sent)
        BY <2>1 DEF OnWay, Clock
      <3>2. Told(f.client.ended, f.in.sent)
        BY <1>2, <2>1, <3>1 DEF CodexStep, Told
      <3> QED
        BY <1>3, <2>1, <3>2 DEF Clock, Route
    <2>2. CASE p.entry # "openai"
      <3>1. Told(p.client.ended, p.out.sent)
        BY <2>2 DEF OnWay, Clock
      <3>2. Told(f.client.ended, f.out.sent)
        BY <1>2, <2>2, <3>1 DEF CodexStep, Told, Ends
      <3> QED
        BY <1>3, <2>2, <3>2 DEF Clock, Route
    <2> QED
      BY <2>1, <2>2
  <1>7. f.usage = UsageAfter(p, e)
    <2>1. p.in.usage = p.usage
      BY DEF OnWay, Synced
    <2> QED
      BY <1>2, <2>1 DEF CodexStep, UsageAfter
  <1>8. ~EndsAt(p, e) => f.client.ended = p.client.ended
    <2> SUFFICES ASSUME e.type \notin {"completed", "failed"}
                 PROVE  f.client.ended = p.client.ended
      BY DEF EndsAt
    <2>1. f.in.sent = p.in.sent /\ (p.entry # "openai" => f.out.sent = p.out.sent)
      BY <1>2 DEF CodexStep
    <2> QED
      BY <1>2, <2>1 DEF CodexStep, Ends
  <1>9. IsPipe(f)
    BY <1>2 DEF CodexStep
  <1> QED
    BY <1>1, <1>3, <1>4, <1>5, <1>6, <1>7, <1>8, <1>9 DEF Handled, OnWay

\* one of a messages upstream,
LEMMA HandleAnthropic ==
  ASSUME NEW p, OnWay(p), p.up = "anthropic", p.stream, ~Passthrough(p), NEW e
  PROVE  Handled(p, e, Handle(p, e))
  <1> DEFINE f == FeedAnthropic(p, e)
  <1>1. Handle(p, e) = f
    BY DEF Handle
  <1>2. AnthropicStep(p, e, f)
    BY FeedAnthropicStep DEF OnWay, InShape
  <1> HIDE DEF f
  <1>3. Route(p, f) /\ ~Passthrough(f)
    BY <1>2, RouteSame DEF AnthropicStep
  <1>4. InShape(f)
    BY <1>2, <1>3 DEF AnthropicStep, OnWay, InShape, Route
  <1>5. Synced(f)
    BY <1>2, <1>3 DEF AnthropicStep, Synced, Route
  <1>6. Clock(f)
    <2>1. CASE p.entry = "openai"
      BY <1>2, <1>3, <2>1 DEF OnWay, Clock, AnthropicStep, Route
    <2>2. CASE p.entry # "openai"
      <3>1. Told(p.client.ended, p.out.sent)
        BY <2>2 DEF OnWay, Clock
      <3>2. Told(f.client.ended, f.out.sent)
        BY <1>2, <2>2, <3>1 DEF AnthropicStep, Told, Ends
      <3> QED
        BY <1>3, <2>2, <3>2 DEF Clock, Route
    <2> QED
      BY <2>1, <2>2
  <1>7. f.usage = UsageAfter(p, e)
    <2>1. /\ p.in.usage = p.usage
          /\ p.in.usage = [prompt |-> p.in.usage.prompt, completion |-> p.in.usage.completion]
      BY DEF OnWay, Synced, InShape, AnthropicIn
    <2>2. UsageAfter(p, e) =
            [prompt |-> IF e.type = "message_start"
                             \/ (e.type = "message_delta" /\ e.usage.prompt > 0)
                          THEN e.usage.prompt ELSE p.usage.prompt,
             completion |-> IF e.type = "message_delta" THEN e.usage.completion
                            ELSE p.usage.completion]
      BY DEF UsageAfter
    <2>3. CASE e.type = "message_start"
      BY <1>2, <2>1, <2>2, <2>3 DEF AnthropicStep
    <2>4. CASE e.type = "message_delta"
      BY <1>2, <2>1, <2>2, <2>4 DEF AnthropicStep
    <2>5. CASE e.type \notin {"message_start", "message_delta"}
      BY <1>2, <2>1, <2>2, <2>5 DEF AnthropicStep
    <2> QED
      BY <2>3, <2>4, <2>5
  <1>8. ~EndsAt(p, e) => f.client.ended = p.client.ended
    <2> SUFFICES ASSUME e.type \notin {"message_stop", "error"}
                 PROVE  f.client.ended = p.client.ended
      BY DEF EndsAt
    <2> QED
      BY <1>2 DEF AnthropicStep, Ends
  <1>9. IsPipe(f)
    BY <1>2 DEF AnthropicStep
  <1> QED
    BY <1>1, <1>3, <1>4, <1>5, <1>6, <1>7, <1>8, <1>9 DEF Handled, OnWay

\* and one of a chat upstream:
LEMMA HandleChunk ==
  ASSUME NEW p, OnWay(p), p.up = "openai", ~Passthrough(p), p.stream, NEW e,
         e = DoneMark \/ IsChunk(e)
  PROVE  Handled(p, e, Handle(p, e))
  <1>1. p.entry # "openai"
    BY DEF Passthrough
  <1>2. CASE e = DoneMark
    <2>1. Handle(p, e) = p
      BY <1>2 DEF Handle
    <2> QED
      BY <1>2, <2>1 DEF Handled, Route, UsageAfter
  <1>3. CASE e # DoneMark
    <2> DEFINE f == FeedEntry(p, e)
    <2>1. Handle(p, e) = f
      BY <1>3 DEF Handle
    <2>2. /\ IsPipe(f) /\ Kept(p, f)
          /\ f.usage = IF e.usage = NoUsage THEN p.usage ELSE e.usage
          /\ Ends(p, f)
          /\ e.finish = "none" => f.out.sent = p.out.sent
      BY <1>1, <1>3, FeedEntryEnds DEF OnWay
    <2> HIDE DEF f
    <2>3. Route(p, f) /\ ~Passthrough(f)
      BY <2>2, RouteSame DEF Kept
    <2>4. Told(p.client.ended, p.out.sent)
      BY <1>1 DEF OnWay, Clock
    <2>5. Told(f.client.ended, f.out.sent)
      BY <2>2, <2>4 DEF Told, Ends
    <2>6. OnWay(f)
      <3>1. InShape(f)
        BY <2>2, <2>3 DEF OnWay, InShape, Route, Kept
      <3>2. Synced(f)
        BY <2>3 DEF Synced, Route
      <3>3. Clock(f)
        BY <1>1, <2>3, <2>5 DEF Clock, Route
      <3> QED
        BY <2>2, <3>1, <3>2, <3>3 DEF OnWay
    <2>7. f.usage = UsageAfter(p, e)
      BY <1>3, <2>2 DEF UsageAfter
    <2>8. ~EndsAt(p, e) => f.client.ended = p.client.ended
      BY <1>3, <2>2 DEF EndsAt, Ends
    <2> QED
      BY <2>1, <2>3, <2>6, <2>7, <2>8 DEF Handled
  <1> QED
    BY <1>2, <1>3

\* in every case the handler keeps the call on its way, and ends and bills what it should.
LEMMA HandleOne ==
  ASSUME NEW p, OnWay(p), ~OneBody(p), NEW e, Fit(p, e)
  PROVE  Handled(p, e, Handle(p, e))
  <1>1. CASE Passthrough(p)
    BY <1>1, HandlePassed DEF Fit
  <1>2. CASE ~Passthrough(p) /\ p.up = "responses" /\ ~p.stream
    BY <1>2, HandleCollected
  <1>3. CASE ~Passthrough(p) /\ p.up = "responses" /\ p.stream
    BY <1>3, HandleCodex
  <1>4. CASE ~Passthrough(p) /\ p.up = "anthropic"
    BY <1>4, HandleAnthropic DEF OneBody
  <1>5. CASE ~Passthrough(p) /\ p.up = "openai"
    BY <1>5, HandleChunk DEF OneBody, Fit
  <1> QED
    BY <1>1, <1>2, <1>3, <1>4, <1>5 DEF OnWay, IsPipe, Protocols

------------------------------------------------------------------------------
(* The end of a bridged stream, and its beginning *)

\* However far the converters have come, the client has seen one end afterwards.
Completed(p, f) ==
  /\ IsPipe(f) /\ Route(p, f) /\ f.usage = p.usage
  /\ ~Passthrough(p) => f.client.ended = 1
  /\ Passthrough(p) => f = p

\* An emitter that finishes completes the answer.
LEMMA FinishToClient ==
  ASSUME NEW p, OnWay(p), p.stream, ~Passthrough(p), p.entry # "openai", NEW r,
         Emits(p.entry, p.out.sent, r), r.st.sent = TRUE,
         IF p.entry = "responses" THEN ResponsesOut(r.st) ELSE MessagesOut(r.st)
  PROVE  Completed(p, ToClient(p, r))
  <1> DEFINE f == ToClient(p, r)
  <1>1. IsPipe(f) /\ Kept(p, f) /\ f.usage = p.usage /\ f.out = r.st /\ Ends(p, f)
    BY ToClientEnds DEF OnWay
  <1> HIDE DEF f
  <1>2. Told(p.client.ended, p.out.sent)
    BY DEF OnWay, Clock
  <1>3. f.client.ended = 1
    BY <1>1, <1>2 DEF Ends, Told
  <1> QED
    BY <1>1, <1>3 DEF Completed, Kept, f

\* However the upstream has ended, a bridged stream has ended exactly once for the client
\* when the handler is through with it (codex.go:1465-1469).
LEMMA FinishEnds ==
  ASSUME NEW p, OnWay(p), p.stream
  PROVE  Completed(p, Finish(p))
  <1>1. IsPipe(p) /\ p.entry \in Protocols /\ OutShape(p.entry, p.out)
    BY DEF OnWay, IsPipe
  <1>2. CASE Passthrough(p)
    <2>1. Finish(p) = p
      BY <1>2 DEF Finish
    <2> QED
      BY <1>1, <1>2, <2>1 DEF Completed, Route
  <1>3. CASE ~Passthrough(p) /\ p.entry = "anthropic"
    <2> DEFINE a == [st |-> p.out, out |-> <<>>]
               r == FinishMessages(a)
    <2>1. MessagesOut(p.out) /\ p.out.sent \in BOOLEAN
      BY <1>1, <1>3 DEF OutShape
    <2>2. Writing(a, p.out.sent)
      BY <2>1, QuietNothing, WritingIs
    <2>3. Finish(p) = ToClient(p, r)
      BY <1>3 DEF Finish
    <2> HIDE DEF a
    <2>4. MessagesOut(r.st) /\ Emits("anthropic", p.out.sent, r) /\ r.st.sent = TRUE
      BY <2>1, <2>2, FinishMessagesEmits
    <2> HIDE DEF r
    <2> QED
      BY <1>3, <2>3, <2>4, FinishToClient
  <1>4. CASE ~Passthrough(p) /\ p.entry = "responses"
    <2> DEFINE a == [st |-> p.out, out |-> <<>>]
               r == FinishResponses(a)
    <2>1. ResponsesOut(p.out) /\ p.out.sent \in BOOLEAN
      BY <1>1, <1>4 DEF OutShape
    <2>2. Adding(a, p.out.sent)
      BY <2>1, QuietNothing, AddingIs
    <2>3. Finish(p) = ToClient(p, r)
      BY <1>4 DEF Finish
    <2> HIDE DEF a
    <2>4. ResponsesOut(r.st) /\ Emits("responses", p.out.sent, r) /\ r.st.sent = TRUE
      BY <2>1, <2>2, FinishResponsesEmits
    <2> HIDE DEF r
    <2> QED
      BY <1>4, <2>3, <2>4, FinishToClient
  <1>5. CASE ~Passthrough(p) /\ p.entry = "openai" /\ p.up = "anthropic"
    <2> DEFINE r == FinishChat(p.in, Chunk)
               q == [p EXCEPT !.in = r.st]
               s == r.out \o <<DoneMark>>
               f == Deliver(q, s)
    <2>1. Finish(p) = f
      BY <1>5 DEF Finish
    <2>2. Brief(r.out)
      <3>1. Finished(p.in, r)
        BY <1>5, Chunks, FinishChatOnce DEF OnWay, InShape
      <3> QED
        BY <3>1 DEF Finished
    <2>3. /\ IsPipe(q) /\ Route(p, q) /\ q.usage = p.usage /\ q.client = p.client
      BY InField DEF OnWay
    <2> HIDE DEF r, q
    <2>4. q.entry = "openai" /\ q.client.ended = 0
      BY <1>5, <2>3 DEF OnWay, Clock, Route
    <2>5. Quiet("openai", r.out)
      <3>1. ASSUME NEW c, Plain(c) PROVE Quiet("openai", <<c>>)
        <4>1. Harmless("openai", c)
          BY <3>1, ChunkHarmless DEF Plain
        <4> QED
          BY <4>1, QuietFew
      <3> QED
        BY <2>2, <3>1, QuietNothing DEF Brief
    <2>6. Ending("openai", s)
      BY <2>5, Joined, EndingOne DEF Known, Terminal
    <2> HIDE DEF s
    <2>7. IsPipe(f) /\ Kept(q, f) /\ f.usage = q.usage /\ f.client.ended = q.client.ended + 1
      BY <2>3, <2>4, <2>6, DeliverEnds
    <2> HIDE DEF f
    <2> QED
      BY <1>5, <2>1, <2>3, <2>4, <2>7 DEF Completed, Kept, Route
  <1>6. CASE ~Passthrough(p) /\ p.entry = "openai" /\ p.up = "responses"
    <2>1. Told(p.client.ended, p.in.sent)
      BY <1>6 DEF OnWay, Clock
    <2>2. CASE p.in.sent = TRUE
      <3>1. Finish(p) = p
        BY <1>6, <2>2 DEF Finish
      <3> QED
        BY <1>1, <1>6, <2>1, <2>2, <3>1 DEF Completed, Told, Route
    <2>3. CASE p.in.sent = FALSE
      <3> DEFINE f == Deliver(p, <<DoneMark>>)
      <3>1. Finish(p) = f
        BY <1>6, <2>3 DEF Finish
      <3>2. Ending(p.entry, <<DoneMark>>)
        BY EndingOne DEF Known, Terminal
      <3>3. IsPipe(f) /\ Kept(p, f) /\ f.usage = p.usage /\ f.client.ended = p.client.ended + 1
        BY <1>1, <3>2, DeliverEnds
      <3> HIDE DEF f
      <3> QED
        BY <1>6, <2>1, <2>3, <3>1, <3>3 DEF Completed, Told, Kept
    <2> QED
      BY <2>1, <2>2, <2>3 DEF Told
  <1>7. ~Passthrough(p) /\ p.entry = "openai" => p.up # "openai"
    BY DEF Passthrough
  <1> QED
    BY <1>1, <1>2, <1>3, <1>4, <1>5, <1>6, <1>7 DEF Protocols, IsPipe

\* A new call is on its way, its client has nothing and nothing is billed.
LEMMA NewPipeIs ==
  ASSUME NEW en \in Protocols, NEW u \in Protocols, NEW s \in BOOLEAN
  PROVE  LET p == NewPipe(en, u, s) IN
         /\ OnWay(p) /\ p.entry = en /\ p.up = u /\ p.stream = s
         /\ p.usage = NoUsage /\ p.client = NewClient /\ p.client.ended = 0
         /\ p = NewPipe(p.entry, p.up, p.stream)
  <1> DEFINE p == NewPipe(en, u, s)
             in == CASE u = "anthropic" -> NewAnthropicIn
                     [] u = "responses" -> NewCodexIn
                     [] u = "openai" -> <<>>
             out == IF en = "responses" THEN NewResponsesOut ELSE NewMessagesOut
  <1>1. p = [entry |-> en, up |-> u, stream |-> s, in |-> in, out |-> out, agg |-> NewAgg,
             usage |-> NoUsage, client |-> NewClient]
    BY DEF NewPipe
  <1>2. OutShape(en, out) /\ out.sent = FALSE
    BY ListedIs DEF OutShape, ResponsesOut, MessagesOut, NewResponsesOut, NewMessagesOut
  <1>3. /\ u = "anthropic" => AnthropicIn(in)
        /\ u = "responses" => CodexIn(in) /\ in.sent = FALSE
        /\ u # "openai" => in.usage = NoUsage
    BY DEF AnthropicIn, CodexIn, NewAnthropicIn, NewCodexIn, NoUsage, Protocols
  <1>4. IsAgg(NewAgg) /\ NewAgg.usage = NoUsage
    BY ListedIs DEF IsAgg, NewAgg
  <1>5. Client(NewClient) /\ NewClient.ended = 0
    BY ListedIs DEF Client, NewClient
  <1> HIDE DEF in, out
  <1>6. /\ p.entry = en /\ p.up = u /\ p.stream = s /\ p.in = in /\ p.out = out
        /\ p.agg = NewAgg /\ p.usage = NoUsage /\ p.client = NewClient
    BY <1>1
  <1>7. p = NewPipe(p.entry, p.up, p.stream)
    BY <1>6
  <1>8. IsPipe(p)
    BY <1>1, <1>2, <1>5, <1>6 DEF IsPipe
  <1> HIDE DEF p
  <1>9. InShape(p) /\ Synced(p) /\ Clock(p)
    <2>1. InShape(p)
      BY <1>3, <1>4, <1>6 DEF InShape
    <2>2. Synced(p)
      BY <1>3, <1>4, <1>6 DEF Synced
    <2>3. Clock(p)
      BY <1>2, <1>3, <1>5, <1>6 DEF Clock, Told
    <2> QED
      BY <2>1, <2>2, <2>3
  <1> QED
    BY <1>5, <1>6, <1>7, <1>8, <1>9 DEF OnWay, p

------------------------------------------------------------------------------
(* The course of a call: the events of an upstream as it speaks and ends *)

\* The usage the upstream has told when it has ended in this way; a body tells nothing
\* before it is there.
UsageTold(p, end) ==
  IF end = "stop" THEN Reported
  ELSE IF p.up = "anthropic" THEN [prompt |-> 1, completion |-> 0] ELSE NoUsage

Course(p, end) ==
  /\ OnWay(p)
  /\ OneBody(p) => p = NewPipe(p.entry, p.up, p.stream)
  /\ ~OneBody(p) => p.usage = UsageTold(p, end)
  /\ p.client.ended \in {0, 1}
  /\ end = "no" => p.client.ended = 0

\* Events on the way: they end nothing and tell no usage.
Mild(u, e) ==
  /\ u = "openai" => Saying(e)
  /\ u = "anthropic" => /\ e.type \in {"block_start", "block_delta", "block_stop"}
                        /\ e.usage = NoUsage
  /\ u = "responses" => /\ IsEvent(e) /\ e.type \in {"created", "added", "delta", "done"}
                        /\ e.usage = NoUsage

\* A bridged stream has at most one end.
LEMMA ClockBound ==
  ASSUME NEW p, OnWay(p), ~Passthrough(p)
  PROVE  p.client.ended \in {0, 1}
  <1>1. p.entry \in Protocols /\ p.up \in Protocols
    BY DEF OnWay, IsPipe
  <1>2. CASE ~p.stream
    BY <1>2 DEF OnWay, Clock, NewClient
  <1>3. CASE p.stream /\ p.entry # "openai"
    BY <1>3 DEF OnWay, Clock, Told
  <1>4. CASE p.stream /\ p.entry = "openai" /\ p.up = "anthropic"
    BY <1>4 DEF OnWay, Clock
  <1>5. CASE p.stream /\ p.entry = "openai" /\ p.up = "responses"
    BY <1>5 DEF OnWay, Clock, Told
  <1>6. ~(p.entry = "openai" /\ p.up = "openai")
    BY DEF Passthrough
  <1> QED
    BY <1>1, <1>2, <1>3, <1>4, <1>5, <1>6 DEF Protocols

\* The largest value seen of each field is what was reported.
LEMMA Merged ==
  /\ MergeUsage(NoUsage, NoUsage) = NoUsage
  /\ MergeUsage([prompt |-> 1, completion |-> 0], NoUsage) = [prompt |-> 1, completion |-> 0]
  /\ MergeUsage(NoUsage, Reported) = Reported
  /\ MergeUsage(Reported, NoUsage) = Reported
  /\ MergeUsage([prompt |-> 1, completion |-> 0], [prompt |-> 0, completion |-> 2]) = Reported
  /\ MergeUsage(NoUsage, [prompt |-> 1, completion |-> 0]) = [prompt |-> 1, completion |-> 0]
  BY DEF MergeUsage, NoUsage, Reported, Larger

\* Events made from nothing but a type.
LEMMA Marks ==
  /\ DoneMark.type = "[DONE]" /\ DoneMark.usage = NoUsage /\ IsEvent(DoneMark)
  /\ \A type : Event(type).type = type /\ Event(type).usage = NoUsage /\ IsEvent(Event(type))
  BY DEF DoneMark, Event, IsEvent

\* A step that ends nothing and tells nothing.
LEMMA StepOn ==
  ASSUME NEW p, OnWay(p), ~OneBody(p), p.usage = UsageTold(p, "no"), p.client.ended = 0,
         NEW e, Fit(p, e), ~EndsAt(p, e), UsageAfter(p, e) = p.usage
  PROVE  Course(Handle(p, e), "no") /\ Route(p, Handle(p, e))
  <1> DEFINE f == Handle(p, e)
  <1>1. Handled(p, e, f)
    BY HandleOne
  <1> HIDE DEF f
  <1>2. Route(p, f) /\ ~OneBody(f) /\ OnWay(f) /\ f.usage = p.usage /\ f.client.ended = 0
    BY <1>1, RouteSame DEF Handled
  <1>3. UsageTold(f, "no") = UsageTold(p, "no")
    BY <1>2 DEF UsageTold, Route
  <1> QED
    BY <1>2, <1>3 DEF Course, f

\* An event on the way keeps the call on its course,
LEMMA MildHandled ==
  ASSUME NEW p, Course(p, "no"), ~OneBody(p), NEW e, Mild(p.up, e)
  PROVE  Course(Handle(p, e), "no") /\ Route(p, Handle(p, e))
  <1>1. /\ OnWay(p) /\ p.usage = UsageTold(p, "no") /\ p.client.ended = 0
        /\ p.entry \in Protocols /\ p.up \in Protocols
    BY DEF Course, OnWay, IsPipe
  <1>2. e.usage = NoUsage /\ e # DoneMark
    BY <1>1, Marks DEF Mild, Saying, Plain, IsChunk, Protocols
  <1>3. CASE Passthrough(p)
    <2>1. p.entry = p.up
      BY <1>3 DEF Passthrough
    <2>2. Known(p.entry, e) /\ ~Terminal(p.entry, e)
      BY <1>1, <1>2, <2>1, ChunkHarmless DEF Mild, Saying, Plain, Harmless, Known, Terminal, Protocols
    <2>3. UsageAfter(p, e) = p.usage
      <3>1. UsageAfter(p, e) = MergeUsage(p.usage, NoUsage)
        BY <1>2, <1>3 DEF UsageAfter
      <3> QED
        BY <1>1, <3>1, Merged DEF UsageTold
    <2> QED
      BY <1>1, <1>3, <2>2, <2>3, StepOn DEF Fit, EndsAt
  <1>4. CASE ~Passthrough(p) /\ p.up = "openai"
    <2>1. IsChunk(e) /\ e.finish = "none"
      BY <1>4 DEF Mild, Saying, Plain
    <2> QED
      BY <1>1, <1>2, <1>4, <2>1, StepOn DEF Fit, EndsAt, UsageAfter
  <1>5. CASE ~Passthrough(p) /\ p.up = "anthropic"
    <2>1. e.type \in {"block_start", "block_delta", "block_stop"}
      BY <1>5 DEF Mild
    <2>2. p.usage = [prompt |-> p.usage.prompt, completion |-> p.usage.completion]
      BY <1>1, <1>5 DEF UsageTold
    <2>3. UsageAfter(p, e) = p.usage
      BY <1>5, <2>1, <2>2 DEF UsageAfter
    <2> QED
      BY <1>1, <1>5, <2>1, <2>3, StepOn DEF Fit, EndsAt
  <1>6. CASE ~Passthrough(p) /\ p.up = "responses"
    <2>1. e.type \in {"created", "added", "delta", "done"}
      BY <1>6 DEF Mild
    <2> QED
      BY <1>1, <1>6, <2>1, StepOn DEF Fit, EndsAt, UsageAfter
  <1> QED
    BY <1>1, <1>3, <1>4, <1>5, <1>6 DEF Protocols

Murmur(u, s) == Listed(s) /\ \A i \in DOMAIN s : Mild(u, s[i])

\* and so does any sequence of them.
LEMMA MurmurHandled ==
  ASSUME NEW p, Course(p, "no"), ~OneBody(p), NEW s, Murmur(p.up, s)
  PROVE  Course(HandleAll(p, s), "no") /\ Route(p, HandleAll(p, s))
  <1>1. PICK X : s \in Seq(X)
    BY DEF Murmur, Listed
  <1> DEFINE n == Len(s)
  <1>2. PICK v : Run("handle", 0, p, s, v)
    BY <1>1, Runs
  <1>3. /\ v[0] = p
        /\ v[n] = HandleAll(p, s)
        /\ \A i \in 1..n : v[i] = Applied("handle", 0, v[i - 1], s[i])
    BY <1>1, <1>2, HandleFold DEF Run
  <1>4. n \in Nat /\ DOMAIN s = 1..n
    BY <1>1
  <1> HIDE DEF n
  <1> DEFINE I == {i \in 0..n : Course(v[i], "no") /\ Route(p, v[i])}
  <1>5. 0 \in I
    <2>1. 0 \in 0..n /\ Route(p, p)
      BY <1>4 DEF Route
    <2> QED
      BY <1>3, <2>1
  <1>6. ASSUME NEW i \in 1..n, i - 1 \in I PROVE i \in I
    <2> DEFINE q == v[i - 1]
    <2>1. v[i] = Handle(q, s[i])
      BY <1>3 DEF Applied
    <2>2. Course(q, "no") /\ Route(p, q)
      BY <1>6
    <2>3. Mild(p.up, s[i])
      BY <1>4 DEF Murmur
    <2> HIDE DEF q
    <2>4. ~OneBody(q) /\ Mild(q.up, s[i])
      BY <2>2, <2>3, RouteSame DEF Route
    <2>5. Course(v[i], "no") /\ Route(q, v[i])
      BY <2>1, <2>2, <2>4, MildHandled
    <2>6. Route(p, v[i])
      BY <2>2, <2>5 DEF Route
    <2> QED
      BY <2>5, <2>6
  <1> HIDE DEF I
  <1>7. n \in I
    BY <1>4, <1>5, <1>6, Climb
  <1> QED
    BY <1>3, <1>7 DEF I

\* q is p some events later, with usage w to bill; a client that gets what the upstream
\* sends has seen n ends.
Stage(p, q, w, n) ==
  /\ OnWay(q) /\ Route(p, q) /\ q.usage = w
  /\ Passthrough(p) => q.client.ended = n

\* The next event adds its usage and its end.
LEMMA NextStage ==
  ASSUME NEW p, ~OneBody(p), NEW q, NEW w, NEW n, Stage(p, q, w, n), NEW e, Fit(q, e)
  PROVE  /\ Stage(p, Handle(q, e), UsageAfter(q, e), IF Terminal(p.entry, e) THEN n + 1 ELSE n)
         /\ (Passthrough(q) <=> Passthrough(p)) /\ q.up = p.up /\ q.entry = p.entry
  <1> DEFINE f == Handle(q, e)
  <1>1. /\ ~OneBody(q) /\ OnWay(q) /\ Route(p, q)
        /\ (Passthrough(q) <=> Passthrough(p)) /\ q.up = p.up /\ q.entry = p.entry
    BY RouteSame DEF Stage, Route
  <1>2. Handled(q, e, f)
    BY <1>1, HandleOne
  <1> HIDE DEF f
  <1>3. OnWay(f) /\ Route(q, f) /\ f.usage = UsageAfter(q, e)
    BY <1>2 DEF Handled
  <1>4. Passthrough(p) => f.client.ended = IF Terminal(p.entry, e) THEN n + 1 ELSE n
    BY <1>1, <1>2 DEF Handled, Stage
  <1>5. Route(p, f)
    BY <1>1, <1>3 DEF Route
  <1> QED
    BY <1>1, <1>3, <1>4, <1>5 DEF Stage, f

\* Enough of both, and the course is at its end.
LEMMA StageEnds ==
  ASSUME NEW p, ~OneBody(p), NEW f, NEW end \in {"stop", "fail"},
         NEW w, w = UsageTold(p, end), NEW n \in {0, 1}, Stage(p, f, w, n)
  PROVE  Course(f, end) /\ Route(p, f)
  <1>1. /\ OnWay(f) /\ Route(p, f) /\ ~OneBody(f) /\ (Passthrough(f) <=> Passthrough(p))
        /\ f.usage = w
    BY RouteSame DEF Stage
  <1>2. UsageTold(f, end) = UsageTold(p, end)
    BY <1>1 DEF UsageTold, Route
  <1>3. f.client.ended \in {0, 1}
    BY <1>1, ClockBound DEF Stage
  <1> QED
    BY <1>1, <1>2, <1>3 DEF Course

\* Where the end begins.
LEMMA CourseStage ==
  ASSUME NEW p, Course(p, "no"), ~OneBody(p)
  PROVE  Stage(p, p, UsageTold(p, "no"), 0)
  BY DEF Course, Stage, Route

\* What is fit for an upstream is fit for the way, passed on or bridged.
LEMMA FitEvents ==
  ASSUME NEW p, IsPipe(p), NEW e
  PROVE  /\ p.up = "openai" /\ (e = DoneMark \/ IsChunk(e)) => Fit(p, e)
         /\ p.up = "anthropic" /\ e.type \in {"message_start", "block_start", "block_delta",
                "block_stop", "message_delta", "message_stop", "error"} => Fit(p, e)
         /\ p.up = "responses" /\ IsEvent(e) /\ e.type \in {"created", "added", "delta",
                "done", "completed", "failed"} => Fit(p, e)
  <1>1. Passthrough(p) => p.entry = p.up
    BY DEF Passthrough
  <1>2. p.up = "openai" /\ (e = DoneMark \/ IsChunk(e)) => Fit(p, e)
    BY <1>1 DEF Fit, Known, IsChunk
  <1>3. p.up = "anthropic" /\ e.type \in {"message_start", "block_start", "block_delta",
          "block_stop", "message_delta", "message_stop", "error"} => Fit(p, e)
    BY <1>1 DEF Fit, Known
  <1>4. p.up = "responses" /\ IsEvent(e) /\ e.type \in {"created", "added", "delta",
          "done", "completed", "failed"} => Fit(p, e)
    BY <1>1 DEF Fit, Known
  <1> QED
    BY <1>2, <1>3, <1>4

\* The last chunks of a chat upstream tell the usage,
LEMMA StopChunk ==
  ASSUME NEW p, ~OneBody(p), p.up = "openai", NEW q, Stage(p, q, NoUsage, 0),
         NEW c, IsChunk(c), c.usage \in {NoUsage, Reported}
  PROVE  Stage(p, Handle(q, c), c.usage, 0)
  <1>1. IsPipe(q) /\ q.up = "openai" /\ q.usage = NoUsage
    BY DEF Stage, OnWay, Route
  <1>2. Fit(q, c)
    BY <1>1, FitEvents
  <1>3. /\ Stage(p, Handle(q, c), UsageAfter(q, c), IF Terminal(p.entry, c) THEN 1 ELSE 0)
        /\ (Passthrough(q) <=> Passthrough(p)) /\ q.entry = p.entry
    BY <1>2, NextStage
  <1>4. c # DoneMark
    BY Marks DEF IsChunk
  <1>5. UsageAfter(q, c) = c.usage
    BY <1>1, <1>4, Merged DEF UsageAfter
  <1>6. Passthrough(p) => ~Terminal(p.entry, c)
    BY ChunkHarmless DEF Passthrough, Harmless
  <1> QED
    BY <1>3, <1>5, <1>6 DEF Stage

\* and its mark is the end.
LEMMA StopDone ==
  ASSUME NEW p, ~OneBody(p), p.up = "openai", NEW q, Stage(p, q, Reported, 0)
  PROVE  Stage(p, Handle(q, DoneMark), Reported, 1)
  <1>1. IsPipe(q) /\ q.up = "openai" /\ q.usage = Reported
    BY DEF Stage, OnWay, Route
  <1>2. Fit(q, DoneMark) /\ Terminal(p.entry, DoneMark)
    BY <1>1, FitEvents DEF Terminal
  <1>3. /\ Stage(p, Handle(q, DoneMark), UsageAfter(q, DoneMark), 1)
        /\ (Passthrough(q) <=> Passthrough(p)) /\ q.entry = p.entry
    BY <1>2, NextStage
  <1>4. UsageAfter(q, DoneMark) = Reported
    BY <1>1, Marks, Merged DEF UsageAfter
  <1> QED
    BY <1>3, <1>4

\* The end of a chat answer, its usage with the finish reason or after it.
LEMMA StopOpenAI ==
  ASSUME NEW p, Course(p, "no"), ~OneBody(p), p.up = "openai",
         NEW c, IsChunk(c), NEW s,
         \/ s = <<c, DoneMark>> /\ c.usage = Reported
         \/ \E d : s = <<d, c, DoneMark>> /\ IsChunk(d) /\ d.usage = NoUsage /\ c.usage = Reported
  PROVE  Course(HandleAll(p, s), "stop") /\ Route(p, HandleAll(p, s))
  <1>1. Stage(p, p, NoUsage, 0)
    BY CourseStage DEF UsageTold
  <1>2. UsageTold(p, "stop") = Reported
    BY DEF UsageTold
  <1>3. CASE s = <<c, DoneMark>> /\ c.usage = Reported
    <2> DEFINE a == Handle(p, c)
               f == Handle(a, DoneMark)
    <2>1. Stage(p, a, Reported, 0)
      BY <1>1, <1>3, StopChunk
    <2>2. HandleAll(p, s) = f
      BY <1>3, HandleLists
    <2> HIDE DEF a
    <2>3. Stage(p, f, Reported, 1)
      BY <2>1, StopDone
    <2> HIDE DEF f
    <2> QED
      BY <1>2, <2>2, <2>3, StageEnds
  <1>4. ASSUME NEW d, s = <<d, c, DoneMark>>, IsChunk(d), d.usage = NoUsage, c.usage = Reported
        PROVE  Course(HandleAll(p, s), "stop") /\ Route(p, HandleAll(p, s))
    <2> DEFINE a == Handle(p, d)
               b == Handle(a, c)
               f == Handle(b, DoneMark)
    <2>1. Stage(p, a, NoUsage, 0)
      BY <1>1, <1>4, StopChunk
    <2>2. HandleAll(p, s) = f
      BY <1>4, HandleLists
    <2> HIDE DEF a
    <2>3. Stage(p, b, Reported, 0)
      BY <1>4, <2>1, StopChunk
    <2> HIDE DEF b
    <2>4. Stage(p, f, Reported, 1)
      BY <2>3, StopDone
    <2> HIDE DEF f
    <2> QED
      BY <1>2, <2>2, <2>4, StageEnds
  <1> QED
    BY <1>3, <1>4

\* The last two events of a messages upstream: the usage it had not told yet, and the end.
LEMMA StopAnthropic ==
  ASSUME NEW p, Course(p, "no"), ~OneBody(p), p.up = "anthropic",
         NEW a, a.type = "message_delta", a.usage = [prompt |-> 0, completion |-> 2],
         NEW b, b.type = "message_stop", b.usage = NoUsage
  PROVE  Course(HandleAll(p, <<a, b>>), "stop") /\ Route(p, HandleAll(p, <<a, b>>))
  <1> DEFINE q == Handle(p, a)
             f == Handle(q, b)
             w == [prompt |-> 1, completion |-> 0]
  <1>1. Stage(p, p, w, 0) /\ UsageTold(p, "stop") = Reported
    BY CourseStage DEF UsageTold
  <1>2. HandleAll(p, <<a, b>>) = f
    BY HandleLists
  <1>3. IsPipe(p) /\ p.usage = w
    BY <1>1 DEF Stage, OnWay
  <1>4. Stage(p, q, Reported, 0)
    <2>1. Fit(p, a)
      BY <1>3, FitEvents
    <2>2. Stage(p, q, UsageAfter(p, a), IF Terminal(p.entry, a) THEN 1 ELSE 0)
      BY <1>1, <2>1, NextStage
    <2>3. Passthrough(p) => ~Terminal(p.entry, a)
      BY Marks DEF Passthrough, Terminal
    <2>4. UsageAfter(p, a) = Reported
      BY <1>3, Merged DEF UsageAfter, Reported
    <2> HIDE DEF q
    <2> QED
      BY <2>2, <2>3, <2>4 DEF Stage
  <1> HIDE DEF q
  <1>5. q.up = "anthropic" /\ IsPipe(q) /\ q.usage = Reported
    BY <1>4 DEF Stage, OnWay, Route
  <1>6. Stage(p, f, Reported, 1)
    <2>1. Fit(q, b)
      BY <1>5, FitEvents
    <2>2. Stage(p, f, UsageAfter(q, b), IF Terminal(p.entry, b) THEN 1 ELSE 0)
      BY <1>4, <2>1, NextStage
    <2>3. Passthrough(p) => Terminal(p.entry, b)
      BY DEF Passthrough, Terminal
    <2>4. UsageAfter(q, b) = Reported
      BY <1>5, Merged DEF UsageAfter, Reported
    <2> HIDE DEF f
    <2> QED
      BY <2>2, <2>3, <2>4 DEF Stage
  <1> HIDE DEF f
  <1> QED
    BY <1>1, <1>2, <1>6, StageEnds

\* The last event of a Responses upstream: usage and end in one.
LEMMA StopResponses ==
  ASSUME NEW p, Course(p, "no"), ~OneBody(p), p.up = "responses",
         NEW e, e.type = "completed", IsEvent(e), e.usage = Reported
  PROVE  Course(Handle(p, e), "stop") /\ Route(p, Handle(p, e))
  <1> DEFINE f == Handle(p, e)
  <1>1. Stage(p, p, NoUsage, 0) /\ UsageTold(p, "stop") = Reported
    BY CourseStage DEF UsageTold
  <1>2. IsPipe(p) /\ p.usage = NoUsage
    BY <1>1 DEF Stage, OnWay
  <1>3. Fit(p, e)
    BY <1>2, FitEvents
  <1>4. Stage(p, f, UsageAfter(p, e), IF Terminal(p.entry, e) THEN 1 ELSE 0)
    BY <1>1, <1>3, NextStage
  <1>5. Passthrough(p) => Terminal(p.entry, e)
    BY DEF Passthrough, Terminal
  <1>6. UsageAfter(p, e) = Reported
    BY <1>2, Merged DEF UsageAfter
  <1> HIDE DEF f
  <1>7. Stage(p, f, Reported, 1)
    BY <1>4, <1>5, <1>6 DEF Stage
  <1> QED
    BY <1>1, <1>7, StageEnds DEF f

\* An error event ends the answer and tells no usage.
LEMMA FailHandled ==
  ASSUME NEW p, Course(p, "no"), ~OneBody(p), NEW e, IsEvent(e), e.usage = NoUsage,
         \/ p.up = "anthropic" /\ e.type = "error"
         \/ p.up = "responses" /\ e.type = "failed"
  PROVE  Course(Handle(p, e), "fail") /\ Route(p, Handle(p, e))
  <1> DEFINE f == Handle(p, e)
             w == UsageTold(p, "no")
  <1>1. Stage(p, p, w, 0) /\ UsageTold(p, "fail") = w
    BY CourseStage DEF UsageTold
  <1>2. IsPipe(p) /\ p.usage = w
    BY <1>1 DEF Stage, OnWay
  <1>3. Fit(p, e)
    BY <1>2, FitEvents
  <1>4. Stage(p, f, UsageAfter(p, e), IF Terminal(p.entry, e) THEN 1 ELSE 0)
    BY <1>1, <1>3, NextStage
  <1>5. Passthrough(p) => Terminal(p.entry, e)
    BY DEF Passthrough, Terminal
  <1>6. UsageAfter(p, e) = w
    <2>1. CASE p.up = "anthropic"
      <3>1. w = [prompt |-> 1, completion |-> 0]
        BY <2>1 DEF UsageTold
      <3> QED
        BY <1>2, <2>1, <3>1, Merged DEF UsageAfter
    <2>2. CASE p.up = "responses"
      <3>1. w = NoUsage
        BY <2>2 DEF UsageTold
      <3> QED
        BY <1>2, <2>2, <3>1, Merged DEF UsageAfter
    <2> QED
      BY <2>1, <2>2
  <1> HIDE DEF f
  <1>7. Stage(p, f, w, 1)
    BY <1>4, <1>5, <1>6 DEF Stage
  <1> HIDE DEF w
  <1> QED
    BY <1>1, <1>7, StageEnds DEF f

\* A new call, and the first event of its answer.
LEMMA Greeted ==
  ASSUME NEW en \in Protocols, NEW u \in Protocols, NEW s \in BOOLEAN
  PROVE  LET p == NewPipe(en, u, s) IN
         /\ OneBody(p) => Course(p, "no")
         /\ u = "responses" => Course(p, "no") /\ Course(Handle(p, Greeting(u)), "no")
         /\ ~OneBody(p) => Course(Handle(p, Greeting(u)), "no") /\ Route(p, Handle(p, Greeting(u)))
         /\ Mild("responses", Greeting("responses"))
  <1> DEFINE p == NewPipe(en, u, s)
             e == Greeting(u)
             f == Handle(p, e)
  <1>1. /\ OnWay(p) /\ p.entry = en /\ p.up = u /\ p.stream = s
        /\ p.usage = NoUsage /\ p.client = NewClient /\ p.client.ended = 0
        /\ p = NewPipe(p.entry, p.up, p.stream)
    BY NewPipeIs
  <1> HIDE DEF p
  <1>2. Mild("openai", Greeting("openai")) /\ Mild("responses", Greeting("responses"))
    BY Chunks, Marks DEF Greeting, Mild, Saying, Plain
  <1>3. OneBody(p) \/ u # "anthropic" => Course(p, "no")
    BY <1>1 DEF Course, UsageTold
  <1>4. u = "responses" => ~OneBody(p)
    BY <1>1 DEF OneBody
  <1>5. CASE u # "anthropic" /\ ~OneBody(p)
    BY <1>1, <1>2, <1>3, <1>5, MildHandled DEF Protocols
  <1>6. CASE u = "anthropic" /\ ~OneBody(p)
    <2>1. Stage(p, p, NoUsage, 0)
      BY <1>1 DEF Stage, Route
    <2>2. e.type = "message_start" /\ e.usage = [prompt |-> 1, completion |-> 0]
      BY <1>6 DEF Greeting, Event, NoUsage, Reported
    <2>3. IsPipe(p)
      BY <1>1 DEF OnWay
    <2>4. Fit(p, e)
      BY <1>1, <1>6, <2>2, <2>3, FitEvents
    <2> HIDE DEF e
    <2>5. Stage(p, f, UsageAfter(p, e), IF Terminal(p.entry, e) THEN 0 + 1 ELSE 0)
      BY <1>6, <2>1, <2>4, NextStage
    <2>6. Passthrough(p) => ~Terminal(p.entry, e)
      BY <1>1, <1>6, <2>2, Marks DEF Passthrough, Terminal
    <2>7. UsageAfter(p, e) = [prompt |-> 1, completion |-> 0]
      BY <1>1, <1>6, <2>2, Merged DEF UsageAfter, NoUsage
    <2>8. ~EndsAt(p, e)
      BY <1>1, <1>6, <2>2, <2>6 DEF EndsAt
    <2>9. f.client.ended = 0
      <3>1. Handled(p, e, f)
        BY <1>1, <1>6, <2>4, HandleOne
      <3> QED
        BY <1>1, <2>8, <3>1 DEF Handled
    <2> HIDE DEF f
    <2>10. OnWay(f) /\ Route(p, f) /\ f.usage = [prompt |-> 1, completion |-> 0]
      BY <2>5, <2>7 DEF Stage
    <2>11. ~OneBody(f) /\ f.up = "anthropic"
      BY <1>1, <1>6, <2>10, RouteSame DEF Route
    <2> QED
      BY <1>1, <1>2, <1>6, <2>9, <2>10, <2>11 DEF Course, UsageTold, f, e
  <1> QED
    BY <1>2, <1>3, <1>4, <1>5, <1>6 DEF p

------------------------------------------------------------------------------
(* The invariant *)

InFlight == pc \in {"peek", "flow"}

\* An answer on its way: what peek holds back would be on course if it were passed on.
Flying ==
  InFlight =>
    /\ outcome = "none"
    /\ Course(HandleAll(pipe, held), stopped) /\ Route(pipe, HandleAll(pipe, held))
    /\ pc = "peek" => pipe = NewPipe(pipe.entry, "responses", pipe.stream)
    /\ pc = "flow" => held = <<>>

\* A Responses channel that has said nothing is still peeked at, and has not failed.
Peeked ==
  InFlight /\ pipe.up = "responses" /\ said = <<>> =>
    stopped # "fail" /\ (stopped = "no" => pc = "peek")

\* The outcome fits what the client has got.
Settled ==
  ~InFlight =>
    /\ pc = "client" => outcome \in {"none", "complete"}
    /\ pc = "over" => outcome \in {"broken", "failover"}
    /\ pipe.client.ended \in {0, 1}
    /\ pipe.usage \in {NoUsage, [prompt |-> 1, completion |-> 0], Reported}
    /\ outcome \in {"complete", "broken"} /\ ~Passthrough(pipe) => pipe.client.ended = 1
    /\ outcome = "complete" => pipe.usage = Reported
    /\ outcome = "failover" => pipe.client = NewClient
    /\ stopped = "fail" /\ pipe.up = "responses" /\ said = <<>> => outcome # "broken"

IInv ==
  /\ pc \in {"client", "peek", "flow", "over"} /\ stopped \in {"no", "stop", "fail"}
  /\ IsPipe(pipe) /\ Listed(held) /\ Listed(said)
  /\ Flying /\ Peeked /\ Settled

\* Events on the way, after one another.
LEMMA MurmurJoined ==
  ASSUME NEW u, NEW s, Murmur(u, s), NEW t, Murmur(u, t)
  PROVE  Murmur(u, s \o t)
  <1>1. PICK X : s \in Seq(X)
    BY DEF Murmur, Listed
  <1>2. PICK Y : t \in Seq(Y)
    BY DEF Murmur, Listed
  <1> DEFINE Z == X \cup Y
  <1>3. s \in Seq(Z) /\ t \in Seq(Z)
    BY <1>1, <1>2
  <1> HIDE DEF Z
  <1>4. /\ s \o t \in Seq(Z)
        /\ \A i \in DOMAIN (s \o t) : \/ i \in DOMAIN s /\ (s \o t)[i] = s[i]
                                      \/ i - Len(s) \in DOMAIN t /\ (s \o t)[i] = t[i - Len(s)]
    BY <1>3
  <1> QED
    BY <1>4 DEF Murmur, Listed

\* None of them, or one.
LEMMA MurmurFew ==
  ASSUME NEW u
  PROVE  /\ Murmur(u, <<>>)
         /\ \A e : Mild(u, e) => Murmur(u, <<e>>)
  <1>1. Murmur(u, <<>>)
    BY ListedIs DEF Murmur
  <1>2. ASSUME NEW e, Mild(u, e) PROVE Murmur(u, <<e>>)
    <2>1. <<e>> \in Seq({e}) /\ DOMAIN <<e>> = {1} /\ <<e>>[1] = e
      OBVIOUS
    <2> QED
      BY <1>2, <2>1 DEF Murmur, Listed
  <1> QED
    BY <1>1, <1>2

\* An event with another place or content.
Alike(e, d) == IsEvent(d) /\ d.type = e.type /\ d.usage = e.usage

\* The same event with another place or content.
LEMMA EventAlike ==
  ASSUME NEW e, IsEvent(e), NEW v
  PROVE  /\ Alike(e, [e EXCEPT !.index = v])
         /\ Alike(e, [e EXCEPT !.kind = v])
         /\ Alike(e, [e EXCEPT !.name = v])
         /\ Alike(e, [e EXCEPT !.data = v])
  <1>1. Alike(e, [e EXCEPT !.index = v])
    BY DEF IsEvent, Alike
  <1>2. Alike(e, [e EXCEPT !.kind = v])
    BY DEF IsEvent, Alike
  <1>3. Alike(e, [e EXCEPT !.name = v])
    BY DEF IsEvent, Alike
  <1>4. Alike(e, [e EXCEPT !.data = v])
    BY DEF IsEvent, Alike
  <1> QED
    BY <1>1, <1>2, <1>3, <1>4

\* An event at a place is an event, and tells no usage.
LEMMA AtIs ==
  ASSUME NEW type, NEW i, NEW kind, NEW name, NEW data
  PROVE  /\ At(type, i, kind, name, data).type = type
         /\ At(type, i, kind, name, data).usage = NoUsage
         /\ IsEvent(At(type, i, kind, name, data))
  <1> DEFINE k == WireKind(kind)
             e == Event(type)
             a == [e EXCEPT !.index = i - 1]
             b == [a EXCEPT !.kind = k]
             c == [b EXCEPT !.name = name]
             d == [c EXCEPT !.data = data]
  <1>1. At(type, i, kind, name, data) = d
    BY DEF At
  <1>2. e.type = type /\ e.usage = NoUsage /\ IsEvent(e)
    BY Marks
  <1> HIDE DEF k, e
  <1>3. Alike(e, a)
    BY <1>2, EventAlike
  <1> HIDE DEF a
  <1>4. Alike(a, b)
    BY <1>3, EventAlike DEF Alike
  <1> HIDE DEF b
  <1>5. Alike(b, c)
    BY <1>4, EventAlike DEF Alike
  <1> HIDE DEF c
  <1>6. Alike(c, d)
    BY <1>5, EventAlike DEF Alike
  <1> HIDE DEF d
  <1> QED
    BY <1>1, <1>2, <1>3, <1>4, <1>5, <1>6 DEF Alike

\* What an upstream says of a part is mild; a Responses channel says it in one event.
LEMMA FragmentMild ==
  ASSUME IInv, NEW kind, NEW i, NEW data
  PROVE  /\ Murmur(pipe.up, Fragment(kind, i, data))
         /\ pipe.up = "responses" => \E e : Fragment(kind, i, data) = <<e>>
  <1>1. CASE pipe.up = "openai"
    BY <1>1, Chunks, MurmurFew DEF Fragment, Mild
  <1>2. CASE pipe.up = "anthropic"
    <2>1. Mild("anthropic", At("block_delta", i, kind, 0, data))
      BY AtIs DEF Mild
    <2> QED
      BY <1>2, <2>1, MurmurFew DEF Fragment
  <1>3. CASE pipe.up = "responses"
    <2>1. Mild("responses", At("delta", i, kind, 0, data))
      BY AtIs DEF Mild
    <2> QED
      BY <1>3, <2>1, MurmurFew DEF Fragment
  <1> QED
    BY <1>1, <1>2, <1>3 DEF IInv, IsPipe, Protocols

\* The wrapper of a custom tool is on the way, and unknown to Responses upstreams.
LEMMA WrapperMild ==
  ASSUME IInv, NEW kind, NEW i, NEW mark
  PROVE  /\ Murmur(pipe.up, Wrapper(kind, i, mark))
         /\ pipe.up = "responses" => Wrapper(kind, i, mark) = <<>>
  BY FragmentMild, MurmurFew DEF Wrapper

\* The events of an action: a Responses channel's come one by one.
Saids(events) ==
  Murmur(pipe.up, events) /\ (pipe.up = "responses" => \E e : events = <<e>>)

\* What opens a part,
LEMMA OpenMild ==
  ASSUME IInv, NEW kind, NEW i, NEW name
  PROVE  Saids((CASE pipe.up = "openai" -> IF kind \in CallKinds
                                    THEN <<CallChunk(ChatIndex(i), name, <<>>)>> ELSE <<>>
                  [] pipe.up = "anthropic" -> <<At("block_start", i, kind, name, <<>>)>>
                  [] pipe.up = "responses" -> <<At("added", i, kind, name, <<>>)>>)
               \o Wrapper(kind, i, Opening))
  <1> DEFINE s == CASE pipe.up = "openai" -> IF kind \in CallKinds
                                    THEN <<CallChunk(ChatIndex(i), name, <<>>)>> ELSE <<>>
                    [] pipe.up = "anthropic" -> <<At("block_start", i, kind, name, <<>>)>>
                    [] pipe.up = "responses" -> <<At("added", i, kind, name, <<>>)>>
             t == Wrapper(kind, i, Opening)
  <1>1. Murmur(pipe.up, s)
    <2>1. CASE pipe.up = "openai"
      BY <2>1, Chunks, MurmurFew DEF Mild
    <2>2. CASE pipe.up = "anthropic"
      <3>1. Mild("anthropic", At("block_start", i, kind, name, <<>>))
        BY AtIs DEF Mild
      <3> QED
        BY <2>2, <3>1, MurmurFew
    <2>3. CASE pipe.up = "responses"
      <3>1. Mild("responses", At("added", i, kind, name, <<>>))
        BY AtIs DEF Mild
      <3> QED
        BY <2>3, <3>1, MurmurFew
    <2> QED
      BY <2>1, <2>2, <2>3 DEF IInv, IsPipe, Protocols
  <1>2. pipe.up = "responses" => \E e : s = <<e>>
    OBVIOUS
  <1>3. Murmur(pipe.up, t) /\ (pipe.up = "responses" => t = <<>>)
    BY WrapperMild
  <1> HIDE DEF s, t
  <1>4. Murmur(pipe.up, s \o t)
    BY <1>1, <1>3, MurmurJoined
  <1>5. ASSUME pipe.up = "responses" PROVE \E e : s \o t = <<e>>
    <2>1. PICK e : s = <<e>>
      BY <1>2, <1>5
    <2>2. <<e>> \o <<>> = <<e>>
      OBVIOUS
    <2> QED
      BY <1>3, <1>5, <2>1, <2>2
  <1>6. Saids(s \o t)
    BY <1>4, <1>5 DEF Saids
  <1> QED
    BY <1>6 DEF s, t

\* and what closes one, is on the way.
LEMMA CloseMild ==
  ASSUME IInv, NEW i, NEW data
  PROVE  Saids(CloseEvents(i, data))
  <1> DEFINE s == Wrapper(said[i].kind, i, Closing)
             t == CASE pipe.up = "openai" -> <<>>
                    [] pipe.up = "anthropic" -> <<At("block_stop", i, said[i].kind, 0, <<>>)>>
                    [] pipe.up = "responses" ->
                         <<At("done", i, said[i].kind, said[i].name, data)>>
  <1>1. CloseEvents(i, data) = s \o t
    BY DEF CloseEvents
  <1>2. Murmur(pipe.up, t)
    <2>1. CASE pipe.up = "openai"
      BY <2>1, MurmurFew
    <2>2. CASE pipe.up = "anthropic"
      <3>1. Mild("anthropic", At("block_stop", i, said[i].kind, 0, <<>>))
        BY AtIs DEF Mild
      <3> QED
        BY <2>2, <3>1, MurmurFew
    <2>3. CASE pipe.up = "responses"
      <3>1. Mild("responses", At("done", i, said[i].kind, said[i].name, data))
        BY AtIs DEF Mild
      <3> QED
        BY <2>3, <3>1, MurmurFew
    <2> QED
      BY <2>1, <2>2, <2>3 DEF IInv, IsPipe, Protocols
  <1>3. pipe.up = "responses" => \E e : t = <<e>>
    OBVIOUS
  <1>4. Murmur(pipe.up, s) /\ (pipe.up = "responses" => s = <<>>)
    BY WrapperMild
  <1> HIDE DEF s, t
  <1>5. Murmur(pipe.up, s \o t)
    BY <1>2, <1>4, MurmurJoined
  <1>6. ASSUME pipe.up = "responses" PROVE \E e : s \o t = <<e>>
    <2>1. PICK e : t = <<e>>
      BY <1>3, <1>6
    <2>2. <<>> \o <<e>> = <<e>>
      OBVIOUS
    <2> QED
      BY <1>4, <1>6, <2>1, <2>2
  <1> QED
    BY <1>1, <1>5, <1>6 DEF Saids

\* What the events of an action make of any call on its course.
Bring(events, end) ==
  \A p : Course(p, "no") /\ ~OneBody(p) /\ p.up = pipe.up =>
    Course(HandleAll(p, events), end) /\ Route(p, HandleAll(p, events))

\* Events on the way bring any call on its course further on it.
LEMMA SaidsBring ==
  ASSUME NEW events, Saids(events)
  PROVE  Bring(events, "no")
  BY MurmurHandled DEF Saids, Bring

\* The call as its client knows it before anything is passed on.
LEMMA PeekedClient ==
  ASSUME IInv, InFlight
  PROVE  /\ pc = "peek" => pipe.client = NewClient /\ pipe.usage = NoUsage /\ pipe.up = "responses"
         /\ pc = "flow" => HandleAll(pipe, held) = pipe /\ Course(pipe, stopped)
         /\ ~pipe.stream => pipe.client = NewClient
  <1>1. ASSUME pc = "peek"
        PROVE  pipe.client = NewClient /\ pipe.usage = NoUsage /\ pipe.up = "responses"
    <2> DEFINE en == pipe.entry
               st == pipe.stream
    <2>1. pipe = NewPipe(en, "responses", st)
      BY <1>1 DEF IInv, Flying, InFlight
    <2>2. en \in Protocols /\ "responses" \in Protocols /\ st \in BOOLEAN
      BY DEF IInv, IsPipe, Protocols
    <2> HIDE DEF en, st
    <2> QED
      BY <2>1, <2>2, NewPipeIs
  <1>2. pc = "flow" => HandleAll(pipe, held) = pipe /\ Course(pipe, stopped)
    BY HandleLaw DEF IInv, Flying, InFlight
  <1>3. ASSUME pc = "flow", ~pipe.stream
        PROVE  pipe.client = NewClient
    <2>1. CASE OneBody(pipe)
      <3> DEFINE en == pipe.entry
                 u == pipe.up
                 st == pipe.stream
      <3>1. pipe = NewPipe(en, u, st)
        BY <1>2, <1>3, <2>1 DEF Course
      <3>2. en \in Protocols /\ u \in Protocols /\ st \in BOOLEAN
        BY DEF IInv, IsPipe
      <3> HIDE DEF en, u, st
      <3> QED
        BY <3>1, <3>2, NewPipeIs
    <2>2. CASE ~OneBody(pipe)
      BY <1>2, <1>3, <2>2 DEF Course, OnWay, Clock, OneBody, Passthrough
    <2> QED
      BY <2>1, <2>2
  <1> QED
    BY <1>1, <1>2, <1>3 DEF InFlight

\* After the events of an action the call is on course, whoever holds them.
LEMMA EmitKeeps ==
  ASSUME IInv, Speaking, NEW events, NEW end \in {"no", "stop", "fail"},
         Emit(events), stopped' = end, Listed(said'), Bring(events, end),
         pipe.up = "responses" => \E e : events = <<e>>,
         \/ said' # <<>> \/ end = "stop"
         \/ end = "fail" /\ said' = said /\ (pipe.up = "responses" => events[1].type = "failed")
  PROVE  IInv'
  <1> USE DEF InFlight
  <1>1. /\ pc \in {"peek", "flow"} /\ stopped = "no" /\ IsPipe(pipe) /\ Listed(held)
        /\ Course(HandleAll(pipe, held), "no") /\ Route(pipe, HandleAll(pipe, held))
        /\ pc = "peek" => pipe = NewPipe(pipe.entry, "responses", pipe.stream)
        /\ pc = "flow" => held = <<>>
        /\ outcome = "none"
    BY DEF IInv, Flying, Speaking
  <1>2. CASE OneBody(pipe)
    <2>1. UNCHANGED <<pc, held, pipe, outcome>> /\ pc = "flow" /\ pipe.up # "responses"
      <3>1. pipe.up # "responses"
        BY <1>2 DEF OneBody
      <3>2. pc # "peek"
        BY <3>1, PeekedClient
      <3> QED
        BY <1>1, <1>2, <3>1, <3>2 DEF Emit
    <2>2. HandleAll(pipe, held) = pipe /\ Course(pipe, "no")
      BY <1>1, <2>1, PeekedClient
    <2>3. Course(pipe, end)
      BY <1>2, <2>2 DEF Course
    <2>4. Flying'
      BY <1>1, <2>1, <2>2, <2>3 DEF Flying
    <2>5. Peeked' /\ Settled'
      BY <2>1 DEF Peeked, Settled
    <2> QED
      BY <1>1, <2>1, <2>4, <2>5 DEF IInv
  <1>3. CASE ~OneBody(pipe) /\ pc = "flow"
    <2>1. UNCHANGED <<pc, held, outcome>> /\ pipe' = HandleAll(pipe, events)
      BY <1>3 DEF Emit, Arrive
    <2>2. HandleAll(pipe, held) = pipe /\ Course(pipe, "no")
      BY <1>1, <1>3, PeekedClient
    <2>3. Course(pipe', end) /\ Route(pipe, pipe')
      BY <1>3, <2>1, <2>2 DEF Bring
    <2>4. HandleAll(pipe', held') = pipe' /\ IsPipe(pipe') /\ Route(pipe', pipe')
      BY <1>1, <1>3, <2>1, <2>3, HandleLaw DEF Course, OnWay, Route
    <2>5. Flying'
      BY <1>1, <1>3, <2>1, <2>3, <2>4 DEF Flying
    <2>6. Settled'
      BY <1>3, <2>1 DEF Settled
    <2>7. Peeked'
      <3>1. pipe'.up = pipe.up
        BY <2>3 DEF Route
      <3>2. pipe.up = "responses" /\ said = <<>> => pc = "peek"
        BY <1>1 DEF IInv, Peeked
      <3> QED
        BY <1>3, <2>1, <3>1, <3>2 DEF Peeked
    <2> QED
      BY <1>1, <1>3, <2>1, <2>4, <2>5, <2>6, <2>7 DEF IInv
  <1>4. CASE ~OneBody(pipe) /\ pc = "peek"
    <2>1. pipe.up = "responses" /\ pipe.client = NewClient /\ pipe.usage = NoUsage
      BY <1>4, PeekedClient
    <2>2. PICK e : events = <<e>>
      BY <2>1
    <2>3. events[1] = e
      BY <2>2
    <2> DEFINE p == HandleAll(pipe, held)
               h == Append(held, e)
               q == HandleAll(pipe, h)
    <2>4. Course(q, end) /\ Route(pipe, q) /\ Listed(h)
      <3>1. q = Handle(p, e) /\ Listed(h)
        BY <1>1, HandleMore, Appended
      <3>2. Course(p, "no") /\ Route(pipe, p)
        BY <1>1
      <3> HIDE DEF p, q, h
      <3>3. ~OneBody(p) /\ p.up = pipe.up
        BY <1>4, <3>2, RouteSame DEF Route
      <3>4. Course(HandleAll(p, events), end) /\ Route(p, HandleAll(p, events))
        BY <3>2, <3>3 DEF Bring
      <3>5. HandleAll(p, events) = q
        BY <2>2, <3>1, HandleLaw
      <3> QED
        BY <3>1, <3>2, <3>4, <3>5 DEF Route
    <2>5. CASE ~UserOutput(e) /\ Retries(e)
      <3>1. pc' = "over" /\ outcome' = "failover" /\ UNCHANGED <<held, pipe>>
        BY <1>4, <2>3, <2>5 DEF Emit, Arrive
      <3>2. NewClient.ended = 0
        BY DEF NewClient
      <3> QED
        BY <1>1, <2>1, <3>1, <3>2 DEF IInv, Flying, Peeked, Settled
    <2>6. CASE ~(~UserOutput(e) /\ Retries(e)) /\ (UserOutput(e) \/ Full(Len(held) + 1))
      <3>1. pc' = "flow" /\ held' = <<>> /\ pipe' = q /\ UNCHANGED outcome
        BY <1>4, <2>3, <2>6 DEF Emit, Arrive, Release
      <3> HIDE DEF q
      <3>2. HandleAll(pipe', held') = pipe' /\ IsPipe(pipe') /\ Route(pipe', pipe') /\ Listed(held')
        BY <2>4, <3>1, HandleLaw, ListedIs DEF Course, OnWay, Route
      <3>3. Flying'
        BY <1>1, <2>4, <3>1, <3>2 DEF Flying
      <3>4. Settled'
        BY <3>1 DEF Settled
      <3>5. said' # <<>> \/ end = "stop"
        BY <2>1, <2>3, <2>6 DEF UserOutput, Retries
      <3>6. Peeked'
        BY <3>5 DEF Peeked
      <3> QED
        BY <3>1, <3>2, <3>3, <3>4, <3>6 DEF IInv
    <2>7. CASE ~(~UserOutput(e) /\ Retries(e)) /\ ~(UserOutput(e) \/ Full(Len(held) + 1))
      <3>1. held' = h /\ UNCHANGED <<pc, pipe, outcome>>
        BY <1>4, <2>3, <2>7 DEF Emit, Arrive
      <3>2. HandleAll(pipe', held') = q
        BY <3>1
      <3> HIDE DEF q, h
      <3>3. Flying'
        BY <1>1, <1>4, <2>4, <3>1, <3>2 DEF Flying
      <3>4. Settled'
        BY <1>4, <3>1 DEF Settled
      <3>5. said' # <<>> \/ end = "stop"
        BY <2>1, <2>3, <2>7 DEF UserOutput, Retries
      <3>6. Peeked'
        BY <3>5 DEF Peeked
      <3> QED
        BY <1>1, <1>4, <2>4, <3>1, <3>3, <3>4, <3>6 DEF IInv
    <2> QED
      BY <2>5, <2>6, <2>7
  <1> QED
    BY <1>1, <1>2, <1>3, <1>4

------------------------------------------------------------------------------
(* The actions *)

\* The invariant holds at first, and every action keeps it.
LEMMA InitKeeps ==
  ASSUME Init
  PROVE  IInv
  <1>1. PICK en \in Protocols : pipe = NewPipe(en, "openai", FALSE)
    BY DEF Init
  <1>2. "openai" \in Protocols /\ FALSE \in BOOLEAN
    BY DEF Protocols
  <1>3. /\ OnWay(NewPipe(en, "openai", FALSE)) /\ NewPipe(en, "openai", FALSE).usage = NoUsage
        /\ NewPipe(en, "openai", FALSE).client = NewClient
        /\ NewPipe(en, "openai", FALSE).client.ended = 0
    <2>1. LET p == NewPipe(en, "openai", FALSE) IN
          OnWay(p) /\ p.usage = NoUsage /\ p.client = NewClient /\ p.client.ended = 0
      BY <1>2, NewPipeIs
    <2> QED
      BY <2>1
  <1>4. IsPipe(pipe) /\ pipe.usage = NoUsage /\ pipe.client.ended = 0
    BY <1>1, <1>3 DEF OnWay
  <1>5. pc = "client" /\ said = <<>> /\ stopped = "no" /\ held = <<>> /\ outcome = "none"
    BY DEF Init
  <1> QED
    BY <1>4, <1>5, ListedIs DEF IInv, Flying, Peeked, Settled, InFlight

\* A call begins: what is held back is its greeting, or it has been handled.
LEMMA SendKeeps ==
  ASSUME IInv, NEW u \in Protocols, NEW s \in BOOLEAN, Send(u, s)
  PROVE  IInv'
  <1> DEFINE en == pipe.entry
             p == NewPipe(en, u, s)
             f == Handle(p, Greeting(u))
  <1>1. en \in Protocols
    BY DEF IInv, IsPipe
  <1>2. /\ said' = <<>> /\ stopped' = "no" /\ outcome' = "none"
        /\ IF u = "responses"
             THEN pc' = "peek" /\ pipe' = p /\ held' = <<Greeting(u)>>
             ELSE /\ pc' = "flow" /\ held' = <<>>
                  /\ pipe' = IF OneBody(p) THEN p ELSE f
    BY DEF Send, entry
  <1> HIDE DEF en
  <1>3. /\ OnWay(p) /\ p.entry = en /\ p.up = u /\ p.stream = s
        /\ p = NewPipe(p.entry, p.up, p.stream)
    BY <1>1, NewPipeIs
  <1>4. /\ OneBody(p) => Course(p, "no")
        /\ u = "responses" => Course(f, "no")
        /\ ~OneBody(p) => Course(f, "no") /\ Route(p, f)
    BY <1>1, Greeted
  <1> HIDE DEF p
  <1>5. HandleAll(p, <<Greeting(u)>>) = f
    BY HandleLaw
  <1> HIDE DEF f
  <1>6. CASE u = "responses"
    <2>1. ~OneBody(p) /\ IsPipe(p)
      BY <1>3, <1>6 DEF OneBody, OnWay
    <2>2. Listed(held') /\ Listed(said')
      BY <1>2, <1>6, ListedIs
    <2>3. HandleAll(pipe', held') = f /\ pipe' = p /\ pc' = "peek"
      BY <1>2, <1>5, <1>6
    <2>4. Flying'
      BY <1>2, <1>3, <1>4, <1>6, <2>1, <2>3 DEF Flying, InFlight
    <2>5. Peeked' /\ Settled'
      BY <1>2, <2>3 DEF Peeked, Settled, InFlight
    <2> QED
      BY <1>2, <2>1, <2>2, <2>3, <2>4, <2>5 DEF IInv
  <1>7. CASE u # "responses"
    <2>1. /\ pc' = "flow" /\ held' = <<>> /\ (pipe' = p \/ pipe' = f)
          /\ Course(pipe', "no") /\ pipe'.up = u
      BY <1>2, <1>3, <1>4, <1>7 DEF Route
    <2>2. IsPipe(pipe') /\ HandleAll(pipe', held') = pipe'
      BY <2>1, HandleLaw DEF Course, OnWay
    <2>3. Route(pipe', pipe') /\ Listed(held') /\ Listed(said')
      BY <1>2, <2>1, ListedIs DEF Route
    <2>4. Flying'
      BY <1>2, <2>1, <2>2, <2>3 DEF Flying, InFlight
    <2>5. Peeked' /\ Settled'
      BY <1>2, <1>7, <2>1 DEF Peeked, Settled, InFlight
    <2> QED
      BY <1>2, <2>1, <2>2, <2>3, <2>4, <2>5 DEF IInv
  <1> QED
    BY <1>6, <1>7

\* The client's turn: the call is a new one.
LEMMA AskKeeps ==
  ASSUME IInv, Ask
  PROVE  IInv'
  <1> DEFINE en == pipe.entry
             u == pipe.up
             s == pipe.stream
  <1>1. /\ pc = "client" /\ pc' = pc /\ said' = <<>> /\ stopped' = "no" /\ held' = <<>>
        /\ outcome' = "none" /\ pipe' = NewPipe(en, u, s)
    BY DEF Ask, entry
  <1>2. en \in Protocols /\ u \in Protocols /\ s \in BOOLEAN
    BY DEF IInv, IsPipe
  <1> HIDE DEF en, u, s
  <1>3. IsPipe(pipe') /\ pipe'.usage = NoUsage /\ pipe'.client.ended = 0
    BY <1>1, <1>2, NewPipeIs DEF OnWay
  <1> QED
    BY <1>1, <1>3, ListedIs DEF IInv, Flying, Peeked, Settled, InFlight

\* Something has been said.
LEMMA Spoken ==
  /\ \A s, x : Listed(s) => Append(s, x) # <<>>
  /\ \A s, i : i \in DOMAIN s => s # <<>>
  <1>1. DOMAIN <<>> = {}
    OBVIOUS
  <1> QED
    BY <1>1, Appended

\* A part opens,
LEMMA OpenKeeps ==
  ASSUME IInv, NEW kind, Open(kind)
  PROVE  IInv'
  <1> DEFINE i == Len(said) + 1
             name == IF kind \in CallKinds THEN WireName(kind, i) ELSE 0
             x == [kind |-> kind, name |-> name, data |-> <<>>, open |-> TRUE]
             events == (CASE pipe.up = "openai" -> IF kind \in CallKinds
                                    THEN <<CallChunk(ChatIndex(i), name, <<>>)>> ELSE <<>>
                          [] pipe.up = "anthropic" -> <<At("block_start", i, kind, name, <<>>)>>
                          [] pipe.up = "responses" -> <<At("added", i, kind, name, <<>>)>>)
                       \o Wrapper(kind, i, Opening)
  <1>1. Speaking /\ said' = Append(said, x) /\ Emit(events) /\ stopped' = stopped
    BY DEF Open
  <1>2. Saids(events)
    BY OpenMild
  <1> HIDE DEF events, x
  <1>3. said' # <<>> /\ Listed(said')
    BY <1>1, Spoken, Appended DEF IInv
  <1>4. Bring(events, "no") /\ (pipe.up = "responses" => \E e : events = <<e>>)
    BY <1>2, SaidsBring DEF Saids
  <1>5. stopped' = "no" /\ "no" \in {"no", "stop", "fail"}
    BY <1>1 DEF Speaking
  <1> QED
    BY <1>1, <1>3, <1>4, <1>5, EmitKeeps

\* The parts change in place.
LEMMA SaidChanged ==
  ASSUME IInv, NEW i \in DOMAIN said, NEW v
  PROVE  [said EXCEPT ![i] = v] # <<>> /\ Listed([said EXCEPT ![i] = v])
  <1>1. DOMAIN [said EXCEPT ![i] = v] = DOMAIN said
    OBVIOUS
  <1>2. Listed([said EXCEPT ![i] = v])
    <2>1. PICK X : said \in Seq(X)
      BY DEF IInv, Listed
    <2>2. [said EXCEPT ![i] = v] \in Seq(X \cup {v})
      BY <2>1
    <2> QED
      BY <2>2 DEF Listed
  <1> QED
    BY <1>1, <1>2, Spoken

\* says more,
LEMMA SayKeeps ==
  ASSUME IInv, NEW i \in DOMAIN said, Say(i)
  PROVE  IInv'
  <1> DEFINE f == Fragments + 1
             events == Fragment(said[i].kind, i, <<f>>)
             v == [said[i] EXCEPT !.data = Append(@, f)]
  <1>1. Speaking /\ said' = [said EXCEPT ![i] = v] /\ Emit(events) /\ stopped' = stopped
    BY DEF Say
  <1>2. Saids(events)
    BY FragmentMild DEF Saids
  <1> HIDE DEF events, v
  <1>3. said' # <<>> /\ Listed(said')
    BY <1>1, SaidChanged
  <1>4. Bring(events, "no") /\ (pipe.up = "responses" => \E e : events = <<e>>)
    BY <1>2, SaidsBring DEF Saids
  <1>5. stopped' = "no" /\ "no" \in {"no", "stop", "fail"}
    BY <1>1 DEF Speaking
  <1> QED
    BY <1>1, <1>3, <1>4, <1>5, EmitKeeps

\* and closes.
LEMMA CloseKeeps ==
  ASSUME IInv, NEW i \in DOMAIN said, Close(i) \/ CloseWhole(i)
  PROVE  IInv'
  <1>1. PICK data, v : /\ Speaking /\ said' = [said EXCEPT ![i] = v]
                       /\ Emit(CloseEvents(i, data)) /\ stopped' = stopped
    <2>1. CASE Close(i)
      <3> DEFINE data == said[i].data
                 v == [said[i] EXCEPT !.open = FALSE]
      <3>1. /\ Speaking /\ said' = [said EXCEPT ![i] = v]
            /\ Emit(CloseEvents(i, data)) /\ stopped' = stopped
        BY <2>1 DEF Close
      <3> QED
        BY <3>1
    <2>2. CASE CloseWhole(i)
      <3> DEFINE data == <<Fragments + 1>>
                 v == [said[i] EXCEPT !.data = data, !.open = FALSE]
      <3>1. /\ Speaking /\ Emit(CloseEvents(i, data)) /\ stopped' = stopped
            /\ said' = [said EXCEPT ![i].data = data, ![i].open = FALSE]
        BY <2>2 DEF CloseWhole
      <3>2. [said EXCEPT ![i].data = data, ![i].open = FALSE] = [said EXCEPT ![i] = v]
        OBVIOUS
      <3> QED
        BY <3>1, <3>2
    <2> QED
      BY <2>1, <2>2
  <1> DEFINE events == CloseEvents(i, data)
  <1>2. Saids(events)
    BY CloseMild
  <1> HIDE DEF events
  <1>3. said' # <<>> /\ Listed(said')
    BY <1>1, SaidChanged
  <1>4. Bring(events, "no") /\ (pipe.up = "responses" => \E e : events = <<e>>)
    BY <1>2, SaidsBring DEF Saids
  <1>5. stopped' = "no" /\ "no" \in {"no", "stop", "fail"}
    BY <1>1 DEF Speaking
  <1>6. Emit(events)
    BY <1>1 DEF events
  <1> QED
    BY <1>1, <1>3, <1>4, <1>5, <1>6, EmitKeeps

\* The events that stop an answer bring the call to its end.
LEMMA StopBrings ==
  ASSUME IInv, NEW events \in StopEvents
  PROVE  Bring(events, "stop") /\ (pipe.up = "responses" => \E e : events = <<e>>)
  <1>1. CASE pipe.up = "openai"
    <2> DEFINE a == [FinalChunk EXCEPT !.usage = Reported]
               b == [Chunk EXCEPT !.choices = FALSE, !.usage = Reported]
    <2>1. events \in {<<a, DoneMark>>, <<FinalChunk, b, DoneMark>>}
      BY <1>1 DEF StopEvents
    <2>2. /\ IsChunk(a) /\ a.usage = Reported /\ IsChunk(b) /\ b.usage = Reported
          /\ IsChunk(FinalChunk) /\ FinalChunk.usage = NoUsage
      <3>1. \A v : /\ IsChunk([[Chunk EXCEPT !.finish = v] EXCEPT !.usage = Reported])
                   /\ [[Chunk EXCEPT !.finish = v] EXCEPT !.usage = Reported].usage = Reported
                   /\ IsChunk([Chunk EXCEPT !.finish = v]) /\ [Chunk EXCEPT !.finish = v].usage = NoUsage
        BY ListedIs DEF IsChunk, Chunk
      <3>2. IsChunk(b) /\ b.usage = Reported
        BY ListedIs DEF IsChunk, Chunk
      <3> QED
        BY <3>1, <3>2 DEF FinalChunk
    <2> HIDE DEF a, b
    <2> SUFFICES ASSUME NEW p, Course(p, "no"), ~OneBody(p), p.up = "openai"
                 PROVE  Course(HandleAll(p, events), "stop") /\ Route(p, HandleAll(p, events))
      BY <1>1 DEF Bring
    <2>3. CASE events = <<a, DoneMark>>
      BY <2>2, <2>3, StopOpenAI
    <2>4. CASE events = <<FinalChunk, b, DoneMark>>
      BY <2>2, <2>4, StopOpenAI
    <2> QED
      BY <2>1, <2>3, <2>4
  <1>2. CASE pipe.up = "anthropic"
    <2> DEFINE a == [Event("message_delta") EXCEPT !.finish = FinishReason,
                                                   !.usage.completion = Reported.completion]
               b == Event("message_stop")
    <2>1. events = <<a, b>>
      BY <1>2 DEF StopEvents
    <2>2. a.type = "message_delta" /\ a.usage = [prompt |-> 0, completion |-> 2]
      BY DEF Event, NoUsage, Reported
    <2>3. b.type = "message_stop" /\ b.usage = NoUsage
      BY Marks
    <2> HIDE DEF a, b
    <2>4. ASSUME NEW p, Course(p, "no"), ~OneBody(p), p.up = "anthropic"
          PROVE  Course(HandleAll(p, events), "stop") /\ Route(p, HandleAll(p, events))
      BY <2>1, <2>2, <2>3, <2>4, StopAnthropic
    <2> QED
      BY <1>2, <2>4 DEF Bring
  <1>3. CASE pipe.up = "responses"
    <2> DEFINE s == Sent(said)
               c == Event("completed")
               d == [c EXCEPT !.output = s]
               e == [d EXCEPT !.usage = Reported]
    <2>1. events = <<e>>
      BY <1>3 DEF StopEvents
    <2> HIDE DEF s
    <2>2. e.type = "completed" /\ IsEvent(e) /\ e.usage = Reported
      <3>1. IsEvent(c) /\ c.type = "completed"
        BY Marks
      <3> HIDE DEF c
      <3>2. IsEvent(d) /\ d.type = "completed"
        BY <3>1, EventFields
      <3> HIDE DEF d
      <3>3. IsEvent(e) /\ e.type = "completed"
        BY <3>2, EventFields
      <3>4. e.usage = Reported
        BY <3>2 DEF IsEvent
      <3> QED
        BY <3>3, <3>4
    <2> HIDE DEF e
    <2>3. ASSUME NEW p, Course(p, "no"), ~OneBody(p), p.up = "responses"
          PROVE  Course(HandleAll(p, events), "stop") /\ Route(p, HandleAll(p, events))
      <3>1. HandleAll(p, events) = Handle(p, e)
        BY <2>1, HandleLaw
      <3>2. Course(Handle(p, e), "stop") /\ Route(p, Handle(p, e))
        BY <2>2, <2>3, StopResponses
      <3> QED
        BY <3>1, <3>2
    <2> QED
      BY <1>3, <2>1, <2>3 DEF Bring
  <1> QED
    BY <1>1, <1>2, <1>3 DEF IInv, IsPipe, Protocols

\* The answer stops
LEMMA StopKeeps ==
  ASSUME IInv, Stop
  PROVE  IInv'
  <1>1. Speaking /\ stopped' = "stop" /\ said' = said
    BY DEF Stop
  <1>2. PICK events \in StopEvents : Emit(events)
    BY DEF Stop
  <1>3. Bring(events, "stop") /\ (pipe.up = "responses" => \E e : events = <<e>>)
    BY <1>2, StopBrings
  <1>4. Listed(said') /\ "stop" \in {"no", "stop", "fail"}
    BY <1>1 DEF IInv
  <1> QED
    BY <1>1, <1>2, <1>3, <1>4, EmitKeeps

\* or fails: behind peek the call is passed over or has been shown something.
LEMMA FailKeeps ==
  ASSUME IInv, Fail
  PROVE  IInv'
  <1> DEFINE type == IF pipe.up = "anthropic" THEN "error" ELSE "failed"
             e == Event(type)
             events == <<e>>
  <1>1. Speaking /\ stopped' = "fail" /\ said' = said /\ Emit(events)
    BY DEF Fail
  <1>2. IF OneBody(pipe) THEN TRUE ELSE pipe.up # "openai"
    BY DEF Fail
  <1>3. e.type = type /\ IsEvent(e) /\ e.usage = NoUsage
    BY Marks
  <1>4. pipe.up = "responses" => events[1].type = "failed"
    BY <1>3
  <1> HIDE DEF e
  <1>5. \E d : events = <<d>>
    OBVIOUS
  <1>6. Listed(said') /\ "fail" \in {"no", "stop", "fail"}
    BY <1>1 DEF IInv
  <1>7. CASE ~OneBody(pipe)
    <2>1. ASSUME NEW p, Course(p, "no"), ~OneBody(p), p.up = pipe.up
          PROVE  Course(HandleAll(p, events), "fail") /\ Route(p, HandleAll(p, events))
      <3>1. \/ p.up = "anthropic" /\ e.type = "error"
            \/ p.up = "responses" /\ e.type = "failed"
        BY <1>2, <1>3, <1>7, <2>1 DEF IInv, IsPipe, Protocols
      <3>2. Course(Handle(p, e), "fail") /\ Route(p, Handle(p, e))
        BY <1>3, <2>1, <3>1, FailHandled
      <3>3. HandleAll(p, events) = Handle(p, e)
        BY HandleLaw
      <3> QED
        BY <3>2, <3>3
    <2>2. Bring(events, "fail")
      BY <2>1 DEF Bring
    <2> HIDE DEF events
    <2> QED
      BY <1>1, <1>4, <1>5, <1>6, <2>2, EmitKeeps
  <1>8. CASE OneBody(pipe)
    <2>1. UNCHANGED <<pc, held, pipe, outcome>> /\ pc = "flow" /\ stopped = "no"
      <3>1. pc # "peek"
        BY <1>8, PeekedClient DEF OneBody, InFlight
      <3> QED
        BY <1>1, <1>8, <3>1 DEF Emit, Speaking
    <2>2. pipe.up # "responses"
      BY <1>8 DEF OneBody
    <2>3. HandleAll(pipe, held) = pipe /\ Course(pipe, "no")
      BY <2>1, PeekedClient DEF InFlight
    <2>4. Course(pipe, "fail")
      BY <1>8, <2>3 DEF Course
    <2>5. outcome = "none" /\ held = <<>> /\ Route(pipe, pipe)
      BY <2>1 DEF IInv, Flying, InFlight, Route
    <2>6. HandleAll(pipe', held') = pipe /\ pipe' = pipe
      BY <2>1, <2>3
    <2>7. Flying'
      BY <1>1, <2>1, <2>4, <2>5, <2>6 DEF Flying, InFlight
    <2>8. Peeked' /\ Settled'
      BY <2>1, <2>2 DEF Peeked, Settled, InFlight
    <2> QED
      BY <1>1, <1>6, <2>1, <2>7, <2>8 DEF IInv
  <1> QED
    BY <1>7, <1>8

\* No event stream: nothing has been passed on.
LEMMA NotSSEKeeps ==
  ASSUME IInv, NotSSE
  PROVE  IInv'
  <1>1. /\ pc = "peek" /\ pc' = "over" /\ outcome' = "failover" /\ held' = <<>>
        /\ pipe' = pipe /\ said' = said /\ stopped' = stopped
    BY DEF NotSSE
  <1>2. pipe.client = NewClient /\ pipe.usage = NoUsage /\ NewClient.ended = 0
    BY <1>1, PeekedClient DEF InFlight, NewClient
  <1> QED
    BY <1>1, <1>2, ListedIs DEF IInv, Flying, Peeked, Settled, InFlight

\* What the client is left with when an answer is over for it.
Over(p, q, end) ==
  /\ IsPipe(q) /\ Route(p, q) /\ q.client.ended \in {0, 1}
  /\ ~Passthrough(p) => q.client.ended = 1
  /\ q.usage \in {NoUsage, [prompt |-> 1, completion |-> 0], Reported}
  /\ end = "stop" => q.usage = Reported

\* A call on its course is billed nothing, the prompt, or what was reported.
LEMMA UsageSoFar ==
  ASSUME NEW p, NEW end, Course(p, end)
  PROVE  p.usage \in {NoUsage, [prompt |-> 1, completion |-> 0], Reported}
  <1>1. CASE OneBody(p)
    <2> DEFINE en == p.entry
               u == p.up
               st == p.stream
    <2>1. p = NewPipe(en, u, st) /\ en \in Protocols /\ u \in Protocols /\ st \in BOOLEAN
      BY <1>1 DEF Course, OnWay, IsPipe
    <2> HIDE DEF en, u, st
    <2> QED
      BY <2>1, NewPipeIs
  <1>2. CASE ~OneBody(p)
    BY <1>2 DEF Course, UsageTold
  <1> QED
    BY <1>1, <1>2

\* A stream that is finished is over for its client.
LEMMA FinishedOver ==
  ASSUME NEW p, NEW end, Course(p, end), p.stream
  PROVE  Over(p, Finish(p), end)
  <1> DEFINE q == Finish(p)
  <1>1. Completed(p, q)
    BY FinishEnds DEF Course
  <1> HIDE DEF q
  <1>2. p.client.ended \in {0, 1} /\ (end = "stop" => p.usage = Reported)
    BY DEF Course, OneBody, UsageTold
  <1>3. q.usage \in {NoUsage, [prompt |-> 1, completion |-> 0], Reported}
    BY <1>1, UsageSoFar DEF Completed
  <1> QED
    BY <1>1, <1>2, <1>3 DEF Completed, Over, q

\* A client that has asked for one body has nothing yet.
LEMMA BodyToCome ==
  ASSUME NEW p, NEW end, Course(p, end), ~p.stream
  PROVE  p.client = NewClient
  <1>1. CASE OneBody(p)
    <2> DEFINE en == p.entry
               u == p.up
               st == p.stream
    <2>1. p = NewPipe(en, u, st) /\ en \in Protocols /\ u \in Protocols /\ st \in BOOLEAN
      BY <1>1 DEF Course, OnWay, IsPipe
    <2> HIDE DEF en, u, st
    <2> QED
      BY <2>1, NewPipeIs
  <1>2. CASE ~OneBody(p)
    BY <1>2 DEF Course, OnWay, Clock, OneBody, Passthrough
  <1> QED
    BY <1>1, <1>2

\* A body is a sequence of parts.
LEMMA WrittenListed ==
  ASSUME NEW agg, IsAgg(agg), NEW en \in Protocols
  PROVE  Listed(WriteEntryJSON(en, agg))
  <1> DEFINE calls == agg.calls
             a == [i \in DOMAIN calls |->
                     IF calls[i].kind = "custom"
                       THEN Part("call", calls[i].name, Wrap(calls[i].data))
                       ELSE calls[i]]
             b == [i \in DOMAIN calls |-> RestoreItem(calls[i])]
  <1>1. Listed(calls)
    BY DEF IsAgg
  <1>2. a = [i \in DOMAIN calls |-> a[i]] /\ b = [i \in DOMAIN calls |-> b[i]]
    OBVIOUS
  <1>3. \A kind, data : Listed(Said(kind, data))
    BY ListedIs DEF Said
  <1>4. WriteChatCompletionJSON(agg) = (Said("text", agg.text) \o Said("think", agg.think)) \o a
    BY DEF WriteChatCompletionJSON
  <1>5. WriteAnthropicMessageJSON(agg) \in
          {(Said("think", agg.think) \o Said("text", agg.text)) \o calls,
           <<Part("text", 0, <<>>)>>}
    BY DEF WriteAnthropicMessageJSON
  <1>6. WriteResponsesJSON(agg) \in
          {(Said("think", agg.think) \o <<Part("text", 0, agg.text)>>) \o b,
           (Said("think", agg.think) \o Said("text", agg.text)) \o b}
    BY DEF WriteResponsesJSON
  <1> HIDE DEF calls, a, b
  <1>7. Listed(a) /\ Listed(b)
    BY <1>1, <1>2, ListedMapped
  <1>8. Listed(WriteChatCompletionJSON(agg))
    BY <1>3, <1>4, <1>7, ListedJoined
  <1>9. Listed(WriteAnthropicMessageJSON(agg))
    BY <1>1, <1>3, <1>5, ListedIs, ListedJoined
  <1>10. Listed(WriteResponsesJSON(agg))
    BY <1>3, <1>6, <1>7, ListedIs, ListedJoined
  <1> QED
    BY <1>8, <1>9, <1>10 DEF WriteEntryJSON, Protocols

\* What the upstream has sent whole is a sequence of parts too.
LEMMA SentListed ==
  ASSUME NEW s, Listed(s)
  PROVE  Listed(Sent(s))
  <1> DEFINE t == Sent(s)
  <1>1. t = [i \in DOMAIN s |-> t[i]]
    BY DEF Sent
  <1> HIDE DEF t
  <1> QED
    BY <1>1, ListedMapped DEF t

\* An answer that was collected or came as a body bills what was reported.
LEMMA CollectedUsage ==
  ASSUME NEW p, Course(p, stopped), ~p.stream, OneBody(p) => stopped # "no",
         stopped \in {"no", "stop", "fail"}, Listed(said)
  PROVE  /\ IsAgg(Collected(p))
         /\ Collected(p).usage \in {NoUsage, Reported}
         /\ stopped = "stop" => Collected(p).usage = Reported
  <1>1. CASE p.up = "responses"
    <2>1. Collected(p).usage = p.usage /\ IsAgg(Collected(p))
      BY <1>1 DEF Collected, Course, OnWay, Synced, InShape
    <2> QED
      BY <1>1, <2>1 DEF Course, OneBody, UsageTold
  <1>2. CASE p.up # "responses" /\ stopped = "fail"
    <2>1. Collected(p) = [NewAgg EXCEPT !.err = TRUE]
      BY <1>2 DEF Collected
    <2>3. IsAgg(NewAgg) /\ NewAgg.usage = NoUsage
      BY ListedIs DEF IsAgg, NewAgg
    <2>2. [NewAgg EXCEPT !.err = TRUE].usage = NoUsage /\ IsAgg([NewAgg EXCEPT !.err = TRUE])
      BY <2>3, AggFields DEF SameAgg
    <2> QED
      BY <1>2, <2>1, <2>2
  <1>3. CASE p.up # "responses" /\ stopped # "fail"
    <2> DEFINE parts == Sent(said)
               text == DataOf(parts, "text")
               think == DataOf(parts, "think")
               calls == Calls(parts)
               told == FoldLeft(LAMBDA t, c : IF t = <<>> THEN c.data
                                              ELSE t \o <<Newline>> \o c.data,
                                <<>>, SelectSeq(parts, LAMBDA c : c.kind = "think"))
               a == [NewAgg EXCEPT !.text = text]
               b == [a EXCEPT !.think = think]
               c == [b EXCEPT !.calls = calls]
               d == [c EXCEPT !.usage = Reported]
               e == [d EXCEPT !.think = told]
    <2>1. p.up \in {"openai", "anthropic"}
      BY <1>3 DEF Course, OnWay, IsPipe, Protocols
    <2>2. OpenAIJSONToAgg(parts) = d
      BY DEF OpenAIJSONToAgg
    <2>3. AnthropicJSONToAgg(parts) = e
      BY <2>2 DEF AnthropicJSONToAgg
    <2>4. Collected(p) \in {d, e}
      BY <1>3, <2>1, <2>2, <2>3 DEF Collected
    <2>11. Listed(calls)
      <3>1. Listed(parts)
        BY SentListed
      <3> QED
        BY <3>1, CallsListed
    <2> HIDE DEF text, think, calls, told
    <2>5. IsAgg(NewAgg)
      BY ListedIs DEF IsAgg, NewAgg
    <2>6. IsAgg(a)
      BY <2>5, AggFields DEF SameAgg
    <2> HIDE DEF a
    <2>7. IsAgg(b)
      BY <2>6, AggFields DEF SameAgg
    <2> HIDE DEF b
    <2>8. IsAgg(c)
      BY <2>7, <2>11, AggFields DEF SameAgg
    <2> HIDE DEF c
    <2>9. IsAgg(d) /\ d.usage = Reported
      BY <2>8, AggUsage
    <2> HIDE DEF d
    <2>10. e.usage = Reported /\ IsAgg(e)
      BY <2>9, AggFields DEF SameAgg
    <2> HIDE DEF e
    <2> QED
      BY <2>4, <2>9, <2>10
  <1> QED
    BY <1>1, <1>2, <1>3

\* A body that is written is over for its client.
LEMMA AnsweredOver ==
  ASSUME NEW p, Course(p, stopped), ~p.stream, OneBody(p) => stopped # "no",
         stopped \in {"no", "stop", "fail"}, Listed(said)
  PROVE  Over(p, Answered(p), stopped)
  <1> DEFINE parts == IF Passthrough(p) THEN Sent(said) ELSE WriteEntryJSON(p.entry, Collected(p))
             cl == p.client
             told == [cl EXCEPT !.parts = parts]
             v == [told EXCEPT !.ended = @ + 1]
             w == Collected(p).usage
             b == [p EXCEPT !.client = v]
             q == [b EXCEPT !.usage = w]
  <1>1. IsPipe(p) /\ Client(cl) /\ cl.ended = 0
    <2>1. IsPipe(p) /\ Client(cl)
      BY DEF Course, OnWay, IsPipe
    <2>2. cl = NewClient
      BY BodyToCome
    <2> QED
      BY <2>1, <2>2 DEF NewClient
  <1>2. Body(p, parts) = b
    BY DEF Body
  <1>3. Answered(p) = q
    BY <1>2 DEF Answered
  <1>4. /\ w \in {NoUsage, Reported}
        /\ stopped = "stop" => w = Reported
    BY CollectedUsage
  <1>10. Listed(parts)
    <2>1. Listed(Sent(said))
      BY SentListed
    <2>2. p.entry \in Protocols
      BY <1>1 DEF IsPipe
    <2>3. Listed(WriteEntryJSON(p.entry, Collected(p)))
      BY <2>2, CollectedUsage, WrittenListed
    <2> QED
      BY <2>1, <2>3
  <1> HIDE DEF parts, cl, w
  <1>5. Client(told) /\ told.ended = 0
    BY <1>1, <1>10, ClientFields DEF Same
  <1> HIDE DEF told
  <1>6. Client(v) /\ v.ended = 1
    <2>1. Client(v) /\ v.ended = told.ended + 1
      BY <1>5, EndedMore
    <2> QED
      BY <1>5, <2>1
  <1> HIDE DEF v
  <1>7. IsPipe(b) /\ Kept(p, b) /\ b.client = v
    BY <1>1, <1>6, ClientField
  <1> HIDE DEF b
  <1>8. IsPipe(q) /\ Kept(b, q) /\ q.client = v /\ q.usage = w
    BY <1>7, UsageField
  <1> HIDE DEF q
  <1>9. Route(p, q)
    BY <1>7, <1>8 DEF Kept, Route
  <1> QED
    BY <1>3, <1>4, <1>6, <1>7, <1>8, <1>9 DEF Over

\* An answer that is over leaves everything settled.
LEMMA OverKeeps ==
  ASSUME IInv, InFlight, NEW p, Route(pipe, p), Over(p, pipe', stopped),
         said' = said, stopped' = stopped, held' = <<>>,
         \/ pc' = "client" /\ outcome' = "complete" /\ stopped = "stop"
         \/ pc' = "over" /\ outcome' = "broken"
  PROVE  IInv'
  <1>1. pipe'.up = pipe.up /\ (Passthrough(pipe') <=> Passthrough(p)) /\ IsPipe(pipe')
    BY RouteSame DEF Over, Route
  <1>2. ~(stopped = "fail" /\ pipe.up = "responses" /\ said = <<>>)
    BY DEF IInv, Peeked
  <1>3. Settled'
    BY <1>1, <1>2 DEF Settled, InFlight, Over, Passthrough
  <1>4. Flying' /\ Peeked'
    BY DEF Flying, Peeked, InFlight
  <1>5. Listed(held') /\ Listed(said') /\ stopped' \in {"no", "stop", "fail"}
    BY ListedIs DEF IInv
  <1> QED
    BY <1>1, <1>3, <1>4, <1>5 DEF IInv

\* A call that is passed on leaves its client with nothing.
LEMMA PassedOnKeeps ==
  ASSUME IInv, InFlight, pipe.client = NewClient, pc' = "over", outcome' = "failover",
         held' = <<>>, UNCHANGED <<pipe, said, stopped>>
  PROVE  IInv'
  <1>1. pipe.usage \in {NoUsage, [prompt |-> 1, completion |-> 0], Reported}
    BY PeekedClient, UsageSoFar DEF InFlight
  <1>2. NewClient.ended = 0
    BY DEF NewClient
  <1>3. Settled' /\ Flying' /\ Peeked'
    BY <1>1, <1>2 DEF Settled, Flying, Peeked, InFlight
  <1>4. Listed(held') /\ Listed(said') /\ stopped' \in {"no", "stop", "fail"}
    BY ListedIs DEF IInv
  <1> QED
    BY <1>3, <1>4 DEF IInv

\* The upstream's body ends: what was held back is handled first.
LEMMA EofKeeps ==
  ASSUME IInv, Eof
  PROVE  IInv'
  <1> DEFINE p == HandleAll(pipe, held)
             q == IF pipe.stream THEN Finish(p) ELSE Answered(p)
             failed == ~pipe.stream /\ AggFailed(Collected(p))
  <1>1. InFlight /\ held' = <<>> /\ said' = said /\ stopped' = stopped
    BY DEF Eof, InFlight
  <1>2. failed => pc' = "over" /\ outcome' = "failover" /\ pipe' = pipe
    BY DEF Eof
  <1>3. ~failed => pipe' = q /\ Record(q)
    BY DEF Eof
  <1>4. Course(p, stopped) /\ Route(pipe, p) /\ stopped \in {"no", "stop", "fail"}
    BY <1>1 DEF IInv, Flying
  <1>5. OneBody(p) => stopped # "no"
    BY <1>4, RouteSame DEF Eof
  <1>6. p.stream = pipe.stream
    BY <1>4 DEF Route
  <1> HIDE DEF p
  <1>7. Over(p, q, stopped)
    <2>1. CASE pipe.stream
      BY <1>4, <1>6, <2>1, FinishedOver
    <2>2. CASE ~pipe.stream
      BY <1>4, <1>5, <1>6, <2>2, AnsweredOver DEF IInv
    <2> QED
      BY <2>1, <2>2
  <1> HIDE DEF q
  <1>8. CASE failed
    <2>1. pipe.client = NewClient
      BY <1>1, <1>8, PeekedClient
    <2> QED
      BY <1>1, <1>2, <1>8, <2>1, PassedOnKeeps
  <1>9. CASE ~failed
    <2>1. \/ pc' = "client" /\ outcome' = "complete" /\ stopped = "stop"
          \/ pc' = "over" /\ outcome' = "broken"
      BY <1>3, <1>9 DEF Record
    <2>2. Over(p, pipe', stopped)
      BY <1>3, <1>7, <1>9
    <2> QED
      BY <1>1, <1>4, <2>1, <2>2, OverKeeps
  <1> QED
    BY <1>8, <1>9

\* The connection breaks.
LEMMA CutKeeps ==
  ASSUME IInv, Cut
  PROVE  IInv'
  <1> DEFINE p == HandleAll(pipe, held)
             q == Finish(p)
  <1>1. InFlight /\ held' = <<>> /\ said' = said /\ stopped' = stopped /\ pc' = "over"
    BY DEF Cut, InFlight
  <1>2. IF pipe.stream THEN pipe' = q /\ outcome' = "broken"
        ELSE outcome' = "failover" /\ pipe' = pipe
    BY DEF Cut
  <1>3. Course(p, stopped) /\ Route(pipe, p)
    BY <1>1 DEF IInv, Flying
  <1> HIDE DEF p
  <1>4. CASE pipe.stream
    <2>1. Over(p, q, stopped)
      BY <1>3, <1>4, FinishedOver DEF Route
    <2> HIDE DEF q
    <2>2. Over(p, pipe', stopped)
      BY <1>2, <1>4, <2>1
    <2> QED
      BY <1>1, <1>2, <1>3, <1>4, <2>2, OverKeeps
  <1>5. CASE ~pipe.stream
    <2>1. pipe.client = NewClient
      BY <1>1, <1>5, PeekedClient
    <2> QED
      BY <1>1, <1>2, <1>5, <2>1, PassedOnKeeps
  <1> QED
    BY <1>4, <1>5

\* Every step keeps the invariant.
LEMMA NextKeeps ==
  ASSUME IInv, [Next]_vars
  PROVE  IInv'
  <1>1. ASSUME NEW u \in Protocols, NEW s \in BOOLEAN, Send(u, s)
        PROVE  IInv'
    BY <1>1, SendKeeps
  <1>2. CASE Ask
    BY <1>2, AskKeeps
  <1>3. ASSUME NEW kind \in Kinds, Open(kind)
        PROVE  IInv'
    BY <1>3, OpenKeeps
  <1>4. ASSUME NEW i \in DOMAIN said, Say(i) \/ Close(i) \/ CloseWhole(i)
        PROVE  IInv'
    BY <1>4, SayKeeps, CloseKeeps
  <1>5. CASE Stop
    BY <1>5, StopKeeps
  <1>6. CASE Fail
    BY <1>6, FailKeeps
  <1>7. CASE NotSSE
    BY <1>7, NotSSEKeeps
  <1>8. CASE Eof
    BY <1>8, EofKeeps
  <1>9. CASE Cut
    BY <1>9, CutKeeps
  <1>10. CASE UNCHANGED vars
    BY <1>10 DEF vars, IInv, Flying, Peeked, Settled, InFlight
  <1> QED
    BY <1>1, <1>2, <1>3, <1>4, <1>5, <1>6, <1>7, <1>8, <1>9, <1>10 DEF Next

------------------------------------------------------------------------------
(* The theorems *)

\* In every reachable state the call has its shape, and an answer on its way is one
\* that the bridge can bring to its end, whatever the upstream does next.
THEOREM CallsOnCourse == Spec => []IInv
  <1>1. Init => IInv
    BY InitKeeps
  <1>2. IInv /\ [Next]_vars => IInv'
    BY NextKeeps
  <1> QED
    BY <1>1, <1>2, PTL DEF Spec

\* A request goes to another channel only while its client has seen nothing of the
\* answer, and a Responses channel that fails before it has said anything is passed
\* over, never shown (codex.go:1234-1236).
THEOREM FailsOverCleanly == Spec => []CleanFailover
  <1>1. ASSUME IInv PROVE CleanFailover
    <2>1. CASE InFlight
      BY <1>1, <2>1 DEF IInv, Flying, CleanFailover
    <2>2. CASE ~InFlight
      BY <1>1, <2>2 DEF IInv, Settled, CleanFailover
    <2> QED
      BY <2>1, <2>2
  <1> QED
    BY <1>1, CallsOnCourse, PTL

\* The client of a bridged answer sees it end exactly once when it is over, never
\* twice, and no answer ends for its client before the upstream has ended it or the
\* connection is gone (codex.go:1465-1469).
THEOREM EndsExactlyOnce == Spec => []EndsOnce
  <1>1. ASSUME IInv PROVE EndsOnce
    <2>1. CASE pc = "peek"
      <3>1. pipe.client.ended = 0 /\ outcome = "none"
        BY <1>1, <2>1, PeekedClient DEF IInv, Flying, InFlight, NewClient
      <3> QED
        BY <3>1 DEF EndsOnce
    <2>2. CASE pc = "flow"
      <3>1. Course(pipe, stopped) /\ outcome = "none"
        BY <1>1, <2>2, PeekedClient DEF IInv, Flying, InFlight
      <3>2. pipe.client.ended \in {0, 1} /\ (stopped = "no" => pipe.client.ended = 0)
        BY <3>1 DEF Course
      <3> QED
        BY <3>1, <3>2 DEF EndsOnce
    <2>3. CASE ~InFlight
      BY <1>1, <2>3 DEF IInv, Settled, EndsOnce, InFlight
    <2> QED
      BY <2>1, <2>2, <2>3 DEF InFlight
  <1> QED
    BY <1>1, CallsOnCourse, PTL

\* An answer that is complete is billed what the upstream reported, whichever of its
\* events told it, and no answer is ever billed more (stream_bridge.go:90-109,
\* 902-995; protocol.go:79-96).
THEOREM BilledAsReported == Spec => []Billed
  <1>1. ASSUME IInv PROVE Billed
    <2>1. pipe.usage \in {NoUsage, [prompt |-> 1, completion |-> 0], Reported}
      <3>1. CASE InFlight
        BY <1>1, <3>1, PeekedClient, UsageSoFar DEF InFlight
      <3>2. CASE ~InFlight
        BY <1>1, <3>2 DEF IInv, Settled
      <3> QED
        BY <3>1, <3>2
    <2>2. outcome = "complete" => pipe.usage = Reported
      BY <1>1 DEF IInv, Flying, Settled
    <2>3. /\ pipe.usage.prompt <= Reported.prompt
          /\ pipe.usage.completion <= Reported.completion
      BY <2>1 DEF NoUsage, Reported
    <2> QED
      BY <2>2, <2>3 DEF Billed
  <1> QED
    BY <1>1, CallsOnCourse, PTL

\* What the requests of a client's tools come to.
OfferFits(u, sent) ==
  /\ sent.tools \subseteq ToolKinds
  /\ sent.choice \in ToolKinds => sent.tools # {}
  /\ u = "responses" /\ sent.choice \in ToolKinds => sent.choice \in sent.tools

\* No conversion leaves a choice without its tools.
LEMMA Conversions ==
  ASSUME NEW o \in Offer
  PROVE  /\ Dropped(o) \in Offer /\ (Dropped(o).choice # "none" => Dropped(o).tools # {})
         /\ ResponsesOffer(o) \in Offer
         /\ ResponsesOffer(o).choice # "none" => ResponsesOffer(o).tools # {}
         /\ AnthropicOffer(o) \in Offer
         /\ AnthropicOffer(o).choice # "none" => AnthropicOffer(o).tools # {}
         /\ CodexOffer(o) \in Offer /\ OfferFits("responses", CodexOffer(o))
         /\ ChatToCodexOffer(o) \in Offer /\ OfferFits("responses", ChatToCodexOffer(o))
  <1>1. \A q \in Offer : Dropped(q) \in Offer /\ (Dropped(q).choice # "none" => Dropped(q).tools # {})
    BY DEF Dropped, Offer
  <1>2. /\ ResponsesOffer(o) \in Offer
        /\ ResponsesOffer(o).choice # "none" => ResponsesOffer(o).tools # {}
    <2> DEFINE q == [tools |-> IF o.tools \cap {"function", "custom"} = {} THEN {} ELSE {"function"},
                     choice |-> IF o.choice = "custom" THEN "function" ELSE o.choice]
    <2>1. q \in Offer /\ ResponsesOffer(o) = Dropped(q)
      BY DEF Offer, ToolKinds, ResponsesOffer
    <2> HIDE DEF q
    <2> QED
      BY <1>1, <2>1
  <1>3. /\ AnthropicOffer(o) \in Offer
        /\ AnthropicOffer(o).choice # "none" => AnthropicOffer(o).tools # {}
    <2> DEFINE q == [tools |-> o.tools \cap {"function"},
                     choice |-> IF o.choice \in {"auto", "function"} THEN o.choice ELSE "none"]
    <2>1. q \in Offer /\ AnthropicOffer(o) = Dropped(q)
      BY DEF Offer, ToolKinds, AnthropicOffer
    <2> HIDE DEF q
    <2> QED
      BY <1>1, <2>1
  <1>4. \A q \in Offer : CodexOffer(q) \in Offer /\ OfferFits("responses", CodexOffer(q))
    <2> SUFFICES ASSUME NEW q \in Offer
                 PROVE  CodexOffer(q) \in Offer /\ OfferFits("responses", CodexOffer(q))
      OBVIOUS
    <2> DEFINE c == IF q.choice \in ToolKinds /\ q.choice \notin q.tools THEN "none"
                    ELSE q.choice
               d == [q EXCEPT !.choice = c]
    <2>1. CodexOffer(q) = d
      BY DEF CodexOffer
    <2>2. q.tools \in SUBSET ToolKinds /\ q.choice \in {"none", "auto"} \cup ToolKinds
      BY DEF Offer
    <2>3. c \in {"none", "auto"} \cup ToolKinds /\ (c \in ToolKinds => c \in q.tools)
      BY <2>2 DEF ToolKinds
    <2> HIDE DEF c
    <2>4. d \in Offer /\ d.tools = q.tools /\ d.choice = c
      BY <2>3 DEF Offer
    <2> HIDE DEF d
    <2> QED
      BY <2>1, <2>2, <2>3, <2>4 DEF OfferFits
  <1>5. ChatToCodexOffer(o) \in Offer /\ OfferFits("responses", ChatToCodexOffer(o))
    <2> DEFINE q == [o EXCEPT !.choice = IF @ \in {"custom", "hosted"} THEN "none" ELSE @]
    <2>1. q \in Offer /\ ChatToCodexOffer(o) = CodexOffer(q)
      BY DEF Offer, ToolKinds, ChatToCodexOffer
    <2> HIDE DEF q
    <2> QED
      BY <1>4, <2>1
  <1> QED
    BY <1>1, <1>2, <1>3, <1>4, <1>5

\* A client's own choice is among its tools, and none of the three conversions a
\* request may meet on its way leaves a choice behind without tools.
LEMMA OffersFit ==
  ASSUME NEW en \in Protocols, NEW u \in Protocols, NEW o \in ClientOffers(en)
  PROVE  /\ OfferFits(u, OfferSent(en, u, o))
         /\ OfferSent(en, u, o).choice = "auto" /\ OfferSent(en, u, o).tools = {}
              => u = "responses" \/ en = "openai"
  <1> DEFINE pivot == CASE en = "openai" -> o
                        [] en = "anthropic" -> Dropped(o)
                        [] en = "responses" -> ResponsesOffer(o)
             sent == OfferSent(en, u, o)
  <1>1. o \in Offer /\ (o.choice \in ToolKinds => o.tools # {})
    BY DEF ClientOffers
  <1>2. /\ pivot \in Offer /\ (pivot.choice \in ToolKinds => pivot.tools # {})
        /\ en # "openai" /\ pivot.choice # "none" => pivot.tools # {}
    <2>1. "none" \notin ToolKinds
      BY DEF ToolKinds
    <2> QED
      BY <1>1, <2>1, Conversions DEF Protocols
  <1>3. sent = CASE u = "openai" -> pivot
                 [] u = "anthropic" -> AnthropicOffer(pivot)
                 [] u = "responses" -> IF en = "responses" THEN CodexOffer(o)
                                       ELSE ChatToCodexOffer(pivot)
    BY DEF OfferSent
  <1> HIDE DEF pivot, sent
  <1>4. CASE u = "openai"
    <2>1. sent = pivot
      BY <1>3, <1>4
    <2> QED
      BY <1>2, <1>4, <2>1 DEF OfferFits, Offer, sent
  <1>5. CASE u = "anthropic"
    <2>1. sent = AnthropicOffer(pivot)
      BY <1>3, <1>5
    <2>2. sent \in Offer /\ (sent.choice # "none" => sent.tools # {})
      BY <1>2, <2>1, Conversions
    <2> QED
      BY <1>5, <2>2 DEF OfferFits, Offer, ToolKinds, sent
  <1>6. CASE u = "responses"
    <2>1. sent = CodexOffer(o) \/ sent = ChatToCodexOffer(pivot)
      BY <1>3, <1>6
    <2>2. OfferFits("responses", sent)
      BY <1>1, <1>2, <2>1, Conversions
    <2> QED
      BY <1>6, <2>2 DEF sent
  <1> QED
    BY <1>4, <1>5, <1>6 DEF Protocols

\* Whatever tools a client offers and chooses among, the request that reaches an
\* upstream never chooses where there is nothing to choose from (responses_api.go:97-99,
\* anthropic.go:343-344, 460).
THEOREM ChoicesHaveTools == Spec => []ChoiceHasTools
  <1>1. ASSUME IInv PROVE ChoiceHasTools
    <2>1. entry \in Protocols
      BY <1>1 DEF IInv, IsPipe, entry
    <2> QED
      BY <2>1, OffersFit DEF ChoiceHasTools, OfferFits
  <1> QED
    BY <1>1, CallsOnCourse, PTL

------------------------------------------------------------------------------
(* Calls and their answers: sequences that grow *)

\* w[j] is s and the first j elements of t.
Growing(s, t, w) ==
  /\ w[0] = s /\ w[Len(t)] = s \o t
  /\ \A j \in 1..Len(t) : Listed(w[j - 1]) /\ w[j] = Append(w[j - 1], t[j])

\* Another sequence is appended one element at a time.
LEMMA JoinSteps ==
  ASSUME NEW s, Listed(s), NEW t, Listed(t)
  PROVE  \E w : Growing(s, t, w)
  <1>1. PICK X : s \in Seq(X)
    BY DEF Listed
  <1>2. PICK Y : t \in Seq(Y)
    BY DEF Listed
  <1> DEFINE Z == X \cup Y
             m == Len(s)
             n == Len(t)
             F(j) == [i \in 1..(m + j) |-> IF i <= m THEN s[i] ELSE t[i - m]]
             w == [j \in 0..n |-> F(j)]
  <1>3. /\ s \in Seq(Z) /\ t \in Seq(Z) /\ m \in Nat /\ n \in Nat
        /\ s \in [1..m -> Z] /\ t \in [1..n -> Z]
    BY <1>1, <1>2
  <1>4. s \o t \in Seq(Z) /\ Len(s \o t) = m + n
        /\ \A i \in 1..(m + n) : (s \o t)[i] = IF i <= m THEN s[i] ELSE t[i - m]
    BY <1>3
  <1> HIDE DEF Z, m, n
  <1>5. \A j \in 0..n : F(j) \in Seq(Z) /\ Len(F(j)) = m + j
    <2> TAKE j \in 0..n
    <2>1. F(j) \in [1..(m + j) -> Z] /\ m + j \in Nat
      BY <1>3
    <2> QED
      BY <2>1
  <1>6. F(0) = s
    BY <1>3
  <1>7. F(n) = s \o t
    <2> DEFINE u == s \o t
    <2>2. F(n) = [i \in 1..(m + n) |-> u[i]]
      BY <1>3, <1>4
    <2>4. u \in Seq(Z) /\ Len(u) = m + n
      BY <1>4
    <2> HIDE DEF u
    <2>1. u \in [1..(m + n) -> Z]
      BY <2>4
    <2>3. F(n) = u
      BY <2>1, <2>2
    <2> QED
      BY <2>3 DEF u
  <1>8. ASSUME NEW j \in 1..n
        PROVE  F(j) = Append(F(j - 1), t[j])
    <2> DEFINE u == F(j - 1)
               v == F(j)
    <2>1. /\ u \in Seq(Z) /\ Len(u) = m + (j - 1) /\ v \in Seq(Z) /\ Len(v) = m + j
          /\ t[j] \in Z /\ j - 1 \in 0..n
      <3>1. j - 1 \in 0..n /\ j \in 0..n
        BY <1>3
      <3> QED
        BY <1>3, <1>5, <3>1
    <2>2. \A i \in 1..(m + j) : v[i] = IF i <= m + (j - 1) THEN u[i] ELSE t[j]
      BY <1>3
    <2> HIDE DEF u, v, F
    <2>3. v = Append(u, t[j])
      BY <1>3, <2>1, <2>2
    <2> QED
      BY <2>3 DEF u, v
  <1>9. \A j \in 0..n : w[j] = F(j)
    OBVIOUS
  <1> HIDE DEF F, w
  <1>10. \A j \in 1..n : Listed(w[j - 1]) /\ w[j] = Append(w[j - 1], t[j])
    <2> TAKE j \in 1..n
    <2>1. j - 1 \in 0..n /\ j \in 0..n
      BY <1>3
    <2> QED
      BY <1>5, <1>8, <1>9, <2>1 DEF Listed
  <1>11. 0 \in 0..n /\ n \in 0..n
    BY <1>3
  <1> QED
    BY <1>6, <1>7, <1>9, <1>10, <1>11 DEF n, Growing

\* c[j] is the calls among the first j parts.
Gathered(s, c) ==
  /\ c[0] = <<>> /\ c[Len(s)] = Calls(s)
  /\ \A j \in 1..Len(s) :
       c[j] = IF s[j].kind \in CallKinds THEN Append(c[j - 1], s[j]) ELSE c[j - 1]
  /\ \A j \in 0..Len(s) : /\ Listed(c[j])
                          /\ (\A i \in 1..j : s[i].kind \notin CallKinds) => c[j] = <<>>

\* The calls among parts are found one part after the other.
LEMMA CallsSteps ==
  ASSUME NEW s, Listed(s)
  PROVE  \E c : Gathered(s, c)
  <1>1. PICK X : s \in Seq(X)
    BY DEF Listed
  <1>2. PICK c : Run("select", 0, <<>>, s, c)
    BY <1>1, Runs
  <1> DEFINE n == Len(s)
             C(j) == IF s[j].kind \in CallKinds THEN Append(c[j - 1], s[j]) ELSE c[j - 1]
  <1>3. /\ n \in Nat /\ c[0] = <<>> /\ c[n] = Calls(s)
        /\ \A j \in 1..n : c[j] = C(j)
    BY <1>1, <1>2, CallsFold DEF Run, Applied
  <1> HIDE DEF n
  <1> DEFINE I == {j \in 0..n : /\ Listed(c[j])
                                /\ (\A i \in 1..j : s[i].kind \notin CallKinds) => c[j] = <<>>}
  <1>4. 0 \in I
    BY <1>3, ListedIs
  <1>5. ASSUME NEW j \in 1..n, j - 1 \in I PROVE j \in I
    <2>1. j \in 0..n
      BY <1>3
    <2>2. Listed(c[j])
      <3> DEFINE u == c[j - 1]
                 e == s[j]
      <3>1. Listed(u)
        BY <1>5
      <3>2. c[j] = u \/ c[j] = Append(u, e)
        BY <1>3
      <3> HIDE DEF u, e
      <3>3. Listed(Append(u, e))
        BY <3>1, Appended
      <3> QED
        BY <3>1, <3>2, <3>3
    <2>3. ASSUME \A i \in 1..j : s[i].kind \notin CallKinds PROVE c[j] = <<>>
      <3>1. j \in 1..j /\ \A i \in 1..(j - 1) : i \in 1..j
        BY <1>3
      <3>2. c[j - 1] = <<>> /\ c[j] = c[j - 1]
        BY <1>3, <1>5, <2>3, <3>1
      <3> QED
        BY <3>2
    <2> QED
      BY <2>1, <2>2, <2>3
  <1>6. ASSUME NEW m \in 0..n PROVE m \in I
    <2>1. m \in Nat /\ \A j \in 1..m : j \in 1..n
      BY <1>3
    <2> HIDE DEF I
    <2> QED
      BY <1>4, <1>5, <2>1, Climb
  <1> QED
    BY <1>3, <1>6 DEF n, Gathered

\* One item more is one step of the fold more.
LEMMA PivotMore ==
  ASSUME NEW items, Listed(items), NEW item
  PROVE  ResponsesToPivot(Append(items, item))
           = AddItemMessage(ResponsesToPivot(items), item)
  <1>1. PICK X : items \in Seq(X)
    BY DEF Listed
  <1>2. PICK Y : Append(items, item) \in Seq(Y)
    BY Appended DEF Listed
  <1>3. /\ ResponsesToPivot(Append(items, item)) = Fold("message", 0, <<>>, Append(items, item))
        /\ ResponsesToPivot(items) = Fold("message", 0, <<>>, items)
    BY <1>1, <1>2, MessageFold
  <1>4. Fold("message", 0, <<>>, Append(items, item))
          = Applied("message", 0, Fold("message", 0, <<>>, items), item)
    BY <1>1, FoldMore
  <1> QED
    BY <1>3, <1>4 DEF Applied

------------------------------------------------------------------------------
(* Messages that answer what is due *)

\* A tool is one whatever it is called by, and results answer calls one by one.
Alias(a, b) == a \in {b, -b}

Fits(results, calls) ==
  /\ Len(results) = Len(calls)
  /\ \A k \in DOMAIN calls : Alias(results[k].name, calls[k].name)

IsMessage(m) == m = ChatMessage(m.role, m.shape, m.parts, m.think, m.calls, m.name)

\* A request whose calls are all answered but those of its last message, which are due.
Asking(msgs, due) ==
  /\ Listed(msgs)
  /\ \A i \in DOMAIN msgs : /\ IsMessage(msgs[i]) /\ Listed(msgs[i].calls)
                            /\ i = Len(msgs) => Len(msgs[i].calls) = Len(due)
  /\ \A i \in DOMAIN msgs : \A k \in DOMAIN msgs[i].calls :
       IF i = Len(msgs) THEN Alias(msgs[i].calls[k].name, due[k].name)
       ELSE /\ i + k <= Len(msgs) /\ msgs[i + k].role = "tool"
            /\ SameTool(msgs[i].calls[k].name, msgs[i + k].name)
  /\ due # <<>> => msgs # <<>> /\ msgs[Len(msgs)].role = "assistant"

\* Two names of one tool.
LEMMA Aliases ==
  ASSUME NEW a, NEW b, NEW c, Alias(a, c), Alias(b, c)
  PROVE  SameTool(a, b)
  BY Zenon DEF Alias, SameTool

\* Where the elements of two sequences are when they are joined.
LEMMA JoinedPlaces ==
  ASSUME NEW s, Listed(s), NEW t, Listed(t)
  PROVE  /\ Listed(s \o t) /\ Len(s \o t) = Len(s) + Len(t)
         /\ \A i \in 1..Len(s) : (s \o t)[i] = s[i]
         /\ \A i \in 1..Len(t) : (s \o t)[Len(s) + i] = t[i]
         /\ s \o <<>> = s /\ <<>> \o s = s
         /\ \A e : s \o <<e>> = Append(s, e)
  <1>1. PICK X : s \in Seq(X)
    BY DEF Listed
  <1>2. PICK Y : t \in Seq(Y)
    BY DEF Listed
  <1>3. ASSUME NEW e
        PROVE  s \o <<e>> = Append(s, e)
    <2> DEFINE Z == X \cup {e}
    <2>1. s \in Seq(Z) /\ <<e>> \in Seq(Z) /\ e \in Z
      BY <1>1
    <2> HIDE DEF Z
    <2> QED
      BY <2>1
  <1> DEFINE Z == X \cup Y
  <1>4. s \in Seq(Z) /\ t \in Seq(Z)
    BY <1>1, <1>2
  <1> HIDE DEF Z
  <1> QED
    BY <1>3, <1>4, ListedJoined

\* An element after a sequence that is joined.
LEMMA JoinedMore ==
  ASSUME NEW s, Listed(s), NEW t, Listed(t), NEW e
  PROVE  s \o Append(t, e) = Append(s \o t, e)
  <1>1. PICK X : s \in Seq(X)
    BY DEF Listed
  <1>2. PICK Y : t \in Seq(Y)
    BY DEF Listed
  <1> DEFINE A == (X \cup Y) \cup {e}
  <1>3. s \in Seq(A) /\ t \in Seq(A) /\ e \in A
    BY <1>1, <1>2
  <1> HIDE DEF A
  <1> QED
    BY <1>3

\* Joining one after the other.
LEMMA JoinedAgain ==
  ASSUME NEW s, Listed(s), NEW t, Listed(t), NEW u, Listed(u),
         NEW x, x = t \o u, NEW y, y = s \o t
  PROVE  s \o x = y \o u
  <1>1. PICK X : s \in Seq(X)
    BY DEF Listed
  <1>2. PICK Y : t \in Seq(Y)
    BY DEF Listed
  <1>3. PICK Z : u \in Seq(Z)
    BY DEF Listed
  <1> DEFINE A == (X \cup Y) \cup Z
  <1>4. s \in Seq(A) /\ t \in Seq(A) /\ u \in Seq(A)
    BY <1>1, <1>2, <1>3
  <1> HIDE DEF A
  <1> QED
    BY <1>4

\* Results that answer all that is due.
LEMMA AnswerAll ==
  ASSUME NEW msgs, NEW due, Asking(msgs, due), Listed(due),
         NEW rs, Listed(rs), Fits(rs, due),
         \A k \in DOMAIN rs : IsMessage(rs[k]) /\ rs[k].role = "tool" /\ rs[k].calls = <<>>
  PROVE  Asking(msgs \o rs, <<>>)
  <1> DEFINE m == Len(msgs)
             n == Len(rs)
             all == msgs \o rs
             none == <<>>
  <1>1. /\ m \in Nat /\ n \in Nat /\ DOMAIN msgs = 1..m /\ DOMAIN rs = 1..n
        /\ DOMAIN due = 1..n /\ Len(due) = n
    BY ListedIs DEF Asking, Fits
  <1>2. /\ Listed(all) /\ Len(all) = m + n /\ DOMAIN all = 1..(m + n)
        /\ \A i \in 1..m : all[i] = msgs[i]
        /\ \A i \in 1..n : all[m + i] = rs[i]
    <2>1. /\ Listed(all) /\ Len(all) = m + n
          /\ \A i \in 1..m : all[i] = msgs[i]
          /\ \A i \in 1..n : all[m + i] = rs[i]
      BY JoinedPlaces DEF Asking
    <2> QED
      BY <2>1, ListedIs
  <1>3. DOMAIN none = {} /\ Len(none) = 0 /\ Listed(none)
    BY ListedIs
  <1>4. /\ \A i \in 1..m : IsMessage(msgs[i]) /\ Listed(msgs[i].calls)
        /\ \A i \in 1..m : \A k \in DOMAIN msgs[i].calls :
             IF i = m THEN Alias(msgs[i].calls[k].name, due[k].name)
             ELSE /\ i + k <= m /\ msgs[i + k].role = "tool"
                  /\ SameTool(msgs[i].calls[k].name, msgs[i + k].name)
        /\ \A i \in 1..m : i = m => Len(msgs[i].calls) = n
    BY <1>1 DEF Asking
  <1>5. /\ \A k \in 1..n : Alias(rs[k].name, due[k].name)
        /\ \A k \in 1..n : IsMessage(rs[k]) /\ rs[k].role = "tool" /\ rs[k].calls = none
    BY <1>1 DEF Fits
  <1> HIDE DEF m, n, all, none
  <1>6. \A i \in 1..(m + n) : i \in 1..m \/ (i - m \in 1..n /\ i = m + (i - m))
    BY <1>1
  <1>7. \A i \in 1..(m + n) : i \in 1..m \/ all[i] = rs[i - m]
    BY <1>2, <1>6
  <1>8. ASSUME NEW i \in 1..(m + n)
        PROVE  /\ IsMessage(all[i]) /\ Listed(all[i].calls)
               /\ i = m + n => Len(all[i].calls) = Len(none)
    <2>1. CASE i \in 1..m
      <3>1. i = m + n => i = m /\ n = 0
        BY <1>1, <2>1
      <3> QED
        BY <1>2, <1>3, <1>4, <2>1, <3>1
    <2>2. CASE i \notin 1..m
      BY <1>3, <1>5, <1>6, <1>7, <2>2
    <2> QED
      BY <2>1, <2>2
  <1>9. ASSUME NEW i \in 1..(m + n), NEW k \in DOMAIN all[i].calls
        PROVE  /\ i # m + n /\ i + k <= m + n /\ all[i + k].role = "tool"
               /\ SameTool(all[i].calls[k].name, all[i + k].name)
    <2>1. i \in 1..m /\ all[i] = msgs[i] /\ k \in DOMAIN msgs[i].calls
      <3>1. i \notin 1..m => all[i].calls = none
        BY <1>5, <1>6, <1>7
      <3> QED
        BY <1>2, <1>3, <3>1
    <2>2. CASE i # m
      <3>1. k \in Nat \ {0}
        BY <1>4, <2>1, ListedIs
      <3>2. /\ i + k <= m /\ msgs[i + k].role = "tool"
            /\ SameTool(msgs[i].calls[k].name, msgs[i + k].name)
        BY <1>4, <2>1, <2>2
      <3>3. i + k \in 1..m /\ i # m + n /\ i + k <= m + n
        BY <1>1, <2>1, <3>1, <3>2
      <3> QED
        BY <1>2, <2>1, <3>2, <3>3
    <2>3. CASE i = m
      <3>1. k \in 1..n /\ Alias(msgs[i].calls[k].name, due[k].name)
        BY <1>4, <2>1, <2>3, ListedIs
      <3>2. all[i + k] = rs[k] /\ i # m + n /\ i + k <= m + n
        BY <1>1, <1>2, <2>3, <3>1
      <3>3. Alias(rs[k].name, due[k].name) /\ rs[k].role = "tool"
        BY <1>5, <3>1
      <3> QED
        BY <2>1, <3>1, <3>2, <3>3, Aliases
    <2> QED
      BY <2>2, <2>3
  <1> QED
    BY <1>2, <1>8, <1>9 DEF Asking, all, none

\* A message more when nothing is due: its calls are.
LEMMA AddMessage ==
  ASSUME NEW msgs, Asking(msgs, <<>>), NEW x, IsMessage(x), Listed(x.calls),
         NEW due, Listed(due), Fits(x.calls, due), due # <<>> => x.role = "assistant"
  PROVE  Asking(Append(msgs, x), due)
  <1> DEFINE m == Len(msgs)
             all == Append(msgs, x)
  <1>1. m \in Nat /\ DOMAIN msgs = 1..m /\ Listed(msgs)
    BY ListedIs DEF Asking
  <1>2. /\ Listed(all) /\ Len(all) = m + 1 /\ DOMAIN all = 1..(m + 1)
        /\ \A i \in 1..m : all[i] = msgs[i]
        /\ all[m + 1] = x /\ all # <<>>
    <2>1. /\ Listed(all) /\ Len(all) = m + 1 /\ all[m + 1] = x /\ all # <<>>
          /\ \A i \in 1..m : all[i] = msgs[i]
      BY <1>1, Appended
    <2> QED
      BY <2>1, ListedIs
  <1>3. /\ \A i \in 1..m : IsMessage(msgs[i]) /\ Listed(msgs[i].calls)
        /\ \A i \in 1..m : \A k \in DOMAIN msgs[i].calls :
             /\ i # m /\ i + k <= m /\ msgs[i + k].role = "tool"
             /\ SameTool(msgs[i].calls[k].name, msgs[i + k].name)
    <2>1. \A i \in 1..m : /\ IsMessage(msgs[i]) /\ Listed(msgs[i].calls)
                          /\ i = m => Len(msgs[i].calls) = 0
      BY <1>1 DEF Asking
    <2>2. \A i \in 1..m : \A k \in DOMAIN msgs[i].calls : i # m
      BY <2>1, ListedIs
    <2> QED
      BY <1>1, <2>1, <2>2 DEF Asking
  <1>4. Len(x.calls) = Len(due) /\ DOMAIN x.calls = DOMAIN due
    BY ListedIs DEF Fits
  <1> HIDE DEF m, all
  <1>5. \A i \in 1..(m + 1) : i \in 1..m \/ i = m + 1
    BY <1>1
  <1>6. m + 1 \notin 1..m /\ m + 1 \in 1..(m + 1)
    BY <1>1
  <1>7. ASSUME NEW i \in 1..(m + 1)
        PROVE  /\ IsMessage(all[i]) /\ Listed(all[i].calls)
               /\ i = m + 1 => Len(all[i].calls) = Len(due)
    BY <1>2, <1>3, <1>4, <1>5
  <1>8. ASSUME NEW i \in 1..(m + 1), NEW k \in DOMAIN all[i].calls
        PROVE  IF i = m + 1 THEN Alias(all[i].calls[k].name, due[k].name)
               ELSE /\ i + k <= m + 1 /\ all[i + k].role = "tool"
                    /\ SameTool(all[i].calls[k].name, all[i + k].name)
    <2>1. CASE i \in 1..m
      <3>1. k \in Nat \ {0}
        BY <1>2, <1>3, <2>1, ListedIs
      <3>2. i + k \in 1..m /\ i # m + 1 /\ i + k <= m + 1
        BY <1>1, <1>2, <1>3, <2>1, <3>1
      <3> QED
        BY <1>2, <1>3, <2>1, <3>2
    <2>2. CASE i = m + 1
      BY <1>2, <1>4, <2>2 DEF Fits
    <2> QED
      BY <1>5, <2>1, <2>2
  <1> QED
    BY <1>2, <1>7, <1>8 DEF Asking, all

\* A call more of the last message.
LEMMA JoinCall ==
  ASSUME NEW msgs, NEW due, Asking(msgs, due), Listed(due), due # <<>>,
         NEW c, NEW p, Alias(c.name, p.name)
  PROVE  /\ msgs # <<>> /\ msgs[Len(msgs)].role = "assistant" /\ msgs[Len(msgs)].calls # <<>>
         /\ Asking([msgs EXCEPT ![Len(msgs)].calls = @ \o <<c>>], Append(due, p))
  <1> DEFINE m == Len(msgs)
             d == Len(due)
             calls == msgs[m].calls
             more == calls \o <<c>>
             x == [msgs[m] EXCEPT !.calls = more]
             all == [msgs EXCEPT ![m] = x]
             owed == Append(due, p)
  <1>1. /\ m \in Nat /\ d \in Nat /\ DOMAIN msgs = 1..m /\ DOMAIN due = 1..d /\ d # 0
        /\ msgs # <<>> /\ msgs[m].role = "assistant" /\ m \in 1..m
        /\ IsMessage(msgs[m]) /\ Listed(calls) /\ Len(calls) = d /\ DOMAIN calls = 1..d
    <2>1. /\ m \in Nat /\ d \in Nat /\ DOMAIN msgs = 1..m /\ DOMAIN due = 1..d
          /\ msgs # <<>> /\ msgs[m].role = "assistant" /\ 1 \in 1..m /\ 1 \in 1..d
      BY ListedIs DEF Asking
    <2>2. m \in 1..m /\ d # 0
      BY <2>1
    <2>3. IsMessage(msgs[m]) /\ Listed(calls) /\ Len(calls) = d
      BY <2>1, <2>2 DEF Asking
    <2> QED
      BY <2>1, <2>2, <2>3, ListedIs
  <1>2. calls # <<>>
    <2>1. Len(<<>>) = 0
      OBVIOUS
    <2> QED
      BY <1>1, <2>1
  <1>3. /\ Listed(more) /\ Len(more) = d + 1 /\ DOMAIN more = 1..(d + 1)
        /\ \A k \in 1..d : more[k] = calls[k]
        /\ more[d + 1] = c
    <2>1. more = Append(calls, c)
      BY <1>1, JoinedPlaces
    <2> HIDE DEF more, calls
    <2>2. /\ Listed(more) /\ Len(more) = d + 1 /\ more[d + 1] = c
          /\ \A k \in 1..d : more[k] = calls[k]
      BY <1>1, <2>1, Appended
    <2> QED
      BY <2>2, ListedIs
  <1>4. /\ Listed(owed) /\ Len(owed) = d + 1 /\ owed # <<>>
        /\ \A k \in 1..d : owed[k] = due[k]
        /\ owed[d + 1] = p
    BY <1>1, Appended
  <1>5. all = [msgs EXCEPT ![Len(msgs)].calls = @ \o <<c>>]
    OBVIOUS
  <1>6. IsMessage(x) /\ x.calls = more /\ x.role = "assistant" /\ x.name = msgs[m].name
    <2> DEFINE y == msgs[m]
    <2>1. y = ChatMessage(y.role, y.shape, y.parts, y.think, y.calls, y.name)
          /\ y.role = "assistant"
      BY <1>1 DEF IsMessage
    <2> HIDE DEF y, more
    <2>2. LET z == [y EXCEPT !.calls = more] IN
          /\ IsMessage(z) /\ z.calls = more /\ z.role = "assistant" /\ z.name = y.name
      BY <2>1 DEF IsMessage, ChatMessage
    <2> QED
      BY <2>2 DEF y
  <1>7. /\ \A i \in 1..m : IsMessage(msgs[i]) /\ Listed(msgs[i].calls)
        /\ \A i \in 1..m : \A k \in DOMAIN msgs[i].calls :
             IF i = m THEN Alias(msgs[i].calls[k].name, due[k].name)
             ELSE /\ i + k <= m /\ msgs[i + k].role = "tool"
                  /\ SameTool(msgs[i].calls[k].name, msgs[i + k].name)
    BY <1>1 DEF Asking
  <1> HIDE DEF x, more, owed, d
  <1>8. /\ Listed(all) /\ DOMAIN all = 1..m /\ Len(all) = m /\ all[m] = x
        /\ \A i \in 1..m : i # m => all[i] = msgs[i]
    <2>1. Listed(all)
      BY ListedChanged DEF Asking
    <2>2. /\ DOMAIN all = 1..m /\ all[m] = x
          /\ \A i \in 1..m : i # m => all[i] = msgs[i]
      BY <1>1
    <2> HIDE DEF all, m
    <2>3. Len(all) \in Nat /\ DOMAIN all = 1..Len(all)
      BY <2>1, ListedIs
    <2>4. Len(all) = m
      BY <1>1, <2>2, <2>3
    <2> QED
      BY <2>1, <2>2, <2>4
  <1> HIDE DEF all, m, calls
  <1>9. \A i \in 1..m : all[i].role = msgs[i].role /\ all[i].name = msgs[i].name
    BY <1>1, <1>6, <1>8
  <1>10. ASSUME NEW i \in 1..m
         PROVE  /\ IsMessage(all[i]) /\ Listed(all[i].calls)
                /\ i = m => Len(all[i].calls) = Len(owed)
    BY <1>3, <1>4, <1>6, <1>7, <1>8
  <1>11. ASSUME NEW i \in 1..m, NEW k \in DOMAIN all[i].calls
         PROVE  IF i = m THEN Alias(all[i].calls[k].name, owed[k].name)
                ELSE /\ i + k <= m /\ all[i + k].role = "tool"
                     /\ SameTool(all[i].calls[k].name, all[i + k].name)
    <2>1. CASE i = m
      <3>1. all[i].calls = more /\ k \in 1..(d + 1)
        BY <1>3, <1>6, <1>8, <2>1
      <3>2. k \in 1..d \/ k = d + 1
        BY <1>1, <3>1
      <3>3. CASE k \in 1..d
        <4>1. Alias(calls[k].name, due[k].name)
          BY <1>1, <1>7, <3>3 DEF calls
        <4> QED
          BY <1>3, <1>4, <2>1, <3>1, <3>3, <4>1
      <3>4. CASE k = d + 1
        BY <1>3, <1>4, <2>1, <3>1, <3>4
      <3> QED
        BY <3>2, <3>3, <3>4
    <2>2. CASE i # m
      <3>1. all[i] = msgs[i] /\ k \in Nat \ {0}
        BY <1>7, <1>8, <2>2, ListedIs
      <3>2. /\ i + k <= m /\ msgs[i + k].role = "tool"
            /\ SameTool(msgs[i].calls[k].name, msgs[i + k].name)
        BY <1>7, <2>2, <3>1
      <3>3. i + k \in 1..m
        BY <1>1, <3>1, <3>2
      <3> QED
        BY <1>9, <2>2, <3>1, <3>2, <3>3
    <2> QED
      BY <2>1, <2>2
  <1>12. all # <<>>
    <2>1. Len(<<>>) = 0 /\ m # 0
      BY <1>1
    <2> QED
      BY <1>8, <2>1
  <1>13. Asking(all, owed)
    BY <1>6, <1>8, <1>10, <1>11, <1>12 DEF Asking
  <1> QED
    BY <1>1, <1>2, <1>5, <1>13 DEF owed, m, calls

\* The messages results become.
LEMMA ResultsFit ==
  ASSUME NEW results, Listed(results), NEW due, Fits(results, due), Listed(due)
  PROVE  LET rs == ToolMessages(results) IN
         /\ Listed(rs) /\ Fits(rs, due) /\ Len(rs) = Len(results)
         /\ \A k \in DOMAIN rs : IsMessage(rs[k]) /\ rs[k].role = "tool" /\ rs[k].calls = <<>>
         /\ \A k \in 1..Len(results) : rs[k] = ToolMessage(results[k])
  <1> DEFINE rs == ToolMessages(results)
  <1>1. rs = [k \in DOMAIN results |-> rs[k]]
        /\ \A k \in DOMAIN results : rs[k] = ToolMessage(results[k])
    BY DEF ToolMessages
  <1> HIDE DEF rs
  <1>2. Listed(rs) /\ Len(rs) = Len(results) /\ DOMAIN rs = DOMAIN results
        /\ DOMAIN results = 1..Len(results) /\ DOMAIN due = 1..Len(results)
    BY <1>1, ListedMapped, ListedIs DEF Fits
  <1>3. \A r : /\ IsMessage(ToolMessage(r)) /\ ToolMessage(r).role = "tool"
               /\ ToolMessage(r).calls = <<>> /\ ToolMessage(r).name = r.name
    BY DEF IsMessage, ChatMessage, ToolMessage
  <1>4. Fits(rs, due)
    BY <1>1, <1>2, <1>3 DEF Fits
  <1> QED
    BY <1>1, <1>2, <1>3, <1>4 DEF rs

\* What a chat or a messages client's turn becomes: the results, and a message that
\* makes the calls.
LEMMA TurnAsks ==
  ASSUME NEW msgs, NEW due, Asking(msgs, due), Listed(due),
         NEW t, Listed(t.results), Listed(t.parts), Fits(t.results, due),
         Calls(t.parts) # <<>> => t.who = "assistant",
         NEW sent \in {ChatTurn(t), MessagesTurnToPivot(t)}
  PROVE  Asking(msgs \o sent, Calls(t.parts)) /\ Listed(sent)
  <1> DEFINE rs == ToolMessages(t.results)
             calls == Calls(t.parts)
             shape == IF sent = ChatTurn(t) THEN ListShape(Speech(t.parts))
                      ELSE IF Len(Speech(t.parts)) = 1 /\ Speech(t.parts)[1].kind = "image"
                        THEN "bare" ELSE ListShape(Speech(t.parts))
             x == ChatMessage(t.who, shape, Speech(t.parts), DataOf(t.parts, "think"), calls, 0)
  <1>1. sent = rs \o (IF t.parts = <<>> THEN <<>> ELSE <<x>>)
    BY DEF ChatTurn, MessagesTurnToPivot
  <1>2. Listed(calls) /\ (t.parts = <<>> => calls = <<>>)
    <2>1. PICK c : Gathered(t.parts, c)
      BY CallsSteps
    <2>2. Len(<<>>) = 0
      OBVIOUS
    <2>3. c[0] = <<>> /\ c[Len(t.parts)] = calls
      BY <2>1 DEF Gathered
    <2> QED
      BY <2>2, <2>3, CallsListed
  <1>3. IsMessage(x) /\ x.calls = calls /\ x.role = t.who
    BY DEF IsMessage, ChatMessage
  <1> HIDE DEF calls, x
  <1>4. Listed(rs) /\ Fits(rs, due) /\ Len(rs) = Len(t.results)
        /\ \A k \in DOMAIN rs : IsMessage(rs[k]) /\ rs[k].role = "tool" /\ rs[k].calls = <<>>
    BY ResultsFit
  <1> HIDE DEF rs
  <1>5. Asking(msgs \o rs, <<>>) /\ Listed(msgs \o rs)
    BY <1>4, AnswerAll DEF Asking
  <1>6. CASE t.parts = <<>>
    <2>1. sent = rs
      BY <1>1, <1>4, <1>6, JoinedPlaces, ListedIs
    <2> QED
      BY <1>2, <1>4, <1>5, <1>6, <2>1 DEF calls
  <1>7. CASE t.parts # <<>>
    <2>1. sent = Append(rs, x) /\ Listed(sent)
      <3>1. sent = rs \o <<x>>
        BY <1>1, <1>7
      <3>2. rs \o <<x>> = Append(rs, x) /\ Listed(Append(rs, x))
        BY <1>4, JoinedPlaces, Appended
      <3> QED
        BY <3>1, <3>2
    <2>2. msgs \o sent = Append(msgs \o rs, x)
      <3>1. msgs \o Append(rs, x) = Append(msgs \o rs, x)
        BY <1>4, JoinedMore DEF Asking
      <3> QED
        BY <2>1, <3>1
    <2>3. Fits(x.calls, calls)
      BY <1>3 DEF Fits, Alias
    <2>4. calls # <<>> => x.role = "assistant"
      BY <1>3 DEF calls
    <2>5. Asking(Append(msgs \o rs, x), calls)
      BY <1>2, <1>3, <1>5, <2>3, <2>4, AddMessage
    <2> QED
      BY <2>1, <2>2, <2>5 DEF calls
  <1> QED
    BY <1>6, <1>7

\* A Responses client's results: each is an item, and a message of the request.
LEMMA ResultsAsk ==
  ASSUME NEW its, Listed(its), NEW due, Listed(due), Asking(ResponsesToPivot(its), due),
         NEW results, Listed(results), Fits(results, due)
  PROVE  LET more == [i \in DOMAIN results |-> [type |-> "output", result |-> results[i]]] IN
         /\ Listed(more) /\ Listed(its \o more)
         /\ Asking(ResponsesToPivot(its \o more), <<>>)
  <1> DEFINE more == [i \in DOMAIN results |-> [type |-> "output", result |-> results[i]]]
             rs == ToolMessages(results)
             base == ResponsesToPivot(its)
             n == Len(results)
  <1>1. more = [i \in DOMAIN results |-> more[i]]
        /\ \A i \in DOMAIN results : more[i] = [type |-> "output", result |-> results[i]]
    OBVIOUS
  <1>2. /\ Listed(rs) /\ Fits(rs, due) /\ Len(rs) = n
        /\ \A k \in DOMAIN rs : IsMessage(rs[k]) /\ rs[k].role = "tool" /\ rs[k].calls = <<>>
        /\ \A k \in 1..n : rs[k] = ToolMessage(results[k])
    BY ResultsFit
  <1> HIDE DEF more, rs
  <1>3. Listed(more) /\ Len(more) = n /\ n \in Nat /\ DOMAIN results = 1..n
    BY <1>1, ListedMapped, ListedIs
  <1>4. Listed(base)
    BY DEF Asking
  <1> HIDE DEF base, n
  <1>5. PICK u : Growing(its, more, u)
    BY <1>3, JoinSteps
  <1>6. PICK w : Growing(base, rs, w)
    BY <1>2, <1>4, JoinSteps
  <1>12. /\ u[0] = its /\ u[n] = its \o more
         /\ \A j \in 1..n : Listed(u[j - 1]) /\ u[j] = Append(u[j - 1], more[j])
    BY <1>3, <1>5 DEF Growing
  <1>13. /\ w[0] = base /\ w[n] = base \o rs
         /\ \A j \in 1..n : Listed(w[j - 1]) /\ w[j] = Append(w[j - 1], rs[j])
    BY <1>2, <1>6 DEF Growing
  <1> DEFINE I == {j \in 0..n : ResponsesToPivot(u[j]) = w[j]}
  <1>7. 0 \in I
    BY <1>3, <1>12, <1>13 DEF base
  <1>8. ASSUME NEW j \in 1..n, j - 1 \in I PROVE j \in I
    <2> DEFINE e == more[j]
               old == w[j - 1]
               prior == u[j - 1]
    <2>1. e.type = "output" /\ e.result = results[j]
      BY <1>1, <1>3
    <2>2. ItemMessage(e) = rs[j]
      BY <1>2, <2>1 DEF ItemMessage
    <2>3. rs[j].calls = <<>>
      BY <1>2, <1>3, ListedIs
    <2>4. Listed(prior) /\ u[j] = Append(prior, e) /\ ResponsesToPivot(prior) = old
          /\ w[j] = Append(old, rs[j])
      BY <1>8, <1>12, <1>13
    <2> HIDE DEF e, old, prior
    <2>5. ResponsesToPivot(u[j]) = AddItemMessage(old, e)
      BY <2>4, PivotMore
    <2>6. AddItemMessage(old, e) = Append(old, rs[j])
      BY <2>1, <2>2, <2>3 DEF AddItemMessage, JoinCalls
    <2> QED
      <3>1. ResponsesToPivot(u[j]) = w[j]
        BY <2>4, <2>5, <2>6
      <3>2. j \in 0..n
        BY <1>3
      <3> QED
        BY <3>1, <3>2
  <1> HIDE DEF I
  <1>9. n \in I
    BY <1>3, <1>7, <1>8, Climb
  <1>10. ResponsesToPivot(its \o more) = base \o rs
    BY <1>9, <1>12, <1>13 DEF I
  <1>11. Asking(base \o rs, <<>>)
    BY <1>2, AnswerAll DEF base
  <1> QED
    BY <1>3, <1>10, <1>11, ListedJoined DEF more

\* The item of a part of an answer.
PartItem(p) ==
  CASE p.kind = "text" -> [type |-> "message", role |-> "assistant", parts |-> <<p>>]
    [] p.kind \in CallKinds -> [type |-> "call", part |-> p]
    [] OTHER -> [type |-> "reasoning", part |-> p]

\* One part more: calls go on being due, and no text comes between them.
LEMMA PartAsks ==
  ASSUME NEW msgs, NEW due, Asking(msgs, due), Listed(due), NEW p,
         p.kind = "text" => due = <<>>
  PROVE  Asking(AddItemMessage(msgs, PartItem(p)),
                IF p.kind \in CallKinds THEN Append(due, p) ELSE due)
  <1> DEFINE it == PartItem(p)
             x == ItemMessage(it)
             n == Len(msgs)
  <1>1. CASE p.kind = "text"
    <2>1. it = [type |-> "message", role |-> "assistant", parts |-> <<p>>]
      BY <1>1 DEF PartItem, CallKinds
    <2>2. /\ it.type = "message"
          /\ x = ChatMessage("assistant", ListShape(it.parts), it.parts, <<>>, <<>>, 0)
      BY <2>1 DEF ItemMessage
    <2>3. IsMessage(x) /\ x.calls = <<>>
      BY <2>2 DEF IsMessage, ChatMessage
    <2> HIDE DEF it, x
    <2>4. AddItemMessage(msgs, it) = Append(msgs, x)
      BY <2>2, <2>3 DEF AddItemMessage, JoinCalls, x
    <2>5. due = <<>> /\ Listed(<<>>) /\ Fits(<<>>, <<>>) /\ p.kind \notin CallKinds
      BY <1>1, ListedIs DEF Fits, CallKinds
    <2> QED
      BY <2>3, <2>4, <2>5, AddMessage DEF it
  <1>2. CASE p.kind \in CallKinds
    <2> DEFINE c == InputItem(p)
    <2>1. it = [type |-> "call", part |-> p]
      BY <1>2 DEF PartItem, CallKinds
    <2>2. /\ it.type = "call"
          /\ x = ChatMessage("assistant", "null", <<>>, <<>>, <<c>>, 0)
      BY <2>1 DEF ItemMessage
    <2>3. Alias(c.name, p.name)
      BY DEF InputItem, Alias, Part
    <2> HIDE DEF c
    <2>4. IsMessage(x) /\ x.calls = <<c>> /\ x.role = "assistant"
      BY <2>2 DEF IsMessage, ChatMessage
    <2>5. Listed(<<c>>) /\ <<c>> # <<>> /\ n \in Nat
      BY ListedIs DEF Asking
    <2> HIDE DEF it, x
    <2>6. AddItemMessage(msgs, it) = JoinCalls(msgs, x)
      BY <2>2 DEF AddItemMessage, x
    <2>7. CASE due = <<>>
      <3> DEFINE owed == Append(due, p)
      <3>1. owed = <<p>> /\ Listed(owed) /\ Len(owed) = 1 /\ owed[1] = p /\ DOMAIN owed = 1..1
        BY <2>7, ListedIs
      <3>2. Fits(x.calls, owed)
        BY <2>3, <2>4, <3>1, ListedIs DEF Fits
      <3> HIDE DEF owed
      <3>3. n > 0 => msgs[n].calls = <<>>
        <4>1. \A i \in 1..n : i = n => Listed(msgs[i].calls) /\ Len(msgs[i].calls) = Len(due)
          BY ListedIs DEF Asking
        <4>2. n > 0 => Listed(msgs[n].calls) /\ Len(msgs[n].calls) = 0
          BY <2>5, <2>7, <4>1
        <4>3. \A s : Listed(s) /\ Len(s) = 0 => s = <<>>
          BY ListedIs
        <4> QED
          BY <4>2, <4>3
      <3>4. JoinCalls(msgs, x) = Append(msgs, x)
        BY <3>3 DEF JoinCalls
      <3>5. Asking(Append(msgs, x), owed)
        BY <2>4, <2>5, <2>7, <3>1, <3>2, AddMessage
      <3> QED
        BY <1>2, <2>6, <3>4, <3>5 DEF owed, it
    <2>8. CASE due # <<>>
      <3>1. /\ msgs # <<>> /\ msgs[n].role = "assistant" /\ msgs[n].calls # <<>>
            /\ Asking([msgs EXCEPT ![n].calls = @ \o <<c>>], Append(due, p))
        BY <2>3, <2>8, JoinCall
      <3>2. n > 0
        <4>1. 1 \in DOMAIN msgs /\ DOMAIN msgs = 1..n
          BY <3>1, ListedIs DEF Asking
        <4> QED
          BY <2>5, <4>1
      <3>3. JoinCalls(msgs, x) = [msgs EXCEPT ![n].calls = @ \o <<c>>]
        BY <2>4, <2>5, <3>1, <3>2 DEF JoinCalls
      <3> QED
        BY <1>2, <2>6, <3>1, <3>3 DEF it
    <2> QED
      BY <2>7, <2>8
  <1>3. CASE p.kind # "text" /\ p.kind \notin CallKinds
    <2>1. it = [type |-> "reasoning", part |-> p]
      BY <1>3 DEF PartItem
    <2>2. AddItemMessage(msgs, it) = msgs
      BY <2>1 DEF AddItemMessage
    <2> QED
      BY <1>3, <2>2
  <1> QED
    BY <1>1, <1>2, <1>3

\* The parts of an answer whose text comes before its calls.
LEMMA PartsAsk ==
  ASSUME NEW its, Listed(its), Asking(ResponsesToPivot(its), <<>>),
         NEW t, Listed(t.parts), CallsLast(t)
  PROVE  LET more == [i \in DOMAIN t.parts |-> PartItem(t.parts[i])] IN
         Listed(more) /\ Asking(ResponsesToPivot(its \o more), Calls(t.parts))
  <1> DEFINE parts == t.parts
             more == [i \in DOMAIN parts |-> PartItem(parts[i])]
             n == Len(parts)
  <1>11. PICK c : Gathered(parts, c)
    BY CallsSteps
  <1>1. /\ c[0] = <<>> /\ c[n] = Calls(parts)
        /\ \A j \in 1..n :
             c[j] = IF parts[j].kind \in CallKinds THEN Append(c[j - 1], parts[j])
                    ELSE c[j - 1]
        /\ \A j \in 0..n :
             /\ Listed(c[j])
             /\ (\A i \in 1..j : parts[i].kind \notin CallKinds) => c[j] = <<>>
    BY <1>11 DEF Gathered
  <1>2. /\ more = [i \in DOMAIN parts |-> more[i]]
        /\ \A i \in DOMAIN parts : more[i] = PartItem(parts[i])
        /\ DOMAIN parts = 1..n /\ n \in Nat
    BY ListedIs
  <1>3. \A i, j \in 1..n : i < j /\ parts[i].kind \in CallKinds => parts[j].kind # "text"
    BY <1>2 DEF CallsLast
  <1> HIDE DEF more, parts
  <1>4. Listed(more) /\ Len(more) = n
    <2>1. Listed(parts)
      BY DEF parts
    <2> QED
      BY <1>2, <2>1, ListedMapped
  <1>5. PICK u : Growing(its, more, u)
    BY <1>4, JoinSteps
  <1> HIDE DEF n
  <1>6. /\ u[0] = its /\ u[n] = its \o more
        /\ \A j \in 1..n : Listed(u[j - 1]) /\ u[j] = Append(u[j - 1], more[j])
    BY <1>4, <1>5 DEF Growing
  <1> DEFINE I == {j \in 0..n : Asking(ResponsesToPivot(u[j]), c[j])}
  <1>7. 0 \in I
    BY <1>1, <1>2, <1>6
  <1>8. ASSUME NEW j \in 1..n, j - 1 \in I PROVE j \in I
    <2> DEFINE p == parts[j]
               due == c[j - 1]
               prior == u[j - 1]
               msgs == ResponsesToPivot(prior)
    <2>1. j \in 0..n /\ j - 1 \in 0..n
      BY <1>2
    <2>2. Listed(due) /\ Listed(prior) /\ Asking(msgs, due) /\ u[j] = Append(prior, PartItem(p))
      BY <1>1, <1>2, <1>6, <1>8, <2>1
    <2>3. p.kind = "text" => due = <<>>
      <3>1. \A i \in 1..(j - 1) : i \in 1..n /\ i < j
        BY <1>2
      <3> QED
        BY <1>1, <1>3, <2>1, <3>1
    <2>4. c[j] = IF p.kind \in CallKinds THEN Append(due, p) ELSE due
      BY <1>1
    <2> HIDE DEF p, due, prior
    <2>5. ResponsesToPivot(u[j]) = AddItemMessage(msgs, PartItem(p))
      BY <2>2, PivotMore
    <2> HIDE DEF msgs
    <2>6. Asking(AddItemMessage(msgs, PartItem(p)),
                 IF p.kind \in CallKinds THEN Append(due, p) ELSE due)
      BY <2>2, <2>3, PartAsks
    <2> QED
      BY <2>1, <2>4, <2>5, <2>6
  <1> HIDE DEF I
  <1>9. n \in I
    BY <1>2, <1>7, <1>8, Climb
  <1>10. Asking(ResponsesToPivot(its \o more), Calls(parts))
    BY <1>1, <1>6, <1>9 DEF I
  <1> QED
    BY <1>4, <1>10 DEF more, parts

\* A turn of a Responses client.
LEMMA ItemsAsk ==
  ASSUME NEW its, Listed(its), NEW due, Listed(due), Asking(ResponsesToPivot(its), due),
         NEW t, Listed(t.results), Listed(t.parts), Fits(t.results, due),
         Calls(t.parts) # <<>> => t.who = "assistant", CallsLast(t)
  PROVE  /\ Listed(its \o Items(t)) /\ Listed(Items(t))
         /\ Asking(ResponsesToPivot(its \o Items(t)), Calls(t.parts))
  <1> DEFINE more == [i \in DOMAIN t.results |-> [type |-> "output", result |-> t.results[i]]]
             last == [type |-> "message", role |-> "user", parts |-> t.parts]
             rest == [i \in DOMAIN t.parts |-> PartItem(t.parts[i])]
             now == its \o more
  <1>1. Listed(more) /\ Listed(now) /\ Asking(ResponsesToPivot(now), <<>>)
    BY ResultsAsk
  <1>2. Items(t) = more \o (IF t.who = "user" /\ t.parts # <<>> THEN <<last>> ELSE rest)
    BY DEF Items, PartItem
  <1> HIDE DEF more, last, rest, now
  <1>3. CASE t.who = "user" /\ t.parts # <<>>
    <2> DEFINE x == ItemMessage(last)
               msgs == ResponsesToPivot(now)
    <2>1. Items(t) = Append(more, last) /\ Listed(Items(t))
      <3>1. Items(t) = more \o <<last>>
        BY <1>2, <1>3
      <3>2. more \o <<last>> = Append(more, last) /\ Listed(Append(more, last))
        BY <1>1, JoinedPlaces, Appended
      <3> QED
        BY <3>1, <3>2
    <2>2. its \o Items(t) = Append(now, last) /\ Listed(Append(now, last))
      <3>1. its \o Append(more, last) = Append(its \o more, last)
        BY <1>1, JoinedMore
      <3> QED
        BY <1>1, <2>1, <3>1, Appended DEF now
    <2>3. /\ last.type = "message"
          /\ x = ChatMessage(last.role, ListShape(last.parts), last.parts, <<>>, <<>>, 0)
      BY DEF ItemMessage, last
    <2>4. IsMessage(x) /\ x.calls = <<>>
      BY <2>3 DEF IsMessage, ChatMessage
    <2> HIDE DEF x
    <2>5. AddItemMessage(msgs, last) = Append(msgs, x)
      BY <2>3, <2>4 DEF AddItemMessage, JoinCalls, x
    <2>6. ResponsesToPivot(Append(now, last)) = Append(msgs, x)
      BY <1>1, <2>5, PivotMore
    <2>7. Asking(msgs, <<>>)
      BY <1>1
    <2> HIDE DEF msgs
    <2>8. Listed(<<>>) /\ Fits(<<>>, <<>>)
      BY ListedIs DEF Fits
    <2>9. Asking(Append(msgs, x), <<>>)
      BY <2>4, <2>7, <2>8, AddMessage
    <2>10. Calls(t.parts) = <<>>
      BY <1>3
    <2> QED
      BY <2>1, <2>2, <2>6, <2>9, <2>10
  <1>4. CASE ~(t.who = "user" /\ t.parts # <<>>)
    <2>1. Items(t) = more \o rest
      BY <1>2, <1>4
    <2>2. Listed(rest) /\ Asking(ResponsesToPivot(now \o rest), Calls(t.parts))
      BY <1>1, PartsAsk DEF rest
    <2>3. its \o Items(t) = now \o rest
      BY <1>1, <2>1, <2>2, JoinedAgain DEF now
    <2>4. Listed(now \o rest) /\ Listed(more \o rest)
      BY <1>1, <2>2, ListedJoined
    <2> QED
      BY <2>1, <2>2, <2>3, <2>4 DEF now
  <1> QED
    BY <1>3, <1>4

------------------------------------------------------------------------------
(* Conversations *)

\* A conversation in which each turn answers the calls of the turn before it.
Due(ts, i) == IF i = 0 THEN <<>> ELSE Calls(ts[i].parts)

Dialogue(ts) ==
  /\ Listed(ts)
  /\ \A i \in DOMAIN ts :
       /\ Listed(ts[i].results) /\ Listed(ts[i].parts)
       /\ Calls(ts[i].parts) # <<>> => ts[i].who = "assistant"
       /\ Fits(ts[i].results, Due(ts, i - 1))

\* What each turn makes of the messages before it, as long as each is glued to them.
LEMMA ChatAsked ==
  ASSUME NEW ts, Dialogue(ts), ts # <<>>,
         NEW s, Listed(s), Len(s) = Len(ts),
         \A i \in DOMAIN ts : s[i] \in {ChatTurn(ts[i]), MessagesTurnToPivot(ts[i])}
  PROVE  Asking(FlattenSeq(s), Due(ts, Len(ts)))
  <1> DEFINE n == Len(ts)
  <1>1. n \in Nat \ {0} /\ DOMAIN ts = 1..n /\ s # <<>> /\ 1 \in 1..n
    <2>1. n \in Nat /\ DOMAIN ts = 1..n /\ 1 \in 1..n
      BY ListedIs DEF Dialogue
    <2>2. Len(<<>>) = 0
      OBVIOUS
    <2> QED
      BY <2>1, <2>2
  <1>2. PICK v : Glued(s, v)
    BY <1>1, Glues
  <1>3. /\ v[1] = s[1] /\ v[n] = FlattenSeq(s)
        /\ \A i \in 2..n : v[i] = v[i - 1] \o s[i]
    BY <1>2 DEF Glued
  <1> HIDE DEF n
  <1> DEFINE w == [i \in 0..n |-> IF i = 0 THEN <<>> ELSE v[i]]
             I == {i \in 0..n : Asking(w[i], Due(ts, i))}
  <1>4. 0 \in I
    <2>1. w[0] = <<>> /\ Due(ts, 0) = <<>> /\ 0 \in 0..n
      BY <1>1 DEF Due
    <2> HIDE DEF w
    <2>2. Asking(<<>>, <<>>)
      BY ListedIs DEF Asking
    <2> QED
      BY <2>1, <2>2
  <1>5. \A i \in 1..n : Listed(s[i]) => w[i] = w[i - 1] \o s[i]
    <2> TAKE i \in 1..n
    <2>1. CASE i = 1
      <3>1. w[i] = s[i] /\ w[i - 1] = <<>>
        BY <1>1, <1>3, <2>1
      <3> HIDE DEF w
      <3> QED
        BY <3>1, JoinedPlaces
    <2>2. CASE i # 1
      <3>1. i \in 2..n /\ i - 1 \in 0..n /\ i \in 0..n /\ i - 1 # 0 /\ i # 0
        BY <1>1, <2>2
      <3> QED
        BY <1>3, <3>1
    <2> QED
      BY <2>1, <2>2
  <1>6. ASSUME NEW i \in 1..n, i - 1 \in I PROVE i \in I
    <2> DEFINE msgs == w[i - 1]
               due == Due(ts, i - 1)
               t == ts[i]
    <2>1. i \in 0..n /\ Asking(msgs, due) /\ Due(ts, i) = Calls(t.parts)
      BY <1>1, <1>6 DEF Due
    <2>2. /\ Listed(t.results) /\ Listed(t.parts) /\ Fits(t.results, due)
          /\ Calls(t.parts) # <<>> => t.who = "assistant"
          /\ s[i] \in {ChatTurn(t), MessagesTurnToPivot(t)}
      BY <1>1 DEF Dialogue
    <2>3. Listed(due)
      <3>1. i = 1 \/ i - 1 \in 1..n
        BY <1>1
      <3>2. i # 1 => Listed(ts[i - 1].parts)
        BY <1>1, <3>1 DEF Dialogue
      <3>3. i # 1 => Listed(Calls(ts[i - 1].parts))
        BY <3>2, CallsListed
      <3> QED
        BY <1>1, <3>3, ListedIs DEF Due
    <2> HIDE DEF w, due, t
    <2>4. Asking(msgs \o s[i], Calls(t.parts)) /\ Listed(s[i])
      BY <2>1, <2>2, <2>3, TurnAsks
    <2>5. w[i] = msgs \o s[i]
      BY <1>5, <2>4
    <2> QED
      BY <2>1, <2>4, <2>5
  <1>7. w[n] = v[n]
    BY <1>1
  <1> HIDE DEF I, w
  <1>8. n \in I
    BY <1>1, <1>4, <1>6, Climb
  <1> QED
    BY <1>3, <1>7, <1>8 DEF I, n

\* The same for the items of a Responses client.
LEMMA ItemsAsked ==
  ASSUME NEW ts, Dialogue(ts), ts # <<>>, \A i \in DOMAIN ts : CallsLast(ts[i])
  PROVE  Asking(ResponsesToPivot(TurnItems(ts)), Due(ts, Len(ts)))
  <1> DEFINE n == Len(ts)
             s == [i \in DOMAIN ts |-> Items(ts[i])]
  <1>1. n \in Nat \ {0} /\ DOMAIN ts = 1..n /\ 1 \in 1..n
    BY ListedIs DEF Dialogue
  <1>2. s = [i \in DOMAIN ts |-> s[i]] /\ \A i \in 1..n : s[i] = Items(ts[i])
    BY <1>1
  <1>3. TurnItems(ts) = FlattenSeq(s)
    BY DEF TurnItems
  <1> HIDE DEF s
  <1>4. Listed(s) /\ Len(s) = n /\ s # <<>>
    <2>1. Listed(s) /\ Len(s) = n
      BY <1>2, ListedMapped DEF Dialogue
    <2>2. Len(<<>>) = 0
      OBVIOUS
    <2> QED
      BY <1>1, <2>1, <2>2
  <1>5. PICK v : Glued(s, v)
    BY <1>4, Glues
  <1> HIDE DEF n
  <1>6. /\ v[1] = s[1] /\ v[n] = FlattenSeq(s)
        /\ \A i \in 2..n : v[i] = v[i - 1] \o s[i]
    BY <1>4, <1>5 DEF Glued
  <1> DEFINE w == [i \in 0..n |-> IF i = 0 THEN <<>> ELSE v[i]]
             I == {i \in 0..n : Listed(w[i]) /\ Asking(ResponsesToPivot(w[i]), Due(ts, i))}
  <1>7. 0 \in I
    <2>1. w[0] = <<>> /\ Due(ts, 0) = <<>> /\ 0 \in 0..n
      BY <1>1 DEF Due
    <2> HIDE DEF w
    <2>2. Asking(<<>>, <<>>) /\ Listed(<<>>)
      BY ListedIs DEF Asking
    <2>3. ResponsesToPivot(<<>>) = <<>>
      <3>1. <<>> \in Seq({})
        OBVIOUS
      <3>2. ResponsesToPivot(<<>>) = Fold("message", 0, <<>>, <<>>)
        BY <3>1, MessageFold
      <3> QED
        BY <3>2, FoldNothing
    <2> QED
      BY <2>1, <2>2, <2>3
  <1>8. \A i \in 1..n : Listed(s[i]) => w[i] = w[i - 1] \o s[i]
    <2> TAKE i \in 1..n
    <2>1. CASE i = 1
      <3>1. w[i] = s[i] /\ w[i - 1] = <<>>
        BY <1>1, <1>6, <2>1
      <3> HIDE DEF w
      <3> QED
        BY <3>1, JoinedPlaces
    <2>2. CASE i # 1
      <3>1. i \in 2..n /\ i - 1 \in 0..n /\ i \in 0..n /\ i - 1 # 0 /\ i # 0
        BY <1>1, <2>2
      <3> QED
        BY <1>6, <3>1
    <2> QED
      BY <2>1, <2>2
  <1>9. ASSUME NEW i \in 1..n, i - 1 \in I PROVE i \in I
    <2> DEFINE its == w[i - 1]
               due == Due(ts, i - 1)
               t == ts[i]
    <2>1. /\ i \in 0..n /\ Listed(its) /\ Asking(ResponsesToPivot(its), due)
          /\ Due(ts, i) = Calls(t.parts)
      BY <1>1, <1>9 DEF Due
    <2>2. /\ Listed(t.results) /\ Listed(t.parts) /\ Fits(t.results, due)
          /\ Calls(t.parts) # <<>> => t.who = "assistant"
          /\ s[i] = Items(t) /\ CallsLast(t)
      BY <1>1, <1>2 DEF Dialogue, n
    <2>3. Listed(due)
      <3>1. i = 1 \/ i - 1 \in 1..n
        BY <1>1
      <3>2. i # 1 => Listed(ts[i - 1].parts)
        BY <1>1, <3>1 DEF Dialogue
      <3>3. i # 1 => Listed(Calls(ts[i - 1].parts))
        BY <3>2, CallsListed
      <3> QED
        BY <1>1, <3>3, ListedIs DEF Due
    <2> HIDE DEF w, due, t
    <2>4. /\ Listed(its \o Items(t)) /\ Listed(Items(t))
          /\ Asking(ResponsesToPivot(its \o Items(t)), Calls(t.parts))
      BY <2>1, <2>2, <2>3, ItemsAsk
    <2>5. w[i] = its \o Items(t)
      BY <1>8, <2>2, <2>4
    <2> QED
      BY <2>1, <2>4, <2>5
  <1>10. w[n] = v[n]
    BY <1>1
  <1> HIDE DEF I, w
  <1>11. n \in I
    BY <1>1, <1>7, <1>9, Climb
  <1> QED
    BY <1>3, <1>6, <1>10, <1>11 DEF I, n

\* So for a client of any protocol.
LEMMA DialogueAsked ==
  ASSUME NEW ts, Dialogue(ts), ts # <<>>, NEW en \in Protocols,
         en = "responses" => \A t \in ToSet(ts) : CallsLast(t)
  PROVE  Asking(Pivot(en, ts), Due(ts, Len(ts)))
  <1> DEFINE chat == [i \in DOMAIN ts |-> ChatTurn(ts[i])]
             messages == [i \in DOMAIN ts |-> MessagesTurnToPivot(ts[i])]
  <1>1. /\ chat = [i \in DOMAIN ts |-> chat[i]] /\ messages = [i \in DOMAIN ts |-> messages[i]]
        /\ \A i \in DOMAIN ts : chat[i] = ChatTurn(ts[i])
        /\ \A i \in DOMAIN ts : messages[i] = MessagesTurnToPivot(ts[i])
    OBVIOUS
  <1>2. /\ en = "openai" => Pivot(en, ts) = FlattenSeq(chat)
        /\ en = "anthropic" => Pivot(en, ts) = FlattenSeq(messages)
        /\ en = "responses" => Pivot(en, ts) = ResponsesToPivot(TurnItems(ts))
    BY DEF Pivot
  <1> HIDE DEF chat, messages
  <1>3. /\ Listed(chat) /\ Len(chat) = Len(ts)
        /\ Listed(messages) /\ Len(messages) = Len(ts)
    <2>1. Listed(ts)
      BY DEF Dialogue
    <2>2. Listed(chat) /\ Len(chat) = Len(ts)
      BY <1>1, <2>1, ListedMapped
    <2>3. Listed(messages) /\ Len(messages) = Len(ts)
      BY <1>1, <2>1, ListedMapped
    <2> QED
      BY <2>2, <2>3
  <1>4. Asking(FlattenSeq(chat), Due(ts, Len(ts)))
    <2>1. \A i \in DOMAIN ts : chat[i] \in {ChatTurn(ts[i]), MessagesTurnToPivot(ts[i])}
      BY <1>1
    <2> QED
      BY <1>3, <2>1, ChatAsked
  <1>5. Asking(FlattenSeq(messages), Due(ts, Len(ts)))
    <2>1. \A i \in DOMAIN ts : messages[i] \in {ChatTurn(ts[i]), MessagesTurnToPivot(ts[i])}
      BY <1>1
    <2> QED
      BY <1>3, <2>1, ChatAsked
  <1>6. CASE en = "responses"
    <2>1. \A i \in DOMAIN ts : CallsLast(ts[i])
      BY <1>6 DEF ToSet
    <2> QED
      BY <1>2, <1>6, <2>1, ItemsAsked
  <1> QED
    BY <1>2, <1>4, <1>5, <1>6 DEF Protocols

\* Parts without a call.
LEMMA NoCalls ==
  ASSUME NEW parts, Listed(parts), \A i \in DOMAIN parts : parts[i].kind \notin CallKinds
  PROVE  Calls(parts) = <<>>
  <1> DEFINE n == Len(parts)
  <1>1. n \in Nat /\ DOMAIN parts = 1..n /\ n \in 0..n
    BY ListedIs
  <1>3. PICK c : Gathered(parts, c)
    BY CallsSteps
  <1>2. c[n] = Calls(parts) /\ \A j \in 0..n :
          (\A i \in 1..j : parts[i].kind \notin CallKinds) => c[j] = <<>>
    BY <1>3 DEF Gathered
  <1> HIDE DEF n
  <1> QED
    BY <1>1, <1>2

\* What the user says is a sequence of parts without a call.
LEMMA UserSays ==
  ASSUME NEW parts \in {Question, Picture, Remark, <<>>}
  PROVE  Listed(parts) /\ Calls(parts) = <<>>
  <1> DEFINE a == Part("text", 0, <<101>>)
             b == Part("image", 0, <<102>>)
             c == Part("text", 0, <<103>>)
             d == Part("image", 0, <<104>>)
  <1>1. \A p \in {a, b, c, d} : p.kind \notin CallKinds
    BY DEF Part, CallKinds
  <1>2. Question = <<a, b>> /\ Remark = <<c>> /\ Picture = <<d>>
    BY DEF Question, Remark, Picture
  <1> HIDE DEF a, b, c, d
  <1>3. /\ <<a, b>> \in Seq({a, b}) /\ DOMAIN <<a, b>> = {1, 2}
        /\ <<a, b>>[1] = a /\ <<a, b>>[2] = b
        /\ <<c>> \in Seq({c}) /\ DOMAIN <<c>> = {1} /\ <<c>>[1] = c
        /\ <<d>> \in Seq({d}) /\ DOMAIN <<d>> = {1} /\ <<d>>[1] = d
        /\ <<>> \in Seq({}) /\ DOMAIN <<>> = {}
    OBVIOUS
  <1>4. Listed(parts) /\ \A i \in DOMAIN parts : parts[i].kind \notin CallKinds
    BY <1>1, <1>2, <1>3 DEF Listed
  <1> QED
    BY <1>4, NoCalls

\* A turn more that answers the last one.
LEMMA DialogueMore ==
  ASSUME NEW ts, Dialogue(ts), ts # <<>>, NEW who, NEW results, NEW parts,
         Listed(results), Listed(parts), Calls(parts) # <<>> => who = "assistant",
         Fits(results, Calls(ts[Len(ts)].parts))
  PROVE  LET t == Turn(who, results, parts) IN
         /\ Dialogue(Append(ts, t)) /\ Append(ts, t) # <<>>
         /\ Last(Append(ts, t)) = t
  <1> DEFINE n == Len(ts)
             t == Turn(who, results, parts)
             more == Append(ts, t)
  <1>1. n \in Nat /\ n # 0 /\ DOMAIN ts = 1..n /\ Listed(ts)
    <2>1. Listed(ts)
      BY DEF Dialogue
    <2>2. n \in Nat /\ DOMAIN ts = 1..n /\ 1 \in DOMAIN ts
      BY <2>1, ListedIs
    <2> QED
      BY <2>1, <2>2
  <1>2. /\ t.results = results /\ t.parts = parts /\ t.who = who
    BY DEF Turn
  <1>5. Fits(results, Calls(ts[n].parts))
    OBVIOUS
  <1> HIDE DEF n, t
  <1>3. /\ Listed(more) /\ Len(more) = n + 1 /\ more[n + 1] = t /\ more # <<>>
        /\ \A i \in 1..n : more[i] = ts[i]
    BY <1>1, Appended DEF n
  <1>4. DOMAIN more = 1..(n + 1)
    BY <1>3, ListedIs
  <1> HIDE DEF more
  <1>6. ASSUME NEW i \in 1..(n + 1)
        PROVE  /\ Listed(more[i].results) /\ Listed(more[i].parts)
               /\ Calls(more[i].parts) # <<>> => more[i].who = "assistant"
               /\ Fits(more[i].results, Due(more, i - 1))
    <2>1. Due(more, i - 1) = Due(ts, i - 1)
      <3>1. i - 1 = 0 \/ i - 1 \in 1..n
        BY <1>1
      <3>2. i - 1 # 0 => more[i - 1] = ts[i - 1]
        BY <1>3, <3>1
      <3> QED
        BY <3>2 DEF Due
    <2>2. CASE i \in 1..n
      BY <1>1, <1>3, <2>1, <2>2 DEF Dialogue
    <2>3. CASE i \notin 1..n
      <3>1. i = n + 1
        BY <1>1, <2>3
      <3>2. i - 1 = n /\ Due(ts, i - 1) = Calls(ts[n].parts)
        BY <1>1, <3>1 DEF Due
      <3> QED
        BY <1>2, <1>3, <1>5, <2>1, <3>1, <3>2
    <2> QED
      BY <2>2, <2>3
  <1>7. Dialogue(more)
    BY <1>3, <1>4, <1>6 DEF Dialogue
  <1> QED
    BY <1>3, <1>7 DEF Last, t, more

\* Between calls and during them the client's history is such a conversation, and a
\* request is never on its way while the answer to a call is still missing.
Talks ==
  /\ Dialogue(turns) /\ turns # <<>>
  /\ InFlight => Calls(Last(turns).parts) = <<>>

\* It is so at first,
LEMMA InitTalks ==
  ASSUME Init
  PROVE  Talks
  <1>7. PICK words \in {Question, Picture} : turns = <<Turn("user", <<>>, words)>>
    BY DEF Init
  <1> DEFINE t == Turn("user", <<>>, words)
  <1>1. turns = <<t>> /\ pc = "client"
    BY <1>7 DEF Init
  <1>2. t.results = <<>> /\ t.parts = words
    BY DEF Turn
  <1>3. Listed(words) /\ Calls(words) = <<>> /\ Listed(<<>>)
    BY UserSays, ListedIs
  <1> HIDE DEF t
  <1>4. Listed(turns) /\ Len(turns) = 1 /\ turns[1] = t /\ DOMAIN turns = {1} /\ turns # <<>>
    BY <1>1, ListedIs
  <1>5. Due(turns, 1 - 1) = <<>> /\ Fits(<<>>, <<>>)
    BY ListedIs DEF Due, Fits
  <1>6. Dialogue(turns)
    BY <1>2, <1>3, <1>4, <1>5 DEF Dialogue
  <1> QED
    BY <1>1, <1>4, <1>6 DEF Talks, InFlight

\* when the client runs its tools,
LEMMA AskTalks ==
  ASSUME Talks, Ask
  PROVE  Talks'
  <1> DEFINE n == Len(turns)
             parts == turns[n].parts
             made == Calls(parts)
             calls == CallsOf(parts)
             results == [i \in DOMAIN calls |-> Result(calls[i].name, <<200 + i>>)]
  <1>1. Last(turns) = turns[n]
    BY DEF Last
  <1>2. PICK words \in {Remark, Picture, <<>>} : turns' = Append(turns, Turn("user", results, words))
    BY <1>1 DEF Ask
  <1>3. pc' = "client"
    BY DEF Ask
  <1>4. Listed(made)
    <2>1. n \in DOMAIN turns
      <3>1. n \in Nat /\ DOMAIN turns = 1..n /\ 1 \in DOMAIN turns
        BY ListedIs DEF Talks, Dialogue
      <3> QED
        BY <3>1
    <2>2. Listed(parts)
      BY <2>1 DEF Talks, Dialogue
    <2> QED
      BY <2>2, CallsListed
  <1>5. /\ calls = [i \in DOMAIN made |-> calls[i]]
        /\ \A i \in DOMAIN made : Alias(calls[i].name, made[i].name)
    <2>1. calls = [i \in DOMAIN made |->
                     [name |-> IF made[i].name < 0 THEN -made[i].name ELSE made[i].name,
                      args |-> IF made[i].kind = "custom" THEN made[i].data
                               ELSE CustomToolInput(made[i].data)]]
      BY DEF CallsOf
    <2> HIDE DEF calls, made
    <2>2. \A i \in DOMAIN made :
            calls[i].name = IF made[i].name < 0 THEN -made[i].name ELSE made[i].name
      BY <2>1
    <2> QED
      BY <2>1, <2>2 DEF Alias
  <1> HIDE DEF calls, made
  <1>6. /\ results = [i \in DOMAIN calls |-> results[i]]
        /\ \A i \in DOMAIN calls : results[i].name = calls[i].name
    BY DEF Result
  <1> HIDE DEF results
  <1>7. Listed(calls) /\ Len(calls) = Len(made) /\ DOMAIN calls = DOMAIN made
    BY <1>4, <1>5, ListedMapped
  <1>8. Listed(results) /\ Len(results) = Len(calls)
    BY <1>6, <1>7, ListedMapped
  <1>9. Fits(results, made)
    BY <1>5, <1>6, <1>7, <1>8 DEF Fits
  <1>10. Listed(words) /\ Calls(words) = <<>>
    BY UserSays
  <1>11. Dialogue(turns') /\ turns' # <<>>
    BY <1>2, <1>8, <1>9, <1>10, DialogueMore DEF Talks, made
  <1> QED
    BY <1>3, <1>11 DEF Talks, InFlight

\* when an answer has become a turn,
LEMMA EofTalks ==
  ASSUME IInv', Talks, Eof
  PROVE  Talks'
  <1>1. pc' \notin {"peek", "flow"}
    BY DEF Eof, Record
  <1>2. \/ turns' = turns
        \/ turns' = Append(turns, Turn("assistant", <<>>, pipe'.client.parts))
    BY DEF Eof, Record
  <1>3. CASE turns' = turns
    BY <1>1, <1>3 DEF Talks, InFlight
  <1>4. CASE turns' = Append(turns, Turn("assistant", <<>>, pipe'.client.parts))
    <2> DEFINE parts == pipe'.client.parts
    <2>1. Listed(parts)
      BY DEF IInv, IsPipe, Client
    <2>2. Fits(<<>>, Calls(turns[Len(turns)].parts)) /\ Listed(<<>>)
      <3>1. Calls(turns[Len(turns)].parts) = <<>>
        BY DEF Talks, Eof, InFlight, Last
      <3> QED
        BY <3>1, ListedIs DEF Fits
    <2> HIDE DEF parts
    <2>3. Dialogue(turns') /\ turns' # <<>>
      BY <1>4, <2>1, <2>2, DialogueMore DEF Talks, parts
    <2> QED
      BY <1>1, <2>3 DEF Talks, InFlight
  <1> QED
    BY <1>2, <1>3, <1>4

\* and with every step.
LEMMA NextTalks ==
  ASSUME IInv', Talks, [Next]_vars
  PROVE  Talks'
  <1>1. ASSUME UNCHANGED turns, pc' = pc \/ pc' \notin {"peek", "flow"} \/ InFlight
        PROVE  Talks'
    BY <1>1 DEF Talks, InFlight
  <1>2. ASSUME NEW u \in Protocols, NEW s \in BOOLEAN, Send(u, s)
        PROVE  Talks'
    <2>1. turns' = turns /\ Last(turns).who = "user"
      BY <1>2 DEF Send
    <2>2. Last(turns) = turns[Len(turns)] /\ Len(turns) \in DOMAIN turns
      <3>1. Len(turns) \in Nat /\ DOMAIN turns = 1..Len(turns) /\ 1 \in DOMAIN turns
        BY ListedIs DEF Talks, Dialogue
      <3> QED
        BY <3>1 DEF Last
    <2>3. Calls(Last(turns).parts) = <<>>
      BY <2>1, <2>2 DEF Talks, Dialogue
    <2> QED
      BY <2>1, <2>3 DEF Talks
  <1>3. CASE Ask
    BY <1>3, AskTalks
  <1>4. ASSUME NEW kind \in Kinds, Open(kind)
        PROVE  Talks'
    BY <1>1, <1>4 DEF Open, Emit, Speaking, InFlight
  <1>5. ASSUME NEW i \in DOMAIN said, Say(i) \/ Close(i) \/ CloseWhole(i)
        PROVE  Talks'
    BY <1>1, <1>5 DEF Say, Close, CloseWhole, Emit, Speaking, InFlight
  <1>6. CASE Stop \/ Fail
    BY <1>1, <1>6 DEF Stop, Fail, Emit, Speaking, InFlight
  <1>7. CASE NotSSE
    BY <1>1, <1>7 DEF NotSSE, InFlight
  <1>8. CASE Eof
    BY <1>8, EofTalks
  <1>9. CASE Cut
    BY <1>1, <1>9 DEF Cut, InFlight
  <1>10. CASE UNCHANGED vars
    BY <1>1, <1>10 DEF vars
  <1> QED
    BY <1>2, <1>3, <1>4, <1>5, <1>6, <1>7, <1>8, <1>9, <1>10 DEF Next

\* A client's calls of tools and their results reach a chat channel in the order such a
\* channel demands, whichever protocol the client speaks and however its turns are taken
\* apart and put together: every message that makes calls is followed at once by their
\* results, one by one, and each result is for the tool of its call, by its name or its
\* alias (responses_api.go:53-54).  A Responses client's text has to come
\* before the calls of its turn.
THEOREM CallsAreAnswered == Spec => []CallsAnswered
  <1>1. Init => Talks
    BY InitTalks
  <1>2. IInv' /\ Talks /\ [Next]_vars => Talks'
    BY NextTalks
  <1>3. IInv /\ Talks => CallsAnswered
    <2> SUFFICES ASSUME IInv, Talks, Last(turns).who = "user",
                        entry = "responses" => \A t \in ToSet(turns) : CallsLast(t),
                        NEW i \in DOMAIN Pivot(entry, turns),
                        Pivot(entry, turns)[i].calls # <<>>
                 PROVE  LET request == Pivot(entry, turns)
                            calls == request[i].calls IN
                        /\ i + Len(calls) <= Len(request)
                        /\ \A k \in DOMAIN calls :
                             /\ request[i + k].role = "tool"
                             /\ SameTool(calls[k].name, request[i + k].name)
      BY DEF CallsAnswered
    <2> DEFINE en == entry
               request == Pivot(en, turns)
               n == Len(turns)
               calls == request[i].calls
    <2>1. en \in Protocols
      BY DEF IInv, IsPipe, entry
    <2>2. Due(turns, n) = <<>>
      <3>1. n \in DOMAIN turns
        <4>1. n \in Nat /\ DOMAIN turns = 1..n /\ 1 \in DOMAIN turns
          BY ListedIs DEF Talks, Dialogue
        <4> QED
          BY <4>1
      <3>2. turns[n].who = "user"
        BY DEF Last
      <3>3. Calls(turns[n].parts) = <<>>
        BY <3>1, <3>2 DEF Talks, Dialogue
      <3> QED
        BY <3>3 DEF Due
    <2> HIDE DEF en
    <2>3. Asking(request, <<>>)
      <3>1. Asking(Pivot(en, turns), Due(turns, Len(turns)))
        BY <2>1, DialogueAsked DEF Talks, en
      <3> QED
        BY <2>2, <3>1
    <2>4. i \in DOMAIN request /\ calls # <<>>
      BY DEF en
    <2> HIDE DEF request, n
    <2>5. Listed(calls) /\ Listed(request)
      BY <2>3, <2>4 DEF Asking
    <2> DEFINE m == Len(calls)
    <2>6. m \in Nat /\ m # 0 /\ DOMAIN calls = 1..m
      <3>1. m \in Nat /\ DOMAIN calls = 1..m /\ 1 \in DOMAIN calls
        BY <2>4, <2>5, ListedIs
      <3> QED
        BY <3>1
    <2>7. i # Len(request)
      <3>1. i = Len(request) => m = Len(<<>>)
        BY <2>3, <2>4 DEF Asking
      <3>2. Len(<<>>) = 0
        OBVIOUS
      <3> QED
        BY <2>6, <3>1, <3>2
    <2>8. \A k \in DOMAIN calls :
            /\ i + k <= Len(request) /\ request[i + k].role = "tool"
            /\ SameTool(calls[k].name, request[i + k].name)
      BY <2>3, <2>4, <2>7 DEF Asking
    <2>9. i + m <= Len(request)
      BY <2>6, <2>8
    <2> QED
      BY <2>8, <2>9 DEF request, en
  <1> QED
    BY <1>1, <1>2, <1>3, CallsOnCourse, PTL DEF Spec

------------------------------------------------------------------------------
(* What a reader has heard *)

IsPart(x) == x = [kind |-> x.kind, name |-> x.name, data |-> x.data]

IsParts(parts) == Listed(parts) /\ \A i \in DOMAIN parts : IsPart(parts[i])

\* A client that has seen nothing wrong and no end.
Listening(cl) == cl.bad = FALSE /\ cl.ended = 0

CallPlaces(parts) == {i \in DOMAIN parts : parts[i].kind \in {"call"}}

Before(places, i) == {j \in places : j < i}

\* There are n calls among the parts, and each of 0..n - 1 is the index of one.
Ranked(parts, n) ==
  /\ IsParts(parts) /\ n \in Nat
  /\ IsFiniteSet(CallPlaces(parts)) /\ Cardinality(CallPlaces(parts)) = n
  /\ \A k \in 0..(n - 1) :
       \E i \in CallPlaces(parts) : Cardinality(Before(CallPlaces(parts), i)) = k

\* A chat client that has been told of n calls.
ChatHeard(cl, n) == Listening(cl) /\ cl.finish = "none" /\ Ranked(cl.parts, n)

\* A messages client and the emitter that writes to it: the block the emitter is in is
\* the one the client has open.
InBlocks(st, cl) ==
  /\ Listening(cl) /\ cl.finish = "none" /\ IsParts(cl.parts)
  /\ st.blockIndex \in Nat /\ st.finish # "none"
  /\ \/ st.started = FALSE /\ cl.started = FALSE /\ st.curKind = "none"
     \/ st.started = TRUE /\ cl.started = TRUE
  /\ \/ st.curKind = "none" /\ cl.open = {} /\ Len(cl.parts) = st.blockIndex
     \/ /\ st.curKind # "none" /\ cl.open = {st.blockIndex + 1}
        /\ Len(cl.parts) = st.blockIndex + 1
        /\ cl.parts[st.blockIndex + 1].kind = st.curKind

\* A client that goes on, with these parts and the rest.
Became(d, parts, open, started, finish) ==
  /\ Client(d) /\ Listening(d)
  /\ d.parts = parts /\ d.open = open /\ d.started = started /\ d.finish = finish

\* There is nothing to complain of.
LEMMA NoComplaint ==
  ASSUME NEW cl, Client(cl), cl.bad = FALSE, NEW w, ~w
  PROVE  Complain(cl, w) = cl
BY DEF Complain, Client

\* A client that goes on reads an event as its protocol says.
LEMMA ReadsOn ==
  ASSUME NEW cl, Client(cl), Listening(cl), NEW e, e.type # "[DONE]"
  PROVE  /\ Read("openai", cl, e) = ReadChunk(cl, e)
         /\ Read("anthropic", cl, e) = ReadMessages(cl, e)
         /\ Read("responses", cl, e) = ReadResponses(cl, e)
<1>1. e # DoneMark
  BY Marks
<1>2. ~(cl.ended > 0)
  BY DEF Listening
<1>3. Complain(cl, cl.ended > 0) = cl
  BY <1>2, NoComplaint DEF Listening
<1> QED
  BY <1>1, <1>3 DEF Read

\* A client that has put together something else and has nothing to complain of,
LEMMA BecameIs ==
  ASSUME NEW cl, Client(cl), Listening(cl)
  PROVE  \A v : /\ Listed(v) => Became([cl EXCEPT !.parts = v], v, cl.open, cl.started, cl.finish)
                /\ Became([cl EXCEPT !.open = v], cl.parts, v, cl.started, cl.finish)
                /\ Became([cl EXCEPT !.started = v], cl.parts, cl.open, v, cl.finish)
                /\ Became([cl EXCEPT !.finish = v], cl.parts, cl.open, cl.started, v)
<1> TAKE v
<1>1. Listed(v) => Became([cl EXCEPT !.parts = v], v, cl.open, cl.started, cl.finish)
  BY DEF Became, Client, Listening
<1>2. Became([cl EXCEPT !.open = v], cl.parts, v, cl.started, cl.finish)
  BY DEF Became, Client, Listening
<1>3. Became([cl EXCEPT !.started = v], cl.parts, cl.open, v, cl.finish)
  BY DEF Became, Client, Listening
<1>4. Became([cl EXCEPT !.finish = v], cl.parts, cl.open, cl.started, v)
  BY DEF Became, Client, Listening
<1> QED
  BY <1>1, <1>2, <1>3, <1>4

\* in two fields too.
LEMMA BecamePairs ==
  ASSUME NEW cl, Client(cl), Listening(cl), NEW v, NEW w
  PROVE  /\ Listed(v) => Became([cl EXCEPT !.parts = v, !.open = w], v, w, cl.started, cl.finish)
         /\ Became([cl EXCEPT !.started = v, !.finish = w], cl.parts, cl.open, v, w)
<1> DEFINE d == [cl EXCEPT !.parts = v]
           f == [cl EXCEPT !.started = v]
<1>1. /\ Listed(v) => Became(d, v, cl.open, cl.started, cl.finish)
      /\ Became(f, cl.parts, cl.open, v, cl.finish)
  BY BecameIs
<1>2. [cl EXCEPT !.parts = v, !.open = w] = [d EXCEPT !.open = w]
  OBVIOUS
<1>3. [cl EXCEPT !.started = v, !.finish = w] = [f EXCEPT !.finish = w]
  OBVIOUS
<1> HIDE DEF d, f
<1>4. (Listed(v) => Client(d) /\ Listening(d)) /\ Client(f) /\ Listening(f)
  BY <1>1 DEF Became
<1>5. Listed(v) => Became([d EXCEPT !.open = w], d.parts, w, d.started, d.finish)
  BY <1>4, BecameIs
<1>6. Became([f EXCEPT !.finish = w], f.parts, f.open, f.started, w)
  BY <1>4, BecameIs
<1> QED
  BY <1>1, <1>2, <1>3, <1>5, <1>6 DEF Became

\* What a client has become it stays when there is nothing to complain of.
LEMMA BecameSo ==
  ASSUME NEW d, NEW parts, NEW open, NEW started, NEW finish,
         Became(d, parts, open, started, finish), NEW w, ~w
  PROVE  Became(Complain(d, w), parts, open, started, finish)
BY NoComplaint DEF Became, Listening

\* More of a part.
More(parts, i, data) == [parts EXCEPT ![i].data = @ \o data]

\* A client that reads more of a part changes that part only.
LEMMA ExtendBecame ==
  ASSUME NEW cl, Client(cl), Listening(cl), NEW i, NEW data
  PROVE  Became(Extend(cl, i, data), More(cl.parts, i, data), cl.open, cl.started, cl.finish)
<1>1. Extend(cl, i, data) = [cl EXCEPT !.parts = More(cl.parts, i, data)]
  BY DEF Extend, More
<1>2. Listed(More(cl.parts, i, data))
  BY ListedChanged DEF More, Client
<1> QED
  BY <1>1, <1>2, BecameIs

\* A sequence is as long as its domain says.
LEMMA SameLength ==
  ASSUME NEW n \in Nat, NEW m \in Nat, 1..n = 1..m
  PROVE  n = m
<1>1. n \in 1..n \/ n = 0
  OBVIOUS
<1>2. m \in 1..m \/ m = 0
  OBVIOUS
<1> QED
  BY <1>1, <1>2

\* Parts with one more, or with more of one, are parts.
LEMMA PartsMore ==
  ASSUME NEW parts, IsParts(parts), NEW kind, NEW name, NEW data
  PROVE  /\ IsParts(Append(parts, Part(kind, name, data)))
         /\ Len(Append(parts, Part(kind, name, data))) = Len(parts) + 1
         /\ Append(parts, Part(kind, name, data))[Len(parts) + 1].kind = kind
         /\ \A i \in DOMAIN parts : Append(parts, Part(kind, name, data))[i] = parts[i]
         /\ DOMAIN Append(parts, Part(kind, name, data)) = DOMAIN parts \cup {Len(parts) + 1}
<1> DEFINE x == Part(kind, name, data)
           t == Append(parts, x)
<1>1. IsPart(x) /\ x.kind = kind
  BY DEF IsPart, Part
<1>2. Listed(parts)
  BY DEF IsParts
<1>3. Listed(t) /\ Len(t) = Len(parts) + 1 /\ t[Len(parts) + 1] = x
      /\ \A i \in DOMAIN t : t[i] = x \/ (i \in DOMAIN parts /\ t[i] = parts[i])
  BY <1>2, Appended
<1>4. \A i \in DOMAIN parts : t[i] = parts[i]
  BY <1>2, Appended
<1>5. Len(parts) \in Nat /\ DOMAIN parts = 1..Len(parts) /\ DOMAIN t = 1..Len(t)
  BY <1>2, <1>3, ListedIs
<1> HIDE DEF x, t
<1>6. IsParts(t)
  BY <1>1, <1>3 DEF IsParts
<1>7. DOMAIN t = DOMAIN parts \cup {Len(parts) + 1}
  BY <1>3, <1>5
<1> QED
  BY <1>1, <1>3, <1>4, <1>6, <1>7 DEF x, t

\* More of one part leaves the parts in place, and their kinds.
LEMMA PartsExtended ==
  ASSUME NEW parts, IsParts(parts), NEW i, NEW data
  PROVE  /\ IsParts(More(parts, i, data))
         /\ Len(More(parts, i, data)) = Len(parts)
         /\ DOMAIN More(parts, i, data) = DOMAIN parts
         /\ \A j \in DOMAIN parts : More(parts, i, data)[j].kind = parts[j].kind
<1> DEFINE v == parts[i].data \o data
           x == [parts[i] EXCEPT !.data = v]
           t == [parts EXCEPT ![i] = x]
<1>1. t = More(parts, i, data)
  BY DEF More
<1>2. Listed(parts) /\ \A j \in DOMAIN parts : IsPart(parts[j])
  BY DEF IsParts
<1>3. Listed(t) /\ DOMAIN t = DOMAIN parts
  BY <1>2, ListedChanged
<1> HIDE DEF v
<1>4. i \in DOMAIN parts => IsPart(x) /\ x.kind = parts[i].kind
  <2>1. ASSUME i \in DOMAIN parts PROVE IsPart(x) /\ x.kind = parts[i].kind
    <3>1. parts[i] = [kind |-> parts[i].kind, name |-> parts[i].name, data |-> parts[i].data]
      BY <1>2, <2>1 DEF IsPart
    <3>2. x = [kind |-> parts[i].kind, name |-> parts[i].name, data |-> v]
      BY <3>1
    <3> QED
      BY <3>2 DEF IsPart
  <2> QED
    BY <2>1
<1>5. \A j \in DOMAIN parts : t[j] = IF j = i THEN x ELSE parts[j]
  OBVIOUS
<1>6. Len(t) \in Nat /\ DOMAIN t = 1..Len(t) /\ Len(parts) \in Nat /\ DOMAIN parts = 1..Len(parts)
  BY <1>2, <1>3, ListedIs
<1> HIDE DEF x, t
<1>7. Len(t) = Len(parts)
  BY <1>3, <1>6, SameLength
<1>8. IsParts(t) /\ \A j \in DOMAIN parts : t[j].kind = parts[j].kind
  BY <1>2, <1>3, <1>4, <1>5 DEF IsParts
<1> QED
  BY <1>1, <1>3, <1>7, <1>8

------------------------------------------------------------------------------
(* The calls of a chat client, by index *)

\* More of a part, and a part that is no call, leave the calls and their indexes,
LEMMA RankedMore ==
  ASSUME NEW parts, NEW n, Ranked(parts, n), NEW i, NEW data
  PROVE  Ranked(More(parts, i, data), n)
<1>1. /\ IsParts(parts)
      /\ IsParts(More(parts, i, data))
      /\ DOMAIN More(parts, i, data) = DOMAIN parts
      /\ \A j \in DOMAIN parts : More(parts, i, data)[j].kind = parts[j].kind
  BY PartsExtended DEF Ranked
<1>2. CallPlaces(More(parts, i, data)) = CallPlaces(parts)
  BY <1>1 DEF CallPlaces
<1> QED
  BY <1>1, <1>2 DEF Ranked

\* as does a part of another kind,
LEMMA RankedSaid ==
  ASSUME NEW parts, NEW n, Ranked(parts, n), NEW kind, kind # "call", NEW name, NEW data
  PROVE  Ranked(Append(parts, Part(kind, name, data)), n)
<1> DEFINE t == Append(parts, Part(kind, name, data))
<1>1. IsParts(parts)
  BY DEF Ranked
<1>2. /\ IsParts(t) /\ t[Len(parts) + 1].kind = kind
      /\ \A i \in DOMAIN parts : t[i] = parts[i]
      /\ DOMAIN t = DOMAIN parts \cup {Len(parts) + 1}
  BY <1>1, PartsMore
<1> HIDE DEF t
<1>3. Len(parts) + 1 \notin DOMAIN parts
  BY <1>1, ListedIs DEF IsParts
<1>4. CallPlaces(t) = CallPlaces(parts)
  BY <1>2, <1>3 DEF CallPlaces
<1>5. Ranked(t, n)
  BY <1>2, <1>4 DEF Ranked
<1> QED
  BY <1>5 DEF t

\* The places before a place, of n.
LEMMA BeforeFew ==
  ASSUME NEW S, IsFiniteSet(S), NEW i \in S
  PROVE  /\ Cardinality(Before(S, i)) \in Nat
         /\ Cardinality(Before(S, i)) <= Cardinality(S)
         /\ S \subseteq Int => Cardinality(Before(S, i)) < Cardinality(S)
<1>1. Cardinality(S) \in Nat
  BY FS_CardinalityType
<1>2. Before(S, i) \subseteq S
  BY DEF Before
<1>3. IsFiniteSet(Before(S, i)) /\ Cardinality(Before(S, i)) <= Cardinality(S)
  BY <1>2, FS_Subset
<1>4. Cardinality(Before(S, i)) \in Nat
  BY <1>3, FS_CardinalityType
<1>5. ASSUME S \subseteq Int PROVE Cardinality(Before(S, i)) < Cardinality(S)
  <2>1. i \notin Before(S, i)
    BY <1>5 DEF Before
  <2>2. Before(S, i) # S
    BY <2>1
  <2>3. Cardinality(Before(S, i)) # Cardinality(S)
    BY <1>2, <2>2, FS_Subset
  <2> QED
    BY <1>1, <1>3, <1>4, <2>3
<1> QED
  BY <1>3, <1>4, <1>5

\* and a call that is added has the next index.
LEMMA RankedCall ==
  ASSUME NEW parts, NEW n, Ranked(parts, n), NEW name, NEW data
  PROVE  Ranked(Append(parts, Part("call", name, data)), n + 1)
<1> DEFINE t == Append(parts, Part("call", name, data))
           S == CallPlaces(parts)
           x == Len(parts) + 1
<1>1. IsParts(parts) /\ n \in Nat /\ IsFiniteSet(S) /\ Cardinality(S) = n
  BY DEF Ranked
<1>2. /\ IsParts(t) /\ t[x].kind = "call"
      /\ \A i \in DOMAIN parts : t[i] = parts[i]
      /\ DOMAIN t = DOMAIN parts \cup {x}
  BY <1>1, PartsMore
<1>3. Len(parts) \in Nat /\ DOMAIN parts = 1..Len(parts)
  BY <1>1, ListedIs DEF IsParts
<1>3a. \A k \in 0..(n - 1) : \E i \in S : Cardinality(Before(S, i)) = k
  BY DEF Ranked
<1>4. S \subseteq DOMAIN parts
  BY DEF CallPlaces
<1> HIDE DEF t
<1>5. CallPlaces(t) = S \cup {x}
  BY <1>2 DEF CallPlaces
<1> HIDE DEF S, x
<1>6. x \in Int /\ x \notin S /\ \A i \in S : i \in Int /\ i < x
  BY <1>3, <1>4 DEF x
<1>7. IsFiniteSet(S \cup {x}) /\ Cardinality(S \cup {x}) = n + 1
  BY <1>1, <1>6, FS_AddElement
<1>8. \A i \in S : Before(S \cup {x}, i) = Before(S, i)
  BY <1>6 DEF Before
<1>9. Before(S \cup {x}, x) = S
  BY <1>6 DEF Before
<1>10. ASSUME NEW k \in 0..n
       PROVE  \E i \in S \cup {x} : Cardinality(Before(S \cup {x}, i)) = k
  <2>1. CASE k = n
    BY <1>1, <1>9, <2>1
  <2>2. CASE k # n
    <3>1. k \in 0..(n - 1)
      BY <1>1, <2>2
    <3>2. PICK i \in S : Cardinality(Before(S, i)) = k
      BY <1>3a, <3>1
    <3> QED
      BY <1>8, <3>2
  <2> QED
    BY <2>1, <2>2
<1>11. (n + 1) - 1 = n /\ n + 1 \in Nat
  BY <1>1
<1>12. Ranked(t, n + 1)
  BY <1>2, <1>5, <1>7, <1>10, <1>11 DEF Ranked
<1> QED
  BY <1>12 DEF t

------------------------------------------------------------------------------
(* What each reader makes of an event that fits *)

\* A chat client reads text or reasoning: it has one part of each kind at most.
LEMMA ReadTextHeard ==
  ASSUME NEW cl, Client(cl), NEW n, ChatHeard(cl, n), NEW kind \in {"text", "think"}, NEW data
  PROVE  /\ Client(ReadText(cl, kind, data)) /\ ChatHeard(ReadText(cl, kind, data), n)
         /\ ReadText(cl, kind, data).finish = cl.finish
<1> DEFINE parts == cl.parts
           q == ReadText(cl, kind, data)
           t == Append(parts, Part(kind, 0, data))
<1>1. Listening(cl) /\ cl.finish = "none" /\ Ranked(parts, n)
  BY DEF ChatHeard
<1>2. CASE data = <<>>
  BY <1>2 DEF ReadText
<1>3. CASE data # <<>> /\ Indexes(cl, {kind}) = {}
  <2>1. q = [cl EXCEPT !.parts = t]
    BY <1>3 DEF ReadText
  <2>3. Ranked(t, n)
    BY <1>1, RankedSaid
  <2>2. Became(q, t, cl.open, cl.started, cl.finish)
    BY <1>1, <2>1, <2>3, BecameIs DEF Ranked, IsParts
  <2> QED
    BY <1>1, <2>2, <2>3 DEF Became, ChatHeard
<1>4. CASE data # <<>> /\ Indexes(cl, {kind}) # {}
  <2> DEFINE i == CHOOSE j \in Indexes(cl, {kind}) : TRUE
             u == More(parts, i, data)
  <2>1. q = Extend(cl, i, data)
    BY <1>4 DEF ReadText
  <2> HIDE DEF i
  <2>2. Became(q, u, cl.open, cl.started, cl.finish)
    BY <1>1, <2>1, ExtendBecame
  <2>3. Ranked(u, n)
    BY <1>1, RankedMore
  <2> QED
    BY <1>1, <2>2, <2>3 DEF Became, ChatHeard
<1> QED
  BY <1>2, <1>3, <1>4

\* A call of a chunk, when n calls are known: a new one, or more of a known one.
CallFits(n, k, m) ==
  \/ k.index = n /\ k.name # 0 /\ m = n + 1
  \/ k.index \in 0..(n - 1) /\ k.name = 0 /\ m = n

\* A chat client reads a call.
LEMMA ReadCallHeard ==
  ASSUME NEW cl, Client(cl), NEW n, ChatHeard(cl, n), NEW k, NEW m, CallFits(n, k, m)
  PROVE  Client(ReadCall(cl, k)) /\ ChatHeard(ReadCall(cl, k), m)
<1> DEFINE parts == cl.parts
           S == CallPlaces(parts)
           nth == {i \in S : Cardinality(Before(S, i)) = k.index}
           q == ReadCall(cl, k)
           t == Append(parts, Part("call", k.name, k.args))
<1>1. Listening(cl) /\ cl.finish = "none" /\ Ranked(parts, n)
  BY DEF ChatHeard
<1>2. n \in Nat /\ IsFiniteSet(S) /\ Cardinality(S) = n /\ IsParts(parts)
  BY <1>1 DEF Ranked
<1>3. q = IF nth # {} THEN Extend(cl, CHOOSE i \in nth : TRUE, k.args)
          ELSE Complain([cl EXCEPT !.parts = t], k.name = 0 \/ k.index # Cardinality(S))
  BY DEF ReadCall, Indexes, CallPlaces, Before
<1>4. CASE k.index = n /\ k.name # 0 /\ m = n + 1
  <2>1. S \subseteq Int
    BY <1>2, ListedIs DEF CallPlaces, IsParts
  <2>2. \A i \in S : Cardinality(Before(S, i)) < n /\ Cardinality(Before(S, i)) \in Nat
    BY <1>2, <2>1, BeforeFew
  <2>3. nth = {}
    BY <1>2, <1>4, <2>2
  <2>4. q = Complain([cl EXCEPT !.parts = t], k.name = 0 \/ k.index # Cardinality(S))
    BY <1>3, <2>3
  <2>8. Ranked(t, m)
    BY <1>1, <1>4, RankedCall
  <2>5. Became([cl EXCEPT !.parts = t], t, cl.open, cl.started, cl.finish)
    BY <1>1, <2>8, BecameIs DEF Ranked, IsParts
  <2>6. ~(k.name = 0 \/ k.index # Cardinality(S))
    BY <1>2, <1>4
  <2>7. Became(q, t, cl.open, cl.started, cl.finish)
    BY <2>4, <2>5, <2>6, BecameSo
  <2> QED
    BY <1>1, <2>7, <2>8 DEF Became, ChatHeard
<1>5. CASE k.index \in 0..(n - 1) /\ k.name = 0 /\ m = n
  <2>1. \E i \in S : Cardinality(Before(S, i)) = k.index
    BY <1>1, <1>5 DEF Ranked
  <2>2. nth # {}
    BY <2>1
  <2> DEFINE i == CHOOSE i \in nth : TRUE
             u == More(parts, i, k.args)
  <2>3. q = Extend(cl, i, k.args)
    BY <1>3, <2>2
  <2> HIDE DEF i
  <2>4. Became(q, u, cl.open, cl.started, cl.finish)
    BY <1>1, <2>3, ExtendBecame
  <2>5. Ranked(u, m)
    BY <1>1, <1>5, RankedMore
  <2> QED
    BY <1>1, <2>4, <2>5 DEF Became, ChatHeard
<1> QED
  BY <1>4, <1>5 DEF CallFits

\* The calls of a chunk are none or one.
LEMMA FewCalls ==
  ASSUME NEW x
  PROVE  /\ FoldLeft(ReadCall, x, <<>>) = x
         /\ \A k : FoldLeft(ReadCall, x, <<k>>) = ReadCall(x, k)
         /\ FoldLeft(CallInBlock, x, <<>>) = x
         /\ \A k : FoldLeft(CallInBlock, x, <<k>>) = CallInBlock(x, k)
         /\ FoldLeft(CallInItem, x, <<>>) = x
         /\ \A k : FoldLeft(CallInItem, x, <<k>>) = CallInItem(x, k)
<1> DEFINE s == <<>>
<1>1. s \in Seq({})
  OBVIOUS
<1>2. /\ Fold("call", 0, x, s) = x
      /\ Fold("block", 0, x, s) = x
      /\ Fold("item", 0, x, s) = x
  BY FoldNothing
<1>3. ASSUME NEW k
      PROVE  /\ FoldLeft(ReadCall, x, <<k>>) = ReadCall(x, k)
             /\ FoldLeft(CallInBlock, x, <<k>>) = CallInBlock(x, k)
             /\ FoldLeft(CallInItem, x, <<k>>) = CallInItem(x, k)
  <2> DEFINE t == Append(s, k)
  <2>1. t = <<k>>
    OBVIOUS
  <2> HIDE DEF s
  <2>2. s \in Seq({k})
    BY <1>1
  <2>3. t \in Seq({k})
    BY <2>2
  <2>4. /\ Fold("call", 0, x, t) = Applied("call", 0, Fold("call", 0, x, s), k)
        /\ Fold("block", 0, x, t) = Applied("block", 0, Fold("block", 0, x, s), k)
        /\ Fold("item", 0, x, t) = Applied("item", 0, Fold("item", 0, x, s), k)
    BY <2>2, FoldMore
  <2>5. /\ Applied("call", 0, x, k) = ReadCall(x, k)
        /\ Applied("block", 0, x, k) = CallInBlock(x, k)
        /\ Applied("item", 0, x, k) = CallInItem(x, k)
    BY DEF Applied
  <2> HIDE DEF t
  <2>6. /\ FoldLeft(ReadCall, x, t) = Fold("call", 0, x, t)
        /\ FoldLeft(CallInBlock, x, t) = Fold("block", 0, x, t)
        /\ FoldLeft(CallInItem, x, t) = Fold("item", 0, x, t)
    BY <2>3, CallFold, BlockFold, ItemFold
  <2> QED
    BY <1>2, <2>1, <2>4, <2>5, <2>6
<1>4. /\ FoldLeft(ReadCall, x, s) = x
      /\ FoldLeft(CallInBlock, x, s) = x
      /\ FoldLeft(CallInItem, x, s) = x
  <2> HIDE DEF s
  <2> QED
    BY <1>1, <1>2, CallFold, BlockFold, ItemFold
<1> QED
  BY <1>3, <1>4

\* A chunk with choices and at most one call, which fits n known calls.
Orderly(n, c, m) ==
  /\ c.type = "chunk" /\ c.choices = TRUE /\ n \in Nat /\ m \in Nat
  /\ \/ c.calls = <<>> /\ m = n
     \/ \E k : c.calls = <<k>> /\ CallFits(n, k, m)

\* What a chat client makes of the calls of a chunk.
LEMMA ReadCallsHeard ==
  ASSUME NEW cl, Client(cl), NEW n, ChatHeard(cl, n), NEW c, NEW m, Orderly(n, c, m)
  PROVE  /\ Client(FoldLeft(ReadCall, cl, c.calls))
         /\ ChatHeard(FoldLeft(ReadCall, cl, c.calls), m)
<1>1. CASE c.calls = <<>> /\ m = n
  BY <1>1, FewCalls
<1>2. ASSUME NEW k, c.calls = <<k>>, CallFits(n, k, m)
      PROVE  /\ Client(FoldLeft(ReadCall, cl, c.calls))
             /\ ChatHeard(FoldLeft(ReadCall, cl, c.calls), m)
  <2>1. FoldLeft(ReadCall, cl, c.calls) = ReadCall(cl, k)
    BY <1>2, FewCalls
  <2> QED
    BY <1>2, <2>1, ReadCallHeard
<1> QED
  BY <1>1, <1>2 DEF Orderly

\* A chat client reads a chunk.
LEMMA ReadChunkHeard ==
  ASSUME NEW cl, Client(cl), NEW n, ChatHeard(cl, n), NEW c, NEW m, Orderly(n, c, m)
  PROVE  /\ Client(Read("openai", cl, c)) /\ Listening(Read("openai", cl, c))
         /\ c.finish = "none" => ChatHeard(Read("openai", cl, c), m)
<1> DEFINE a == ReadText(cl, "text", c.text)
           b == ReadText(a, "think", c.think)
           d == FoldLeft(ReadCall, b, c.calls)
           v == IF c.finish = "none" THEN d.finish ELSE c.finish
           f == [d EXCEPT !.started = TRUE, !.finish = v]
           w == cl.ended > 0 \/ (cl.finish # "none"
                  /\ ((c.text # <<>> \/ c.think # <<>> \/ c.calls # <<>>) \/ c.finish # "none"))
           q == Read("openai", cl, c)
<1>1. Listening(cl) /\ cl.finish = "none"
  BY DEF ChatHeard
<1>2. Client(a) /\ ChatHeard(a, n)
  BY ReadTextHeard
<1> HIDE DEF a
<1>3. Client(b) /\ ChatHeard(b, n)
  BY <1>2, ReadTextHeard
<1> HIDE DEF b
<1>4. Client(d) /\ ChatHeard(d, m)
  BY <1>3, ReadCallsHeard
<1>5. q = Complain(f, w)
  <2>1. c.type # "[DONE]" /\ c.choices
    BY DEF Orderly
  <2>2. q = ReadChunk(cl, c)
    BY <1>1, <2>1, ReadsOn
  <2> QED
    BY <2>1, <2>2 DEF ReadChunk, a, b
<1> HIDE DEF d
<1>6. ~w
  BY <1>1 DEF Listening
<1>7. Listening(d) /\ d.finish = "none"
  BY <1>4 DEF ChatHeard
<1> HIDE DEF v, w
<1>8. Became(f, d.parts, d.open, TRUE, v)
  BY <1>4, <1>7, BecamePairs
<1> HIDE DEF f, q
<1>9. Became(q, d.parts, d.open, TRUE, v)
  BY <1>5, <1>6, <1>8, BecameSo
<1>10. ASSUME c.finish = "none" PROVE ChatHeard(q, m)
  <2>1. v = "none"
    BY <1>7, <1>10 DEF v
  <2> QED
    BY <1>4, <1>9, <2>1 DEF Became, ChatHeard
<1> QED
  BY <1>9, <1>10 DEF Became, q

\* A client that has seen an end, and nothing wrong.
Content(d) == Client(d) /\ d.bad = FALSE

\* A messages client reads what fits: the message begins,
LEMMA ReadStart ==
  ASSUME NEW cl, Client(cl), Listening(cl), NEW e, e.type = "message_start", cl.started = FALSE
  PROVE  Became(Read("anthropic", cl, e), cl.parts, cl.open, TRUE, cl.finish)
<1>1. Read("anthropic", cl, e) = Complain([cl EXCEPT !.started = TRUE], cl.started)
  BY ReadsOn DEF ReadMessages
<1>2. Became([cl EXCEPT !.started = TRUE], cl.parts, cl.open, TRUE, cl.finish)
  BY BecameIs
<1> QED
  BY <1>1, <1>2, BecameSo

\* a block begins,
LEMMA ReadBlock ==
  ASSUME NEW cl, Client(cl), Listening(cl), NEW e, e.type = "block_start",
         cl.started = TRUE, cl.open = {}, e.index = Len(cl.parts), cl.finish = "none"
  PROVE  Became(Read("anthropic", cl, e), Append(cl.parts, Part(e.kind, e.name, e.data)),
                {Len(cl.parts) + 1}, TRUE, "none")
<1> DEFINE d == [cl EXCEPT !.parts = Append(@, Part(e.kind, e.name, e.data)),
                           !.open = {Len(cl.parts) + 1}]
           w == ~cl.started \/ cl.open # {} \/ e.index # Len(cl.parts) \/ cl.finish # "none"
<1>1. Read("anthropic", cl, e) = Complain(d, w)
  BY ReadsOn DEF ReadMessages
<1>2. Became(d, Append(cl.parts, Part(e.kind, e.name, e.data)), {Len(cl.parts) + 1},
             cl.started, cl.finish)
  BY BecamePairs, Appended DEF Client
<1>3. ~w
  OBVIOUS
<1> HIDE DEF d, w
<1> QED
  BY <1>1, <1>2, <1>3, BecameSo

\* goes on
LEMMA ReadDelta ==
  ASSUME NEW cl, Client(cl), Listening(cl), NEW e, e.type = "block_delta",
         e.index + 1 \in cl.open, cl.parts[e.index + 1].kind = e.kind
  PROVE  Became(Read("anthropic", cl, e), More(cl.parts, e.index + 1, e.data), cl.open,
                cl.started, cl.finish)
<1> DEFINE d == Extend(cl, e.index + 1, e.data)
           w == cl.parts[e.index + 1].kind # e.kind
<1>1. Read("anthropic", cl, e) = Complain(d, w)
  BY ReadsOn DEF ReadMessages
<1>2. Became(d, More(cl.parts, e.index + 1, e.data), cl.open, cl.started, cl.finish)
  BY ExtendBecame
<1>3. ~w
  OBVIOUS
<1> HIDE DEF d, w
<1> QED
  BY <1>1, <1>2, <1>3, BecameSo

\* and ends,
LEMMA ReadBlockStop ==
  ASSUME NEW cl, Client(cl), Listening(cl), NEW e, e.type = "block_stop",
         cl.open = {e.index + 1}
  PROVE  Became(Read("anthropic", cl, e), cl.parts, {}, cl.started, cl.finish)
<1> DEFINE d == [cl EXCEPT !.open = {}]
           w == cl.open # {e.index + 1}
<1>1. Read("anthropic", cl, e) = Complain(d, w)
  BY ReadsOn DEF ReadMessages
<1>2. Became(d, cl.parts, {}, cl.started, cl.finish)
  BY BecameIs
<1>3. ~w
  OBVIOUS
<1> HIDE DEF d, w
<1> QED
  BY <1>1, <1>2, <1>3, BecameSo

\* the reason to finish comes
LEMMA ReadFinish ==
  ASSUME NEW cl, Client(cl), Listening(cl), NEW e, e.type = "message_delta",
         cl.open = {}, cl.finish = "none"
  PROVE  Became(Read("anthropic", cl, e), cl.parts, cl.open, cl.started, e.finish)
<1> DEFINE d == [cl EXCEPT !.finish = e.finish]
           w == cl.open # {} \/ cl.finish # "none"
<1>1. Read("anthropic", cl, e) = Complain(d, w)
  BY ReadsOn DEF ReadMessages
<1>2. Became(d, cl.parts, cl.open, cl.started, e.finish)
  BY BecameIs
<1>3. ~w
  OBVIOUS
<1> HIDE DEF d, w
<1> QED
  BY <1>1, <1>2, <1>3, BecameSo

\* and the end, or an error.
LEMMA ReadStop ==
  ASSUME NEW cl, Client(cl), Listening(cl), NEW e,
         (e.type = "message_stop" /\ cl.finish # "none") \/ e.type = "error"
  PROVE  Content(Read("anthropic", cl, e))
<1> DEFINE d == [cl EXCEPT !.ended = @ + 1]
<1>1. Content(d)
  <2>1. d.bad = FALSE
    BY DEF Listening, Client
  <2> QED
    BY <2>1, EndedMore DEF Content
<1>2. CASE e.type = "message_stop" /\ cl.finish # "none"
  <2>1. Read("anthropic", cl, e) = Complain(d, cl.finish = "none")
    <3>1. Read("anthropic", cl, e) = ReadMessages(cl, e)
      BY <1>2, ReadsOn
    <3>2. ReadMessages(cl, e) = Complain(d, cl.finish = "none")
      BY <1>2 DEF ReadMessages
    <3> QED
      BY <3>1, <3>2
  <2> HIDE DEF d
  <2>2. Complain(d, cl.finish = "none") = d
    BY <1>1, <1>2, NoComplaint DEF Content
  <2> QED
    BY <1>1, <2>1, <2>2
<1>3. CASE e.type = "error"
  <2>1. Read("anthropic", cl, e) = d
    BY <1>3, ReadsOn DEF ReadMessages
  <2> QED
    BY <1>1, <2>1
<1> QED
  BY <1>2, <1>3

------------------------------------------------------------------------------
(* The messages emitter and its client *)

\* The client, when it has read what the emitter has written so far.
Reading(en, cl, r) == Fold("read", en, cl, r.out)

Blocks(cl, r) == InBlocks(r.st, Reading("anthropic", cl, r))

\* What is written is read next.
LEMMA ReadNext ==
  ASSUME NEW en, NEW cl, NEW r, r = [st |-> r.st, out |-> r.out], Listed(r.out), NEW e
  PROVE  /\ Reading(en, cl, Write(r, e)) = Read(en, Reading(en, cl, r), e)
         /\ Write(r, e).st = r.st
         /\ Write(r, e).out = Append(r.out, e)
<1>1. Write(r, e) = [st |-> r.st, out |-> Append(r.out, e)]
  BY DEF Write
<1>2. PICK X : r.out \in Seq(X)
  BY DEF Listed
<1>3. Fold("read", en, cl, Append(r.out, e))
        = Applied("read", en, Fold("read", en, cl, r.out), e)
  BY <1>2, FoldMore
<1> QED
  BY <1>1, <1>3 DEF Reading, Applied

\* q has written what r has, and is in this state.
StateIs(r, q, started, blockIndex, curKind) ==
  /\ q.out = r.out /\ q.st.started = started /\ q.st.blockIndex = blockIndex
  /\ q.st.curKind = curKind /\ q.st.finish = r.st.finish

\* The emitter's state with one of its fields changed.
LEMMA EmitterState ==
  ASSUME NEW sent, NEW r, Writing(r, sent)
  PROVE  \A v :
           /\ StateIs(r, [r EXCEPT !.st.started = v], v, r.st.blockIndex, r.st.curKind)
           /\ StateIs(r, [r EXCEPT !.st.blockIndex = v], r.st.started, v, r.st.curKind)
           /\ StateIs(r, [r EXCEPT !.st.curKind = v], r.st.started, r.st.blockIndex, v)
           /\ StateIs(r, [r EXCEPT !.st.sent = v], r.st.started, r.st.blockIndex, r.st.curKind)
<1> TAKE v
<1>1. r = [st |-> r.st, out |-> r.out]
  BY DEF Writing
<1>2. r.st = [started |-> r.st.started, blockIndex |-> r.st.blockIndex,
              curKind |-> r.st.curKind, finish |-> r.st.finish, sent |-> r.st.sent,
              usage |-> r.st.usage]
  BY DEF Writing, MessagesOut
<1>3. StateIs(r, [r EXCEPT !.st.started = v], v, r.st.blockIndex, r.st.curKind)
  <2>1. [r EXCEPT !.st.started = v] = [st |-> [r.st EXCEPT !.started = v], out |-> r.out]
    BY <1>1
  <2> QED
    BY <1>2, <2>1 DEF StateIs
<1>4. StateIs(r, [r EXCEPT !.st.blockIndex = v], r.st.started, v, r.st.curKind)
  <2>1. [r EXCEPT !.st.blockIndex = v] = [st |-> [r.st EXCEPT !.blockIndex = v], out |-> r.out]
    BY <1>1
  <2> QED
    BY <1>2, <2>1 DEF StateIs
<1>5. StateIs(r, [r EXCEPT !.st.curKind = v], r.st.started, r.st.blockIndex, v)
  <2>1. [r EXCEPT !.st.curKind = v] = [st |-> [r.st EXCEPT !.curKind = v], out |-> r.out]
    BY <1>1
  <2> QED
    BY <1>2, <2>1 DEF StateIs
<1>6. StateIs(r, [r EXCEPT !.st.sent = v], r.st.started, r.st.blockIndex, r.st.curKind)
  <2>1. [r EXCEPT !.st.sent = v] = [st |-> [r.st EXCEPT !.sent = v], out |-> r.out]
    BY <1>1
  <2> QED
    BY <1>2, <2>1 DEF StateIs
<1> QED
  BY <1>3, <1>4, <1>5, <1>6

\* A message that has begun, its client following.
Busy(cl, sent, r) == Writing(r, sent) /\ Blocks(cl, r) /\ r.st.started = TRUE

\* A client that follows is one that goes on.
LEMMA BlocksClient ==
  ASSUME NEW cl, Client(cl), NEW sent, NEW r, Writing(r, sent), Blocks(cl, r)
  PROVE  /\ Client(Reading("anthropic", cl, r)) /\ Listening(Reading("anthropic", cl, r))
         /\ Reading("anthropic", cl, r).finish = "none"
         /\ IsParts(Reading("anthropic", cl, r).parts) /\ r.st.blockIndex \in Nat
         /\ r = [st |-> r.st, out |-> r.out] /\ Listed(r.out)
<1>1. Quiet("anthropic", r.out) /\ r = [st |-> r.st, out |-> r.out]
  BY DEF Writing
<1>2. Client(Reading("anthropic", cl, r))
  BY <1>1, ReadQuiet DEF Reading, Same
<1> QED
  BY <1>1, <1>2 DEF Blocks, InBlocks, Quiet

\* The message begins once.
LEMMA BlocksStart ==
  ASSUME NEW cl, Client(cl), NEW sent, NEW r, Writing(r, sent), Blocks(cl, r)
  PROVE  Busy(cl, sent, MessageStart(r)) /\ MessageStart(r).st.curKind = r.st.curKind
<1> DEFINE d == Reading("anthropic", cl, r)
           q == [r EXCEPT !.st.started = TRUE]
           e == [Event("message_start") EXCEPT !.usage.prompt = r.st.usage.prompt]
<1>1. Writing(MessageStart(r), sent)
  BY MessagesSteps
<1>2. CASE r.st.started = TRUE
  BY <1>1, <1>2 DEF MessageStart, Busy
<1>3. CASE r.st.started # TRUE
  <2>1. r.st.started = FALSE /\ d.started = FALSE /\ r.st.curKind = "none" /\ d.open = {}
        /\ Len(d.parts) = r.st.blockIndex
    BY <1>3 DEF Blocks, InBlocks
  <2>2. Client(d) /\ Listening(d) /\ d.finish = "none" /\ IsParts(d.parts) /\ r.st.blockIndex \in Nat
    BY BlocksClient
  <2>3. Writing(q, sent)
    BY WritingState
  <2>4. StateIs(r, q, TRUE, r.st.blockIndex, r.st.curKind)
    BY EmitterState
  <2>5. MessageStart(r) = Write(q, e)
    BY <2>1 DEF MessageStart
  <2>6. e.type = "message_start"
    BY DEF Event
  <2> HIDE DEF q, e
  <2>7. q = [st |-> q.st, out |-> q.out] /\ Listed(q.out)
    BY <2>3 DEF Writing, Quiet
  <2>8. /\ Reading("anthropic", cl, Write(q, e)) = Read("anthropic", Reading("anthropic", cl, q), e)
        /\ Write(q, e).st = q.st
    BY <2>7, ReadNext
  <2>9. Reading("anthropic", cl, q) = d
    BY <2>4 DEF Reading, StateIs
  <2> HIDE DEF d
  <2>10. Became(Read("anthropic", d, e), d.parts, d.open, TRUE, d.finish)
    BY <2>1, <2>2, <2>6, ReadStart
  <2>11. Blocks(cl, Write(q, e)) /\ q.st.started = TRUE /\ q.st.curKind = r.st.curKind
    BY <2>1, <2>2, <2>4, <2>8, <2>9, <2>10 DEF Blocks, InBlocks, Became, StateIs
  <2> QED
    BY <1>1, <2>5, <2>8, <2>11 DEF Busy
<1> QED
  BY <1>2, <1>3

\* The block under way ends.
LEMMA BlocksClose ==
  ASSUME NEW cl, Client(cl), NEW sent, NEW r, Busy(cl, sent, r)
  PROVE  Busy(cl, sent, CloseBlock(r)) /\ CloseBlock(r).st.curKind = "none"
<1> DEFINE d == Reading("anthropic", cl, r)
           i == r.st.blockIndex
           a == [r EXCEPT !.st.curKind = "none"]
           q == [r EXCEPT !.st.curKind = "none", !.st.blockIndex = @ + 1]
           e == [Event("block_stop") EXCEPT !.index = i]
<1>1. Writing(r, sent) /\ Blocks(cl, r) /\ r.st.started = TRUE
  BY DEF Busy
<1>2. Writing(CloseBlock(r), sent)
  BY <1>1, MessagesSteps
<1>5. r.st.finish # "none"
  BY <1>1 DEF Blocks, InBlocks
<1>3. CASE r.st.curKind = "none"
  BY <1>1, <1>3 DEF CloseBlock, Busy
<1>4. CASE r.st.curKind # "none"
  <2>1. d.started = TRUE /\ d.open = {i + 1} /\ Len(d.parts) = i + 1
    BY <1>1, <1>4 DEF Blocks, InBlocks
  <2>2. Client(d) /\ Listening(d) /\ d.finish = "none" /\ IsParts(d.parts) /\ i \in Nat
    BY <1>1, BlocksClient
  <2>3. Writing(a, sent) /\ StateIs(r, a, TRUE, i, "none")
    BY <1>1, WritingState, EmitterState
  <2>4. q = [a EXCEPT !.st.blockIndex = @ + 1]
    OBVIOUS
  <2>5. CloseBlock(r) = Write(q, e)
    BY <1>4 DEF CloseBlock
  <2> HIDE DEF a
  <2>6. q = [a EXCEPT !.st.blockIndex = i + 1]
    BY <2>3, <2>4 DEF StateIs
  <2> HIDE DEF q
  <2>7. Writing(q, sent) /\ StateIs(a, q, TRUE, i + 1, "none")
    <3>1. Writing(q, sent)
      BY <2>3, <2>6, WritingState
    <3>2. StateIs(a, [a EXCEPT !.st.blockIndex = i + 1], a.st.started, i + 1, a.st.curKind)
      BY <2>3, EmitterState
    <3> QED
      BY <2>3, <2>6, <3>1, <3>2 DEF StateIs
  <2>8. e.type = "block_stop" /\ e.index = i
    BY DEF Event
  <2> HIDE DEF e
  <2>9. q = [st |-> q.st, out |-> q.out] /\ Listed(q.out)
    BY <2>7 DEF Writing, Quiet
  <2>10. /\ Reading("anthropic", cl, Write(q, e)) = Read("anthropic", Reading("anthropic", cl, q), e)
         /\ Write(q, e).st = q.st
    BY <2>9, ReadNext
  <2>11. Reading("anthropic", cl, q) = d
    BY <2>3, <2>7 DEF Reading, StateIs
  <2> HIDE DEF d, i
  <2>12. Became(Read("anthropic", d, e), d.parts, {}, d.started, d.finish)
    BY <2>1, <2>2, <2>8, ReadBlockStop
  <2>13. i + 1 \in Nat
    BY <2>2
  <2>14. Blocks(cl, Write(q, e)) /\ q.st.started = TRUE /\ q.st.curKind = "none"
    BY <1>5, <2>1, <2>2, <2>3, <2>7, <2>10, <2>11, <2>12, <2>13 DEF Blocks, InBlocks, Became, StateIs
  <2> QED
    BY <1>2, <2>5, <2>10, <2>14 DEF Busy
<1> QED
  BY <1>3, <1>4

\* A block begins when the one before has ended.
LEMMA BlocksOpen ==
  ASSUME NEW cl, Client(cl), NEW sent, NEW r, Busy(cl, sent, r), NEW kind, kind # "none", NEW name
  PROVE  Busy(cl, sent, OpenBlock(r, kind, name)) /\ OpenBlock(r, kind, name).st.curKind = kind
<1> DEFINE a == CloseBlock(r)
           d == Reading("anthropic", cl, a)
           i == a.st.blockIndex
           q == [a EXCEPT !.st.curKind = kind]
           e == [Event("block_start") EXCEPT !.index = i, !.kind = kind, !.name = name]
           t == Append(d.parts, Part(kind, name, <<>>))
<1>1. Busy(cl, sent, a) /\ a.st.curKind = "none"
  BY BlocksClose
<1>2. OpenBlock(r, kind, name) = Write(q, e)
  BY DEF OpenBlock
<1>3. Writing(Write(q, e), sent)
  <2>1. Writing(OpenBlock(r, kind, name), sent)
    BY MessagesSteps DEF Busy
  <2> QED
    BY <1>2, <2>1
<1> HIDE DEF a
<1>4. Writing(a, sent) /\ Blocks(cl, a) /\ a.st.started = TRUE
  BY <1>1 DEF Busy
<1>5. d.started = TRUE /\ d.open = {} /\ Len(d.parts) = i /\ a.st.finish # "none"
  BY <1>1, <1>4 DEF Blocks, InBlocks
<1>6. Client(d) /\ Listening(d) /\ d.finish = "none" /\ IsParts(d.parts) /\ i \in Nat
  BY <1>4, BlocksClient
<1>7. Writing(q, sent)
  BY <1>4, WritingState
<1>8. StateIs(a, q, TRUE, i, kind)
  <2>1. StateIs(a, q, a.st.started, i, kind)
    BY <1>4, EmitterState
  <2> QED
    BY <1>4, <2>1
<1>9. e.type = "block_start" /\ e.index = i /\ e.kind = kind /\ e.name = name /\ e.data = <<>>
  BY DEF Event
<1> HIDE DEF q, e
<1>10. q = [st |-> q.st, out |-> q.out] /\ Listed(q.out)
  BY <1>7 DEF Writing, Quiet
<1>11. /\ Reading("anthropic", cl, Write(q, e)) = Read("anthropic", Reading("anthropic", cl, q), e)
       /\ Write(q, e).st = q.st
  BY <1>10, ReadNext
<1>12. Reading("anthropic", cl, q) = d
  BY <1>8 DEF Reading, StateIs
<1> HIDE DEF d, i
<1>13. Became(Read("anthropic", d, e), t, {i + 1}, TRUE, "none")
  <2>1. Became(Read("anthropic", d, e), Append(d.parts, Part(e.kind, e.name, e.data)),
               {Len(d.parts) + 1}, TRUE, "none")
    BY <1>5, <1>6, <1>9, ReadBlock
  <2> QED
    BY <1>5, <1>9, <2>1
<1>14. IsParts(t) /\ Len(t) = i + 1 /\ t[i + 1].kind = kind
  <2>1. IsParts(t) /\ Len(t) = Len(d.parts) + 1 /\ t[Len(d.parts) + 1].kind = kind
    BY <1>6, PartsMore
  <2> QED
    BY <1>5, <2>1
<1> HIDE DEF t
<1>15. Blocks(cl, Write(q, e)) /\ q.st.started = TRUE /\ q.st.curKind = kind
  BY <1>5, <1>6, <1>8, <1>11, <1>12, <1>13, <1>14 DEF Blocks, InBlocks, Became, StateIs
<1> QED
  BY <1>2, <1>3, <1>11, <1>15 DEF Busy

\* More of the block under way.
LEMMA BlocksDelta ==
  ASSUME NEW cl, Client(cl), NEW sent, NEW r, Busy(cl, sent, r), NEW kind, kind # "none",
         r.st.curKind = kind, NEW data
  PROVE  Busy(cl, sent, BlockDelta(r, kind, data)) /\ BlockDelta(r, kind, data).st.curKind = kind
<1> DEFINE d == Reading("anthropic", cl, r)
           i == r.st.blockIndex
           e == [Event("block_delta") EXCEPT !.index = i, !.kind = kind, !.data = data]
           t == More(d.parts, i + 1, data)
<1>1. Writing(r, sent) /\ Blocks(cl, r) /\ r.st.started = TRUE
  BY DEF Busy
<1>2. BlockDelta(r, kind, data) = Write(r, e)
  BY DEF BlockDelta
<1>3. Writing(Write(r, e), sent)
  BY <1>1, <1>2, MessagesSteps
<1>4. d.started = TRUE /\ d.open = {i + 1} /\ Len(d.parts) = i + 1 /\ d.parts[i + 1].kind = kind
  BY <1>1 DEF Blocks, InBlocks
<1>5. Client(d) /\ Listening(d) /\ d.finish = "none" /\ IsParts(d.parts) /\ i \in Nat
  BY <1>1, BlocksClient
<1>6. r = [st |-> r.st, out |-> r.out] /\ Listed(r.out)
  BY <1>1, BlocksClient
<1>7. e.type = "block_delta" /\ e.index = i /\ e.kind = kind /\ e.data = data
  BY DEF Event
<1> HIDE DEF e
<1>8. /\ Reading("anthropic", cl, Write(r, e)) = Read("anthropic", d, e)
      /\ Write(r, e).st = r.st
  BY <1>6, ReadNext
<1> HIDE DEF d
<1>9. Became(Read("anthropic", d, e), t, {i + 1}, TRUE, "none")
  <2>1. e.index + 1 \in d.open /\ d.parts[e.index + 1].kind = e.kind
    BY <1>4, <1>7
  <2>2. Became(Read("anthropic", d, e), More(d.parts, e.index + 1, e.data), d.open, d.started,
               d.finish)
    BY <1>5, <1>7, <2>1, ReadDelta
  <2> QED
    BY <1>4, <1>5, <1>7, <2>2
<1>10. i + 1 \in DOMAIN d.parts
  <2>1. DOMAIN d.parts = 1..Len(d.parts)
    BY <1>5, ListedIs DEF IsParts
  <2> QED
    BY <1>4, <1>5, <2>1
<1>11. IsParts(t) /\ Len(t) = i + 1 /\ t[i + 1].kind = kind
  BY <1>4, <1>5, <1>10, PartsExtended
<1> HIDE DEF t, i
<1>12. r.st.blockIndex = i
  BY DEF i
<1>13. Blocks(cl, Write(r, e))
  BY <1>1, <1>5, <1>8, <1>9, <1>11, <1>12 DEF Blocks, InBlocks, Became
<1> QED
  BY <1>1, <1>2, <1>3, <1>8, <1>13 DEF Busy

\* What an emitter has written is a sequence.
LEMMA EmittedListed ==
  ASSUME NEW en, NEW sent, NEW r, Emits(en, sent, r)
  PROVE  Listed(r.out)
<1>1. Quiet(en, r.out) => Listed(r.out)
  BY DEF Quiet
<1>2. Ending(en, r.out) => Listed(r.out)
  BY Appended DEF Ending, Quiet
<1> QED
  BY <1>1, <1>2 DEF Emits

\* Text and reasoning go to a block of their kind,
LEMMA BlocksSay ==
  ASSUME NEW cl, Client(cl), NEW sent, NEW r, Busy(cl, sent, r), NEW kind, kind # "none", NEW data
  PROVE  /\ Busy(cl, sent, SayInBlock(r, kind, data))
         /\ data = <<>> => SayInBlock(r, kind, data) = r
<1> DEFINE q == IF r.st.curKind = kind THEN r ELSE OpenBlock(r, kind, 0)
<1>1. Busy(cl, sent, q) /\ q.st.curKind = kind
  BY BlocksOpen
<1>2. SayInBlock(r, kind, data) = IF data = <<>> THEN r ELSE BlockDelta(q, kind, data)
  BY DEF SayInBlock
<1> HIDE DEF q
<1>3. Busy(cl, sent, BlockDelta(q, kind, data))
  BY <1>1, BlocksDelta
<1> QED
  BY <1>2, <1>3

\* a call to a new one or the one it is in.
LEMMA BlocksCall ==
  ASSUME NEW cl, Client(cl), NEW sent, NEW r, Busy(cl, sent, r), NEW k,
         k.name = 0 => r.st.curKind = "call"
  PROVE  Busy(cl, sent, CallInBlock(r, k)) /\ CallInBlock(r, k).st.curKind = "call"
<1> DEFINE q == IF k.name # 0 THEN OpenBlock(r, "call", k.name) ELSE r
<1>1. Busy(cl, sent, q) /\ q.st.curKind = "call"
  BY BlocksOpen
<1>2. CallInBlock(r, k) = IF k.args = <<>> THEN q ELSE BlockDelta(q, "call", k.args)
  BY DEF CallInBlock
<1> HIDE DEF q
<1>3. Busy(cl, sent, BlockDelta(q, "call", k.args))
      /\ BlockDelta(q, "call", k.args).st.curKind = "call"
  BY <1>1, BlocksDelta
<1> QED
  BY <1>1, <1>2, <1>3

\* However far the message has come, finishing it completes it for the client.
LEMMA BlocksFinish ==
  ASSUME NEW cl, Client(cl), NEW r, Writing(r, FALSE), Blocks(cl, r)
  PROVE  /\ Content(Reading("anthropic", cl, FinishMessages(r)))
         /\ FinishMessages(r).st.sent = TRUE
<1> DEFINE a == [r EXCEPT !.st.sent = TRUE]
           b == MessageStart(a)
           q == CloseBlock(b)
           e == [Event("message_delta") EXCEPT !.finish = q.st.finish, !.usage = q.st.usage]
           f == Write(q, e)
           g == Event("message_stop")
           d == Reading("anthropic", cl, q)
<1>1. Writing(a, TRUE)
  BY WritingState
<1>2. StateIs(r, a, r.st.started, r.st.blockIndex, r.st.curKind)
  BY EmitterState
<1>3. FinishMessages(r) = Write(f, g)
  BY DEF FinishMessages, Writing
<1> HIDE DEF a
<1>4. Blocks(cl, a)
  <2>1. Reading("anthropic", cl, a) = Reading("anthropic", cl, r)
    BY <1>2 DEF StateIs, Reading
  <2> QED
    BY <1>2, <2>1 DEF Blocks, InBlocks, StateIs
<1>5. Busy(cl, TRUE, b)
  BY <1>1, <1>4, BlocksStart
<1> HIDE DEF b
<1>6. Busy(cl, TRUE, q) /\ q.st.curKind = "none"
  BY <1>5, BlocksClose
<1> HIDE DEF q
<1>7. Writing(q, TRUE) /\ Blocks(cl, q)
  BY <1>6 DEF Busy
<1>8. Client(d) /\ Listening(d) /\ d.finish = "none" /\ q = [st |-> q.st, out |-> q.out]
      /\ Listed(q.out)
  BY <1>7, BlocksClient
<1>9. d.open = {} /\ q.st.finish # "none"
  BY <1>6, <1>7 DEF Blocks, InBlocks
<1>10. e.type = "message_delta" /\ e.finish = q.st.finish /\ g.type = "message_stop"
  BY DEF Event
<1> HIDE DEF e, g
<1>11. /\ Reading("anthropic", cl, f) = Read("anthropic", d, e) /\ f.st = q.st
       /\ f.out = Append(q.out, e)
  BY <1>8, ReadNext
<1>12. f = [st |-> f.st, out |-> f.out] /\ Listed(f.out)
  <2>1. Listed(Append(q.out, e))
    BY <1>8, Appended
  <2> QED
    BY <1>8, <1>11, <2>1 DEF Write
<1> HIDE DEF d
<1>13. Became(Read("anthropic", d, e), d.parts, d.open, d.started, e.finish)
  BY <1>8, <1>9, <1>10, ReadFinish
<1> HIDE DEF f
<1>14. /\ Reading("anthropic", cl, Write(f, g)) = Read("anthropic", Reading("anthropic", cl, f), g)
       /\ Write(f, g).st = f.st
  BY <1>12, ReadNext
<1>15. Content(Read("anthropic", Reading("anthropic", cl, f), g))
  <2> DEFINE u == Reading("anthropic", cl, f)
  <2>1. Client(u) /\ Listening(u) /\ u.finish # "none"
    BY <1>9, <1>10, <1>11, <1>13 DEF Became
  <2> HIDE DEF u
  <2>2. Content(Read("anthropic", u, g))
    BY <1>10, <2>1, ReadStop
  <2> QED
    BY <2>2 DEF u
<1>16. q.st.sent = TRUE
  BY <1>7 DEF Writing
<1> QED
  BY <1>3, <1>11, <1>14, <1>15, <1>16

\* What FeedMessages makes of a chunk: all followed by the client, or all of the end.
Followed(cl, c, r) ==
  /\ c.finish = "none" =>
       InBlocks(r.st, ReadAll("anthropic", cl, r.out)) /\ r.st.sent = FALSE
  /\ c.finish = "none" /\ c.calls # <<>> => r.st.curKind = "call"
  /\ c.finish # "none" => Content(ReadAll("anthropic", cl, r.out)) /\ r.st.sent = TRUE

\* A chunk says text and reasoning or a call; more of a call comes while it is under way.
Single(kind, c) ==
  /\ c.calls # <<>> => c.text = <<>> /\ c.think = <<>>
  /\ \A k : c.calls = <<k>> /\ k.name = 0 => kind = "call"

\* A chunk on its way to a messages client: what the emitter writes fits the block the
\* client has open, up to the end of the message.
LEMMA FeedMessagesHeard ==
  ASSUME NEW cl, Client(cl), NEW st, MessagesOut(st), st.sent = FALSE, InBlocks(st, cl),
         NEW n, NEW c, NEW m, Orderly(n, c, m), Single(st.curKind, c)
  PROVE  Followed(cl, c, FeedMessages(st, c))
<1> DEFINE noted == Noted(st, c)
           r == [st |-> noted, out |-> <<>>]
           a == MessageStart(r)
           b == SayInBlock(a, "text", c.text)
           d == SayInBlock(b, "think", c.think)
           f == FoldLeft(CallInBlock, d, c.calls)
<1>1. c.choices = TRUE
  BY DEF Orderly
<1>2. FeedMessages(st, c) = IF c.finish # "none" THEN FinishMessages(f) ELSE f
  BY <1>1 DEF FeedMessages
<1>3. /\ MessagesOut(noted) /\ noted.sent = FALSE
      /\ noted.started = st.started /\ noted.blockIndex = st.blockIndex
      /\ noted.curKind = st.curKind /\ (st.finish # "none" => noted.finish # "none")
  <2> DEFINE u == IF c.usage = NoUsage THEN st ELSE [st EXCEPT !.usage = c.usage]
  <2>1. /\ MessagesOut(u) /\ u.sent = FALSE
        /\ u.started = st.started /\ u.blockIndex = st.blockIndex
        /\ u.curKind = st.curKind /\ u.finish = st.finish
    BY DEF MessagesOut
  <2>2. noted = IF c.choices /\ c.finish # "none" THEN [u EXCEPT !.finish = c.finish] ELSE u
    BY DEF Noted
  <2> HIDE DEF u, noted
  <2>3. CASE c.finish = "none"
    BY <2>1, <2>2, <2>3
  <2>4. CASE c.finish # "none"
    <3>1. noted = [u EXCEPT !.finish = c.finish]
      BY <1>1, <2>2, <2>4
    <3> QED
      BY <2>1, <2>4, <3>1 DEF MessagesOut
  <2> QED
    BY <2>3, <2>4
<1> HIDE DEF noted
<1>4. Writing(r, FALSE) /\ r.st = noted
  BY <1>3, QuietNothing, WritingIs
<1>5. Blocks(cl, r)
  <2>1. Reading("anthropic", cl, r) = cl
    BY FoldNothing DEF Reading
  <2>2. InBlocks(noted, cl)
    BY <1>3 DEF InBlocks
  <2> QED
    BY <2>1, <2>2 DEF Blocks
<1> HIDE DEF r
<1>6. Busy(cl, FALSE, a) /\ a.st.curKind = st.curKind
  BY <1>3, <1>4, <1>5, BlocksStart
<1> HIDE DEF a
<1>7. Busy(cl, FALSE, b) /\ (c.text = <<>> => b = a)
  BY <1>6, BlocksSay
<1> HIDE DEF b
<1>8. Busy(cl, FALSE, d) /\ (c.think = <<>> => d = b)
  BY <1>7, BlocksSay
<1> HIDE DEF d
<1>9. Busy(cl, FALSE, f) /\ (c.calls # <<>> => f.st.curKind = "call")
  <2>1. CASE c.calls = <<>>
    <3>1. f = d
      BY <2>1, FewCalls
    <3> QED
      BY <1>8, <2>1, <3>1
  <2>2. ASSUME NEW k, c.calls = <<k>> PROVE Busy(cl, FALSE, f) /\ f.st.curKind = "call"
    <3>1. f = CallInBlock(d, k)
      BY <2>2, FewCalls
    <3>2. <<k>> # <<>>
      OBVIOUS
    <3>3. k.name = 0 => d.st.curKind = "call"
      BY <1>6, <1>7, <1>8, <2>2, <3>2 DEF Single
    <3>4. Busy(cl, FALSE, CallInBlock(d, k)) /\ CallInBlock(d, k).st.curKind = "call"
      BY <1>8, <3>3, BlocksCall
    <3> QED
      BY <3>1, <3>4
  <2> QED
    BY <2>1, <2>2 DEF Orderly
<1> HIDE DEF f
<1>10. Writing(f, FALSE) /\ Blocks(cl, f)
  BY <1>9 DEF Busy
<1>11. CASE c.finish = "none"
  <2>1. FeedMessages(st, c) = f
    BY <1>2, <1>11
  <2>2. ReadAll("anthropic", cl, f.out) = Reading("anthropic", cl, f)
    <3>1. PICK X : f.out \in Seq(X)
      BY <1>10 DEF Writing, Quiet, Listed
    <3> QED
      BY <3>1, ReadFold DEF Reading
  <2>3. InBlocks(f.st, ReadAll("anthropic", cl, f.out)) /\ f.st.sent = FALSE
    BY <1>10, <2>2 DEF Blocks, Writing
  <2> QED
    BY <1>9, <1>11, <2>1, <2>3 DEF Followed
<1>12. CASE c.finish # "none"
  <2> DEFINE g == FinishMessages(f)
  <2>1. FeedMessages(st, c) = g
    BY <1>2, <1>12
  <2>2. Content(Reading("anthropic", cl, g)) /\ g.st.sent = TRUE
    BY <1>10, BlocksFinish
  <2>3. Listed(g.out)
    <3>1. Emits("anthropic", FALSE, g)
      BY <1>10, FinishMessagesEmits
    <3> QED
      BY <3>1, EmittedListed
  <2> HIDE DEF g
  <2>4. ReadAll("anthropic", cl, g.out) = Reading("anthropic", cl, g)
    <3>1. PICK X : g.out \in Seq(X)
      BY <2>3 DEF Listed
    <3> QED
      BY <3>1, ReadFold DEF Reading
  <2> QED
    BY <1>12, <2>1, <2>2, <2>4 DEF Followed
<1> QED
  BY <1>11, <1>12
=============================================================================
