---------------------------- MODULE Accounts_proofs ----------------------------
(***************************************************************************)
(* Theorems about Accounts for every set of requests, identities, codes    *)
(* and founders and every bound: an administrator remains, identities and  *)
(* disablings are kept, and every invitation lets in one user.             *)
(***************************************************************************)
EXTENDS Accounts, TLAPS, FiniteSetTheorems, NaturalsInduction, WellFoundedInduction

\* What a row and a request are made of.
IsRow(t) ==
  t \in [email : {t.email}, role : {t.role}, status : {t.status}, pass : {t.pass},
         sub : {t.sub}, how : {t.how}]

IsRequest(q) ==
  q \in [pc : {q.pc}, who : {q.who}, code : Codes \cup {None}, id : {q.id}, row : {q.row},
         want : {q.want}, flow : {q.flow}, relies : BOOLEAN, late : BOOLEAN]

Shape(table) == table = [i \in Ids |-> table[i]] /\ \A i \in Ids : IsRow(table[i])

\* A registration that has made its account and not yet paid for it.
Registrar(q) == q.pc \in {"consume", "undo"}

\* What a request that is not late knows of the table: the account it made is as it was
\* made, the row it saves is the row, the account it binds is free or bound to the same
\* identity, and the administrator it demotes is not the only one.
Knows(q, table) ==
  /\ Registrar(q) => table[q.id].status = "active" /\ table[q.id].role = "user"
  /\ q.pc = "save" => q.row = table[q.id]
  /\ q.pc = "bind" => table[q.id].sub \in {None, q.who.sub}
  /\ q.pc \in {"load", "save"} /\ q.want = "user" => q.relies /\ Admins(table) # {q.id}

Sane(q, table) ==
  /\ IsRequest(q)
  /\ Registrar(q) => q.id \in Known(table)
  /\ q.pc \in {"bind", "save"} => q.id \in Ids
  /\ q.pc = "save" => IsRow(q.row) /\ q.row.status \in {"active", "disabled"}
  /\ q.pc \in {"target", "count"} => q.want = "user"
  /\ q.pc \in {"load", "save"} => q.want \in {"user", "admin"}
  /\ ~q.late => Knows(q, table)

\* No two registrations have made the same account.
Apart == \A r, s \in Requests :
           Registrar(req[r]) /\ Registrar(req[s]) /\ req[r].id = req[s].id => r = s

Base ==
  /\ Shape(users)
  /\ req = [r \in Requests |-> req[r]] /\ \A r \in Requests : Sane(req[r], users)
  /\ Apart

\* A code that was consumed is an account's, and no registration's that has not paid.
Paid ==
  /\ usedBy = [c \in Codes |-> usedBy[c]]
  /\ \A c \in Codes :
       /\ usedBy[c] \in Ids => usedBy[c] \in Known(users)
       /\ \A r \in Requests : Registrar(req[r]) => usedBy[c] # req[r].id

\* An account was let in by an invitation under that policy only.
ByInvitation ==
  /\ \A i \in Ids : users[i].how = "invite" => policy = "invite"
  /\ \A r \in Requests :
       /\ req[r].pc = "create" /\ req[r].want = "invite" => policy = "invite"
       /\ req[r].pc = "save" /\ req[r].row.how = "invite" => policy = "invite"

Paying ==
  \A i \in Known(users) \ torn :
    users[i].how = "invite" =>
      \/ \E r \in Requests : Registrar(req[r]) /\ req[r].id = i
      \/ \E c \in Codes : usedBy[c] = i

Invitations == Paid /\ upsets \in Nat /\ (upsets = 0 => ByInvitation /\ Paying)

Silent == keys = [i \in Ids |-> keys[i]] /\ shut \subseteq Ids /\ DisabledStays

------------------------------------------------------------------------------
(* Rows and tables *)

LEMMA Replaced ==
  ASSUME NEW t, Shape(t), NEW i \in Ids, NEW x, IsRow(x)
  PROVE  /\ Shape([t EXCEPT ![i] = x]) /\ [t EXCEPT ![i] = x][i] = x
         /\ \A j \in Ids \ {i} : [t EXCEPT ![i] = x][j] = t[j]
  BY DEF Shape

LEMMA RowStatus ==
  ASSUME NEW t, IsRow(t), NEW st
  PROVE  LET x == [t EXCEPT !.status = st]
         IN  /\ IsRow(x) /\ x.status = st /\ x.role = t.role /\ x.sub = t.sub /\ x.how = t.how
  BY DEF IsRow

LEMMA RowRole ==
  ASSUME NEW t, IsRow(t), NEW role
  PROVE  LET x == [t EXCEPT !.role = role]
         IN  /\ IsRow(x) /\ x.status = t.status /\ x.role = role /\ x.sub = t.sub /\ x.how = t.how
             /\ x.email = t.email
  BY DEF IsRow

LEMMA RowSub ==
  ASSUME NEW t, IsRow(t), NEW sub
  PROVE  LET x == [t EXCEPT !.sub = sub]
         IN  /\ IsRow(x) /\ x.status = t.status /\ x.role = t.role /\ x.sub = sub /\ x.how = t.how
  BY DEF IsRow

LEMMA AccountIs ==
  ASSUME NEW who, NEW how
  PROVE  LET x == Account(who, how)
         IN  IsRow(x) /\ x.status = "active" /\ x.role = "user" /\ x.how = how
  BY DEF IsRow, Account

Below == {p \in Nat \X Nat : p[1] < p[2]}

LEMMA BelowFounded == IsWellFoundedOn(Below, Nat)
  BY NatLessThanWellFounded, Zenon DEF OpToRel, Below

LEMMA Least ==
  ASSUME NEW S, S \subseteq Nat, S # {}
  PROVE  \E x \in S : \A y \in S : x <= y
<1>1. \E x \in S : \A y \in S : ~ (<<y, x>> \in Below)
  BY BelowFounded, WFMin, Zenon
<1>2. \A x, y \in Nat : ~ (<<y, x>> \in Below) => x <= y
  BY DEF Below
<1> QED BY <1>1, <1>2

\* The least id not yet given.
LEMMA NextId ==
  ASSUME New # {}
  PROVE  Min(New) \in New /\ New \subseteq Ids
<1>1. New \subseteq Nat /\ New \subseteq Ids
  BY AccountsAssumption DEF New, Ids
<1>2. PICK x \in New : \A y \in New : x <= y
  BY <1>1, Least
<1> QED BY <1>1, <1>2 DEF Min

------------------------------------------------------------------------------
(* Being late *)

LEMMA RelyKeeps ==
  ASSUME NEW table, NEW q, IsRequest(q)
  PROVE  LET p == Rely(table, q)
         IN  /\ IsRequest(p) /\ p.pc = q.pc /\ p.who = q.who /\ p.code = q.code /\ p.id = q.id
             /\ p.row = q.row /\ p.want = q.want /\ p.relies = q.relies
             /\ q.late => p.late
             /\ ~p.late => p = q /\ ~Outdated(q, table)
<1>1. CASE Outdated(q, table)
  <2> DEFINE p == [q EXCEPT !.late = TRUE]
  <2>1. /\ IsRequest(p) /\ p.pc = q.pc /\ p.who = q.who /\ p.code = q.code /\ p.id = q.id
        /\ p.row = q.row /\ p.want = q.want /\ p.relies = q.relies /\ p.late = TRUE
    BY DEF IsRequest
  <2>2. Rely(table, q) = p
    BY <1>1 DEF Rely
  <2> HIDE DEF p
  <2> QED BY <2>1, <2>2
<1>2. CASE ~Outdated(q, table)
  BY <1>2 DEF Rely
<1> QED BY <1>1, <1>2

\* A request that is not late after a change of the table knows as much as before.
LEMMA RelySane ==
  ASSUME Shape(users), NEW table, Shape(table), NEW q, Sane(q, users),
         Registrar(q) => q.id \in Known(table)
  PROVE  Sane(Rely(table, q), table)
<1> DEFINE p == Rely(table, q)
<1>1. /\ IsRequest(p) /\ p.pc = q.pc /\ p.who = q.who /\ p.id = q.id
      /\ p.row = q.row /\ p.want = q.want
      /\ ~p.late => p = q /\ ~Outdated(q, table)
  BY RelyKeeps DEF Sane
<1> HIDE DEF p
<1>2. ASSUME ~p.late PROVE Knows(p, table)
  <2>1. p = q /\ ~Outdated(q, table) /\ Knows(q, users)
    BY <1>1, <1>2 DEF Sane
  <2>2. q.pc \in {"consume", "undo", "bind", "save"} => table[q.id] = users[q.id]
    BY <2>1 DEF Outdated
  <2>3. q.relies => Admins(table) = Admins(users)
    BY <2>1 DEF Outdated
  <2> QED BY <2>1, <2>2, <2>3 DEF Knows, Registrar
<1> QED BY <1>1, <1>2 DEF Sane, Registrar, p

LEMMA RelySame ==
  ASSUME NEW q
  PROVE  Rely(users, q) = q
  BY DEF Rely, Outdated

\* A request that holds nothing.
Free(q) == q.pc \notin {"consume", "undo", "bind", "save", "load", "target", "count"}

LEMMA FreeSane ==
  ASSUME NEW q, IsRequest(q), Free(q), NEW table
  PROVE  Sane(q, table) /\ ~Registrar(q)
  BY DEF Sane, Knows, Registrar, Free

LEMMA QuietIs == IsRequest(Quiet) /\ Free(Quiet) /\ Quiet.pc = "idle"
  BY DEF IsRequest, Quiet, Free

LEMMA RequestIs ==
  ASSUME Base, NEW r \in Requests
  PROVE  Sane(req[r], users) /\ IsRequest(req[r])
  BY DEF Base, Sane

------------------------------------------------------------------------------
(* What a step does to the requests *)

\* Request r goes on as q and the others notice the new table.
Moves(r, q) ==
  req' = [s \in Requests |-> IF s = r THEN q ELSE Rely(users', req[s])]

LEMMA BecomeMoves ==
  ASSUME Base, users' = users, NEW r \in Requests, NEW q, Become(r, q)
  PROVE  Moves(r, q)
<1>1. req' = [s \in Requests |-> IF s = r THEN q ELSE req[s]]
  BY DEF Base, Become
<1> QED BY <1>1, RelySame DEF Moves

\* Base is kept by the step of a request that makes sense of the new table, if it
\* leaves the accounts of the other registrations alone.
LEMMA MovesBase ==
  ASSUME Base, Shape(users'), NEW r \in Requests, NEW q, Sane(q, users'), Moves(r, q),
         \A s \in Requests \ {r} : Registrar(req[s]) =>
           /\ req[s].id \in Known(users')
           /\ Registrar(q) => q.id # req[s].id
  PROVE  Base'
<1>1. req'[r] = q /\ \A s \in Requests \ {r} : req'[s] = Rely(users', req[s])
  BY DEF Moves
<1>2. \A s \in Requests \ {r} : /\ Registrar(req'[s]) <=> Registrar(req[s])
                              /\ req'[s].id = req[s].id
  BY <1>1, RequestIs, RelyKeeps DEF Registrar
<1>3. \A s \in Requests \ {r} : Sane(req'[s], users')
  BY <1>1, RequestIs, RelySane DEF Base
<1>4. \A s \in Requests : Sane(req'[s], users')
  BY <1>1, <1>3
<1>5. \A s, t \in Requests : Registrar(req'[s]) /\ Registrar(req'[t]) /\ req'[s].id = req'[t].id
                             => s = t
  BY <1>1, <1>2 DEF Base, Apart
<1>6. req' = [s \in Requests |-> req'[s]]
  BY DEF Moves
<1> QED BY <1>4, <1>5, <1>6 DEF Base, Apart, Shape, Sane, Knows, Known, Admins

------------------------------------------------------------------------------
(* The steps that only look at the table *)

Starts(r) ==
  \/ \E e \in Emails, code \in Codes \cup {None} : Register(r, e, code)
  \/ \E f \in 1..MaxFlows : Callback(r, f)
  \/ \E i \in Ids : EditKey(r, i) \/ \E role \in {"user", "admin"} : SetRole(r, i, role)

Looks(r) ==
  \/ Starts(r) \/ Admit(r) \/ Forget(r) \/ Redeem(r) \/ BySub(r) \/ ByEmail(r)
  \/ Target(r) \/ Count(r) \/ Load(r) \/ SaveKey(r)

\* Request r goes on as q, no table of accounts and codes having changed.
LooksAs(r, q) ==
  /\ Become(r, q) /\ Sane(q, users) /\ ~Registrar(q)
  /\ q.pc = "create" /\ q.want = "invite" => policy = "invite"
  /\ q.pc = "save" => q.id \in Ids /\ q.row = users[q.id]

LEMMA FreeLooks ==
  ASSUME NEW r \in Requests, NEW q, Become(r, q), IsRequest(q), Free(q),
         q.pc = "create" /\ q.want = "invite" => policy = "invite"
  PROVE  LooksAs(r, q)
  BY FreeSane DEF LooksAs, Free

LEMMA QuietLooks ==
  ASSUME NEW r \in Requests, End(r)
  PROVE  LooksAs(r, Quiet)
  BY FreeLooks, QuietIs DEF End

LEMMA StartsLook ==
  ASSUME Base, NEW r \in Requests, Starts(r)
  PROVE  \E q : LooksAs(r, q)
<1>1. ASSUME NEW e \in Emails, NEW code \in Codes \cup {None}, Register(r, e, code)
      PROVE  \E q : LooksAs(r, q)
  <2>1. PICK first \in BOOLEAN :
          Become(r, [Quiet EXCEPT !.pc = IF first THEN "create" ELSE "admit", !.code = code,
                                  !.who.email = e, !.want = IF first THEN "first" ELSE ""])
    BY <1>1 DEF Register
  <2> DEFINE q == [Quiet EXCEPT !.pc = IF first THEN "create" ELSE "admit", !.code = code,
                                !.who.email = e, !.want = IF first THEN "first" ELSE ""]
  <2>2. IsRequest(q) /\ q.pc \in {"create", "admit"} /\ q.want \in {"first", ""}
    BY DEF IsRequest, Quiet
  <2>3. Become(r, q)
    BY <2>1
  <2> HIDE DEF q
  <2> QED BY <2>2, <2>3, FreeLooks DEF Free
<1>2. ASSUME NEW f \in 1..MaxFlows, Callback(r, f) PROVE \E q : LooksAs(r, q)
  <2> DEFINE q == [Quiet EXCEPT !.pc = "forget", !.flow = f]
  <2>1. IsRequest(q) /\ q.pc = "forget"
    BY DEF IsRequest, Quiet
  <2>2. Become(r, q)
    BY <1>2 DEF Callback
  <2> HIDE DEF q
  <2> QED BY <2>1, <2>2, FreeLooks DEF Free
<1>3. ASSUME NEW i \in Ids, EditKey(r, i) PROVE \E q : LooksAs(r, q)
  <2>1. PICK want : Become(r, [Quiet EXCEPT !.pc = "savekey", !.id = i, !.want = want])
    BY <1>3 DEF EditKey
  <2> DEFINE q == [Quiet EXCEPT !.pc = "savekey", !.id = i, !.want = want]
  <2>2. IsRequest(q) /\ q.pc = "savekey"
    BY DEF IsRequest, Quiet
  <2>3. Become(r, q)
    BY <2>1
  <2> HIDE DEF q
  <2> QED BY <2>2, <2>3, FreeLooks DEF Free
<1>4. ASSUME NEW i \in Ids, NEW role \in {"user", "admin"}, SetRole(r, i, role)
      PROVE  \E q : LooksAs(r, q)
  <2> DEFINE q == [Quiet EXCEPT !.pc = IF role = "user" THEN "target" ELSE "load",
                                !.id = i, !.want = role]
  <2>1. /\ IsRequest(q) /\ q.want = role /\ q.pc \in {"target", "load"}
        /\ q.pc = "target" <=> role = "user"
    BY DEF IsRequest, Quiet
  <2>2. Become(r, q)
    BY <1>4 DEF SetRole
  <2> HIDE DEF q
  <2>3. Sane(q, users) /\ ~Registrar(q)
    BY <2>1 DEF Sane, Knows, Registrar
  <2> QED BY <2>1, <2>2, <2>3 DEF LooksAs
<1> QED BY <1>1, <1>2, <1>3, <1>4 DEF Starts

LEMMA SignInLooks ==
  ASSUME Base, NEW r \in Requests, Admit(r) \/ Forget(r) \/ Redeem(r) \/ BySub(r) \/ ByEmail(r)
  PROVE  \E q : LooksAs(r, q)
<1>0. IsRequest(req[r]) /\ Sane(req[r], users)
  BY RequestIs
<1>1. CASE Admit(r)
  <2>1. PICK p \in {policy, "unread"} :
          IF Passes(req[r], p) THEN Become(r, [req[r] EXCEPT !.pc = "create", !.want = p]) ELSE End(r)
    BY <1>1 DEF Admit
  <2> DEFINE q == [req[r] EXCEPT !.pc = "create", !.want = p]
  <2>2. IsRequest(q) /\ q.pc = "create" /\ q.want = p
    BY <1>0 DEF IsRequest
  <2>3. Become(r, q) \/ End(r)
    BY <2>1
  <2> HIDE DEF q
  <2>4. p = "invite" => policy = "invite"
    OBVIOUS
  <2> QED BY <2>2, <2>3, <2>4, FreeLooks, QuietLooks DEF Free
<1>2. CASE Forget(r)
  <2> DEFINE q == [req[r] EXCEPT !.pc = "redeem"]
  <2>1. IsRequest(q) /\ q.pc = "redeem"
    BY <1>0 DEF IsRequest
  <2>2. Become(r, q)
    BY <1>2 DEF Forget, Goto
  <2> HIDE DEF q
  <2> QED BY <2>1, <2>2, FreeLooks DEF Free
<1>3. CASE Redeem(r)
  <2> DEFINE who == flows[req[r].flow].who
             q == [Quiet EXCEPT !.pc = "bysub", !.who = who]
  <2>1. Become(r, q) \/ End(r)
    BY <1>3 DEF Redeem
  <2> HIDE DEF who
  <2>2. IsRequest(q) /\ q.pc = "bysub"
    BY DEF IsRequest, Quiet
  <2> HIDE DEF q
  <2> QED BY <2>1, <2>2, FreeLooks, QuietLooks DEF Free
<1>4. CASE BySub(r)
  <2>1. ASSUME NEW i \in WithSub(req[r].who.sub), Become(r, Taking(req[r], i, "enter"))
        PROVE  \E q : LooksAs(r, q)
    <3> DEFINE q == Taking(req[r], i, "enter")
    <3>1. IsRequest(q) /\ q.pc = "enter"
      BY <1>0 DEF IsRequest, Taking
    <3>2. Become(r, q)
      BY <2>1
    <3> HIDE DEF q
    <3> QED BY <3>1, <3>2, FreeLooks DEF Free
  <2>2. ASSUME Goto(r, "byemail") PROVE \E q : LooksAs(r, q)
    <3> DEFINE q == [req[r] EXCEPT !.pc = "byemail"]
    <3>1. IsRequest(q) /\ q.pc = "byemail"
      BY <1>0 DEF IsRequest
    <3>2. Become(r, q)
      BY <2>2 DEF Goto
    <3> HIDE DEF q
    <3> QED BY <3>1, <3>2, FreeLooks DEF Free
  <2> QED BY <1>4, <2>1, <2>2 DEF BySub
<1>5. CASE ByEmail(r)
  <2>1. ASSUME NEW i \in WithEmail(req[r].who.email), MayBind(req[r].who, users[i]),
               Become(r, Taking(req[r], i, "bind"))
        PROVE  \E q : LooksAs(r, q)
    <3> DEFINE q == Taking(req[r], i, "bind")
    <3>1. /\ IsRequest(q) /\ q.pc = "bind" /\ q.id = i /\ q.who = req[r].who
      BY <1>0 DEF IsRequest, Taking
    <3>2. Become(r, q) /\ i \in Ids /\ users[i].sub \in {None, req[r].who.sub}
      BY <2>1 DEF WithEmail, Known, MayBind
    <3> HIDE DEF q
    <3>3. Sane(q, users) /\ ~Registrar(q)
      BY <3>1, <3>2 DEF Sane, Knows, Registrar
    <3> QED BY <3>1, <3>2, <3>3 DEF LooksAs
  <2>2. ASSUME Become(r, [req[r] EXCEPT !.pc = "create", !.want = "sso"])
        PROVE  \E q : LooksAs(r, q)
    <3> DEFINE q == [req[r] EXCEPT !.pc = "create", !.want = "sso"]
    <3>1. IsRequest(q) /\ q.pc = "create" /\ q.want = "sso"
      BY <1>0 DEF IsRequest
    <3>2. Become(r, q)
      BY <2>2
    <3> HIDE DEF q
    <3> QED BY <3>1, <3>2, FreeLooks DEF Free
  <2> QED BY <1>5, <2>1, <2>2, QuietLooks DEF ByEmail
<1> QED BY <1>1, <1>2, <1>3, <1>4, <1>5

\* Where the count allows a demotion, somebody else is an administrator too.
LEMMA SpareMeans ==
  ASSUME NEW i, Spare(Cardinality(Admins(users)))
  PROVE  Admins(users) # {i}
  BY FS_Singleton DEF Spare

LEMMA AdminLooks ==
  ASSUME Base, NEW r \in Requests, Target(r) \/ Count(r) \/ Load(r) \/ SaveKey(r)
  PROVE  \E q : LooksAs(r, q)
<1>0. IsRequest(req[r]) /\ Sane(req[r], users)
  BY RequestIs
\* The demotion goes on knowing that the administrator is not the only one.
<1>1. ASSUME Become(r, [req[r] EXCEPT !.pc = "load", !.relies = TRUE]), req[r].want = "user",
             Admins(users) # {req[r].id}
      PROVE  \E q : LooksAs(r, q)
  <2> DEFINE q == [req[r] EXCEPT !.pc = "load", !.relies = TRUE]
  <2>1. IsRequest(q) /\ q.pc = "load" /\ q.relies = TRUE /\ q.want = "user" /\ q.id = req[r].id
    BY <1>0, <1>1 DEF IsRequest
  <2>2. Become(r, q)
    BY <1>1
  <2> HIDE DEF q
  <2>3. Sane(q, users) /\ ~Registrar(q)
    BY <1>1, <2>1 DEF Sane, Knows, Registrar
  <2> QED BY <2>1, <2>2, <2>3 DEF LooksAs
<1>2. CASE Target(r)
  <2>1. req[r].want = "user"
    BY <1>0, <1>2 DEF Target, Sane
  <2>2. ASSUME Become(r, [req[r] EXCEPT !.pc = "count"]) PROVE \E q : LooksAs(r, q)
    <3> DEFINE q == [req[r] EXCEPT !.pc = "count"]
    <3>1. IsRequest(q) /\ q.pc = "count" /\ q.want = "user"
      BY <1>0, <2>1 DEF IsRequest
    <3>2. Become(r, q)
      BY <2>2
    <3> HIDE DEF q
    <3>3. Sane(q, users) /\ ~Registrar(q)
      BY <3>1 DEF Sane, Knows, Registrar
    <3> QED BY <3>1, <3>2, <3>3 DEF LooksAs
  <2>3. req[r].id \notin Admins(users) => Admins(users) # {req[r].id}
    OBVIOUS
  <2> QED BY <1>1, <1>2, <2>1, <2>2, <2>3, QuietLooks DEF Target
<1>3. CASE Count(r)
  <2>1. req[r].want = "user"
    BY <1>0, <1>3 DEF Count, Sane
  <2>2. ASSUME Become(r, [req[r] EXCEPT !.pc = "load", !.late = TRUE])
        PROVE  \E q : LooksAs(r, q)
    <3> DEFINE q == [req[r] EXCEPT !.pc = "load", !.late = TRUE]
    <3>1. IsRequest(q) /\ q.pc = "load" /\ q.late = TRUE /\ q.want = "user"
      BY <1>0, <2>1 DEF IsRequest
    <3>2. Become(r, q)
      BY <2>2
    <3> HIDE DEF q
    <3>3. Sane(q, users) /\ ~Registrar(q)
      BY <3>1 DEF Sane, Registrar
    <3> QED BY <3>1, <3>2, <3>3 DEF LooksAs
  <2>3. CASE Spare(Cardinality(Admins(users))) /\ Become(r, [req[r] EXCEPT !.pc = "load", !.relies = TRUE])
    BY <1>1, <2>1, <2>3, SpareMeans
  <2> QED BY <1>3, <2>2, <2>3, QuietLooks DEF Count
<1>4. CASE Load(r)
  <2>1. ASSUME req[r].id \in Known(users), Become(r, Taking(req[r], req[r].id, "save"))
        PROVE  \E q : LooksAs(r, q)
    <3> DEFINE q == Taking(req[r], req[r].id, "save")
               i == req[r].id
    <3>1. /\ IsRequest(q) /\ q.pc = "save" /\ q.id = i /\ q.row = users[i]
          /\ q.want = req[r].want /\ q.relies = req[r].relies /\ q.late = req[r].late
      BY <1>0 DEF IsRequest, Taking
    <3>2. Become(r, q) /\ i \in Ids /\ users[i].status \in {"active", "disabled"}
      BY <2>1 DEF Known
    <3>3. IsRow(users[i])
      BY <3>2 DEF Base, Shape
    <3>4. /\ req[r].want \in {"user", "admin"}
          /\ ~req[r].late /\ req[r].want = "user" => req[r].relies /\ Admins(users) # {i}
      BY <1>0, <1>4 DEF Load, Sane, Knows
    <3> HIDE DEF q, i
    <3>5. ~q.late => Knows(q, users)
      BY <3>1, <3>4 DEF Knows, Registrar
    <3>6. Sane(q, users) /\ ~Registrar(q)
      BY <3>1, <3>2, <3>3, <3>4, <3>5 DEF Sane, Registrar
    <3> QED BY <3>1, <3>2, <3>6 DEF LooksAs
  <2> QED BY <1>4, <2>1, QuietLooks DEF Load
<1>5. CASE SaveKey(r)
  BY <1>5, QuietLooks DEF SaveKey
<1> QED BY <1>2, <1>3, <1>4, <1>5

LEMMA LooksMoves ==
  ASSUME Base, NEW r \in Requests, Looks(r)
  PROVE  /\ UNCHANGED <<users, policy, usedBy, torn>> /\ ~Registrar(req[r])
         /\ \E q : LooksAs(r, q)
<1>1. UNCHANGED <<users, policy, usedBy, torn>>
  BY DEF Looks, Starts, Register, Callback, EditKey, SetRole, Admit, Forget, Redeem, BySub,
         ByEmail, Target, Count, Load, SaveKey, rows
<1>2. ~Registrar(req[r])
  BY DEF Looks, Starts, Register, Callback, EditKey, SetRole, Admit, Forget, Redeem, BySub,
         ByEmail, Target, Count, Load, SaveKey, Registrar
<1> QED BY <1>1, <1>2, StartsLook, SignInLooks, AdminLooks DEF Looks

LEMMA LooksBase ==
  ASSUME Base, NEW r \in Requests, Looks(r)
  PROVE  Base'
<1>1. users' = users /\ Shape(users) /\ \A s \in Requests : Registrar(req[s]) => req[s].id \in Known(users)
  BY LooksMoves, RequestIs DEF Base, Sane
<1>2. PICK q : Become(r, q) /\ Sane(q, users) /\ ~Registrar(q)
  BY LooksMoves DEF LooksAs
<1>3. Moves(r, q)
  BY <1>1, <1>2, BecomeMoves
<1> QED BY <1>1, <1>2, <1>3, MovesBase

------------------------------------------------------------------------------
(* The steps that write to the table *)

Writes(r) == Create(r) \/ Consume(r) \/ Undo(r) \/ Bind(r) \/ SsoEnter(r) \/ Save(r)

Tears(r) == torn' = IF req[r].late /\ users' # users THEN torn \cup {req[r].id} ELSE torn

WritesAs(r, q) == Moves(r, q) /\ Sane(q, users') /\ Tears(r) /\ Shape(users')

\* One row is replaced.
Sets(i, x) ==
  /\ Shape(users') /\ users'[i] = x
  /\ \A j \in Ids \ {i} : users'[j] = users[j]

LEMMA SetsIs ==
  ASSUME Base, NEW i \in Ids, NEW x, IsRow(x), users' = [users EXCEPT ![i] = x]
  PROVE  Sets(i, x)
<1>1. Shape(users)
  BY DEF Base
<1>2. Shape([users EXCEPT ![i] = x])
  BY <1>1, Replaced
<1>3. users'[i] = x /\ \A j \in Ids \ {i} : users'[j] = users[j]
  BY <1>1 DEF Shape
<1> QED BY <1>2, <1>3 DEF Sets

LEMMA WriteMoves ==
  ASSUME NEW r \in Requests, NEW table, NEW q, Write(r, table, q)
  PROVE  users' = table /\ Moves(r, q) /\ Tears(r)
  BY DEF Write, Moves, Tears

\* A step that ends without a write.
LEMMA EndMoves ==
  ASSUME Base, NEW r \in Requests, End(r), users' = users, torn' = torn
  PROVE  WritesAs(r, Quiet)
<1>1. Moves(r, Quiet)
  BY BecomeMoves DEF End
<1>2. Sane(Quiet, users')
  BY FreeSane, QuietIs
<1> QED BY <1>1, <1>2 DEF WritesAs, Tears, Base

LEMMA UsersRow ==
  ASSUME Base, NEW i \in Ids
  PROVE  IsRow(users[i])
  BY DEF Base, Shape

\* A new account has an id of its own; by invitation, its code is still to be consumed.
Makes(r, i, q) ==
  /\ i \in New \cap Ids /\ Sets(i, Account(req[r].who, req[r].want))
  /\ q.pc \in {"idle", "enter", "consume"}
  /\ Registrar(q) => q.id = i
  /\ req[r].want = "invite" => Registrar(q)

LEMMA CreateWrites ==
  ASSUME Base, NEW r \in Requests, Create(r)
  PROVE  \/ users' = users /\ WritesAs(r, Quiet)
         \/ \E q, i : WritesAs(r, q) /\ Makes(r, i, q)
<1> DEFINE who == req[r].who
           want == req[r].want
           acc == Account(who, want)
<1>0. IsRequest(req[r])
  BY RequestIs
<1>1. CASE End(r) /\ UNCHANGED <<users, torn>>
  BY <1>1, EndMoves
<1>2. ASSUME ~(End(r) /\ UNCHANGED <<users, torn>>)
      PROVE  \E q, i : WritesAs(r, q) /\ Makes(r, i, q)
  <2>1. PICK i \in New : Write(r, [users EXCEPT ![i] = acc],
                  CASE want = "first" -> Quiet
                    [] want = "sso" -> [req[r] EXCEPT !.pc = "enter", !.id = i, !.row = acc]
                    [] OTHER -> [req[r] EXCEPT !.pc = "consume", !.id = i])
    BY <1>2, NextId DEF Create
  <2>2. IsRow(acc) /\ acc.status = "active" /\ acc.role = "user" /\ i \in Ids
    BY AccountIs, NextId
  <2> HIDE DEF acc, want
  <2>3. Sets(i, acc)
    BY <2>1, <2>2, WriteMoves, SetsIs
  <2>4. i \in Known(users')
    BY <2>2, <2>3 DEF Sets, Known
  <2>5. CASE want = "first"
    <3>1. Write(r, [users EXCEPT ![i] = acc], Quiet)
      BY <2>1, <2>5
    <3>2. WritesAs(r, Quiet)
      BY <2>3, <3>1, WriteMoves, FreeSane, QuietIs DEF WritesAs, Sets
    <3>3. Makes(r, i, Quiet)
      BY <2>2, <2>3, <2>5, QuietIs DEF Makes, Registrar, acc, want
    <3> QED BY <3>2, <3>3
  <2>6. CASE want = "sso"
    <3> DEFINE q == [req[r] EXCEPT !.pc = "enter", !.id = i, !.row = acc]
    <3>1. Write(r, [users EXCEPT ![i] = acc], q)
      BY <2>1, <2>6
    <3>2. IsRequest(q) /\ q.pc = "enter"
      BY <1>0 DEF IsRequest
    <3> HIDE DEF q
    <3>3. WritesAs(r, q)
      BY <2>3, <3>1, <3>2, WriteMoves, FreeSane DEF WritesAs, Sets, Free
    <3>4. Makes(r, i, q)
      BY <2>2, <2>3, <2>6, <3>2 DEF Makes, Registrar, acc, want
    <3> QED BY <3>3, <3>4
  <2>7. CASE want \notin {"first", "sso"}
    <3> DEFINE q == [req[r] EXCEPT !.pc = "consume", !.id = i]
    <3>1. Write(r, [users EXCEPT ![i] = acc], q)
      BY <2>1, <2>7
    <3>2. IsRequest(q) /\ q.pc = "consume" /\ q.id = i
      BY <1>0 DEF IsRequest
    <3> HIDE DEF q
    <3>3. Sane(q, users')
      BY <2>2, <2>3, <2>4, <3>2 DEF Sane, Knows, Registrar, Sets
    <3>4. WritesAs(r, q)
      BY <2>3, <3>1, <3>3, WriteMoves DEF WritesAs, Sets
    <3>5. Makes(r, i, q)
      BY <2>2, <2>3, <3>2 DEF Makes, Registrar, acc, want
    <3> QED BY <3>4, <3>5
  <2> QED BY <2>5, <2>6, <2>7
<1> QED BY <1>1, <1>2

LEMMA ConsumeWrites ==
  ASSUME Base, NEW r \in Requests, Consume(r)
  PROVE  /\ users' = users /\ torn' = torn /\ Registrar(req[r])
         /\ \/ WritesAs(r, Quiet)
            \/ \E q : WritesAs(r, q) /\ q.pc = "undo" /\ q.id = req[r].id
<1>1. users' = users /\ torn' = torn /\ Registrar(req[r])
  BY DEF Consume, Registrar
<1>2. ASSUME Goto(r, "undo") PROVE \E q : WritesAs(r, q) /\ q.pc = "undo" /\ q.id = req[r].id
  <2> DEFINE q == [req[r] EXCEPT !.pc = "undo"]
  <2>1. Sane(req[r], users) /\ IsRequest(req[r])
    BY RequestIs
  <2>2. IsRequest(q) /\ q.pc = "undo" /\ q.id = req[r].id /\ q.late = req[r].late
    BY <2>1 DEF IsRequest
  <2>3. Become(r, q)
    BY <1>2 DEF Goto
  <2> HIDE DEF q
  <2>4. Sane(q, users)
    BY <1>1, <2>1, <2>2 DEF Sane, Knows, Registrar
  <2>5. WritesAs(r, q)
    BY <1>1, <2>3, <2>4, BecomeMoves DEF WritesAs, Tears, Base
  <2> QED BY <2>2, <2>5
<1> QED BY <1>1, <1>2, EndMoves DEF Consume

LEMMA UndoWrites ==
  ASSUME Base, NEW r \in Requests, Undo(r)
  PROVE  /\ WritesAs(r, Quiet) /\ Registrar(req[r]) /\ req[r].id \in Known(users)
         /\ \/ users' = users /\ Upset
            \/ Sets(req[r].id, [users[req[r].id] EXCEPT !.status = "gone"])
<1> DEFINE i == req[r].id
           x == [users[i] EXCEPT !.status = "gone"]
<1>1. Registrar(req[r]) /\ i \in Known(users) /\ i \in Ids
  BY RequestIs DEF Undo, Registrar, Sane, Known
<1>2. CASE Upset /\ End(r) /\ UNCHANGED <<users, torn>>
  BY <1>1, <1>2, EndMoves
<1>3. CASE Write(r, [users EXCEPT ![i].status = "gone"], Quiet)
  <2>1. IsRow(x)
    BY <1>1, UsersRow, RowStatus
  <2>2. Sets(i, x)
    BY <1>1, <1>3, <2>1, WriteMoves, SetsIs
  <2>3. WritesAs(r, Quiet)
    BY <1>3, <2>2, WriteMoves, FreeSane, QuietIs DEF WritesAs, Sets
  <2> QED BY <1>1, <2>2, <2>3
<1> QED BY <1>2, <1>3 DEF Undo

LEMMA BindWrites ==
  ASSUME Base, NEW r \in Requests, Bind(r)
  PROVE  /\ \E q : WritesAs(r, q) /\ q.pc \in {"idle", "enter"}
         /\ req[r].pc = "bind"
         /\ \/ users' = users
            \/ /\ req[r].id \in Known(users)
               /\ Sets(req[r].id, [users[req[r].id] EXCEPT !.sub = req[r].who.sub])
<1> DEFINE i == req[r].id
           x == [users[i] EXCEPT !.sub = req[r].who.sub]
           q == [req[r] EXCEPT !.pc = "enter"]
<1>0. req[r].pc = "bind"
  BY DEF Bind
<1>1. CASE End(r) /\ UNCHANGED <<users, torn>>
  BY <1>0, <1>1, EndMoves, QuietIs
<1>2. IsRequest(q) /\ q.pc = "enter"
  BY RequestIs DEF IsRequest
<1>3. CASE i \in Known(users) /\ Write(r, [users EXCEPT ![i].sub = req[r].who.sub], q)
  <2>1. i \in Ids /\ IsRow(users[i])
    BY <1>3, UsersRow DEF Known
  <2>2. IsRow(x)
    BY <2>1, RowSub
  <2>3. Sets(i, x)
    BY <1>3, <2>1, <2>2, WriteMoves, SetsIs
  <2> HIDE DEF q
  <2>4. WritesAs(r, q)
    BY <1>2, <1>3, <2>3, WriteMoves, FreeSane DEF WritesAs, Sets, Free
  <2> QED BY <1>0, <1>2, <1>3, <2>3, <2>4
<1>4. CASE Write(r, users, q)
  <2> HIDE DEF q
  <2>1. WritesAs(r, q) /\ users' = users
    BY <1>2, <1>4, WriteMoves, FreeSane DEF WritesAs, Base, Free
  <2> QED BY <1>0, <1>2, <2>1
<1> QED BY <1>1, <1>3, <1>4 DEF Bind

\* The promotion of ADMIN_EMAIL changes roles only, and to "admin".
Promotes(table, old) ==
  /\ Shape(table)
  /\ \A i \in Ids :
       /\ table[i].status = old[i].status /\ table[i].how = old[i].how
       /\ table[i].sub = old[i].sub /\ table[i].role \in {old[i].role, "admin"}

LEMMA PromotedIs ==
  ASSUME NEW old, Shape(old)
  PROVE  Promotes(Promoted(old), old)
<1>1. ASSUME NEW i \in Ids
      PROVE  /\ Promoted(old)[i] = old[i] \/ Promoted(old)[i] = [old[i] EXCEPT !.role = "admin"]
             /\ IsRow(old[i])
  BY DEF Promoted, Shape
<1>2. ASSUME NEW i \in Ids
      PROVE  /\ IsRow(Promoted(old)[i])
             /\ Promoted(old)[i].status = old[i].status /\ Promoted(old)[i].how = old[i].how
             /\ Promoted(old)[i].sub = old[i].sub
             /\ Promoted(old)[i].role \in {old[i].role, "admin"}
  <2> DEFINE p == Promoted(old)[i]
             x == [old[i] EXCEPT !.role = "admin"]
  <2>1. /\ IsRow(x) /\ x.status = old[i].status /\ x.how = old[i].how
        /\ x.sub = old[i].sub /\ x.role = "admin"
    BY <1>1, RowRole
  <2>2. IsRow(old[i]) /\ (p = old[i] \/ p = x)
    BY <1>1
  <2> HIDE DEF p, x
  <2>3. /\ IsRow(p) /\ p.status = old[i].status /\ p.how = old[i].how
        /\ p.sub = old[i].sub /\ p.role \in {old[i].role, "admin"}
    BY <2>1, <2>2
  <2> QED BY <2>3 DEF p
<1>3. Promoted(old) = [i \in Ids |-> Promoted(old)[i]]
  BY DEF Promoted
<1> QED BY <1>2, <1>3 DEF Promotes, Shape

LEMMA SsoEnterWrites ==
  ASSUME Base, NEW r \in Requests, SsoEnter(r)
  PROVE  WritesAs(r, Quiet) /\ Promotes(users', users) /\ ~Registrar(req[r])
<1>1. Promotes(users, users) /\ Promotes(Promoted(users), users) /\ ~Registrar(req[r])
  BY PromotedIs DEF Base, Promotes, SsoEnter, Registrar
<1>2. CASE End(r) /\ UNCHANGED <<users, torn>>
  BY <1>1, <1>2, EndMoves
<1>3. ASSUME NEW table \in {users, Promoted(users)}, Write(r, table, Quiet)
      PROVE  WritesAs(r, Quiet) /\ Promotes(users', users)
  BY <1>1, <1>3, WriteMoves, FreeSane, QuietIs DEF WritesAs, Promotes
<1> QED BY <1>1, <1>2, <1>3 DEF SsoEnter

LEMMA SaveWrites ==
  ASSUME Base, NEW r \in Requests, Save(r)
  PROVE  /\ WritesAs(r, Quiet) /\ req[r].pc = "save" /\ req[r].id \in Ids
         /\ users' = users \/ Sets(req[r].id, [req[r].row EXCEPT !.role = req[r].want])
<1> DEFINE i == req[r].id
           x == [req[r].row EXCEPT !.role = req[r].want]
<1>1. req[r].pc = "save" /\ i \in Ids /\ IsRow(req[r].row)
  BY RequestIs DEF Save, Sane
<1>2. CASE End(r) /\ UNCHANGED <<users, torn>>
  BY <1>1, <1>2, EndMoves
<1>3. CASE Write(r, [users EXCEPT ![i] = x], Quiet)
  <2>1. IsRow(x)
    BY <1>1, RowRole
  <2>2. Sets(i, x)
    BY <1>1, <1>3, <2>1, WriteMoves, SetsIs
  <2>3. WritesAs(r, Quiet)
    BY <1>3, <2>2, WriteMoves, FreeSane, QuietIs DEF WritesAs, Sets
  <2> QED BY <1>1, <2>2, <2>3
<1> QED BY <1>2, <1>3 DEF Save

LEMMA WritesBase ==
  ASSUME Base, NEW r \in Requests, Writes(r)
  PROVE  Base'
\* What remains to be seen: the accounts of the other registrations are still there.
<1>0. ASSUME NEW q, WritesAs(r, q),
             \A s \in Requests \ {r} : Registrar(req[s]) =>
               /\ users'[req[s].id].status = users[req[s].id].status
               /\ Registrar(q) => q.id # req[s].id
      PROVE  Base'
  <2>1. \A s \in Requests \ {r} : Registrar(req[s]) => req[s].id \in Known(users')
    BY <1>0, RequestIs DEF Sane, Known
  <2> QED BY <1>0, <2>1, MovesBase DEF WritesAs
<1>1. \A s \in Requests : Registrar(req[s]) => req[s].id \in Known(users) /\ req[s].id \in Ids
  BY RequestIs DEF Sane, Known
<1>2. CASE Create(r)
  <2>1. CASE users' = users /\ WritesAs(r, Quiet)
    BY <1>0, <2>1, QuietIs DEF Free, Registrar
  <2>2. ASSUME NEW q, NEW i, WritesAs(r, q), Makes(r, i, q) PROVE Base'
    <3>1. \A s \in Requests : Registrar(req[s]) => req[s].id # i
      BY <1>1, <2>2 DEF Makes, New, Known
    <3> QED BY <1>0, <1>1, <2>2, <3>1 DEF Makes, Sets
  <2> QED BY <1>2, <2>1, <2>2, CreateWrites
<1>3. CASE Consume(r)
  <2>1. users' = users /\ Registrar(req[r])
    BY <1>3, ConsumeWrites
  <2>2. CASE WritesAs(r, Quiet)
    BY <1>0, <2>1, <2>2, QuietIs DEF Free, Registrar
  <2>3. ASSUME NEW q, WritesAs(r, q), q.id = req[r].id PROVE Base'
    BY <1>0, <2>1, <2>3 DEF Base, Apart
  <2> QED BY <1>3, <2>2, <2>3, ConsumeWrites
<1>4. CASE Undo(r)
  <2>1. \A s \in Requests \ {r} : Registrar(req[s]) => req[s].id # req[r].id
    BY <1>4, UndoWrites DEF Base, Apart
  <2> QED BY <1>0, <1>1, <1>4, <2>1, UndoWrites, QuietIs DEF Sets, Free, Registrar
<1>5. CASE Bind(r)
  <2>1. \A i \in Ids : users'[i].status = users[i].status
    <3> DEFINE i == req[r].id
               x == [users[i] EXCEPT !.sub = req[r].who.sub]
    <3>1. CASE i \in Known(users) /\ Sets(i, x)
      <4>1. i \in Ids /\ IsRow(users[i])
        BY <3>1, UsersRow DEF Known
      <4>2. x.status = users[i].status
        BY <4>1, RowSub
      <4> HIDE DEF x
      <4> QED BY <3>1, <4>1, <4>2 DEF Sets
    <3> QED BY <1>5, <3>1, BindWrites
  <2> QED BY <1>0, <1>1, <1>5, <2>1, BindWrites DEF Registrar
<1>6. CASE SsoEnter(r)
  BY <1>0, <1>1, <1>6, SsoEnterWrites, QuietIs DEF Promotes, Free, Registrar
<1>7. CASE Save(r)
  <2>1. /\ WritesAs(r, Quiet) /\ req[r].pc = "save" /\ req[r].id \in Ids
        /\ users' = users \/ Sets(req[r].id, [req[r].row EXCEPT !.role = req[r].want])
    BY <1>7, SaveWrites
  <2>2. IsRow(req[r].row) /\ req[r].row.status \in {"active", "disabled"}
    BY <2>1, RequestIs DEF Sane
  <2>3. [req[r].row EXCEPT !.role = req[r].want].status \in {"active", "disabled"}
    BY <2>2, RowRole
  <2>4. \A i \in Known(users) : i \in Known(users')
    BY <2>1, <2>3 DEF Sets, Known
  <2>5. \A s \in Requests : Registrar(req[s]) => req[s].id \in Known(users')
    BY <1>1, <2>4
  <2> QED BY <2>1, <2>5, MovesBase, QuietIs DEF WritesAs, Free, Registrar
<1> QED BY <1>2, <1>3, <1>4, <1>5, <1>6, <1>7 DEF Writes

------------------------------------------------------------------------------
(* The other steps *)

\* Somebody changes one row, not for a request.
Alters(i) ==
  Disable(i) \/ Enable(i) \/ ResetPassword(i) \/ ChangePassword(i)

\* The row stays known, and keeps what requests do not expect to change.
Amends(i) ==
  /\ i \in Known(users) /\ Shape(users')
  /\ users'[i].status \in {users[i].status, "active", "disabled"}
  /\ users'[i].role = users[i].role /\ users'[i].sub = users[i].sub /\ users'[i].how = users[i].how
  /\ \A j \in Ids \ {i} : users'[j] = users[j]
  /\ req' = [s \in Requests |-> Rely(users', req[s])]
  /\ UNCHANGED <<policy, usedBy, flows, torn, upsets>>

LEMMA RowPass ==
  ASSUME NEW t, IsRow(t), NEW pass
  PROVE  LET x == [t EXCEPT !.pass = pass]
         IN  /\ IsRow(x) /\ x.status = t.status /\ x.role = t.role /\ x.sub = t.sub /\ x.how = t.how
  BY DEF IsRow

GetsStatus(i, st) == users' = [users EXCEPT ![i].status = st]

LEMMA StatusSet ==
  ASSUME Base, NEW i \in Ids, NEW st, GetsStatus(i, st)
  PROVE  \E x : /\ Sets(i, x) /\ x.status = st /\ x.role = users[i].role
                /\ x.sub = users[i].sub /\ x.how = users[i].how
<1> DEFINE x == [users[i] EXCEPT !.status = st]
<1>1. /\ IsRow(x) /\ x.status = st /\ x.role = users[i].role /\ x.sub = users[i].sub
      /\ x.how = users[i].how
  BY UsersRow, RowStatus
<1>2. users' = [users EXCEPT ![i] = x]
  BY DEF GetsStatus
<1> HIDE DEF x
<1> QED BY <1>1, <1>2, SetsIs

LEMMA ResetSet ==
  ASSUME Base, NEW i \in Ids, ResetPassword(i)
  PROVE  \E x : /\ Sets(i, x) /\ x.status = "active" /\ x.role = users[i].role
                /\ x.sub = users[i].sub /\ x.how = users[i].how
<1> DEFINE x == [users[i] EXCEPT !.status = "active", !.pass = "reset"]
<1>1. /\ IsRow(x) /\ x.status = "active" /\ x.role = users[i].role /\ x.sub = users[i].sub
      /\ x.how = users[i].how
  <2>1. IsRow(users[i])
    BY UsersRow
  <2> QED BY <2>1 DEF IsRow
<1>2. users' = [users EXCEPT ![i].status = "active", ![i].pass = "reset"]
  BY DEF ResetPassword, Alter
<1>3. users' = [users EXCEPT ![i] = x]
  BY <1>2 DEF Base, Shape
<1> HIDE DEF x
<1> QED BY <1>1, <1>3, SetsIs

LEMMA PasswordSet ==
  ASSUME Base, NEW i \in Ids, ChangePassword(i)
  PROVE  \E x : /\ Sets(i, x) /\ x.status = users[i].status /\ x.role = users[i].role
                /\ x.sub = users[i].sub /\ x.how = users[i].how
<1> DEFINE x == [users[i] EXCEPT !.pass = "own"]
<1>1. /\ IsRow(x) /\ x.status = users[i].status /\ x.role = users[i].role
      /\ x.sub = users[i].sub /\ x.how = users[i].how
  BY UsersRow, RowPass
<1>2. users' = [users EXCEPT ![i] = x]
  BY DEF ChangePassword, Alter
<1> HIDE DEF x
<1> QED BY <1>1, <1>2, SetsIs

LEMMA AltersAmends ==
  ASSUME Base, NEW i \in Ids, Alters(i)
  PROVE  Amends(i)
<1>0. i \in Known(users)
  BY DEF Alters, Disable, Enable, ResetPassword, ChangePassword
<1>1. UNCHANGED <<policy, usedBy, flows, torn, upsets>>
  BY DEF Alters, Disable, Enable, ResetPassword, ChangePassword, Alter
<1>2. req' = [s \in Requests |-> Rely(users', req[s])]
  BY DEF Alters, Disable, Enable, ResetPassword, ChangePassword, Alter
<1>3. PICK x : /\ Sets(i, x) /\ x.role = users[i].role
               /\ x.sub = users[i].sub /\ x.how = users[i].how
               /\ x.status \in {users[i].status, "active", "disabled"}
  <2>1. CASE Disable(i)
    <3>1. GetsStatus(i, "disabled")
      BY <2>1 DEF Disable, Alter, GetsStatus
    <3>2. \E x : /\ Sets(i, x) /\ x.status = "disabled" /\ x.role = users[i].role
                 /\ x.sub = users[i].sub /\ x.how = users[i].how
      BY <3>1, StatusSet
    <3> QED BY <3>2
  <2>2. CASE Enable(i)
    <3>1. GetsStatus(i, "active")
      BY <2>2 DEF Enable, Alter, GetsStatus
    <3>2. \E x : /\ Sets(i, x) /\ x.status = "active" /\ x.role = users[i].role
                 /\ x.sub = users[i].sub /\ x.how = users[i].how
      BY <3>1, StatusSet
    <3> QED BY <3>2
  <2>3. CASE ResetPassword(i)
    BY <2>3, ResetSet
  <2>4. CASE ChangePassword(i)
    BY <2>4, PasswordSet
  <2> QED BY <2>1, <2>2, <2>3, <2>4 DEF Alters
<1> QED BY <1>0, <1>1, <1>2, <1>3 DEF Amends, Sets

LEMMA AmendsBase ==
  ASSUME Base, NEW i \in Ids, Amends(i)
  PROVE  Base'
<1>1. i \in Known(users')
  BY DEF Amends, Known
<1>2. \A j \in Known(users) : j \in Known(users')
  BY <1>1 DEF Amends, Known
<1>3. \A s \in Requests : Registrar(req[s]) => req[s].id \in Known(users')
  BY <1>2, RequestIs DEF Sane
<1>4. \A s \in Requests : /\ Registrar(req'[s]) <=> Registrar(req[s])
                          /\ req'[s].id = req[s].id
  BY RequestIs, RelyKeeps DEF Amends, Registrar
<1>5. \A s \in Requests : Sane(req'[s], users')
  BY <1>3, RequestIs, RelySane DEF Base, Amends
<1>6. \A s, t \in Requests : Registrar(req'[s]) /\ Registrar(req'[t]) /\ req'[s].id = req'[t].id
                             => s = t
  BY <1>4 DEF Base, Apart
<1>7. req' = [s \in Requests |-> req'[s]] /\ Shape(users')
  BY DEF Amends
<1> QED BY <1>5, <1>6, <1>7 DEF Base, Apart, Shape, Sane, Knows, Known, Admins

\* Sessions, keys, state rows, codes and the policy: neither the users nor the requests.
Elsewhere ==
  \/ \E i \in Ids : Login(i) \/ TokensExpire(i) \/ CreateKey(i) \/ DeleteKey(i)
  \/ \E f \in 1..MaxFlows : StateExpires(f) \/ \E who \in Identities : SsoLogin(f, who)
  \/ \E code \in Codes : Lapse(code)
  \/ \E p \in {"open", "invite", "closed"} : SetPolicy(p)

LEMMA ElsewhereIs ==
  ASSUME Elsewhere
  PROVE  UNCHANGED <<users, req, torn>>
  BY DEF Elsewhere, Login, TokensExpire, CreateKey, DeleteKey, StateExpires, SsoLogin, Lapse,
         SetPolicy

\* Every step is one of these.
LEMMA StepIs ==
  ASSUME [Next]_vars
  PROVE  \/ \E r \in Requests : Looks(r) \/ Writes(r)
         \/ \E i \in Ids : Alters(i)
         \/ Elsewhere \/ Restart \/ UNCHANGED vars
<1>1. CASE \E r \in Requests : Step(r)
  BY <1>1 DEF Step, Looks, Writes
<1>2. CASE Begin
  BY <1>2 DEF Begin, Looks, Starts, Alters, Elsewhere
<1> QED BY <1>1, <1>2 DEF Next

LEMMA RestartIs ==
  ASSUME Base, Restart
  PROVE  /\ Promotes(users', users) /\ \A r \in Requests : req'[r] = Quiet
         /\ req' = [r \in Requests |-> req'[r]]
  BY PromotedIs DEF Base, Restart

LEMMA BaseUnchanged ==
  ASSUME Base, UNCHANGED <<users, req>>
  PROVE  Base'
  BY DEF Base, Apart, Shape, Sane, Knows, Known, Admins, Registrar

LEMMA BaseNext == Base /\ [Next]_vars => Base'
<1> SUFFICES ASSUME Base, [Next]_vars PROVE Base'
  OBVIOUS
<1>1. CASE Restart
  <2>1. Shape(users') /\ \A r \in Requests : req'[r] = Quiet
    BY <1>1, RestartIs DEF Promotes
  <2>2. \A r \in Requests : Sane(req'[r], users') /\ ~Registrar(req'[r])
    BY <2>1, FreeSane, QuietIs
  <2>3. req' = [r \in Requests |-> req'[r]]
    BY <1>1, RestartIs
  <2> QED BY <2>1, <2>2, <2>3 DEF Base, Apart, Shape, Sane, Knows, Known, Admins, Registrar
<1> QED BY <1>1, StepIs, LooksBase, WritesBase, AltersAmends, AmendsBase, ElsewhereIs,
           BaseUnchanged DEF vars, rows

LEMMA BaseInit == Init => Base
<1> SUFFICES ASSUME Init PROVE Base
  OBVIOUS
<1>1. PICK F \in Founders : users = [i \in Ids |-> IF i <= Len(F) THEN Founder(F[i]) ELSE Unborn]
  BY DEF Init
<1>2. \A p : IsRow(Founder(p))
  BY AccountIs, RowRole DEF Founder
<1>3. IsRow(Unborn)
  BY DEF IsRow, Unborn
<1>4. Shape(users)
  BY <1>1, <1>2, <1>3 DEF Shape
<1>5. req = [r \in Requests |-> Quiet]
  BY DEF Init
<1>6. \A r \in Requests : Sane(req[r], users) /\ ~Registrar(req[r])
  BY <1>5, FreeSane, QuietIs
<1> QED BY <1>4, <1>5, <1>6 DEF Base, Apart

\* Rows and requests are what the handlers make of them, a request that is not late
\* knows the row it is about to write, and no two registrations share an account.
THEOREM RowsAndRequests == Spec => []Base
<1> QED BY BaseInit, BaseNext, PTL DEF Spec

------------------------------------------------------------------------------
(* An administrator remains *)

Hurries(r) == req[r].late /\ req'[r] # req[r]

LEMMA StaysAdmin ==
  ASSUME Shape(users), Shape(users'), NEW i \in Admins(users),
         users'[i].status \in {"active", "disabled"}, users'[i].role = "admin"
  PROVE  Admins(users') # {}
  BY DEF Admins, Known

LEMMA WritesKeepAdmin ==
  ASSUME Base, NEW r \in Requests, Writes(r), Admins(users) # {}
  PROVE  Admins(users') # {} \/ Hurries(r)
<1>0. PICK a \in Admins(users) : TRUE
  OBVIOUS
<1>1. /\ a \in Ids /\ a \in Known(users) /\ users[a].status \in {"active", "disabled"}
      /\ users[a].role = "admin"
  BY <1>0 DEF Admins, Known
<1>2. CASE users' = users
  BY <1>2
\* A row that is still an administrator's.
<1>3. ASSUME NEW b \in Admins(users), users'[b] = users[b], Shape(users') PROVE Admins(users') # {}
  BY <1>3 DEF Admins, Known
<1>4. CASE Create(r) /\ users' # users
  <2>1. PICK q, i : WritesAs(r, q) /\ Makes(r, i, q)
    BY <1>4, CreateWrites
  <2>2. i # a
    BY <1>1, <2>1 DEF Makes, New
  <2> QED BY <1>0, <1>1, <1>3, <2>1, <2>2 DEF Makes, Sets
<1>5. CASE Consume(r)
  BY <1>2, <1>5, ConsumeWrites
<1>6. CASE Undo(r) /\ users' # users
  <2>1. /\ Registrar(req[r]) /\ Sets(req[r].id, [users[req[r].id] EXCEPT !.status = "gone"])
        /\ WritesAs(r, Quiet)
    BY <1>6, UndoWrites
  <2>2. CASE req[r].late
    BY <2>1, <2>2, QuietIs DEF Hurries, WritesAs, Moves, Registrar
  <2>3. CASE ~req[r].late
    <3>1. users[req[r].id].role = "user"
      BY <2>1, <2>3, RequestIs DEF Sane, Knows
    <3>2. a # req[r].id
      BY <1>1, <3>1
    <3> QED BY <1>0, <1>1, <1>3, <2>1, <3>2 DEF Sets
  <2> QED BY <2>2, <2>3
<1>7. CASE Bind(r) /\ users' # users
  <2> DEFINE i == req[r].id
             x == [users[i] EXCEPT !.sub = req[r].who.sub]
  <2>1. i \in Known(users) /\ i \in Ids /\ Sets(i, x)
    BY <1>7, BindWrites DEF Known
  <2>2. x.status = users[i].status /\ x.role = users[i].role
    BY <2>1, UsersRow, RowSub
  <2> HIDE DEF x, i
  <2>3. users'[a].status = users[a].status /\ users'[a].role = users[a].role
    BY <1>1, <2>1, <2>2 DEF Sets
  <2> QED BY <1>0, <1>1, <2>1, <2>3, StaysAdmin DEF Sets, Base
<1>8. CASE SsoEnter(r)
  <2>1. users'[a].status = users[a].status /\ users'[a].role = "admin" /\ Shape(users')
    BY <1>1, <1>8, SsoEnterWrites DEF Promotes
  <2> QED BY <1>0, <1>1, <2>1, StaysAdmin DEF Base
<1>9. CASE Save(r) /\ users' # users
  <2> DEFINE i == req[r].id
             x == [req[r].row EXCEPT !.role = req[r].want]
  <2>1. req[r].pc = "save" /\ i \in Ids /\ Sets(i, x) /\ WritesAs(r, Quiet)
    BY <1>9, SaveWrites
  <2>2. CASE req[r].late
    BY <2>1, <2>2, QuietIs DEF Hurries, WritesAs, Moves
  <2>3. IsRow(req[r].row) /\ req[r].row.status \in {"active", "disabled"}
        /\ req[r].want \in {"user", "admin"}
    BY <2>1, RequestIs DEF Sane
  <2>4. x.status \in {"active", "disabled"} /\ x.role = req[r].want
    BY <2>3, RowRole
  <2> HIDE DEF x
  <2>5. CASE ~req[r].late /\ req[r].want = "user"
    <3>1. Admins(users) # {i}
      BY <2>1, <2>5, RequestIs DEF Sane, Knows
    <3>2. PICK b \in Admins(users) : b # i
      BY <1>0, <3>1
    <3>3. b \in Ids
      BY <3>2 DEF Admins, Known
    <3> QED BY <1>3, <2>1, <3>2, <3>3 DEF Sets
  <2>6. CASE req[r].want = "admin"
    <3>1. i \in Admins(users')
      BY <2>1, <2>4, <2>6 DEF Sets, Admins, Known
    <3> QED BY <3>1
  <2> QED BY <2>2, <2>3, <2>5, <2>6
<1> QED BY <1>2, <1>4, <1>5, <1>6, <1>7, <1>8, <1>9 DEF Writes

LEMMA AdminStep ==
  ASSUME Base, [Next]_vars, Admins(users) # {}
  PROVE  Admins(users') # {} \/ Late
<1>1. ASSUME NEW r \in Requests, Looks(r) PROVE users' = users
  BY <1>1, LooksMoves
<1>2. ASSUME NEW r \in Requests, Writes(r) PROVE Admins(users') # {} \/ Late
  BY <1>2, WritesKeepAdmin DEF Hurries, Late
<1>3. ASSUME NEW i \in Ids, Alters(i) PROVE Admins(users') # {}
  <2>1. Amends(i)
    BY <1>3, AltersAmends
  <2>2. PICK a \in Admins(users) : TRUE
    OBVIOUS
  <2>3. /\ a \in Ids /\ users[a].status \in {"active", "disabled"} /\ users[a].role = "admin"
    BY <2>2 DEF Admins, Known
  <2>4. users'[a].status \in {"active", "disabled"} /\ users'[a].role = "admin" /\ Shape(users')
    BY <2>1, <2>3 DEF Amends
  <2> QED BY <2>2, <2>4, StaysAdmin DEF Base
<1>4. CASE Restart
  <2>1. PICK a \in Admins(users) : TRUE
    OBVIOUS
  <2>2. /\ a \in Ids /\ users[a].status \in {"active", "disabled"} /\ users[a].role = "admin"
    BY <2>1 DEF Admins, Known
  <2>3. Promotes(users', users)
    BY <1>4, RestartIs
  <2>4. users'[a].status \in {"active", "disabled"} /\ users'[a].role = "admin" /\ Shape(users')
    BY <2>2, <2>3 DEF Promotes
  <2> QED BY <2>1, <2>4, StaysAdmin DEF Base
<1> QED BY <1>1, <1>2, <1>3, <1>4, StepIs, ElsewhereIs DEF vars, rows

\* The platform never loses its last administrator to demotions, stale tokens, SSO
\* sign-ins, failed registrations or restarts: the step that takes the role from him is
\* the save of a demotion whose count had failed or had been overtaken, or the removal
\* of an account that was promoted before its invitation was consumed.
THEOREM AnAdminRemains == Spec => AdminRemains
<1>1. Base /\ [Next]_vars => [Admins(users) # {} => Admins(users') # {} \/ Late]_vars
  BY AdminStep
<1> QED BY <1>1, BaseInit, BaseNext, PTL DEF Spec, AdminRemains

------------------------------------------------------------------------------
(* Identities are kept *)

LEMMA WritesKeepIdentity ==
  ASSUME Base, NEW r \in Requests, Writes(r), NEW k \in Known(users), users[k].sub # None
  PROVE  users'[k].sub = users[k].sub \/ Hurries(r)
<1>0. k \in Ids
  BY DEF Known
<1>1. CASE users'[k] = users[k]
  BY <1>1
<1>2. CASE Create(r)
  <2>1. CASE users' = users
    BY <2>1
  <2>2. ASSUME NEW q, NEW i, Makes(r, i, q) PROVE users'[k] = users[k]
    <3>1. i # k
      BY <2>2 DEF Makes, New, Known
    <3> QED BY <1>0, <2>2, <3>1 DEF Makes, Sets
  <2> QED BY <1>2, <2>1, <2>2, CreateWrites
<1>3. CASE Consume(r)
  BY <1>3, ConsumeWrites
<1>4. CASE Undo(r) /\ users' # users
  <2> DEFINE i == req[r].id
             x == [users[i] EXCEPT !.status = "gone"]
  <2>1. i \in Ids /\ Sets(i, x)
    BY <1>4, UndoWrites DEF Known
  <2>2. x.sub = users[i].sub
    BY <2>1, UsersRow, RowStatus
  <2> HIDE DEF x, i
  <2> QED BY <1>0, <2>1, <2>2 DEF Sets
<1>5. CASE Bind(r) /\ users' # users
  <2> DEFINE i == req[r].id
             x == [users[i] EXCEPT !.sub = req[r].who.sub]
  <2>1. i \in Ids /\ Sets(i, x) /\ req[r].pc = "bind"
    BY <1>5, BindWrites DEF Known
  <2>2. x.sub = req[r].who.sub
    BY <2>1, UsersRow, RowSub
  <2> HIDE DEF x
  <2>3. CASE req[r].late
    <3>1. PICK q : WritesAs(r, q) /\ q.pc \in {"idle", "enter"}
      BY <1>5, BindWrites
    <3> QED BY <2>1, <2>3, <3>1 DEF Hurries, WritesAs, Moves
  <2>4. CASE ~req[r].late
    <3>1. users[i].sub \in {None, req[r].who.sub}
      BY <2>1, <2>4, RequestIs DEF Sane, Knows
    <3>2. k = i => users'[k].sub = users[k].sub
      BY <2>1, <2>2, <3>1 DEF Sets
    <3> QED BY <1>0, <2>1, <3>2 DEF Sets
  <2> QED BY <2>3, <2>4
<1>6. CASE SsoEnter(r)
  BY <1>0, <1>6, SsoEnterWrites DEF Promotes
<1>7. CASE Save(r) /\ users' # users
  <2> DEFINE i == req[r].id
             x == [req[r].row EXCEPT !.role = req[r].want]
  <2>1. req[r].pc = "save" /\ i \in Ids /\ Sets(i, x) /\ WritesAs(r, Quiet)
    BY <1>7, SaveWrites
  <2>2. CASE req[r].late
    BY <2>1, <2>2, QuietIs DEF Hurries, WritesAs, Moves
  <2>3. CASE ~req[r].late
    <3>1. req[r].row = users[i] /\ IsRow(req[r].row)
      BY <2>1, <2>3, RequestIs DEF Sane, Knows
    <3>2. x.sub = users[i].sub
      BY <3>1, RowRole
    <3> HIDE DEF x, i
    <3> QED BY <1>0, <2>1, <3>2 DEF Sets
  <2> QED BY <2>2, <2>3
<1> QED BY <1>1, <1>2, <1>3, <1>4, <1>5, <1>6, <1>7 DEF Writes

LEMMA IdentityStep ==
  ASSUME Base, [Next]_vars, NEW k \in Known(users), users[k].sub # None
  PROVE  users'[k].sub = users[k].sub \/ Late
<1>0. k \in Ids
  BY DEF Known
<1>1. ASSUME NEW r \in Requests, Looks(r) PROVE users' = users
  BY <1>1, LooksMoves
<1>2. ASSUME NEW r \in Requests, Writes(r) PROVE users'[k].sub = users[k].sub \/ Late
  BY <1>2, WritesKeepIdentity DEF Hurries, Late
<1>3. ASSUME NEW i \in Ids, Alters(i) PROVE users'[k].sub = users[k].sub
  BY <1>0, <1>3, AltersAmends DEF Amends
<1>4. CASE Restart
  BY <1>0, <1>4, RestartIs DEF Promotes
<1> QED BY <1>1, <1>2, <1>3, <1>4, StepIs, ElsewhereIs DEF vars, rows

\* The identity an account is bound to stays: a sign-in never moves an account to
\* another subject, whatever address the subject asserts, unless a second sign-in has
\* bound it, or a role was saved over the binding, between its look and its write.
THEOREM IdentityStays == Spec => IdentityKept
<1>1. ASSUME Base, [Next]_vars
      PROVE  [\A i \in Known(users) :
                users[i].sub # None /\ i \in Known(users') => users'[i].sub = users[i].sub \/ Late]_vars
  BY <1>1, IdentityStep
<1>2. Base /\ [Next]_vars =>
        [\A i \in Known(users) :
           users[i].sub # None /\ i \in Known(users') => users'[i].sub = users[i].sub \/ Late]_vars
  BY <1>1
<1> QED BY <1>2, BaseInit, BaseNext, PTL DEF Spec, IdentityKept

------------------------------------------------------------------------------
(* Disabled accounts stay silent *)

\* A write by a request leaves a disabled account disabled, or is late.
LEMMA WritesKeepDisabled ==
  ASSUME Base, NEW r \in Requests, Writes(r), NEW k \in Ids, users[k].status = "disabled"
  PROVE  users'[k].status = "disabled" \/ k \in torn'
<1>1. CASE users'[k] = users[k]
  BY <1>1
<1>2. CASE Create(r)
  <2>1. CASE users' = users
    BY <2>1
  <2>2. ASSUME NEW q, NEW i, Makes(r, i, q) PROVE users'[k] = users[k]
    <3>1. i # k
      BY <2>2 DEF Makes, New
    <3> QED BY <2>2, <3>1 DEF Makes, Sets
  <2> QED BY <1>1, <1>2, <2>1, <2>2, CreateWrites
<1>3. CASE Consume(r)
  BY <1>3, ConsumeWrites
<1>4. CASE Undo(r) /\ users' # users
  <2>1. /\ Sets(req[r].id, [users[req[r].id] EXCEPT !.status = "gone"])
        /\ WritesAs(r, Quiet) /\ Registrar(req[r])
    BY <1>4, UndoWrites
  <2>2. CASE req[r].late
    BY <1>4, <2>1, <2>2 DEF WritesAs, Tears, Sets
  <2>3. CASE ~req[r].late
    <3>1. users[req[r].id].status = "active"
      BY <2>1, <2>3, RequestIs DEF Sane, Knows
    <3>2. k # req[r].id
      BY <3>1
    <3> QED BY <2>1, <3>2 DEF Sets
  <2> QED BY <2>2, <2>3
<1>5. CASE Bind(r) /\ users' # users
  <2> DEFINE i == req[r].id
             x == [users[i] EXCEPT !.sub = req[r].who.sub]
  <2>1. i \in Ids /\ Sets(i, x)
    BY <1>5, BindWrites DEF Known
  <2>2. x.status = users[i].status
    BY <2>1, UsersRow, RowSub
  <2> HIDE DEF x, i
  <2> QED BY <2>1, <2>2 DEF Sets
<1>6. CASE SsoEnter(r)
  BY <1>6, SsoEnterWrites DEF Promotes
<1>7. CASE Save(r) /\ users' # users
  <2> DEFINE i == req[r].id
             x == [req[r].row EXCEPT !.role = req[r].want]
  <2>1. req[r].pc = "save" /\ i \in Ids /\ Sets(i, x) /\ WritesAs(r, Quiet)
    BY <1>7, SaveWrites
  <2>2. CASE req[r].late
    <3>1. torn' = torn \cup {i}
      BY <1>7, <2>1, <2>2 DEF WritesAs, Tears
    <3> HIDE DEF x, i
    <3> QED BY <2>1, <3>1 DEF Sets
  <2>3. CASE ~req[r].late
    <3>1. req[r].row = users[i] /\ IsRow(req[r].row)
      BY <2>1, <2>3, RequestIs DEF Sane, Knows
    <3>2. x.status = users[i].status
      BY <3>1, RowRole
    <3> HIDE DEF x, i
    <3> QED BY <2>1, <3>2 DEF Sets
  <2> QED BY <2>2, <2>3
<1> QED BY <1>1, <1>2, <1>3, <1>4, <1>5, <1>6, <1>7 DEF Writes

\* No key is switched on, no account shut, and what was disabled is or is torn.
LEMMA StillSilent ==
  ASSUME Silent, keys' = keys, shut' \subseteq shut, torn \subseteq torn',
         \A k \in shut' : users[k].status = "disabled" => users'[k].status = "disabled" \/ k \in torn'
  PROVE  Silent'
  BY DEF Silent, DisabledStays

\* One key is set: off or deleted, or on where the account is not shut any more.
LEMMA KeySilent ==
  ASSUME Silent, NEW j, NEW w, keys' = [keys EXCEPT ![j] = w], users' = users, torn' = torn,
         shut' \subseteq shut, w = "on" => j \notin shut'
  PROVE  Silent'
<1>1. keys' = [i \in Ids |-> keys'[i]]
  BY DEF Silent
<1>2. \A k \in shut' : keys'[k] # "on"
  BY DEF Silent, DisabledStays
<1>3. \A k \in shut' : k \notin torn' => users'[k].status = "disabled"
  BY DEF Silent, DisabledStays
<1> QED BY <1>1, <1>2, <1>3 DEF Silent, DisabledStays

LEMMA DisableSilent ==
  ASSUME Base, Silent, NEW i \in Ids, Disable(i)
  PROVE  Silent'
<1>1. GetsStatus(i, "disabled") /\ torn' = torn
  BY DEF Disable, Alter, GetsStatus
<1>2. PICK x : Sets(i, x) /\ x.status = "disabled"
  <2>1. \E x : /\ Sets(i, x) /\ x.status = "disabled" /\ x.role = users[i].role
               /\ x.sub = users[i].sub /\ x.how = users[i].how
    BY <1>1, StatusSet
  <2> QED BY <2>1
<1>3. keys' = [keys EXCEPT ![i] = IF keys[i] = "on" THEN "off" ELSE keys[i]] /\ shut' = shut \cup {i}
  BY DEF Disable, Silenced
<1>4. keys' = [k \in Ids |-> keys'[k]] /\ shut' \subseteq Ids
  BY <1>3 DEF Silent
<1>5. \A k \in shut' : keys'[k] # "on"
  BY <1>3 DEF Silent, DisabledStays
<1>6. \A k \in shut' : k \notin torn' => users'[k].status = "disabled"
  BY <1>1, <1>2, <1>3 DEF Silent, DisabledStays, Sets
<1> QED BY <1>4, <1>5, <1>6 DEF Silent, DisabledStays

LEMMA SilentNext == Base /\ Silent /\ [Next]_vars => Silent'
<1> SUFFICES ASSUME Base, Silent, [Next]_vars PROVE Silent'
  OBVIOUS
<1>1. ASSUME NEW r \in Requests, Looks(r) PROVE Silent'
  <2>1. users' = users /\ torn' = torn
    BY <1>1, LooksMoves
  <2>2. CASE SaveKey(r)
    <3>1. /\ keys' = [keys EXCEPT ![req[r].id] = req[r].want]
          /\ shut' = IF req[r].want = "on" THEN shut \ {req[r].id} ELSE shut
      BY <2>2 DEF SaveKey
    <3> QED BY <2>1, <3>1, KeySilent
  <2>3. CASE ~SaveKey(r)
    <3>1. keys' = keys /\ shut' = shut
      BY <1>1, <2>3 DEF Looks, Starts, Register, Callback, EditKey, SetRole, Admit, Forget, Redeem,
             BySub, ByEmail, Target, Count, Load, rows
    <3> QED BY <2>1, <3>1, StillSilent
  <2> QED BY <2>2, <2>3
<1>2. ASSUME NEW r \in Requests, Writes(r) PROVE Silent'
  <2>1. keys' = keys /\ shut' = shut
    BY <1>2 DEF Writes, Create, Consume, Undo, Bind, SsoEnter, Save
  <2>2. torn \subseteq torn'
    <3>1. \E q : WritesAs(r, q) \/ torn' = torn
      BY <1>2, CreateWrites, ConsumeWrites, UndoWrites, BindWrites, SsoEnterWrites, SaveWrites DEF Writes
    <3> QED BY <3>1 DEF WritesAs, Tears
  <2>3. \A k \in shut : users[k].status = "disabled" => users'[k].status = "disabled" \/ k \in torn'
    BY <1>2, WritesKeepDisabled DEF Silent
  <2> QED BY <2>1, <2>2, <2>3, StillSilent
<1>3. ASSUME NEW i \in Ids, Alters(i) PROVE Silent'
  <2>1. Amends(i)
    BY <1>3, AltersAmends
  <2>2. CASE Enable(i) \/ ResetPassword(i)
    <3>1. keys' = keys /\ shut' = shut \ {i} /\ torn' = torn
      BY <2>1, <2>2 DEF Enable, ResetPassword, Amends
    <3>2. \A k \in shut' : users'[k] = users[k]
      BY <2>1, <3>1 DEF Amends, Silent
    <3> QED BY <3>1, <3>2, StillSilent
  <2>3. CASE ChangePassword(i)
    <3>1. keys' = keys /\ shut' = shut /\ torn' = torn
      BY <2>1, <2>3 DEF ChangePassword, Amends
    <3>2. PICK x : Sets(i, x) /\ x.status = users[i].status
      BY <2>3, PasswordSet
    <3>3. \A k \in shut' : users'[k].status = users[k].status
      BY <3>1, <3>2 DEF Sets, Silent
    <3> QED BY <3>1, <3>3, StillSilent
  <2> QED BY <1>3, <2>2, <2>3, DisableSilent DEF Alters
<1>4. CASE Elsewhere
  <2>1. users' = users /\ torn' = torn
    BY <1>4, ElsewhereIs
  <2>2. ASSUME NEW i \in Ids, CreateKey(i) \/ DeleteKey(i) PROVE Silent'
    <3>1. CASE CreateKey(i)
      <4>1. keys' = [keys EXCEPT ![i] = "on"] /\ shut' = shut \ {i}
        BY <3>1 DEF CreateKey
      <4> QED BY <2>1, <4>1, KeySilent
    <3>2. CASE DeleteKey(i)
      <4>1. keys' = [keys EXCEPT ![i] = None] /\ shut' = shut /\ None # "on"
        BY <3>2 DEF DeleteKey, None
      <4> QED BY <2>1, <4>1, KeySilent
    <3> QED BY <2>2, <3>1, <3>2
  <2>3. CASE ~ \E i \in Ids : CreateKey(i) \/ DeleteKey(i)
    <3>1. keys' = keys /\ shut' = shut
      BY <1>4, <2>3 DEF Elsewhere, Login, TokensExpire, StateExpires, SsoLogin, Lapse, SetPolicy
    <3> QED BY <2>1, <3>1, StillSilent
  <2> QED BY <2>2, <2>3
<1>5. CASE Restart
  <2>1. keys' = keys /\ shut' = shut /\ torn' = torn
    BY <1>5 DEF Restart
  <2>2. \A k \in shut : users'[k].status = users[k].status
    BY <1>5, RestartIs DEF Promotes, Silent
  <2> QED BY <2>1, <2>2, StillSilent
<1>6. CASE UNCHANGED vars
  BY <1>6, StillSilent DEF vars, rows
<1> QED BY <1>1, <1>2, <1>3, <1>4, <1>5, <1>6, StepIs

\* A disabled account has no working key but one its own session has switched on again,
\* and stays disabled until an administrator unlocks it, except where a save or an undo
\* writes over it what was loaded before.
THEOREM DisabledAreSilent == Spec => []DisabledStays
<1>1. Init => Silent
  BY DEF Init, Silent, DisabledStays
<1>2. Silent => DisabledStays
  BY DEF Silent
<1> QED BY <1>1, <1>2, SilentNext, BaseInit, BaseNext, PTL DEF Spec

------------------------------------------------------------------------------
(* Invitations *)

\* A step that neither makes nor removes an account, and consumes no code.
Mild ==
  /\ \A i \in Ids : /\ i \in Known(users') <=> i \in Known(users)
                    /\ users'[i].how = users[i].how
  /\ \A s \in Requests :
       /\ Registrar(req'[s]) <=> Registrar(req[s])
       /\ Registrar(req[s]) => req'[s].id = req[s].id
       /\ req'[s].pc = "create" /\ req'[s].want = "invite" =>
            policy = "invite" \/ (req[s].pc = "create" /\ req[s].want = "invite")
       /\ req'[s].pc = "save" => \/ req[s].pc = "save" /\ req'[s].row = req[s].row
                                \/ \E i \in Ids : req'[s].row = users[i]
  /\ usedBy' = [c \in Codes |-> usedBy'[c]]
  /\ \A c \in Codes : usedBy[c] \in Ids \/ usedBy'[c] \in Ids => usedBy'[c] = usedBy[c]
  /\ torn \subseteq torn'
  /\ upsets' = upsets => policy' = policy

Upsetting == upsets' = upsets \/ upsets' = upsets + 1

KnownIds(t) == \A i \in Known(t) : i \in Ids

LEMMA KnownAreIds == ASSUME NEW t PROVE KnownIds(t)
  BY DEF KnownIds, Known

\* The codes that were consumed stay consumed by accounts that stay.
LEMMA PaidStays ==
  ASSUME Base, Paid, usedBy' = [c \in Codes |-> usedBy'[c]],
         \A c \in Codes : usedBy'[c] \in Ids =>
           usedBy'[c] = usedBy[c] /\ (usedBy[c] \in Known(users) => usedBy[c] \in Known(users')),
         \A s \in Requests : Registrar(req'[s]) =>
           /\ req'[s].id \in Ids
           /\ (Registrar(req[s]) /\ req'[s].id = req[s].id) \/ req'[s].id \in New
  PROVE  Paid'
<1>1. ASSUME NEW c \in Codes, usedBy'[c] \in Ids PROVE usedBy'[c] \in Known(users')
  BY <1>1 DEF Paid
<1>2. ASSUME NEW c \in Codes, NEW s \in Requests, Registrar(req'[s]) PROVE usedBy'[c] # req'[s].id
  <2>1. CASE usedBy'[c] \notin Ids
    BY <1>2, <2>1
  <2>2. CASE usedBy'[c] \in Ids
    <3>1. usedBy'[c] = usedBy[c] /\ usedBy[c] \in Known(users)
      BY <2>2 DEF Paid
    <3>2. usedBy[c] \notin New
      BY <3>1 DEF Known, New
    <3> QED BY <1>2, <3>1, <3>2 DEF Paid
  <2> QED BY <2>1, <2>2
<1>3. \A s \in Requests : Registrar(req[s])' <=> Registrar(req'[s])
  BY DEF Registrar
<1>4. \A i \in Ids : i \in Known(users)' <=> i \in Known(users')
  BY DEF Known
<1> QED BY <1>1, <1>2, <1>3, <1>4 DEF Paid

\* The account of an invitation goes on being paid for, or has been.
PaysFor(i, table, reqs, codes) ==
  table[i].how = "invite" =>
    \/ \E r \in Requests : Registrar(reqs[r]) /\ reqs[r].id = i
    \/ \E c \in Codes : codes[c] = i

LEMMA PayingIs ==
  /\ Paying <=> \A i \in Known(users) \ torn : PaysFor(i, users, req, usedBy)
  /\ Paying' <=> \A i \in Known(users') \ torn' : PaysFor(i, users', req', usedBy')
  BY DEF Paying, PaysFor, Known, Registrar

LEMMA MildStep ==
  ASSUME Base, Invitations, Mild, Upsetting
  PROVE  Invitations'
<1>0. upsets \in Nat /\ upsets' \in Nat /\ (upsets' = 0 => upsets = 0 /\ upsets' = upsets)
  BY DEF Invitations, Upsetting
<1>1. Paid'
  <2>1. \A s \in Requests : Registrar(req[s]) => req[s].id \in Ids
    BY RequestIs DEF Sane, Known
  <2> QED BY <2>1, PaidStays DEF Mild, Invitations
<1>2. ASSUME upsets' = 0 PROVE ByInvitation'
  <2>1. ByInvitation /\ policy' = policy
    BY <1>0, <1>2 DEF Invitations, Mild
  <2>2. \A i \in Ids : users'[i].how = "invite" => policy' = "invite"
    BY <2>1 DEF ByInvitation, Mild
  <2>3. ASSUME NEW s \in Requests, req'[s].pc = "create", req'[s].want = "invite"
        PROVE  policy' = "invite"
    BY <2>1, <2>3 DEF ByInvitation, Mild
  <2>4. ASSUME NEW s \in Requests, req'[s].pc = "save", req'[s].row.how = "invite"
        PROVE  policy' = "invite"
    BY <2>1, <2>4 DEF ByInvitation, Mild
  <2> QED BY <2>2, <2>3, <2>4 DEF ByInvitation
<1>3. ASSUME upsets' = 0 PROVE Paying'
  <2>1. Paying
    BY <1>0, <1>3 DEF Invitations
  <2>2. ASSUME NEW i \in Known(users') \ torn' PROVE PaysFor(i, users', req', usedBy')
    <3>1. i \in Ids /\ i \in Known(users) \ torn /\ users'[i].how = users[i].how
      BY <2>2, KnownAreIds DEF Mild, KnownIds
    <3>2. PaysFor(i, users, req, usedBy)
      BY <2>1, <3>1, PayingIs
    <3>3. \A c \in Codes : usedBy[c] = i => usedBy'[c] = i
      BY <3>1 DEF Mild
    <3>4. \A r \in Requests : Registrar(req[r]) /\ req[r].id = i => Registrar(req'[r]) /\ req'[r].id = i
      BY DEF Mild
    <3> QED BY <3>1, <3>2, <3>3, <3>4 DEF PaysFor
  <2> QED BY <2>2, PayingIs
<1> QED BY <1>0, <1>1, <1>2, <1>3 DEF Invitations

\* What the others do not do in the step of request r.
OthersAsBefore(r) ==
  \A s \in Requests \ {r} :
    /\ req'[s].pc = req[s].pc /\ req'[s].id = req[s].id /\ req'[s].want = req[s].want
    /\ req'[s].row = req[s].row

LEMMA OthersRely ==
  ASSUME Base, NEW r \in Requests, NEW q, Moves(r, q)
  PROVE  req'[r] = q /\ OthersAsBefore(r)
<1>1. req'[r] = q /\ \A s \in Requests \ {r} : req'[s] = Rely(users', req[s])
  BY DEF Moves
<1> QED BY <1>1, RequestIs, RelyKeeps DEF OthersAsBefore

LEMMA MildMove ==
  ASSUME Base, Paid, NEW r \in Requests, NEW q, req'[r] = q, OthersAsBefore(r),
         ~Registrar(q), ~Registrar(req[r]),
         q.pc = "create" /\ q.want = "invite" => policy = "invite",
         q.pc = "save" => \E i \in Ids : q.row = users[i],
         \A i \in Ids : /\ i \in Known(users') <=> i \in Known(users)
                        /\ users'[i].how = users[i].how,
         usedBy' = usedBy, policy' = policy, torn \subseteq torn'
  PROVE  Mild
<1>1. \A s \in Requests \ {r} : Registrar(req'[s]) <=> Registrar(req[s])
  BY DEF OthersAsBefore, Registrar
<1>2. ASSUME NEW s \in Requests
      PROVE  /\ Registrar(req'[s]) <=> Registrar(req[s])
             /\ Registrar(req[s]) => req'[s].id = req[s].id
             /\ req'[s].pc = "create" /\ req'[s].want = "invite" =>
                  policy = "invite" \/ (req[s].pc = "create" /\ req[s].want = "invite")
             /\ req'[s].pc = "save" => \/ req[s].pc = "save" /\ req'[s].row = req[s].row
                                      \/ \E i \in Ids : req'[s].row = users[i]
  <2>1. CASE s = r
    <3>1. req'[s] = q /\ ~Registrar(req'[s]) /\ ~Registrar(req[s])
      BY <2>1
    <3>2. req'[s].pc = "create" /\ req'[s].want = "invite" => policy = "invite"
      BY <3>1
    <3>3. req'[s].pc = "save" => \E i \in Ids : req'[s].row = users[i]
      BY <3>1
    <3>4. Registrar(req'[s]) <=> Registrar(req[s])
      BY <3>1
    <3>5. Registrar(req[s]) => req'[s].id = req[s].id
      BY <3>1
    <3> QED BY <3>2, <3>3, <3>4, <3>5, Zenon
  <2>2. CASE s # r
    BY <1>1, <2>2 DEF OthersAsBefore
  <2> QED BY <2>1, <2>2
<1>3. usedBy' = [c \in Codes |-> usedBy'[c]]
  BY DEF Paid
<1> QED BY <1>2, <1>3 DEF Mild

LEMMA LooksMild ==
  ASSUME Base, Paid, NEW r \in Requests, Looks(r)
  PROVE  Mild
<1>1. UNCHANGED <<users, policy, usedBy, torn>> /\ ~Registrar(req[r])
  BY LooksMoves
<1>2. PICK q : LooksAs(r, q)
  BY LooksMoves
<1>3. Moves(r, q)
  BY <1>1, <1>2, BecomeMoves DEF LooksAs
<1> QED BY <1>1, <1>2, <1>3, OthersRely, MildMove DEF LooksAs

LEMMA AmendsMild ==
  ASSUME Base, Paid, NEW i \in Ids, Amends(i)
  PROVE  Mild
<1>1. \A s \in Requests :
        /\ req'[s].pc = req[s].pc /\ req'[s].id = req[s].id /\ req'[s].want = req[s].want
        /\ req'[s].row = req[s].row
  BY RequestIs, RelyKeeps DEF Amends
<1>2. \A j \in Ids : /\ j \in Known(users') <=> j \in Known(users)
                     /\ users'[j].how = users[j].how
  BY DEF Amends, Known
<1>3. \A s \in Requests : Registrar(req'[s]) <=> Registrar(req[s])
  BY <1>1 DEF Registrar
<1> QED BY <1>1, <1>2, <1>3 DEF Mild, Amends, Paid

\* A code has one use: it is given to the account of the registration, which is done.
LEMMA ConsumeInvites ==
  ASSUME Base, Invitations, Upsetting, NEW r \in Requests, Consume(r)
  PROVE  Invitations'
<1> DEFINE i == req[r].id
<1>0. /\ upsets \in Nat /\ upsets' \in Nat /\ (upsets' = 0 => upsets = 0 /\ upsets' = upsets)
      /\ Paid
  BY DEF Invitations, Upsetting
<1>1. users' = users /\ torn' = torn /\ Registrar(req[r]) /\ policy' = policy
  BY ConsumeWrites DEF Consume
<1>2. i \in Known(users) /\ i \in Ids
  BY <1>1, RequestIs DEF Sane, Known
<1>3. PICK q : WritesAs(r, q) /\ (q = Quiet \/ (q.pc = "undo" /\ q.id = i))
  <2>1. WritesAs(r, Quiet) \/ \E q : WritesAs(r, q) /\ q.pc = "undo" /\ q.id = i
    BY ConsumeWrites
  <2> QED BY <2>1, Zenon
<1>4. req'[r] = q /\ OthersAsBefore(r) /\ q.pc \notin {"create", "save"}
  BY <1>3, OthersRely, QuietIs DEF WritesAs
<1>5. \A s \in Requests \ {r} : /\ Registrar(req'[s]) <=> Registrar(req[s])
                              /\ req'[s].id = req[s].id
  BY <1>4 DEF OthersAsBefore, Registrar
<1>6. \A s \in Requests : Registrar(req'[s]) =>
        req'[s].id \in Ids /\ Registrar(req[s]) /\ req'[s].id = req[s].id
  <2>1. \A s \in Requests : Registrar(req[s]) => req[s].id \in Ids
    BY RequestIs DEF Sane, Known
  <2>2. ~Registrar(Quiet)
    BY QuietIs DEF Registrar
  <2> QED BY <1>1, <1>2, <1>3, <1>4, <1>5, <2>1, <2>2
<1>7. upsets' = 0 => ByInvitation'
  <2>1. \A s \in Requests : req'[s].pc \in {"create", "save"} =>
          req'[s].pc = req[s].pc /\ req'[s].want = req[s].want /\ req'[s].row = req[s].row
    BY <1>4 DEF OthersAsBefore
  <2>2. upsets' = 0 => ByInvitation
    BY <1>0 DEF Invitations
  <2>3. ASSUME ByInvitation PROVE ByInvitation'
    <3>1. \A j \in Ids : users'[j].how = "invite" => policy' = "invite"
      BY <1>1, <2>3 DEF ByInvitation
    <3>2. \A s \in Requests :
            /\ req'[s].pc = "create" /\ req'[s].want = "invite" => policy' = "invite"
            /\ req'[s].pc = "save" /\ req'[s].row.how = "invite" => policy' = "invite"
      BY <1>1, <2>1, <2>3 DEF ByInvitation
    <3> QED BY <3>1, <3>2 DEF ByInvitation
  <2> QED BY <2>2, <2>3
<1>8. upsets' = 0 => Paying
  BY <1>0 DEF Invitations
\* The others' accounts stay paid for if no code of theirs is taken.
<1>9. ASSUME Paying, \A c \in Codes : usedBy[c] \in Ids => usedBy'[c] = usedBy[c],
             NEW j \in Known(users') \ torn', j # i
      PROVE  PaysFor(j, users', req', usedBy')
  <2>1. j \in Ids /\ PaysFor(j, users, req, usedBy)
    BY <1>1, <1>9, PayingIs, KnownAreIds DEF KnownIds
  <2>2. \A s \in Requests : Registrar(req[s]) /\ req[s].id = j => Registrar(req'[s]) /\ req'[s].id = j
    BY <1>5, <1>9
  <2> QED BY <1>1, <1>9, <2>1, <2>2 DEF PaysFor
<1> HIDE DEF i
<1>10. CASE usedBy' = usedBy
  <2>1. Paid'
    BY <1>0, <1>1, <1>6, <1>10, PaidStays DEF Paid
  <2>2. ASSUME upsets' = 0, i \in Known(users') \ torn' PROVE PaysFor(i, users', req', usedBy')
    <3>1. CASE Registrar(q)
      <4>1. q.id = i
        BY <1>3, <3>1, QuietIs DEF Registrar
      <4> QED BY <1>4, <3>1, <4>1 DEF PaysFor
    <3>2. CASE ~Registrar(q)
      <4>1. q = Quiet /\ ~Goto(r, "undo")
        <5>1. q.pc # "undo"
          BY <3>2 DEF Registrar
        <5>2. q.pc = "idle"
          BY <1>3, <5>1, QuietIs
        <5>3. IsRequest(req[r])
          BY RequestIs
        <5>4. [req[r] EXCEPT !.pc = "undo"].pc = "undo"
          BY <5>3 DEF IsRequest
        <5>5. Goto(r, "undo") => req'[r] = [req[r] EXCEPT !.pc = "undo"]
          BY DEF Base, Goto, Become
        <5> QED BY <1>3, <1>4, <5>1, <5>4, <5>5
      <4>2. ~Upset
        BY <1>0, <2>2 DEF Upset
      <4>3. ~(policy = "invite" /\ Usable(req[r].code))
        <5> SUFFICES ASSUME policy = "invite", Usable(req[r].code) PROVE FALSE
          OBVIOUS
        <5> DEFINE c == req[r].code
        <5>1. usedBy' = [usedBy EXCEPT ![c] = i]
          BY <4>2 DEF Consume, i
        <5>2. c \in Codes /\ usedBy[c] = Null
          BY RequestIs DEF Usable, IsRequest
        <5> HIDE DEF c
        <5>3. usedBy'[c] = i /\ usedBy'[c] = Null
          BY <1>0, <1>10, <5>1, <5>2 DEF Paid
        <5> QED BY <1>2, <5>3 DEF Ids, Null
      <4>4. policy # "invite"
        BY <4>1, <4>2, <4>3 DEF Consume
      <4>5. users[i].how # "invite"
        BY <1>0, <1>2, <2>2, <4>4 DEF Invitations, ByInvitation
      <4> QED BY <1>1, <4>5 DEF PaysFor
    <3> QED BY <3>1, <3>2
  <2>3. upsets' = 0 => Paying'
    BY <1>8, <1>9, <1>10, <2>2, PayingIs
  <2> QED BY <1>0, <1>7, <2>1, <2>3 DEF Invitations
<1>11. CASE usedBy' # usedBy
  <2> DEFINE c == req[r].code
  <2>1. Usable(c) /\ usedBy' = [usedBy EXCEPT ![c] = i] /\ End(r)
    BY <1>11 DEF Consume, i
  <2>2. c \in Codes /\ usedBy[c] = Null
    BY <2>1, RequestIs DEF Usable, IsRequest
  <2> HIDE DEF c
  <2>3. /\ usedBy' = [d \in Codes |-> usedBy'[d]] /\ usedBy'[c] = i
        /\ \A d \in Codes \ {c} : usedBy'[d] = usedBy[d]
    BY <1>0, <2>1, <2>2 DEF Paid
  <2>4. ~Registrar(req'[r])
    BY <2>1, QuietIs DEF End, Become, Base, Registrar
  <2>5. Paid'
    <3>1. ASSUME NEW d \in Codes, usedBy'[d] \in Ids PROVE usedBy'[d] \in Known(users')
      BY <1>0, <1>1, <1>2, <2>3, <3>1 DEF Paid
    <3>2. ASSUME NEW d \in Codes, NEW s \in Requests, Registrar(req'[s])
          PROVE  usedBy'[d] # req'[s].id
      <4>1. s # r /\ Registrar(req[s]) /\ req'[s].id = req[s].id
        BY <1>6, <2>4, <3>2
      <4>2. req[s].id # i
        BY <1>1, <4>1 DEF Base, Apart, i
      <4> QED BY <1>0, <2>3, <4>1, <4>2 DEF Paid
    <3>3. \A s \in Requests : Registrar(req[s])' <=> Registrar(req'[s])
      BY DEF Registrar
    <3>4. \A j \in Ids : j \in Known(users)' <=> j \in Known(users')
      BY DEF Known
    <3> QED BY <2>3, <3>1, <3>2, <3>3, <3>4 DEF Paid
  <2>6. \A d \in Codes : usedBy[d] \in Ids => usedBy'[d] = usedBy[d]
    BY <2>2, <2>3 DEF Null, Ids
  <2>7. PaysFor(i, users', req', usedBy')
    BY <2>2, <2>3 DEF PaysFor
  <2>8. upsets' = 0 => Paying'
    BY <1>8, <1>9, <2>6, <2>7, PayingIs
  <2> QED BY <1>0, <1>7, <2>5, <2>8 DEF Invitations
<1> QED BY <1>10, <1>11

\* Where accounts other than i go on as they were, they go on being paid for.
LEMMA OthersPay ==
  ASSUME Paying, NEW i, torn \subseteq torn', usedBy' = usedBy,
         \A j \in Ids \ {i} : j \in Known(users') =>
           j \in Known(users) /\ users'[j].how = users[j].how,
         \A s \in Requests : Registrar(req[s]) /\ req[s].id # i =>
           Registrar(req'[s]) /\ req'[s].id = req[s].id,
         i \in Known(users') \ torn' => PaysFor(i, users', req', usedBy')
  PROVE  Paying'
<1>1. ASSUME NEW j \in Known(users') \ torn', j # i PROVE PaysFor(j, users', req', usedBy')
  <2>1. j \in Ids
    BY KnownAreIds DEF KnownIds
  <2>2. j \in Known(users) \ torn /\ users'[j].how = users[j].how
    BY <1>1, <2>1
  <2>3. PaysFor(j, users, req, usedBy)
    BY <2>2, PayingIs
  <2>4. \A s \in Requests : Registrar(req[s]) /\ req[s].id = j => Registrar(req'[s]) /\ req'[s].id = j
    BY <1>1
  <2> QED BY <2>2, <2>3, <2>4 DEF PaysFor
<1> QED BY <1>1, PayingIs

LEMMA StillByInvitation ==
  ASSUME ByInvitation, policy' = policy, NEW r \in Requests, OthersAsBefore(r),
         req'[r].pc \notin {"create", "save"},
         \A j \in Ids : users'[j].how = "invite" => users[j].how = "invite" \/ policy = "invite"
  PROVE  ByInvitation'
<1>1. \A j \in Ids : users'[j].how = "invite" => policy' = "invite"
  BY DEF ByInvitation
<1>2. \A s \in Requests : req'[s].pc \in {"create", "save"} =>
        req'[s].pc = req[s].pc /\ req'[s].want = req[s].want /\ req'[s].row = req[s].row
  BY DEF OthersAsBefore
<1>3. \A s \in Requests :
        /\ req'[s].pc = "create" /\ req'[s].want = "invite" => policy' = "invite"
        /\ req'[s].pc = "save" /\ req'[s].row.how = "invite" => policy' = "invite"
  BY <1>2 DEF ByInvitation
<1> QED BY <1>1, <1>3 DEF ByInvitation

\* The registrations are the same but for r, which is none any more.
LEMMA OtherRegistrars ==
  ASSUME Base, NEW r \in Requests, OthersAsBefore(r)
  PROVE  \A s \in Requests \ {r} :
           /\ Registrar(req'[s]) <=> Registrar(req[s])
           /\ req'[s].id = req[s].id
           /\ Registrar(req[s]) => req[s].id \in Ids
<1>1. \A s \in Requests : Registrar(req[s]) => req[s].id \in Ids
  BY RequestIs DEF Sane, Known
<1> QED BY <1>1 DEF OthersAsBefore, Registrar

LEMMA WritesTear ==
  ASSUME NEW r \in Requests, NEW q, WritesAs(r, q)
  PROVE  torn \subseteq torn'
  BY DEF WritesAs, Tears

\* An account let in by invitation is made by a registration that has to pay.
LEMMA CreateInvites ==
  ASSUME Base, Invitations, NEW r \in Requests, Create(r)
  PROVE  Invitations'
<1>0. /\ usedBy' = usedBy /\ policy' = policy /\ upsets' = upsets /\ upsets \in Nat
      /\ Paid /\ req[r].pc = "create" /\ ~Registrar(req[r])
  BY DEF Invitations, Create, Registrar
<1>1. CASE users' = users /\ WritesAs(r, Quiet)
  <2>1. req'[r] = Quiet /\ OthersAsBefore(r)
    BY <1>1, OthersRely DEF WritesAs
  <2>2. Mild
    BY <1>0, <1>1, <2>1, WritesTear, MildMove, QuietIs DEF Registrar, Free
  <2> QED BY <1>0, <2>2, MildStep DEF Upsetting
<1>2. ASSUME NEW q, NEW i, WritesAs(r, q), Makes(r, i, q) PROVE Invitations'
  <2>1. req'[r] = q /\ OthersAsBefore(r) /\ torn \subseteq torn'
    BY <1>2, OthersRely, WritesTear DEF WritesAs
  <2>2. /\ i \in Ids /\ i \in New /\ i \notin Known(users) /\ users'[i].how = req[r].want
        /\ \A j \in Ids \ {i} : users'[j] = users[j]
    BY <1>2, AccountIs DEF Makes, Sets, New, Known
  <2>3. \A j \in Ids \ {i} : j \in Known(users') <=> j \in Known(users)
    BY <2>2 DEF Known
  <2>4. Paid'
    <3>1. \A s \in Requests : Registrar(req'[s]) =>
            /\ req'[s].id \in Ids
            /\ (Registrar(req[s]) /\ req'[s].id = req[s].id) \/ req'[s].id \in New
      BY <1>0, <1>2, <2>1, <2>2, OtherRegistrars DEF Makes
    <3>2. \A c \in Codes : usedBy'[c] \in Ids =>
            usedBy'[c] = usedBy[c] /\ (usedBy[c] \in Known(users) => usedBy[c] \in Known(users'))
      BY <1>0, <2>2, <2>3
    <3>3. usedBy' = [c \in Codes |-> usedBy'[c]]
      BY <1>0 DEF Paid
    <3> QED BY <1>0, <3>1, <3>2, <3>3, PaidStays
  <2>5. ASSUME upsets = 0 PROVE ByInvitation' /\ Paying'
    <3>1. ByInvitation /\ Paying
      BY <2>5 DEF Invitations
    <3>2. req[r].want = "invite" => policy = "invite"
      BY <1>0, <3>1 DEF ByInvitation
    <3>3. ByInvitation'
      BY <1>0, <1>2, <2>1, <2>2, <3>1, <3>2, StillByInvitation DEF Makes
    <3>4. PaysFor(i, users', req', usedBy')
      <4>1. req[r].want = "invite" => Registrar(req'[r]) /\ req'[r].id = i
        BY <1>2, <2>1 DEF Makes
      <4> QED BY <2>2, <4>1 DEF PaysFor
    <3>5. \A s \in Requests : Registrar(req[s]) => Registrar(req'[s]) /\ req'[s].id = req[s].id
      BY <1>0, <2>1, OtherRegistrars
    <3>6. Paying'
      BY <1>0, <2>1, <2>2, <2>3, <3>1, <3>4, <3>5, OthersPay
    <3> QED BY <3>3, <3>6
  <2> QED BY <1>0, <2>4, <2>5 DEF Invitations
<1> QED BY <1>1, <1>2, CreateWrites

\* An account that is undone has paid no code, and is gone.
LEMMA UndoInvites ==
  ASSUME Base, Invitations, Upsetting, NEW r \in Requests, Undo(r)
  PROVE  Invitations'
<1> DEFINE i == req[r].id
           x == [users[i] EXCEPT !.status = "gone"]
<1>0. /\ usedBy' = usedBy /\ policy' = policy /\ Paid
      /\ upsets \in Nat /\ upsets' \in Nat /\ (upsets' = 0 => upsets = 0 /\ upsets' = upsets)
  BY DEF Invitations, Upsetting, Undo
<1>1. WritesAs(r, Quiet) /\ Registrar(req[r]) /\ i \in Ids
  BY UndoWrites DEF Known
<1>2. req'[r] = Quiet /\ OthersAsBefore(r) /\ torn \subseteq torn' /\ ~Registrar(Quiet)
  BY <1>1, OthersRely, WritesTear, QuietIs DEF WritesAs, Registrar, Free
<1>3. \A c \in Codes : usedBy[c] # i
  BY <1>0, <1>1 DEF Paid
<1>4. IsRow(x) /\ x.status = "gone" /\ x.how = users[i].how
  BY <1>1, UsersRow, RowStatus
<1>5. (users' = users /\ Upset) \/ Sets(i, x)
  BY UndoWrites
<1> HIDE DEF i, x
<1>6. \A j \in Ids \ {i} : users'[j] = users[j] /\ (j \in Known(users') <=> j \in Known(users))
  BY <1>5 DEF Sets, Known
<1>7. Paid'
  <2>1. \A s \in Requests : Registrar(req'[s]) =>
          /\ req'[s].id \in Ids
          /\ (Registrar(req[s]) /\ req'[s].id = req[s].id) \/ req'[s].id \in New
    BY <1>2, OtherRegistrars
  <2>2. \A c \in Codes : usedBy'[c] \in Ids =>
          usedBy'[c] = usedBy[c] /\ (usedBy[c] \in Known(users) => usedBy[c] \in Known(users'))
    BY <1>0, <1>3, <1>6
  <2>3. usedBy' = [c \in Codes |-> usedBy'[c]]
    BY <1>0 DEF Paid
  <2> QED BY <1>0, <2>1, <2>2, <2>3, PaidStays
<1>8. ASSUME upsets' = 0 PROVE ByInvitation' /\ Paying'
  <2>1. ByInvitation /\ Paying /\ Sets(i, x)
    BY <1>0, <1>5, <1>8 DEF Invitations, Upset
  <2>2. users'[i] = x /\ i \notin Known(users')
    BY <1>4, <2>1 DEF Sets, Known
  <2>3. \A j \in Ids : users'[j].how = users[j].how
    BY <1>4, <1>6, <2>2
  <2>4. Quiet.pc \notin {"create", "save"}
    BY QuietIs
  <2>5. ByInvitation'
    BY <1>0, <1>2, <2>1, <2>3, <2>4, StillByInvitation
  <2>6. \A s \in Requests : Registrar(req[s]) /\ req[s].id # i =>
          Registrar(req'[s]) /\ req'[s].id = req[s].id
    BY <1>2, OtherRegistrars DEF i
  <2>7. Paying'
    BY <1>0, <1>2, <1>6, <2>1, <2>2, <2>6, OthersPay
  <2> QED BY <2>5, <2>7
<1> QED BY <1>0, <1>7, <1>8 DEF Invitations

\* Signing in neither makes nor removes an account.
LEMMA SignInMild ==
  ASSUME Base, Paid, NEW r \in Requests, Bind(r) \/ SsoEnter(r)
  PROVE  Mild
<1>0. usedBy' = usedBy /\ policy' = policy /\ ~Registrar(req[r])
  BY DEF Bind, SsoEnter, Registrar
<1>1. PICK q : WritesAs(r, q) /\ q.pc \in {"idle", "enter"}
  BY BindWrites, SsoEnterWrites, QuietIs
<1>2. req'[r] = q /\ OthersAsBefore(r) /\ torn \subseteq torn' /\ ~Registrar(q)
  BY <1>1, OthersRely, WritesTear DEF WritesAs, Registrar
<1>3. \A j \in Ids : users'[j].status = users[j].status /\ users'[j].how = users[j].how
  <2>1. CASE SsoEnter(r)
    BY <2>1, SsoEnterWrites DEF Promotes
  <2>2. CASE Bind(r)
    <3> DEFINE i == req[r].id
               x == [users[i] EXCEPT !.sub = req[r].who.sub]
    <3>1. users' = users \/ (i \in Known(users) /\ Sets(i, x))
      BY <2>2, BindWrites
    <3>2. ASSUME i \in Known(users) PROVE x.status = users[i].status /\ x.how = users[i].how
      BY <3>2, UsersRow, RowSub DEF Known
    <3> HIDE DEF i, x
    <3> QED BY <3>1, <3>2 DEF Sets
  <2> QED BY <2>1, <2>2
<1>4. \A j \in Ids : /\ j \in Known(users') <=> j \in Known(users)
                     /\ users'[j].how = users[j].how
  BY <1>3 DEF Known
<1> QED BY <1>0, <1>1, <1>2, <1>4, MildMove

\* A save writes the row as it is, or what it writes is torn.
LEMMA SaveInvites ==
  ASSUME Base, Invitations, NEW r \in Requests, Save(r)
  PROVE  Invitations'
<1> DEFINE i == req[r].id
           y == [req[r].row EXCEPT !.role = req[r].want]
<1>0. /\ usedBy' = usedBy /\ policy' = policy /\ upsets' = upsets /\ upsets \in Nat
      /\ Paid /\ ~Registrar(req[r])
  BY DEF Invitations, Save, Registrar
<1>1. WritesAs(r, Quiet) /\ req[r].pc = "save" /\ i \in Ids /\ (users' = users \/ Sets(i, y))
  BY SaveWrites
<1>2. /\ req'[r] = Quiet /\ OthersAsBefore(r) /\ torn \subseteq torn'
      /\ ~Registrar(Quiet) /\ Quiet.pc \notin {"create", "save"}
  BY <1>1, OthersRely, WritesTear, QuietIs DEF WritesAs, Registrar, Free
<1>3. /\ y.status \in {"active", "disabled"} /\ y.status = req[r].row.status
      /\ y.how = req[r].row.how
      /\ ~req[r].late => req[r].row = users[i]
  <2>1. /\ IsRow(req[r].row) /\ req[r].row.status \in {"active", "disabled"}
        /\ ~req[r].late => req[r].row = users[i]
    BY <1>1, RequestIs DEF Sane, Knows
  <2> QED BY <2>1, RowRole
<1>4. users' # users /\ req[r].late => i \in torn'
  BY <1>1 DEF WritesAs, Tears
<1> HIDE DEF i, y
<1>5. CASE users' = users \/ ~req[r].late
  <2>1. \A j \in Ids : users'[j].status = users[j].status /\ users'[j].how = users[j].how
    BY <1>1, <1>3, <1>5 DEF Sets
  <2>2. \A j \in Ids : /\ j \in Known(users') <=> j \in Known(users)
                       /\ users'[j].how = users[j].how
    BY <2>1 DEF Known
  <2>3. Mild
    BY <1>0, <1>2, <2>2, MildMove
  <2> QED BY <1>0, <2>3, MildStep DEF Upsetting
<1>6. CASE users' # users /\ req[r].late
  <2>1. Sets(i, y) /\ i \in torn'
    BY <1>1, <1>4, <1>6
  <2>2. /\ i \in Known(users') /\ users'[i].how = req[r].row.how
        /\ \A j \in Ids \ {i} : users'[j] = users[j]
    BY <1>1, <1>3, <2>1 DEF Sets, Known
  <2>3. \A j \in Ids \ {i} : j \in Known(users') <=> j \in Known(users)
    BY <2>2 DEF Known
  <2>4. Paid'
    <3>1. \A s \in Requests : Registrar(req'[s]) =>
            /\ req'[s].id \in Ids
            /\ (Registrar(req[s]) /\ req'[s].id = req[s].id) \/ req'[s].id \in New
      BY <1>2, OtherRegistrars
    <3>2. \A c \in Codes : usedBy'[c] \in Ids =>
            usedBy'[c] = usedBy[c] /\ (usedBy[c] \in Known(users) => usedBy[c] \in Known(users'))
      BY <1>0, <2>2, <2>3
    <3>3. usedBy' = [c \in Codes |-> usedBy'[c]]
      BY <1>0 DEF Paid
    <3> QED BY <1>0, <3>1, <3>2, <3>3, PaidStays
  <2>5. ASSUME upsets = 0 PROVE ByInvitation' /\ Paying'
    <3>1. ByInvitation /\ Paying
      BY <2>5 DEF Invitations
    <3>2. \A j \in Ids : users'[j].how = "invite" => users[j].how = "invite" \/ policy = "invite"
      BY <1>1, <2>2, <3>1 DEF ByInvitation
    <3>3. ByInvitation'
      BY <1>0, <1>2, <3>1, <3>2, StillByInvitation
    <3>4. \A s \in Requests : Registrar(req[s]) => Registrar(req'[s]) /\ req'[s].id = req[s].id
      BY <1>0, <1>2, OtherRegistrars
    <3>5. Paying'
      BY <1>0, <1>2, <2>1, <2>2, <2>3, <3>1, <3>4, OthersPay
    <3> QED BY <3>3, <3>5
  <2> QED BY <1>0, <2>4, <2>5 DEF Invitations
<1> QED BY <1>5, <1>6

\* A code that lapses is nobody's, and a change of policy is an upset.
LEMMA ElsewhereMild ==
  ASSUME Paid, Elsewhere, Upsetting, upsets \in Nat
  PROVE  Mild
<1>1. UNCHANGED <<users, req, torn>>
  BY ElsewhereIs
<1>2. upsets' = upsets => policy' = policy
  <2>1. ASSUME NEW p, SetPolicy(p) PROVE upsets' = upsets + 1
    BY <2>1 DEF SetPolicy, Upset
  <2>2. CASE ~ \E p \in {"open", "invite", "closed"} : SetPolicy(p)
    BY <2>2 DEF Elsewhere, Login, TokensExpire, CreateKey, DeleteKey, StateExpires, SsoLogin, Lapse
  <2> QED BY <2>1, <2>2
<1>3. /\ usedBy' = [c \in Codes |-> usedBy'[c]]
      /\ \A c \in Codes : usedBy[c] \in Ids \/ usedBy'[c] \in Ids => usedBy'[c] = usedBy[c]
  <2>1. ASSUME NEW code \in Codes, Lapse(code)
        PROVE  /\ usedBy' = [c \in Codes |-> usedBy'[c]]
               /\ \A c \in Codes : usedBy[c] \in Ids \/ usedBy'[c] \in Ids => usedBy'[c] = usedBy[c]
    <3>1. usedBy[code] = Null /\ usedBy' = [usedBy EXCEPT ![code] = Lapsed]
      BY <2>1 DEF Lapse
    <3>2. Null \notin Ids /\ Lapsed \notin Ids
      BY AccountsAssumption DEF Null, Lapsed, Ids
    <3> QED BY <3>1, <3>2 DEF Paid
  <2>2. CASE usedBy' = usedBy
    BY <2>2 DEF Paid
  <2>3. CASE ~ \E code \in Codes : Lapse(code)
    <3>1. usedBy' = usedBy
      BY <2>3 DEF Elsewhere, Login, TokensExpire, CreateKey, DeleteKey, StateExpires, SsoLogin,
                  SetPolicy
    <3> QED BY <2>2, <3>1
  <2> QED BY <2>1, <2>3
<1> QED BY <1>1, <1>2, <1>3 DEF Mild

LEMMA RestartInvites ==
  ASSUME Base, Invitations, Restart
  PROVE  Invitations'
<1>1. /\ usedBy' = usedBy /\ upsets' = upsets + 1 /\ upsets \in Nat /\ Paid
  BY DEF Restart, Upset, Invitations
<1>2. \A s \in Requests : ~Registrar(req'[s])
  BY RestartIs, QuietIs DEF Registrar, Free
<1>3. \A j \in Ids : j \in Known(users) => j \in Known(users')
  BY RestartIs DEF Promotes, Known
<1>4. Paid'
  <2>1. \A c \in Codes : usedBy'[c] \in Ids =>
          usedBy'[c] = usedBy[c] /\ (usedBy[c] \in Known(users) => usedBy[c] \in Known(users'))
    BY <1>1, <1>3
  <2>2. usedBy' = [c \in Codes |-> usedBy'[c]]
    BY <1>1 DEF Paid
  <2> QED BY <1>1, <1>2, <2>1, <2>2, PaidStays
<1> QED BY <1>1, <1>4 DEF Invitations

LEMMA UpsetsCount ==
  ASSUME [Next]_vars
  PROVE  Upsetting
<1>1. ASSUME NEW r \in Requests, Looks(r) PROVE Upsetting
  BY <1>1 DEF Upsetting, Upset, Looks, Starts, Register, Callback, EditKey, SetRole, Admit, Forget,
              Redeem, BySub, ByEmail, Target, Count, Load, SaveKey
<1>2. ASSUME NEW r \in Requests, Writes(r) PROVE Upsetting
  BY <1>2 DEF Upsetting, Upset, Writes, Create, Consume, Undo, Bind, SsoEnter, Save
<1>3. ASSUME NEW i \in Ids, Alters(i) PROVE Upsetting
  BY <1>3 DEF Upsetting, Alters, Disable, Enable, ResetPassword, ChangePassword
<1>4. CASE Elsewhere
  BY <1>4 DEF Upsetting, Upset, Elsewhere, Login, TokensExpire, CreateKey, DeleteKey, StateExpires,
              SsoLogin, Lapse, SetPolicy
<1>5. CASE Restart \/ UNCHANGED vars
  BY <1>5 DEF Upsetting, Upset, Restart, vars, rows
<1> QED BY <1>1, <1>2, <1>3, <1>4, <1>5, StepIs

LEMMA InvitationsNext == Base /\ Invitations /\ [Next]_vars => Invitations'
<1> SUFFICES ASSUME Base, Invitations, [Next]_vars PROVE Invitations'
  OBVIOUS
<1>0. Upsetting /\ Paid /\ upsets \in Nat
  BY UpsetsCount DEF Invitations
<1>1. ASSUME NEW r \in Requests, Looks(r) PROVE Invitations'
  BY <1>0, <1>1, LooksMild, MildStep
<1>2. ASSUME NEW r \in Requests, Writes(r) PROVE Invitations'
  <2>1. CASE Bind(r) \/ SsoEnter(r)
    BY <1>0, <2>1, SignInMild, MildStep
  <2> QED BY <1>0, <1>2, <2>1, CreateInvites, ConsumeInvites, UndoInvites, SaveInvites DEF Writes
<1>3. ASSUME NEW i \in Ids, Alters(i) PROVE Invitations'
  BY <1>0, <1>3, AltersAmends, AmendsMild, MildStep
<1>4. CASE Elsewhere
  BY <1>0, <1>4, ElsewhereMild, MildStep
<1>5. CASE UNCHANGED vars
  <2>1. Mild
    BY <1>0, <1>5 DEF Mild, Paid, vars, rows
  <2> QED BY <1>0, <2>1, MildStep
<1> QED BY <1>1, <1>2, <1>3, <1>4, <1>5, RestartInvites, StepIs

LEMMA InvitationsInit == Init => Invitations
<1> SUFFICES ASSUME Init PROVE Invitations
  OBVIOUS
<1>1. PICK F \in Founders : users = [i \in Ids |-> IF i <= Len(F) THEN Founder(F[i]) ELSE Unborn]
  BY DEF Init
<1>2. \A p : Founder(p).how = "open"
  BY AccountIs, RowRole DEF Founder
<1>3. Unborn.how # "invite"
  BY DEF Unborn, None
<1>4. \A i \in Ids : users[i].how # "invite"
  BY <1>1, <1>2, <1>3
<1>5. /\ upsets = 0 /\ usedBy = [c \in Codes |-> Null]
      /\ \A r \in Requests : req[r] = Quiet
  BY DEF Init
<1>6. \A r \in Requests : ~Registrar(req[r]) /\ req[r].pc \notin {"create", "save"}
  BY <1>5, QuietIs DEF Registrar, Free
<1>7. Null \notin Ids
  BY DEF Null, Ids
<1>8. Paid
  BY <1>5, <1>6, <1>7 DEF Paid
<1>9. ByInvitation
  BY <1>4, <1>6 DEF ByInvitation
<1>10. Paying
  BY <1>4 DEF Paying, Known
<1> QED BY <1>5, <1>8, <1>9, <1>10 DEF Invitations

\* While registration is by invitation and nothing fails, every account it let in has a
\* code of its own or is about to take one, and a code taken is an account's that stays.
THEOREM OneUserPerCode == Spec => []Invited
<1>1. Invitations => Invited
  BY DEF Invitations, Invited, Paid, Paying, Registering, Registrar
<1> QED BY <1>1, InvitationsInit, InvitationsNext, BaseInit, BaseNext, PTL DEF Spec
==============================================================================
