------------------------------ MODULE Accounts ------------------------------
(***************************************************************************)
(* The platform's accounts: registration with invitation codes and         *)
(* password sign-in (internal/server/handlers/auth.go), single sign-on     *)
(* (auth_oidc.go), roles and statuses (admin_users.go) and the users' API  *)
(* keys (apikey.go), on the tables of internal/op.  A handler is a         *)
(* sequence of statements on the tables and a step here is one statement   *)
(* (a transaction, for disabling); several handlers run at once.           *)
(***************************************************************************)
EXTENDS Integers, Sequences, FiniteSets, FiniteSetsExt

CONSTANTS
  Emails, AdminEmail,  \* ADMIN_EMAIL of the environment
  Codes,               \* invitation codes
  Identities,          \* [sub, email, ver] the identity provider may assert
  Founders,            \* sequences of [who, role, claim]: the accounts there may be at first
  Requests,
  MaxUsers, MaxFlows,  \* bounds on the accounts made and on the SSO sign-ins
  MaxOps,              \* bound on the requests, sign-ins and expiries
  MaxUpsets            \* bound on failing statements, restarts and changes of policy

ASSUME AccountsAssumption == AdminEmail \in Emails /\ MaxUsers \in Nat \ {0}

VARIABLES
  users,     \* the rows by id, ids being given in the order of creation
  keys,      \* each user's API key: none, on or off
  sessions,  \* the role claims in the unexpired tokens of each user
  policy,    \* registration_policy
  usedBy,    \* the invitations' used_by, or Null or Lapsed
  flows,     \* SSO sign-ins: the state row, and the identity the code stands for
  req,       \* what each request is doing
  torn,      \* users written on the ground of a row that had changed meanwhile
  shut,      \* users disabled, and neither unlocked nor at their keys since
  ops, upsets

rows == <<users, keys, sessions, policy, usedBy, flows>>
vars == <<rows, req, torn, shut, ops, upsets>>

Ids == 1..MaxUsers
Null == 0
Lapsed == MaxUsers + 1
None == "none"

Unborn == [email |-> None, role |-> "user", status |-> "unborn", pass |-> None, sub |-> None,
           how |-> None]
Nobody == [sub |-> None, email |-> None, ver |-> FALSE]

\* how: by which policy the account was let in; a ghost, as are torn and shut.
Account(who, how) ==
  [email |-> who.email, role |-> "user", status |-> "active",
   pass |-> IF how = "sso" THEN None ELSE "own", sub |-> who.sub, how |-> how]

Known(table) == {i \in Ids : table[i].status \in {"active", "disabled"}}
Admins(table) == {i \in Known(table) : table[i].role = "admin"}
WithEmail(e) == {i \in Known(users) : users[i].email = e}
WithSub(s) == {i \in Known(users) : s # None /\ users[i].sub = s}
New == {i \in Ids : users[i].status = "unborn"}

\* who: the identity or the email at hand; id, row: the user and its row as read;
\* want: the policy admitted by, or what to write; relies: on who is an administrator;
\* late: what was read has changed.
Quiet ==
  [pc |-> "idle", who |-> Nobody, code |-> None, id |-> 0, row |-> Unborn, want |-> "",
   flow |-> 0, relies |-> FALSE, late |-> FALSE]

\* The founders have registered, signed in, and been given their roles or lost them.
Founder(p) == [Account(p.who, "open") EXCEPT !.role = p.role]

Init ==
  /\ \E F \in Founders :
       /\ users = [i \in Ids |-> IF i <= Len(F) THEN Founder(F[i]) ELSE Unborn]
       /\ sessions = [i \in Ids |-> IF i <= Len(F) THEN {F[i].claim} ELSE {}]
  /\ keys = [i \in Ids |-> None]
  /\ policy \in {"open", "invite"}
  /\ usedBy = [c \in Codes |-> Null]
  /\ flows = [f \in 1..MaxFlows |-> [row |-> "unborn", who |-> Nobody, used |-> FALSE]]
  /\ req = [r \in Requests |-> Quiet]
  /\ torn = {} /\ shut = {} /\ ops = 0 /\ upsets = 0

Upset == upsets < MaxUpsets /\ upsets' = upsets + 1

Become(r, q) == req' = [req EXCEPT ![r] = q]
Goto(r, place) == Become(r, [req[r] EXCEPT !.pc = place])
End(r) == Become(r, Quiet)

\* A request holds a row it will write over, or a count it relies on.
Outdated(q, table) ==
  \/ q.pc \in {"consume", "undo", "bind", "save"} /\ table[q.id] # users[q.id]
  \/ q.relies /\ Admins(table) # Admins(users)

Rely(table, q) == IF Outdated(q, table) THEN [q EXCEPT !.late = TRUE] ELSE q

\* The users become the table, the requests that relied on the old rows are late.
Alter(table) ==
  /\ users' = table
  /\ req' = [s \in Requests |-> Rely(table, req[s])]
  /\ UNCHANGED torn

\* The same by request r, which goes on as q; what it wrote late is torn.
Write(r, table, q) ==
  /\ users' = table
  /\ req' = [s \in Requests |-> IF s = r THEN q ELSE Rely(table, req[s])]
  /\ torn' = IF req[r].late /\ table # users THEN torn \cup {req[r].id} ELSE torn

Signed(i) == sessions[i] # {}
ByAdmin(S) == \E a \in S : "admin" \in sessions[a]

------------------------------------------------------------------------------
(* Registration *)

\* The users are counted: the first of an empty platform is let in.
Register(r, e, code) ==
  /\ req[r].pc = "idle"
  /\ \E first \in BOOLEAN :
       /\ Become(r, [Quiet EXCEPT !.pc = IF first THEN "create" ELSE "admit", !.code = code,
                                  !.who.email = e, !.want = IF first THEN "first" ELSE ""])
       /\ \/ first = (Known(users) = {}) /\ UNCHANGED upsets
          \/ first /\ Upset
  /\ UNCHANGED <<rows, torn, shut>>

Passes(q, p) == CASE p = "closed" -> FALSE
                  [] p = "invite" -> q.code # None /\ WithEmail(q.who.email) = {}
                  [] p \in {"open", "unread"} -> TRUE

\* A policy that cannot be read lets everybody in.
Admit(r) ==
  /\ req[r].pc = "admit"
  /\ \E p \in {policy, "unread"} :
       /\ IF p = "unread" THEN Upset ELSE UNCHANGED upsets
       /\ IF Passes(req[r], p) THEN Become(r, [req[r] EXCEPT !.pc = "create", !.want = p])
                               ELSE End(r)
  /\ UNCHANGED <<rows, torn, shut>>

\* CreateUser, for a registration or for a newcomer by SSO; email and sub are unique.
Create(r) ==
  LET q == req[r]
      i == Min(New) IN
  /\ q.pc = "create" /\ New # {}
  /\ IF WithEmail(q.who.email) \cup WithSub(q.who.sub) # {}
       THEN End(r) /\ UNCHANGED <<users, torn>>
       ELSE Write(r, [users EXCEPT ![i] = Account(q.who, q.want)],
                  CASE q.want = "first" -> Quiet
                    [] q.want = "sso" -> [q EXCEPT !.pc = "enter", !.id = i,
                                                   !.row = Account(q.who, q.want)]
                    [] OTHER -> [q EXCEPT !.pc = "consume", !.id = i])
  /\ UNCHANGED <<keys, sessions, policy, usedBy, flows, shut, upsets>>

\* Mutant: a code is looked up only.
UsableAgain(code) == code # None /\ usedBy[code] # Lapsed

Usable(code) == code # None /\ usedBy[code] = Null

\* The policy is read again, and the code consumed by one conditional update.
Consume(r) ==
  LET q == req[r] IN
  /\ q.pc = "consume"
  /\ \/ /\ policy = "invite" /\ Usable(q.code)
        /\ usedBy' = [usedBy EXCEPT ![q.code] = q.id]
        /\ End(r) /\ UNCHANGED upsets
     \/ policy = "invite" /\ ~Usable(q.code) /\ Goto(r, "undo") /\ UNCHANGED <<usedBy, upsets>>
     \/ policy # "invite" /\ End(r) /\ UNCHANGED <<usedBy, upsets>>
     \/ Upset /\ End(r) /\ UNCHANGED usedBy
  /\ UNCHANGED <<users, keys, sessions, policy, flows, torn, shut>>

Undo(r) ==
  /\ req[r].pc = "undo"
  /\ \/ Write(r, [users EXCEPT ![req[r].id].status = "gone"], Quiet) /\ UNCHANGED upsets
     \/ Upset /\ End(r) /\ UNCHANGED <<users, torn>>
  /\ UNCHANGED <<keys, sessions, policy, usedBy, flows, shut>>

Lapse(code) ==
  /\ usedBy[code] = Null
  /\ usedBy' = [usedBy EXCEPT ![code] = Lapsed]
  /\ UNCHANGED <<users, keys, sessions, policy, flows, req, torn, shut, upsets>>

------------------------------------------------------------------------------
(* Signing in *)

Enter(i, role) == sessions' = [sessions EXCEPT ![i] = @ \cup {role}]

Login(i) ==
  /\ users[i].status = "active" /\ users[i].pass # None
  /\ Enter(i, users[i].role)
  /\ UNCHANGED <<users, keys, policy, usedBy, flows, req, torn, shut, upsets>>

TokensExpire(i) ==
  /\ Signed(i)
  /\ sessions' = [sessions EXCEPT ![i] = {}]
  /\ UNCHANGED <<users, keys, policy, usedBy, flows, req, torn, shut, upsets>>

\* A state row is made and the user comes back from the provider with a code.
SsoLogin(f, who) ==
  /\ f = Min({g \in 1..MaxFlows : flows[g].row = "unborn"} \cup {MaxFlows + 1})
  /\ flows' = [flows EXCEPT ![f] = [row |-> "live", who |-> who, used |-> FALSE]]
  /\ UNCHANGED <<users, keys, sessions, policy, usedBy, req, torn, shut, upsets>>

StateExpires(f) ==
  /\ flows[f].row = "live"
  /\ flows' = [flows EXCEPT ![f].row = "gone"]
  /\ UNCHANGED <<users, keys, sessions, policy, usedBy, req, torn, shut, upsets>>

\* ConsumeOidcState reads the row, and in another statement deletes it.
Callback(r, f) ==
  /\ req[r].pc = "idle" /\ flows[f].row = "live"
  /\ Become(r, [Quiet EXCEPT !.pc = "forget", !.flow = f])
  /\ UNCHANGED <<rows, torn, shut, upsets>>

Forget(r) ==
  /\ req[r].pc = "forget"
  /\ flows' = [flows EXCEPT ![req[r].flow].row = "gone"]
  /\ Goto(r, "redeem")
  /\ UNCHANGED <<users, keys, sessions, policy, usedBy, torn, shut, upsets>>

\* The provider exchanges a code once.
Redeem(r) ==
  LET f == req[r].flow IN
  /\ req[r].pc = "redeem"
  /\ flows' = [flows EXCEPT ![f].used = TRUE]
  /\ IF flows[f].used THEN End(r)
     ELSE Become(r, [Quiet EXCEPT !.pc = "bysub", !.who = flows[f].who])
  /\ UNCHANGED <<users, keys, sessions, policy, usedBy, torn, shut, upsets>>

Taking(q, i, place) == [q EXCEPT !.pc = place, !.id = i, !.row = users[i]]

BySub(r) ==
  /\ req[r].pc = "bysub"
  /\ \/ \E i \in WithSub(req[r].who.sub) : Become(r, Taking(req[r], i, "enter"))
     \/ WithSub(req[r].who.sub) = {} /\ Goto(r, "byemail")
  /\ UNCHANGED <<rows, torn, shut, upsets>>

\* Mutant: the account may be bound to another identity already.
MayBindOver(who, row) == who.ver

MayBind(who, row) == who.ver /\ row.sub \in {None, who.sub}

ByEmail(r) ==
  LET q == req[r] IN
  /\ q.pc = "byemail"
  /\ \/ \E i \in WithEmail(q.who.email) :
          IF MayBind(q.who, users[i]) THEN Become(r, Taking(q, i, "bind")) ELSE End(r)
     \/ /\ WithEmail(q.who.email) = {}
        /\ Become(r, [q EXCEPT !.pc = "create", !.want = "sso"])
  /\ UNCHANGED <<rows, torn, shut, upsets>>

\* An update by id; the unique index keeps a subject to one account.
Bind(r) ==
  LET q == req[r] IN
  /\ q.pc = "bind"
  /\ IF WithSub(q.who.sub) \ {q.id} # {}
       THEN End(r) /\ UNCHANGED <<users, torn>>
       ELSE Write(r, IF q.id \in Known(users) THEN [users EXCEPT ![q.id].sub = q.who.sub]
                                              ELSE users,
                  [q EXCEPT !.pc = "enter"])
  /\ UNCHANGED <<keys, sessions, policy, usedBy, flows, shut, upsets>>

Promoted(table) ==
  [i \in Ids |-> IF i \in Known(table) /\ table[i].email = AdminEmail
                   THEN [table[i] EXCEPT !.role = "admin"] ELSE table[i]]

\* The token has the role of the row as it was read, or what ADMIN_EMAIL makes of it.
SsoEnter(r) ==
  LET q == req[r]
      raise == q.who.email = AdminEmail /\ q.row.role # "admin" /\ WithEmail(AdminEmail) # {} IN
  /\ q.pc = "enter"
  /\ IF q.row.status # "active"
       THEN End(r) /\ UNCHANGED <<users, sessions, torn>>
       ELSE /\ Write(r, IF raise THEN Promoted(users) ELSE users, Quiet)
            /\ Enter(q.id, IF raise THEN "admin" ELSE q.row.role)
  /\ UNCHANGED <<keys, policy, usedBy, flows, shut, upsets>>

------------------------------------------------------------------------------
(* Administration: the session's role claim is believed, and nobody acts on himself *)

SetRole(r, i, role) ==
  /\ req[r].pc = "idle" /\ ByAdmin(Ids \ {i}) /\ i \notin New
  /\ Become(r, [Quiet EXCEPT !.pc = IF role = "user" THEN "target" ELSE "load",
                             !.id = i, !.want = role])
  /\ UNCHANGED <<rows, torn, shut, upsets>>

Target(r) ==
  LET i == req[r].id IN
  /\ req[r].pc = "target"
  /\ IF i \notin Known(users) THEN End(r)
     ELSE Become(r, IF i \in Admins(users) THEN [req[r] EXCEPT !.pc = "count"]
                       ELSE [req[r] EXCEPT !.pc = "load", !.relies = TRUE])
  /\ UNCHANGED <<rows, torn, shut, upsets>>

\* Mutant: the last administrator may go.
SpareOne(n) == n > 0

Spare(n) == n > 1

\* The demotion of the last administrator is refused; a count that fails is passed over.
Count(r) ==
  /\ req[r].pc = "count"
  /\ \/ /\ IF Spare(Cardinality(Admins(users)))
             THEN Become(r, [req[r] EXCEPT !.pc = "load", !.relies = TRUE])
             ELSE End(r)
        /\ UNCHANGED upsets
     \/ Upset /\ Become(r, [req[r] EXCEPT !.pc = "load", !.late = TRUE])
  /\ UNCHANGED <<rows, torn, shut>>

\* AdminUpdateUser loads the row, sets the role and saves the whole row.
Load(r) ==
  LET q == req[r] IN
  /\ q.pc = "load"
  /\ IF q.id \in Known(users) THEN Become(r, Taking(q, q.id, "save")) ELSE End(r)
  /\ UNCHANGED <<rows, torn, shut, upsets>>

Clashes(row, i) == (WithEmail(row.email) \cup WithSub(row.sub)) \ {i} # {}

\* A row deleted meanwhile is inserted again.
Save(r) ==
  LET q == req[r] IN
  /\ q.pc = "save"
  /\ IF Clashes(q.row, q.id)
       THEN End(r) /\ UNCHANGED <<users, torn>>
       ELSE Write(r, [users EXCEPT ![q.id] = [q.row EXCEPT !.role = q.want]], Quiet)
  /\ UNCHANGED <<keys, sessions, policy, usedBy, flows, shut, upsets>>

\* Mutant: the keys of a disabled user are left on.
SilencedNot(i) == keys

Silenced(i) == [keys EXCEPT ![i] = IF @ = "on" THEN "off" ELSE @]

Disable(i) ==
  /\ ByAdmin(Ids \ {i}) /\ i \in Known(users)
  /\ Alter([users EXCEPT ![i].status = "disabled"])
  /\ keys' = Silenced(i) /\ shut' = shut \cup {i}
  /\ UNCHANGED <<sessions, policy, usedBy, flows, upsets>>

Enable(i) ==
  /\ ByAdmin(Ids \ {i}) /\ i \in Known(users)
  /\ Alter([users EXCEPT ![i].status = "active"]) /\ shut' = shut \ {i}
  /\ UNCHANGED <<keys, sessions, policy, usedBy, flows, upsets>>

\* A reset of the password unlocks the account as well.
ResetPassword(i) ==
  /\ ByAdmin(Ids) /\ i \in Known(users)
  /\ Alter([users EXCEPT ![i].status = "active", ![i].pass = "reset"]) /\ shut' = shut \ {i}
  /\ UNCHANGED <<keys, sessions, policy, usedBy, flows, upsets>>

SetPolicy(p) ==
  /\ ByAdmin(Ids) /\ p # policy /\ Upset
  /\ policy' = p
  /\ UNCHANGED <<users, keys, sessions, usedBy, flows, req, torn, shut>>

\* The gateway starts again: ADMIN_EMAIL is promoted, and the requests are gone.
Restart ==
  /\ Upset
  /\ users' = Promoted(users) /\ req' = [r \in Requests |-> Quiet]
  /\ UNCHANGED <<keys, sessions, policy, usedBy, flows, torn, shut>>

------------------------------------------------------------------------------
(* What users do themselves: a token is good until it expires, whatever the status *)

ChangePassword(i) ==
  /\ Signed(i) /\ i \in Known(users) /\ users[i].pass # None
  /\ Alter([users EXCEPT ![i].pass = "own"])
  /\ UNCHANGED <<keys, sessions, policy, usedBy, flows, shut, upsets>>

CreateKey(i) ==
  /\ Signed(i) /\ keys[i] = None
  /\ keys' = [keys EXCEPT ![i] = "on"] /\ shut' = shut \ {i}
  /\ UNCHANGED <<users, sessions, policy, usedBy, flows, req, torn, upsets>>

DeleteKey(i) ==
  /\ Signed(i) /\ keys[i] # None
  /\ keys' = [keys EXCEPT ![i] = None]
  /\ UNCHANGED <<users, sessions, policy, usedBy, flows, req, torn, shut, upsets>>

\* UpdateApiKey loads the key, changes it and saves it whole: on, off or as it was.
EditKey(r, i) ==
  /\ req[r].pc = "idle" /\ Signed(i) /\ keys[i] # None
  /\ \E want \in {"on", "off"} :
       Become(r, [Quiet EXCEPT !.pc = "savekey", !.id = i, !.want = want])
  /\ UNCHANGED <<rows, torn, shut, upsets>>

SaveKey(r) ==
  LET q == req[r] IN
  /\ q.pc = "savekey"
  /\ keys' = [keys EXCEPT ![q.id] = q.want]
  /\ shut' = IF q.want = "on" THEN shut \ {q.id} ELSE shut
  /\ End(r)
  /\ UNCHANGED <<users, sessions, policy, usedBy, flows, torn, upsets>>

------------------------------------------------------------------------------

Step(r) ==
  \/ Admit(r) \/ Create(r) \/ Consume(r) \/ Undo(r)
  \/ Forget(r) \/ Redeem(r) \/ BySub(r) \/ ByEmail(r) \/ Bind(r) \/ SsoEnter(r)
  \/ Target(r) \/ Count(r) \/ Load(r) \/ Save(r) \/ SaveKey(r)

Begin ==
  \/ \E r \in Requests :
       \/ \E e \in Emails, code \in Codes \cup {None} : Register(r, e, code)
       \/ \E f \in 1..MaxFlows : Callback(r, f)
       \/ \E i \in Ids : EditKey(r, i) \/ \E role \in {"user", "admin"} : SetRole(r, i, role)
  \/ \E i \in Ids :
       \/ Login(i) \/ TokensExpire(i) \/ Disable(i) \/ Enable(i) \/ ResetPassword(i)
       \/ ChangePassword(i) \/ CreateKey(i) \/ DeleteKey(i)
  \/ \E f \in 1..MaxFlows : StateExpires(f) \/ \E who \in Identities : SsoLogin(f, who)
  \/ \E code \in Codes : Lapse(code)
  \/ \E p \in {"open", "invite", "closed"} : SetPolicy(p)
  \/ Restart

Next ==
  \/ \E r \in Requests : Step(r) /\ UNCHANGED ops
  \/ ops < MaxOps /\ ops' = ops + 1 /\ Begin

Spec == Init /\ [][Next]_vars

------------------------------------------------------------------------------
(* Properties *)

\* Each invitation lets in one user: while registration is by invitation and nothing
\* fails, an account it let in has consumed a code of its own, however registrations
\* run into one another, and a code that was consumed is an account's that stays (auth.go:97-104).
Registering(i) == \E r \in Requests : req[r].pc \in {"consume", "undo"} /\ req[r].id = i

Invited ==
  upsets = 0 =>
    /\ \A i \in Known(users) \ torn :
         users[i].how = "invite" => Registering(i) \/ \E c \in Codes : usedBy[c] = i
    /\ \A c \in Codes : usedBy[c] \in Ids => usedBy[c] \in Known(users)

\* An administrator remains: no mixture of demotions, stale tokens, sign-ins and
\* restarts takes the role from the last one, unless a demotion relied on a role or a
\* count that was outdated or had failed (admin_users.go:69-84).
Late == \E r \in Requests : req[r].late /\ req'[r] # req[r]

AdminRemains == [][Admins(users) # {} => Admins(users') # {} \/ Late]_vars

\* A disabled account stays disabled, and no key of it works but one its own session,
\* which outlives the disabling, has switched on, until an administrator unlocks it; a
\* save of the whole row that was loaded before is the exception (op/admin.go:102-115).
DisabledStays ==
  \A i \in shut : keys[i] # "on" /\ (i \notin torn => users[i].status = "disabled")

\* The identity an account is bound to is not replaced by another, whoever signs in,
\* unless two sign-ins bind the account at once or a role is saved over it
\* (auth_oidc.go:247-256).
IdentityKept ==
  [][\A i \in Known(users) :
       users[i].sub # None /\ i \in Known(users') => users'[i].sub = users[i].sub \/ Late]_vars
==============================================================================
