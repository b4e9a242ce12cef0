----------------------------- MODULE MCAccounts -----------------------------
(***************************************************************************)
(* An instance of Accounts: an administrator and two more people; one      *)
(* subject of the identity provider has two addresses, and one address has *)
(* two subjects, one of them unverified.                                   *)
(***************************************************************************)
EXTENDS Accounts, TLC

CONSTANTS ann, bob, eve, s1, s2

People == {ann, bob, eve}

Asserted ==
  {[sub |-> s1, email |-> bob, ver |-> TRUE], [sub |-> s2, email |-> bob, ver |-> TRUE],
   [sub |-> s1, email |-> ann, ver |-> FALSE]}

\* Nobody; ann alone; ann and a user; and ann demoted, her token not expired, with bob,
\* who is bound to s1, as the last administrator.
Firm ==
  LET Of(e, s, role, claim) ==
        [who |-> [sub |-> s, email |-> e, ver |-> TRUE], role |-> role, claim |-> claim]
      chief == Of(ann, None, "admin", "admin") IN
  {<<>>, <<chief>>, <<chief, Of(bob, None, "user", "user")>>,
   <<Of(ann, None, "user", "admin"), Of(bob, s1, "admin", "admin")>>}

AnyOrder == Permutations(Requests)
==============================================================================
