----------------------------- MODULE MCAccounts -----------------------------
(* Two users, two requests in flight and two registration policies: with  *)
(* verification and approval, and with neither; a registration may begin   *)
(* under one and be verified under the other.                              *)
EXTENDS Accounts, TLC

CONSTANTS boss, ann, h1, h2

Policy(verify, approve) == [email |-> TRUE, oauth |-> TRUE, verify |-> verify, approve |-> approve]
MCPolicies == {Policy(TRUE, TRUE), Policy(FALSE, FALSE)}

Symmetric == Permutations(Users) \cup Permutations(Handlers)
=============================================================================
