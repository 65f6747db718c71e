------------------------------ MODULE Accounts ------------------------------
(***************************************************************************)
(* The life of a user account: first-run setup, invitation, registration   *)
(* by email or OAuth, email verification, approval, password reset and the *)
(* member administration, over the one-time tokens that arrive by mail     *)
(* (routes/setup.rs, invite.rs, register.rs, verify_email.rs, users.rs,    *)
(* password_reset.rs, account.rs, oauth.rs; services/account_token.rs).    *)
(*                                                                         *)
(* A handler checks what it read and writes by id later; its transaction,  *)
(* or each of its statements, is a step. A user is an id with an email of  *)
(* its own, so registering again after a rejection is another user. Of the *)
(* roles only the owner's, which alone manages users, is told apart, so a  *)
(* change of role is no step. Sessions are not modelled: every request     *)
(* loads the status of its user again.                                     *)
(***************************************************************************)
EXTENDS Naturals, Sequences

CONSTANTS
  Users, Nobody,
  Handlers,           \* requests in flight at once
  Policies,           \* the registration policies an administrator may save
  MaxTokens           \* bound on the tokens ever issued

ASSUME AccountsAssumption ==
  /\ Nobody \notin Users /\ MaxTokens \in Nat
  /\ Policies \subseteq [email : BOOLEAN, oauth : BOOLEAN, verify : BOOLEAN, approve : BOOLEAN]

VARIABLES
  user,        \* the row of a user and what refers to it
  token,       \* account_token, in the order of issue
  policy,      \* registration_policy
  call,        \* what each request in flight has read
  accepts,     \* how often the user accepted an invitation
  vouched,     \* the users an administrator approved or invited
  strict,      \* approval has been required ever since the installation
  halted       \* the users whose verification was dropped while they were provisioned

vars == <<user, token, policy, call, accepts, vouched, strict, halted>>

NoRow == [status |-> "absent", verified |-> FALSE, password |-> FALSE,
          linked |-> FALSE, owner |-> FALSE, invited |-> FALSE]

\* ensure_registration_policy: closed, with verification and approval on.
SeededPolicy == [email |-> FALSE, oauth |-> FALSE, verify |-> TRUE, approve |-> TRUE]

Idle == [op |-> "none", step |-> "idle", user |-> Nobody, token |-> 0, seen |-> {}, next |-> "none"]

Init ==
  /\ user = [u \in Users |-> NoRow]
  /\ token = <<>>
  /\ policy = SeededPolicy
  /\ call = [h \in Handlers |-> Idle]
  /\ accepts = [u \in Users |-> 0]
  /\ vouched = {}
  /\ strict = TRUE
  /\ halted = {}

Exists(u)    == user[u].status \notin {"absent", "deleted"}
IsActive(u)  == user[u].status = "active"
IsOwner(u)   == user[u].owner
Principal(u) == user[u].status \in {"active", "pending_approval"}

\* An active user other than u with user:manage, which only the owner role grants.
HasManager(u) == \E m \in Users \ {u} : IsActive(m) /\ IsOwner(m)

Begin(h, new)     == call[h] = Idle /\ call' = [call EXCEPT ![h] = new]
Starts(h, op, u)  == Begin(h, [Idle EXCEPT !.op = op, !.step = "read", !.user = u])
End(h)            == call' = [call EXCEPT ![h] = Idle]
At(h, op, step)   == call[h].op = op /\ call[h].step = step
Answers(h)        == End(h) /\ UNCHANGED <<user, token, policy, accepts, vouched, strict, halted>>

Sets(u, column, value) == user' = [user EXCEPT ![u][column] = value]

----------------------------------------------------------------------------
(* One-time tokens (services/account_token.rs).                            *)

LiveTokens(u, purpose) ==
  {t \in DOMAIN token : token[t].live /\ token[t].user = u /\ token[t].purpose = purpose}

Consumed(ts) ==
  [t \in DOMAIN token |-> IF t \in ts THEN [token[t] EXCEPT !.live = FALSE] ELSE token[t]]

Fresh(u, purpose) == [purpose |-> purpose, user |-> u, live |-> TRUE]

\* verify: the token is looked up outside the transaction that consumes it.
Presents(h, op, purpose) ==
  \E t \in DOMAIN token :
    /\ token[t].live /\ token[t].purpose = purpose
    /\ Begin(h, [Idle EXCEPT !.op = op, !.step = "read", !.user = token[t].user, !.token = t])

\* issue_replacing asks for a new token of a user, in a transaction of its own:
\* its UPDATE sees the rows committed by then, and the INSERT comes after it.
Asks(h, purpose, u) == Begin(h, [Idle EXCEPT !.op = purpose, !.step = "issue", !.user = u])

InvalidateActive(h) ==
  /\ call[h].step = "issue"
  /\ call' = [call EXCEPT ![h].step = "insert", ![h].seen = LiveTokens(call[h].user, call[h].op)]
  /\ UNCHANGED <<user, token, policy, accepts, vouched, strict, halted>>

\* The foreign key to the user fails the insert once the user is gone.
IssueCommits(h) ==
  /\ call[h].step = "insert"
  /\ IF Exists(call[h].user)
     THEN /\ Len(token) < MaxTokens
          /\ token' = Append(Consumed(call[h].seen), Fresh(call[h].user, call[h].op))
     ELSE UNCHANGED token
  /\ End(h)
  /\ UNCHANGED <<user, policy, accepts, vouched, strict, halted>>

TokenExpires(t) ==
  /\ token[t].live
  /\ token' = Consumed({t})
  /\ UNCHANGED <<user, policy, call, accepts, vouched, strict, halted>>

----------------------------------------------------------------------------
(* How a user comes to be.                                                 *)

Creates(u, row) == user' = [user EXCEPT ![u] = row]

\* register_owner counts the users before its transaction.
SetupCounts(h, u) ==
  /\ \A v \in Users : ~Exists(v)
  /\ user[u].status = "absent"
  /\ Starts(h, "setup", u)
  /\ UNCHANGED <<user, token, policy, accepts, vouched, strict, halted>>

SetupCommits(h) ==
  /\ At(h, "setup", "read")
  /\ user[call[h].user].status = "absent"
  /\ Creates(call[h].user, [NoRow EXCEPT !.status = "active", !.password = TRUE, !.owner = TRUE])
  /\ vouched' = vouched \cup {call[h].user}
  /\ End(h)
  /\ UNCHANGED <<token, policy, accepts, strict, halted>>

\* The email was taken meanwhile.
EmailTaken(h) ==
  /\ call[h].op \in {"setup", "register"} /\ call[h].step = "read"
  /\ user[call[h].user].status # "absent"
  /\ Answers(h)

\* The unique index on the email stands behind the count; the token comes in
\* the transaction of the user.
Invite(u) ==
  /\ HasManager(u)
  /\ user[u].status = "absent" /\ Len(token) < MaxTokens
  /\ Creates(u, [NoRow EXCEPT !.status = "provisioned", !.invited = TRUE])
  /\ token' = Append(token, Fresh(u, "invite"))
  /\ vouched' = vouched \cup {u}
  /\ UNCHANGED <<policy, call, accepts, strict, halted>>

\* resend_invite looks at the status only: a registrant may get an invitation.
ResendInvite(h, u) ==
  /\ HasManager(u)
  /\ user[u].status = "provisioned"
  /\ Asks(h, "invite", u)
  /\ UNCHANGED <<user, token, policy, accepts, vouched, strict, halted>>

AfterVerified == IF policy.approve THEN "pending_approval" ELSE "active"

\* register_account reads the policy and settles the status of the new user.
RegisterReads(h, u) ==
  /\ policy.email /\ user[u].status = "absent"
  /\ Begin(h, [Idle EXCEPT !.op = "register", !.step = "read", !.user = u,
                           !.next = IF policy.verify THEN "provisioned" ELSE AfterVerified])
  /\ UNCHANGED <<user, token, policy, accepts, vouched, strict, halted>>

RegisterCommits(h) ==
  LET u == call[h].user
  IN /\ At(h, "register", "read")
     /\ user[u].status = "absent"
     /\ Creates(u, [NoRow EXCEPT !.status = call[h].next, !.password = TRUE])
     /\ IF call[h].next = "provisioned"
        THEN call' = [call EXCEPT ![h] = [Idle EXCEPT !.op = "verify", !.step = "issue", !.user = u]]
        ELSE End(h)
     /\ UNCHANGED <<token, policy, accepts, vouched, strict, halted>>

\* callback and self_register_via_oauth: the provider's email is verified. The
\* policy is read and the user inserted in one step: nobody knows of the user
\* before, so an insert under the policy of a moment ago might as well have been then.
RegisterViaOauth(u) ==
  /\ policy.oauth /\ user[u].status = "absent"
  /\ Creates(u, [NoRow EXCEPT !.status = AfterVerified, !.verified = TRUE, !.linked = TRUE])
  /\ UNCHANGED <<token, policy, call, accepts, vouched, strict, halted>>

----------------------------------------------------------------------------
(* Links that arrive by mail.                                              *)

AcceptReads(h) ==
  /\ Presents(h, "accept", "invite")
  /\ UNCHANGED <<user, token, policy, accepts, vouched, strict, halted>>

Activates(u) ==
  user' = [user EXCEPT ![u].status = "active", ![u].verified = TRUE, ![u].password = TRUE]

\* Mutant: the credentials are written by upsert, as in the password reset.
AcceptUpserts(h) ==
  LET u == call[h].user
  IN /\ At(h, "accept", "read")
     /\ IF Exists(u)
        THEN /\ Activates(u) /\ token' = Consumed({call[h].token})
             /\ accepts' = [accepts EXCEPT ![u] = @ + 1]
        ELSE UNCHANGED <<user, token, accepts>>
     /\ End(h)
     /\ UNCHANGED <<policy, vouched, strict, halted>>

\* accept_invite: the primary key of user_credentials rolls the transaction
\* back where the user has a password; a deleted user is not found.
AcceptCommits(h) ==
  LET u == call[h].user
  IN /\ At(h, "accept", "read")
     /\ IF Exists(u) /\ ~user[u].password
        THEN /\ Activates(u) /\ token' = Consumed({call[h].token})
             /\ accepts' = [accepts EXCEPT ![u] = @ + 1]
        ELSE UNCHANGED <<user, token, accepts>>
     /\ End(h)
     /\ UNCHANGED <<policy, vouched, strict, halted>>

\* resend_verify_email and send_verify, for whoever is not verified.
AskVerification(h, u) ==
  /\ Exists(u) /\ ~user[u].verified
  /\ Asks(h, "verify", u)
  /\ UNCHANGED <<user, token, policy, accepts, vouched, strict, halted>>

VerifyReads(h) ==
  /\ Presents(h, "verified", "verify")
  /\ UNCHANGED <<user, token, policy, accepts, vouched, strict, halted>>

\* verify_email runs without a transaction: the mark, the token, the status.
VerifyMarks(h) ==
  LET u == call[h].user
  IN /\ At(h, "verified", "read")
     /\ IF Exists(u) THEN Sets(u, "verified", TRUE) ELSE UNCHANGED user
     /\ call' = [call EXCEPT ![h].step = "marked"]
     /\ UNCHANGED <<token, policy, accepts, vouched, strict, halted>>

\* Mutant: a link that was spent meanwhile ends the request.
VerifyConsumesOnce(h) ==
  /\ At(h, "verified", "marked")
  /\ token' = Consumed({call[h].token})
  /\ IF token[call[h].token].live /\ user[call[h].user].status = "provisioned"
     THEN call' = [call EXCEPT ![h].step = "move", ![h].next = AfterVerified]
     ELSE End(h)
  /\ UNCHANGED <<user, policy, accepts, vouched, strict, halted>>

\* The token is consumed, the row is read and then the policy, in one step: the
\* earlier two can wait for the third, or a change of the policy between them
\* be put before, without a difference to what the request writes.
VerifyConsumes(h) ==
  /\ At(h, "verified", "marked")
  /\ token' = Consumed({call[h].token})
  /\ IF user[call[h].user].status = "provisioned"
     THEN call' = [call EXCEPT ![h].step = "move", ![h].next = AfterVerified]
     ELSE End(h)
  /\ UNCHANGED <<user, policy, accepts, vouched, strict, halted>>

\* Mutant: a verified registrant is let in.
VerifyActivates(h) ==
  /\ At(h, "verified", "move")
  /\ IF Exists(call[h].user) THEN Sets(call[h].user, "status", "active") ELSE UNCHANGED user
  /\ End(h)
  /\ UNCHANGED <<token, policy, accepts, vouched, strict, halted>>

\* The status is written by id, whatever it has become since.
VerifyMoves(h) ==
  /\ At(h, "verified", "move")
  /\ IF Exists(call[h].user) THEN Sets(call[h].user, "status", call[h].next) ELSE UNCHANGED user
  /\ End(h)
  /\ UNCHANGED <<token, policy, accepts, vouched, strict, halted>>

\* Mutant: an unverified address gets a reset link.
ForgotAnyone(h, u) ==
  /\ IsActive(u)
  /\ Asks(h, "reset", u)
  /\ UNCHANGED <<user, token, policy, accepts, vouched, strict, halted>>

ForgotPassword(h, u) ==
  /\ IsActive(u) /\ user[u].verified
  /\ Asks(h, "reset", u)
  /\ UNCHANGED <<user, token, policy, accepts, vouched, strict, halted>>

ResetReads(h) ==
  /\ Presents(h, "reset_password", "reset")
  /\ UNCHANGED <<user, token, policy, accepts, vouched, strict, halted>>

ResetCommits(h) ==
  LET u == call[h].user
  IN /\ At(h, "reset_password", "read")
     /\ IF Exists(u)
        THEN Sets(u, "password", TRUE) /\ token' = Consumed({call[h].token})
        ELSE UNCHANGED <<user, token>>
     /\ End(h)
     /\ UNCHANGED <<policy, accepts, vouched, strict, halted>>

----------------------------------------------------------------------------
(* Member administration (routes/users.rs): read and check, write by id.   *)

ApproveReads(h, u) ==
  /\ HasManager(u)
  /\ user[u].status = "pending_approval"
  /\ Starts(h, "approve", u)
  /\ UNCHANGED <<user, token, policy, accepts, vouched, strict, halted>>

ApproveCommits(h) ==
  LET u == call[h].user
  IN /\ At(h, "approve", "read")
     /\ IF Exists(u)
        THEN Sets(u, "status", "active") /\ vouched' = vouched \cup {u}
        ELSE UNCHANGED <<user, vouched>>
     /\ End(h)
     /\ UNCHANGED <<token, policy, accepts, strict, halted>>

RejectReads(h, u) ==
  /\ HasManager(u)
  /\ user[u].status = "pending_approval"
  /\ Starts(h, "reject", u)
  /\ UNCHANGED <<user, token, policy, accepts, vouched, strict, halted>>

RejectCommits(h) ==
  LET u == call[h].user
  IN /\ At(h, "reject", "read")
     /\ user' = [user EXCEPT ![u] = [NoRow EXCEPT !.status = "deleted"]]
     /\ token' = Consumed({t \in DOMAIN token : token[t].user = u})
     /\ End(h)
     /\ UNCHANGED <<policy, accepts, vouched, strict, halted>>

\* guard_not_owner_not_self
Manageable(u) == HasManager(u) /\ Exists(u) /\ ~IsOwner(u)

\* Mutant: who may be disabled is left to the caller's permission.
DisableAnyone(h, u) ==
  /\ HasManager(u) /\ IsActive(u)
  /\ Starts(h, "disable", u)
  /\ UNCHANGED <<user, token, policy, accepts, vouched, strict, halted>>

DisableReads(h, u) ==
  /\ Manageable(u) /\ IsActive(u)
  /\ Starts(h, "disable", u)
  /\ UNCHANGED <<user, token, policy, accepts, vouched, strict, halted>>

EnableReads(h, u) ==
  /\ Manageable(u) /\ user[u].status = "disabled"
  /\ Starts(h, "enable", u)
  /\ UNCHANGED <<user, token, policy, accepts, vouched, strict, halted>>

AbleCommits(h) ==
  LET u == call[h].user
  IN /\ call[h].op \in {"disable", "enable"}
     /\ IF Exists(u)
        THEN Sets(u, "status", IF call[h].op = "disable" THEN "disabled" ELSE "active")
        ELSE UNCHANGED user
     /\ End(h)
     /\ UNCHANGED <<token, policy, accepts, vouched, strict, halted>>

----------------------------------------------------------------------------
(* What users do to their own account, and the administrator's policy.     *)

\* change_password, for a user without a password.
SetPassword(u) ==
  /\ Principal(u) /\ ~user[u].password
  /\ Sets(u, "password", TRUE)
  /\ UNCHANGED <<token, policy, call, accepts, vouched, strict, halted>>

\* The flow was started by a principal; the callback asks for no status.
HandleLink(u) ==
  /\ Principal(u) \/ user[u].status = "disabled"
  /\ ~user[u].linked
  /\ Sets(u, "linked", TRUE)
  /\ UNCHANGED <<token, policy, call, accepts, vouched, strict, halted>>

Unlink(u) ==
  /\ Principal(u) /\ user[u].linked /\ user[u].password
  /\ Sets(u, "linked", FALSE)
  /\ UNCHANGED <<token, policy, call, accepts, vouched, strict, halted>>

\* By anybody with auth:manage, an administrator or the owner.
UpdatePolicy(p) ==
  /\ p # policy /\ \E m \in Users : IsActive(m)
  /\ policy' = p
  /\ strict' = (strict /\ p.approve)
  /\ UNCHANGED <<user, token, call, accepts, vouched, halted>>

\* h has set the mark and has the token or the status still to write.
Verifying(h) == call[h].op = "verified" /\ call[h].step \in {"marked", "move"}

\* The request is dropped where it is; an open transaction rolls back.
Dropped(h) ==
  /\ call[h] # Idle /\ End(h)
  /\ halted' = halted \cup {u \in Users : Verifying(h) /\ call[h].user = u /\ user[u].status = "provisioned"}
  /\ UNCHANGED <<user, token, policy, accepts, vouched, strict>>

Issues(h)  == InvalidateActive(h) \/ IssueCommits(h)
Opens(h)   == AcceptReads(h) \/ VerifyReads(h) \/ ResetReads(h)
Commits(h) ==
  \/ SetupCommits(h) \/ EmailTaken(h) \/ RegisterCommits(h) \/ AcceptCommits(h)
  \/ VerifyMarks(h) \/ VerifyConsumes(h) \/ VerifyMoves(h) \/ ResetCommits(h)
  \/ ApproveCommits(h) \/ RejectCommits(h) \/ AbleCommits(h)

Request(h, u) ==
  \/ SetupCounts(h, u) \/ ResendInvite(h, u) \/ RegisterReads(h, u)
  \/ AskVerification(h, u) \/ ForgotPassword(h, u)
  \/ ApproveReads(h, u) \/ RejectReads(h, u) \/ DisableReads(h, u) \/ EnableReads(h, u)

AtOnce(u) ==
  \/ Invite(u) \/ RegisterViaOauth(u) \/ SetPassword(u) \/ HandleLink(u) \/ Unlink(u)

Next ==
  \/ \E h \in Handlers : Issues(h) \/ Opens(h) \/ Commits(h) \/ Dropped(h)
  \/ \E h \in Handlers, u \in Users : Request(h, u)
  \/ \E u \in Users : AtOnce(u)
  \/ \E t \in DOMAIN token : TokenExpires(t)
  \/ \E p \in Policies : UpdatePolicy(p)

Spec == Init /\ [][Next]_vars

----------------------------------------------------------------------------
(* Properties.                                                             *)

Statuses == {"absent", "provisioned", "pending_approval", "active", "disabled", "deleted"}
Rows == [status : Statuses, verified : BOOLEAN, password : BOOLEAN, linked : BOOLEAN,
         owner : BOOLEAN, invited : BOOLEAN]
Purposes == {"invite", "verify", "reset"}
Calls == [op : Purposes \cup {"none", "setup", "register", "accept", "verified", "reset_password",
                              "approve", "reject", "disable", "enable"},
          step : {"idle", "read", "issue", "insert", "marked", "move"},
          user : Users \cup {Nobody}, token : Nat, seen : SUBSET Nat,
          next : {"none", "provisioned", "pending_approval", "active"}]

\* The type invariant of the tables and of the requests in flight.
TypeOK ==
  /\ user \in [Users -> Rows]
  /\ token \in Seq([purpose : Purposes, user : Users, live : BOOLEAN])
  /\ policy \in Policies \cup {SeededPolicy}
  /\ call \in [Handlers -> Calls]
  /\ accepts \in [Users -> Nat]
  /\ vouched \subseteq Users
  /\ strict \in BOOLEAN
  /\ halted \subseteq Users

\* An invitation is accepted once, however many of its links were live at once
\* and whoever opened them together.
InviteAcceptedOnce == \A u \in Users : accepts[u] <= 1

\* As long as registration has required approval, nobody is or was active whom
\* no administrator approved or invited: neither a second verification link
\* nor an invitation resent to a registrant is a way round.
ApprovalIsNotSkipped ==
  strict => \A u \in Users : user[u].status \in {"active", "disabled"} => u \in vouched

\* A reset link exists only for an address that was verified, whatever became
\* of the account since.
ResetNeedsVerified ==
  \A t \in DOMAIN token : token[t].live /\ token[t].purpose = "reset" => user[token[t].user].verified

\* The owner keeps the account: active, with a password, under any
\* interleaving of the other administrators' requests.
OwnerStays == \A u \in Users : IsOwner(u) => IsActive(u) /\ user[u].password

\* Whoever may act without having been invited has a way to sign in again:
\* unlinking leaves a password.
KeepsAWayIn ==
  \A u \in Users : Principal(u) /\ ~user[u].invited => user[u].password \/ user[u].linked

\* The registrants whose address is verified and whom no request moves on: a
\* new link is for whoever is not verified, so only an earlier one helps them.
LeftBehind ==
  {u \in Users : /\ user[u].verified /\ user[u].status = "provisioned"
                 /\ ~\E h \in Handlers : Verifying(h) /\ call[h].user = u}

\* A registrant is left verified and provisioned by a request that is dropped
\* between the statements of verify_email and by nothing else: not by a second
\* link, a spent or expired token, or an administrator's invitation meanwhile.
OnlyDropsLeaveBehind == LeftBehind \subseteq halted

----------------------------------------------------------------------------
(* Statements of the repository that the code does not keep.               *)

\* openspec registration-policy: verifying the email transitions a provisioned
\* user, so that no registrant is left verified and provisioned.
VerifiedMovesOn == LeftBehind = {}

\* account_token.rs: at most one unconsumed token of a purpose for a user.
OneActiveToken ==
  \A u \in Users, purpose \in Purposes : \A s, t \in LiveTokens(u, purpose) : s = t

\* setup.rs: the count closes the race between two concurrent setup posts.
AtMostOneOwner == \A u, v \in Users : IsOwner(u) /\ IsOwner(v) => u = v
=============================================================================
