--------------------------- MODULE AccountsProofs ---------------------------
(***************************************************************************)
(* Proofs about Accounts, for any number of users, requests and tokens and *)
(* for any registration policies. A step of Next is described by what it   *)
(* does to the row of a user (RowStep), to the tokens (TokenStep) and to   *)
(* the requests in flight (CallStep); each property then follows from      *)
(* these descriptions and not from the thirty actions.                     *)
(***************************************************************************)
EXTENDS Accounts, SequenceTheorems, TLAPS

Tokens == [purpose : Purposes, user : Users, live : BOOLEAN]

\* The requests that write the status of a row by id.
Decides(c) == c.op \in {"approve", "reject", "disable", "enable"} \/ c.step = "move"

\* What a request in flight has at the step it is at, and that none of those
\* that write a status by id is about an owner.
Good(c) ==
  /\ c \in Calls
  /\ c.op # "none" \/ c.step # "idle" => c.user \in Users
  /\ c.step \in {"issue", "insert"} => c.op \in Purposes /\ user[c.user].status # "absent"
  /\ c.op = "register" => c.next # "none"
  /\ c.step = "move" => c.next \in {"pending_approval", "active"}
  /\ Decides(c) => user[c.user].status # "absent" /\ ~IsOwner(c.user)

CallsAreGood == \A h \in Handlers : Good(call[h])

\* The columns of a row that was not written or is deleted are as NoRow has them.
Blank == \A u \in Users : ~Exists(u) => user[u] = [NoRow EXCEPT !.status = user[u].status]

Shape == TypeOK /\ CallsAreGood /\ Blank /\ OwnerStays

----------------------------------------------------------------------------
(* What a step can do to the tokens.                                       *)

\* Consuming tokens keeps the others, and whose they are.
LEMMA ConsumedTokens ==
  ASSUME token \in Seq(Tokens), NEW ts
  PROVE  /\ Consumed(ts) \in Seq(Tokens)
         /\ DOMAIN Consumed(ts) = DOMAIN token
         /\ \A t \in DOMAIN token :
              /\ Consumed(ts)[t].user = token[t].user
              /\ Consumed(ts)[t].purpose = token[t].purpose
              /\ Consumed(ts)[t].live => token[t].live
              /\ t \in ts => ~Consumed(ts)[t].live
<1>1. \A t \in DOMAIN token : token[t] \in Tokens BY ElementOfSeq
<1>2. DOMAIN token = 1 .. Len(token) /\ Len(token) \in Nat BY LenProperties
<1> DEFINE r(t) == IF t \in ts THEN [token[t] EXCEPT !.live = FALSE] ELSE token[t]
<1>3. \A t \in DOMAIN token :
        /\ r(t) \in Tokens /\ r(t).user = token[t].user /\ r(t).purpose = token[t].purpose
        /\ r(t).live => token[t].live
        /\ t \in ts => ~r(t).live
  BY <1>1 DEF Tokens
<1>4. Consumed(ts) = [t \in DOMAIN token |-> r(t)] BY DEF Consumed
<1> HIDE DEF r
<1>5. Consumed(ts) \in [1 .. Len(token) -> Tokens] BY <1>2, <1>3, <1>4
<1>6. Consumed(ts) \in Seq(Tokens) BY <1>2, <1>5, SeqDef
<1> QED BY <1>3, <1>4, <1>6

----------------------------------------------------------------------------
(* What a step can do to one row.                                          *)

\* A policy read at some time asked for no approval.
Unapproved ==
  ~policy.approve \/ \E h \in Handlers :
    (call[h].op = "register" \/ call[h].step = "move") /\ call[h].next = "active"

\* What lets a user become active or disabled.
Cleared(u) ==
  u \in vouched' \/ Unapproved \/ \E h \in Handlers :
    call[h].op \in {"disable", "enable"} /\ call[h].user = u

Created(u) ==
  /\ user[u].status = "absent"
  /\ user'[u].status \in {"provisioned", "pending_approval", "active"}
  /\ user'[u].status = "provisioned" =>
       ~user'[u].verified /\ (user'[u].password \/ u \in vouched')
  /\ user'[u].status = "active" => Cleared(u)
  /\ user'[u].invited \/ user'[u].password \/ user'[u].linked
  /\ user'[u].owner =>
       /\ user'[u].status = "active" /\ user'[u].password
       /\ \E h \in Handlers : SetupCommits(h) /\ call[h].user = u

Accepted(u) ==
  /\ Exists(u) /\ ~user[u].password
  /\ \E h \in Handlers : call[h].op = "accept" /\ call[h].user = u
  /\ user'[u] = [user[u] EXCEPT !.status = "active", !.verified = TRUE, !.password = TRUE]

Deleted(u) ==
  /\ ~IsOwner(u) /\ user'[u] = [NoRow EXCEPT !.status = "deleted"]
  /\ \A t \in DOMAIN token' : token'[t].user = u => ~token'[t].live

Moved(u) ==
  /\ Exists(u) /\ ~IsOwner(u)
  /\ \E s \in {"active", "pending_approval", "disabled"} :
       /\ user'[u] = [user[u] EXCEPT !.status = s]
       /\ s \in {"active", "disabled"} => Cleared(u)

Gained(u) ==
  /\ Exists(u)
  /\ \/ /\ user'[u] = [user[u] EXCEPT !.verified = TRUE]
        /\ \E h \in Handlers : Verifying(h)' /\ call'[h].user = u
     \/ user'[u] = [user[u] EXCEPT !.password = TRUE]
     \/ user'[u] = [user[u] EXCEPT !.linked = TRUE]

Unlinked(u) == user[u].password /\ Exists(u) /\ user'[u] = [user[u] EXCEPT !.linked = FALSE]

RowStep(u) ==
  \/ /\ \/ user'[u] = user[u]
        \/ Created(u) \/ Deleted(u) \/ Moved(u) \/ Gained(u) \/ Unlinked(u)
     /\ accepts'[u] = accepts[u]
  \/ Accepted(u) /\ accepts'[u] = accepts[u] + 1

RowsStep ==
  /\ user' \in [Users -> Rows] /\ accepts' \in [Users -> Nat]
  /\ vouched \subseteq vouched' /\ vouched' \subseteq Users
  /\ \A u \in Users : RowStep(u)

\* A row is untouched by a step that leaves the tables alone.
LEMMA RowsKept ==
  ASSUME Shape, UNCHANGED <<user, accepts, vouched>>
  PROVE  RowsStep
BY DEF Shape, TypeOK, RowsStep, RowStep

\* A column is set, and with the row gone the update finds nothing.
LEMMA RowGains ==
  ASSUME Shape, NEW u \in Users, NEW column \in {"verified", "password", "linked"},
         Exists(u), Sets(u, column, TRUE), UNCHANGED <<accepts, vouched>>,
         column = "verified" => \E h \in Handlers : Verifying(h)' /\ call'[h].user = u
  PROVE  RowsStep
<1> USE DEF Shape, TypeOK
<1>1. user' \in [Users -> Rows] BY DEF Sets, Rows
<1>2. Gained(u) BY DEF Sets, Rows, Gained
<1>3. \A v \in Users : v # u => user'[v] = user[v] BY DEF Sets
<1> QED BY <1>1, <1>2, <1>3 DEF RowsStep, RowStep

\* A status is written by id to a user who is there and no owner.
LEMMA RowMoves ==
  ASSUME Shape, NEW u \in Users, NEW s \in {"active", "pending_approval", "disabled"},
         Exists(u), ~IsOwner(u), Sets(u, "status", s), UNCHANGED accepts,
         vouched \subseteq vouched', vouched' \subseteq Users,
         s \in {"active", "disabled"} => Cleared(u)
  PROVE  RowsStep
<1> USE DEF Shape, TypeOK
<1>1. user' \in [Users -> Rows] BY DEF Sets, Rows, Statuses
<1>2. Moved(u) BY DEF Sets, Rows, Moved
<1>3. \A v \in Users : v # u => user'[v] = user[v] BY DEF Sets
<1> QED BY <1>1, <1>2, <1>3 DEF RowsStep, RowStep

\* An accepted row is a row.
LEMMA ActivatedRow ==
  ASSUME NEW r \in Rows
  PROVE  [r EXCEPT !.status = "active", !.verified = TRUE, !.password = TRUE] \in Rows
BY DEF Rows, Statuses

\* Accepting an invitation writes three columns of one row.
LEMMA ActivatedUser ==
  ASSUME NEW u \in Users, user \in [Users -> Rows], Activates(u)
  PROVE  /\ user' \in [Users -> Rows]
         /\ user'[u] = [user[u] EXCEPT !.status = "active", !.verified = TRUE, !.password = TRUE]
         /\ \A v \in Users : v # u => user'[v] = user[v]
<1> DEFINE new == [user[u] EXCEPT !.status = "active", !.verified = TRUE, !.password = TRUE]
<1>1. user' = [user EXCEPT ![u] = new] BY Zenon DEF Activates
<1>2. user[u] \in Rows OBVIOUS
<1>3. new \in Rows BY <1>2, ActivatedRow
<1> HIDE DEF new
<1>4. user' \in [Users -> Rows] /\ user'[u] = new BY <1>1, <1>3
<1>5. \A v \in Users : v # u => user'[v] = user[v] BY <1>1
<1> QED BY <1>4, <1>5 DEF new

\* An invitation is accepted.
LEMMA RowAccepts ==
  ASSUME Shape, NEW u \in Users, Exists(u), ~user[u].password, Activates(u),
         NEW h \in Handlers, call[h].op = "accept", call[h].user = u,
         accepts' = [accepts EXCEPT ![u] = @ + 1], UNCHANGED vouched
  PROVE  RowsStep
<1> USE DEF Shape, TypeOK
<1>1. /\ user' \in [Users -> Rows] /\ Accepted(u)
      /\ \A v \in Users : v # u => user'[v] = user[v]
  BY ActivatedUser DEF Accepted
<1>2. accepts' \in [Users -> Nat] /\ accepts'[u] = accepts[u] + 1
  OBVIOUS
<1>3. \A v \in Users : v # u => accepts'[v] = accepts[v] OBVIOUS
<1> QED BY <1>1, <1>2, <1>3 DEF RowsStep, RowStep

\* A user is inserted.
LEMMA RowCreates ==
  ASSUME Shape, NEW u \in Users, NEW row \in Rows, Creates(u, row), user[u].status = "absent",
         row.status \in {"provisioned", "pending_approval", "active"},
         row.status = "provisioned" => ~row.verified /\ (row.password \/ u \in vouched'),
         row.status = "active" => Cleared(u),
         row.invited \/ row.password \/ row.linked,
         row.owner => row.status = "active" /\ row.password /\
                      \E h \in Handlers : SetupCommits(h) /\ call[h].user = u,
         UNCHANGED accepts, vouched \subseteq vouched', vouched' \subseteq Users
  PROVE  RowsStep
<1> USE DEF Shape, TypeOK
<1>1. user' \in [Users -> Rows] /\ user'[u] = row BY DEF Creates
<1>2. \A v \in Users : v # u => user'[v] = user[v] BY DEF Creates
<1>3. Created(u) BY <1>1 DEF Created
<1> QED BY <1>1, <1>2, <1>3 DEF RowsStep, RowStep

\* The transactions and statements that end or carry on a request.
LEMMA CommitRows ==
  ASSUME Shape, NEW h \in Handlers, Commits(h)
  PROVE  RowsStep
<1> USE DEF Shape, TypeOK
<1>0. Good(call[h]) BY DEF CallsAreGood
<1>1. CASE SetupCommits(h)
  <2>1. call[h].user \in Users BY <1>0, <1>1 DEF Good, SetupCommits, At
  <2> DEFINE row == [NoRow EXCEPT !.status = "active", !.password = TRUE, !.owner = TRUE]
  <2>2. row \in Rows /\ row.status = "active" /\ row.password BY DEF NoRow, Rows, Statuses
  <2>3. Creates(call[h].user, row) BY <1>1 DEF SetupCommits
  <2>4. /\ user[call[h].user].status = "absent" /\ vouched' = vouched \cup {call[h].user}
        /\ UNCHANGED accepts
    BY <1>1 DEF SetupCommits
  <2>5. Cleared(call[h].user) BY <2>4 DEF Cleared
  <2> HIDE DEF row
  <2> QED BY <1>1, <2>1, <2>2, <2>3, <2>4, <2>5, RowCreates
<1>2. CASE EmailTaken(h)
  BY <1>2, RowsKept DEF EmailTaken, Answers
<1>3. CASE RegisterCommits(h)
  <2>1. call[h].user \in Users /\ call[h].next \in {"provisioned", "pending_approval", "active"}
    BY <1>0, <1>3 DEF Good, Calls, RegisterCommits, At
  <2>2. call[h].next = "active" => Cleared(call[h].user)
    BY <1>3 DEF RegisterCommits, At, Cleared, Unapproved
  <2> QED BY <1>3, <2>1, <2>2 DEF RegisterCommits, Creates, NoRow, Rows, Statuses, RowsStep, RowStep, Created
<1>4. CASE AcceptCommits(h)
  <2>1. call[h].user \in Users BY <1>0, <1>4 DEF Good, AcceptCommits, At
  <2>2. CASE Exists(call[h].user) /\ ~user[call[h].user].password
    BY <1>4, <2>1, <2>2, RowAccepts DEF AcceptCommits, At
  <2>3. CASE ~(Exists(call[h].user) /\ ~user[call[h].user].password)
    BY <1>4, <2>3, RowsKept DEF AcceptCommits
  <2> QED BY <2>2, <2>3
<1>5. CASE VerifyMarks(h)
  <2>1. call[h].user \in Users BY <1>0, <1>5 DEF Good, VerifyMarks, At
  <2>a. Verifying(h)' /\ call'[h].user = call[h].user
    BY <1>0, <1>5 DEF VerifyMarks, At, Verifying, Good, Calls
  <2>2. CASE Exists(call[h].user)
    BY <1>5, <2>1, <2>2, <2>a, RowGains DEF VerifyMarks
  <2>3. CASE ~Exists(call[h].user) BY <1>5, <2>3, RowsKept DEF VerifyMarks
  <2> QED BY <2>2, <2>3
<1>6. CASE VerifyConsumes(h)
  BY <1>6, RowsKept DEF VerifyConsumes
<1>7. CASE VerifyMoves(h)
  <2>1. /\ call[h].user \in Users /\ ~IsOwner(call[h].user)
        /\ call[h].next \in {"pending_approval", "active"}
        /\ call[h].next = "active" => Cleared(call[h].user)
    BY <1>0, <1>7 DEF Good, Decides, VerifyMoves, At, Cleared, Unapproved
  <2>2. CASE Exists(call[h].user) BY <1>7, <2>1, <2>2, RowMoves DEF VerifyMoves
  <2>3. CASE ~Exists(call[h].user) BY <1>7, <2>3, RowsKept DEF VerifyMoves
  <2> QED BY <2>2, <2>3
<1>8. CASE ResetCommits(h)
  <2>1. call[h].user \in Users BY <1>0, <1>8 DEF Good, ResetCommits, At
  <2>2. CASE Exists(call[h].user) BY <1>8, <2>1, <2>2, RowGains DEF ResetCommits
  <2>3. CASE ~Exists(call[h].user) BY <1>8, <2>3, RowsKept DEF ResetCommits
  <2> QED BY <2>2, <2>3
<1>9. CASE ApproveCommits(h)
  <2>1. call[h].user \in Users /\ ~IsOwner(call[h].user)
    BY <1>0, <1>9 DEF Good, Decides, ApproveCommits, At
  <2>2. CASE Exists(call[h].user)
    BY <1>9, <2>1, <2>2, RowMoves DEF ApproveCommits, Cleared
  <2>3. CASE ~Exists(call[h].user) BY <1>9, <2>3, RowsKept DEF ApproveCommits
  <2> QED BY <2>2, <2>3
<1>10. CASE RejectCommits(h)
  <2>1. call[h].user \in Users /\ ~IsOwner(call[h].user)
    BY <1>0, <1>10 DEF Good, Decides, RejectCommits, At
  <2> DEFINE ts == {t \in DOMAIN token : token[t].user = call[h].user}
             row == [NoRow EXCEPT !.status = "deleted"]
  <2>2. token' = Consumed(ts) BY <1>10 DEF RejectCommits
  <2>3. \A t \in DOMAIN token' : token'[t].user = call[h].user => ~token'[t].live
    BY <2>2, ConsumedTokens DEF Tokens
  <2>4. row \in Rows BY DEF NoRow, Rows, Statuses
  <2>5. user' = [user EXCEPT ![call[h].user] = row] /\ UNCHANGED <<accepts, vouched>>
    BY <1>10 DEF RejectCommits
  <2> HIDE DEF row, ts
  <2>6. user' \in [Users -> Rows] /\ user'[call[h].user] = row
        /\ \A v \in Users : v # call[h].user => user'[v] = user[v]
    BY <2>1, <2>4, <2>5
  <2>7. Deleted(call[h].user) BY <2>1, <2>3, <2>6 DEF Deleted, row
  <2> QED BY <2>1, <2>5, <2>6, <2>7 DEF RowsStep, RowStep
<1>11. CASE AbleCommits(h)
  <2>1. call[h].user \in Users /\ ~IsOwner(call[h].user) /\ Cleared(call[h].user)
    BY <1>0, <1>11 DEF Good, Decides, AbleCommits, Cleared
  <2>2. CASE Exists(call[h].user) BY <1>11, <2>1, <2>2, RowMoves DEF AbleCommits
  <2>3. CASE ~Exists(call[h].user) BY <1>11, <2>3, RowsKept DEF AbleCommits
  <2> QED BY <2>2, <2>3
<1> QED BY <1>1, <1>2, <1>3, <1>4, <1>5, <1>6, <1>7, <1>8, <1>9, <1>10, <1>11 DEF Commits

\* The requests that are one step.
LEMMA AtOnceRows ==
  ASSUME Shape, NEW u \in Users, AtOnce(u)
  PROVE  RowsStep
<1> USE DEF Shape, TypeOK, RowsStep, RowStep, Rows
<1>1. CASE Invite(u)
  BY <1>1 DEF Invite, Creates, NoRow, Statuses, Created, Cleared
<1>2. CASE RegisterViaOauth(u)
  BY <1>2 DEF RegisterViaOauth, Creates, NoRow, AfterVerified, Statuses, Created, Cleared, Unapproved
<1>3. CASE SetPassword(u)
  BY <1>3 DEF SetPassword, Principal, Exists, Sets, Gained
<1>4. CASE HandleLink(u)
  BY <1>4 DEF HandleLink, Principal, Exists, Sets, Gained
<1>5. CASE Unlink(u)
  BY <1>5 DEF Unlink, Principal, Exists, Sets, Unlinked
<1> QED BY <1>1, <1>2, <1>3, <1>4, <1>5 DEF AtOnce

\* Everything else reads, issues a token or changes the policy.
LEMMA RowsOfNext ==
  ASSUME Shape, [Next]_vars
  PROVE  RowsStep
<1>1. ASSUME NEW h \in Handlers, Issues(h) \/ Opens(h) \/ Dropped(h) PROVE RowsStep
  BY <1>1, RowsKept DEF Issues, Opens, Dropped, Answers, InvalidateActive, IssueCommits,
     AcceptReads, VerifyReads, ResetReads
<1>2. ASSUME NEW h \in Handlers, NEW u \in Users, Request(h, u) PROVE RowsStep
  BY <1>2, RowsKept DEF Request, SetupCounts, ResendInvite, RegisterReads, AskVerification,
     ForgotPassword, ApproveReads, RejectReads, DisableReads, EnableReads
<1>3. ASSUME NEW t \in DOMAIN token, TokenExpires(t) PROVE RowsStep
  BY <1>3, RowsKept DEF TokenExpires
<1>4. ASSUME NEW p \in Policies, UpdatePolicy(p) PROVE RowsStep
  BY <1>4, RowsKept DEF UpdatePolicy
<1>5. CASE UNCHANGED vars
  BY <1>5, RowsKept DEF vars
<1> QED BY <1>1, <1>2, <1>3, <1>4, <1>5, CommitRows, AtOnceRows DEF Next

----------------------------------------------------------------------------
(* What a step does to the tokens.                                         *)

Carried(t) ==
  /\ t \in DOMAIN token /\ token[t].live
  /\ token'[t].user = token[t].user /\ token'[t].purpose = token[t].purpose

Issued(t) ==
  /\ UNCHANGED user /\ Exists(token'[t].user) /\ t = Len(token')
  /\ \E h \in Handlers :
       /\ call[h].step = "insert" /\ End(h)
       /\ call[h].op = token'[t].purpose /\ call[h].user = token'[t].user
       /\ \A s \in DOMAIN token' : s \in call[h].seen /\ s # t => ~token'[s].live

Invited(t) ==
  /\ t = Len(token') /\ user[token'[t].user].status = "absent"
  /\ token'[t].purpose = "invite" /\ token'[t].user \in vouched'
  /\ user'[token'[t].user].status = "provisioned"

TokensStep ==
  /\ token' \in Seq(Tokens)
  /\ \A t \in DOMAIN token' : token'[t].live => Carried(t) \/ Issued(t) \/ Invited(t)

\* A step that leaves the tokens alone carries each of them.
LEMMA TokensKept ==
  ASSUME token \in Seq(Tokens), UNCHANGED token
  PROVE  TokensStep
BY DEF TokensStep, Carried

\* So does one that consumes some.
LEMMA TokensConsumed ==
  ASSUME token \in Seq(Tokens), NEW ts, token' = Consumed(ts)
  PROVE  TokensStep
BY ConsumedTokens DEF TokensStep, Carried

\* A token is appended once others are consumed.
LEMMA TokenAppended ==
  ASSUME token \in Seq(Tokens), NEW old \in Seq(Tokens), NEW new \in Tokens,
         old = token \/ \E ts : old = Consumed(ts),
         token' = Append(old, new)
  PROVE  /\ token' \in Seq(Tokens)
         /\ Len(token') \in DOMAIN token' /\ token'[Len(token')] = new
         /\ \A t \in DOMAIN token' : t # Len(token') /\ token'[t].live => Carried(t)
         /\ \A t \in DOMAIN token' : t # Len(token') => t \in DOMAIN old /\ token'[t] = old[t]
<1>1. /\ DOMAIN old = DOMAIN token
      /\ \A t \in DOMAIN token : /\ old[t].user = token[t].user
                                 /\ old[t].purpose = token[t].purpose
                                 /\ old[t].live => token[t].live
  BY ConsumedTokens
<1>2. /\ token' \in Seq(Tokens) /\ Len(token') = Len(old) + 1
      /\ \A t \in 1 .. Len(old) : token'[t] = old[t]
      /\ token'[Len(old) + 1] = new
  BY AppendProperties
<1>3. /\ DOMAIN old = 1 .. Len(old) /\ Len(old) \in Nat
      /\ DOMAIN token' = 1 .. Len(token')
  BY <1>2, LenProperties
<1> QED BY <1>1, <1>2, <1>3 DEF Carried

\* A live token was live before, or was just issued or sent with an invitation.
LEMMA TokensOfNext ==
  ASSUME Shape, [Next]_vars
  PROVE  TokensStep
<1>0. token \in Seq(Tokens) BY DEF Shape, TypeOK, Tokens
<1>1. ASSUME NEW h \in Handlers, Issues(h) PROVE TokensStep
  <2>1. CASE InvalidateActive(h) BY <1>0, <2>1, TokensKept DEF InvalidateActive
  <2>2. CASE IssueCommits(h) /\ Exists(call[h].user)
    <3> DEFINE new == Fresh(call[h].user, call[h].op)
               old == Consumed(call[h].seen)
    <3>1. token' = Append(old, new) /\ call[h].step = "insert" /\ UNCHANGED user
      BY <2>2 DEF IssueCommits
    <3>2. call[h].user \in Users /\ call[h].op \in Purposes
      BY <3>1 DEF Shape, CallsAreGood, Good, Purposes
    <3>3. new \in Tokens BY <3>2 DEF Fresh, Tokens
    <3>4. new.user = call[h].user /\ new.purpose = call[h].op BY DEF Fresh
    <3>5. old \in Seq(Tokens) BY <1>0, ConsumedTokens
    <3>6. \E ts : old = Consumed(ts) OBVIOUS
    <3> HIDE DEF new, old
    <3>7. /\ token' \in Seq(Tokens)
          /\ Len(token') \in DOMAIN token' /\ token'[Len(token')] = new
          /\ \A t \in DOMAIN token' : t # Len(token') /\ token'[t].live => Carried(t)
          /\ \A t \in DOMAIN token' : t # Len(token') => t \in DOMAIN old /\ token'[t] = old[t]
      BY <1>0, <3>1, <3>3, <3>5, <3>6, TokenAppended
    <3>8. \A t \in DOMAIN token' : t \in call[h].seen /\ t # Len(token') => ~token'[t].live
      BY <1>0, <3>7, ConsumedTokens DEF old
    <3>9. Issued(Len(token')) BY <2>2, <3>1, <3>4, <3>7, <3>8 DEF Issued, IssueCommits
    <3> QED BY <3>7, <3>9 DEF TokensStep
  <2>3. CASE IssueCommits(h) /\ ~Exists(call[h].user) BY <1>0, <2>3, TokensKept DEF IssueCommits
  <2> QED BY <1>1, <2>1, <2>2, <2>3 DEF Issues
<1>2. ASSUME NEW h \in Handlers, Opens(h) \/ Dropped(h) PROVE TokensStep
  BY <1>0, <1>2, TokensKept DEF Opens, Dropped, Answers, AcceptReads, VerifyReads, ResetReads
<1>3. ASSUME NEW h \in Handlers, Commits(h) PROVE TokensStep
  <2>1. UNCHANGED token \/ \E ts : token' = Consumed(ts)
    BY <1>3 DEF Commits, SetupCommits, EmailTaken, Answers, RegisterCommits, AcceptCommits, VerifyMarks,
       VerifyConsumes, VerifyMoves, ResetCommits, ApproveCommits, RejectCommits, AbleCommits
  <2> QED BY <1>0, <2>1, TokensKept, TokensConsumed
<1>4. ASSUME NEW h \in Handlers, NEW u \in Users, Request(h, u) PROVE TokensStep
  BY <1>0, <1>4, TokensKept DEF Request, SetupCounts, ResendInvite, RegisterReads, AskVerification,
     ForgotPassword, ApproveReads, RejectReads, DisableReads, EnableReads
<1>5. ASSUME NEW u \in Users, AtOnce(u) PROVE TokensStep
  <2>1. CASE Invite(u)
    <3> DEFINE new == Fresh(u, "invite")
    <3>1. token' = Append(token, new) /\ u \in vouched' BY <2>1 DEF Invite
    <3>2. user'[u].status = "provisioned" /\ user[u].status = "absent"
      BY <2>1 DEF Invite, Creates, NoRow, Shape, TypeOK
    <3>3. new \in Tokens BY DEF Fresh, Tokens, Purposes
    <3>4. new.user = u /\ new.purpose = "invite" BY DEF Fresh
    <3> HIDE DEF new
    <3>5. /\ token' \in Seq(Tokens)
          /\ Len(token') \in DOMAIN token' /\ token'[Len(token')] = new
          /\ \A t \in DOMAIN token' : t # Len(token') /\ token'[t].live => Carried(t)
      BY <1>0, <3>1, <3>3, TokenAppended
    <3>6. Invited(Len(token')) BY <3>1, <3>2, <3>4, <3>5 DEF Invited
    <3> QED BY <3>5, <3>6 DEF TokensStep
  <2>2. CASE ~Invite(u)
    BY <1>0, <1>5, <2>2, TokensKept DEF AtOnce, RegisterViaOauth, SetPassword, HandleLink, Unlink
  <2> QED BY <2>1, <2>2
<1>6. ASSUME NEW t \in DOMAIN token, TokenExpires(t) PROVE TokensStep
  BY <1>0, <1>6, TokensConsumed DEF TokenExpires
<1>7. ASSUME NEW p \in Policies, UpdatePolicy(p) PROVE TokensStep
  BY <1>0, <1>7, TokensKept DEF UpdatePolicy
<1>8. CASE UNCHANGED vars BY <1>0, <1>8, TokensKept DEF vars
<1> QED BY <1>1, <1>2, <1>3, <1>4, <1>5, <1>6, <1>7, <1>8 DEF Next

----------------------------------------------------------------------------
(* What a step does to the requests in flight.                             *)

\* What a request is about when it has read its user.
Opened(h) ==
  LET c == call'[h]
  IN /\ UNCHANGED user
     /\ c \in Calls /\ c.user \in Users /\ c.step \in {"read", "issue"}
     /\ c.step = "issue" => c.op \in Purposes /\ user[c.user].status # "absent"
     /\ c.op = "setup" => \A v \in Users : ~Exists(v)
     /\ c.op = "register" => c.next # "none" /\ (c.next = "active" => ~policy.approve)
     /\ c.op \in {"approve", "reject", "disable", "enable"} =>
          user[c.user].status # "absent" /\ ~IsOwner(c.user)
     /\ c.op \in {"disable", "enable"} => user[c.user].status \in {"active", "disabled"}
     /\ c.op = "reset" => user[c.user].verified
     /\ c.op = "invite" => user[c.user].status = "provisioned"
     /\ c.op = "accept" => \E t \in DOMAIN token :
          token[t].live /\ token[t].purpose = "invite" /\ token[t].user = c.user

\* The next step of a request that has several.
Advanced(h) ==
  LET c == call'[h]
  IN /\ c \in Calls /\ c.user = call[h].user /\ c.user \in Users
     /\ c.op = call[h].op \/ c.op = "verify"
     /\ c.op \in Purposes \cup {"verified"}
     /\ c.step \in {"issue", "insert", "marked", "move"}
     /\ c.step \in {"issue", "insert"} => c.op \in Purposes /\ user'[c.user].status # "absent"
     /\ c.step = "insert" => c.seen = LiveTokens(c.user, c.op) /\ UNCHANGED token
     /\ c.step = "move" =>
          /\ UNCHANGED user /\ user[c.user].status = "provisioned"
          /\ c.next \in {"pending_approval", "active"} /\ (c.next = "active" => ~policy.approve)

CallStep(h) == call'[h] = call[h] \/ call'[h] = Idle \/ Opened(h) \/ Advanced(h)

CallsStep == call' \in [Handlers -> Calls] /\ \A h \in Handlers : CallStep(h)

\* A step that leaves the requests alone.
LEMMA CallsKept ==
  ASSUME Shape, UNCHANGED call
  PROVE  CallsStep
BY DEF Shape, TypeOK, CallsStep, CallStep

\* One request takes its step.
LEMMA CallWritten ==
  ASSUME Shape, NEW h \in Handlers, NEW new \in Calls, call' = [call EXCEPT ![h] = new],
         call'[h] = new => CallStep(h)
  PROVE  CallsStep
<1>1. call \in [Handlers -> Calls] BY DEF Shape, TypeOK
<1>2. /\ call' \in [Handlers -> Calls] /\ call'[h] = new
      /\ \A g \in Handlers : g # h => call'[g] = call[g]
  BY <1>1
<1> QED BY <1>2 DEF CallsStep, CallStep

\* A request ends.
LEMMA CallEnds ==
  ASSUME Shape, NEW h \in Handlers, End(h)
  PROVE  CallsStep
<1>1. Idle \in Calls BY AccountsAssumption DEF Idle, Calls, Purposes
<1> QED BY <1>1, CallWritten DEF End, CallStep

\* A commit ends its request, or leaves it with a token to issue or a status to write.
LEMMA CommitCalls ==
  ASSUME Shape, NEW h \in Handlers, Commits(h)
  PROVE  CallsStep
<1>0. call \in [Handlers -> Calls] /\ Good(call[h]) BY DEF Shape, TypeOK, CallsAreGood
<1>1. CASE RegisterCommits(h) /\ call[h].next = "provisioned"
  <2> DEFINE new == [Idle EXCEPT !.op = "verify", !.step = "issue", !.user = call[h].user]
  <2>1. call[h].user \in Users BY <1>0, <1>1 DEF Good, RegisterCommits, At
  <2>2. /\ new \in Calls /\ new.user = call[h].user /\ new.op = "verify" /\ new.step = "issue"
    BY <2>1 DEF Idle, Calls, Purposes
  <2>3. call' = [call EXCEPT ![h] = new] BY <1>1 DEF RegisterCommits
  <2>4. user'[call[h].user].status = "provisioned"
    BY <1>1, <2>1 DEF RegisterCommits, Creates, NoRow, Shape, TypeOK
  <2> HIDE DEF new
  <2> QED BY <2>1, <2>2, <2>3, <2>4, CallWritten DEF CallStep, Advanced, Purposes
<1>2. CASE VerifyMarks(h)
  <2> DEFINE new == [call[h] EXCEPT !.step = "marked"]
  <2>1. call[h].user \in Users /\ call[h].op = "verified" BY <1>0, <1>2 DEF Good, VerifyMarks, At
  <2>2. /\ new \in Calls /\ new.user = call[h].user /\ new.op = "verified" /\ new.step = "marked"
    BY <1>0, <2>1 DEF Calls
  <2>3. call' = [call EXCEPT ![h] = new] BY <1>0, <1>2 DEF VerifyMarks
  <2> HIDE DEF new
  <2> QED BY <2>1, <2>2, <2>3, CallWritten DEF CallStep, Advanced
<1>3. CASE VerifyConsumes(h) /\ user[call[h].user].status = "provisioned"
  <2> DEFINE new == [call[h] EXCEPT !.step = "move", !.next = AfterVerified]
  <2>1. call[h].user \in Users /\ call[h].op = "verified" BY <1>0, <1>3 DEF Good, VerifyConsumes, At
  <2>2. /\ AfterVerified \in {"pending_approval", "active"}
        /\ AfterVerified = "active" => ~policy.approve
    BY DEF AfterVerified
  <2>3. /\ new \in Calls /\ new.user = call[h].user /\ new.op = "verified" /\ new.step = "move"
        /\ new.next = AfterVerified
    BY <1>0, <2>1, <2>2 DEF Calls
  <2>4. call' = [call EXCEPT ![h] = new] /\ UNCHANGED user
    BY <1>0, <1>3 DEF VerifyConsumes
  <2> HIDE DEF new
  <2> QED BY <1>3, <2>1, <2>2, <2>3, <2>4, CallWritten DEF CallStep, Advanced
<1>4. CASE End(h) BY <1>4, CallEnds
<1> QED BY <1>1, <1>2, <1>3, <1>4 DEF Commits, SetupCommits, EmailTaken, Answers, RegisterCommits,
           AcceptCommits, VerifyConsumes, VerifyMoves, ResetCommits, ApproveCommits, RejectCommits,
           AbleCommits

\* The reads that start a request.
LEMMA CallBegins ==
  ASSUME Shape, NEW h \in Handlers, NEW new \in Calls, Begin(h, new), UNCHANGED user,
         call'[h] = new => Opened(h)
  PROVE  CallsStep
BY CallWritten DEF Begin, CallStep

Asked(op, step, u) == [Idle EXCEPT !.op = op, !.step = step, !.user = u]

\* A request begins with what it has read of its user.
LEMMA RequestBegins ==
  ASSUME Shape, NEW h \in Handlers, NEW u \in Users, UNCHANGED user,
         NEW op \in Purposes \cup {"setup", "approve", "reject", "disable", "enable"},
         NEW step \in {"read", "issue"},
         Begin(h, Asked(op, step, u)),
         step = "issue" => op \in Purposes /\ user[u].status # "absent",
         op = "setup" => \A v \in Users : ~Exists(v),
         op \in {"approve", "reject", "disable", "enable"} =>
           user[u].status # "absent" /\ ~IsOwner(u),
         op \in {"disable", "enable"} => user[u].status \in {"active", "disabled"},
         op = "reset" => user[u].verified,
         op = "invite" => user[u].status = "provisioned"
  PROVE  CallsStep
<1> DEFINE new == Asked(op, step, u)
<1>1. new \in Calls /\ new.op = op /\ new.user = u /\ new.step = step
  BY DEF Asked, Idle, Calls, Purposes
<1>2. Begin(h, new) OBVIOUS
<1>3. op \notin {"register", "accept"} BY DEF Purposes
<1> HIDE DEF new
<1> QED BY <1>1, <1>2, <1>3, CallBegins DEF Opened

\* So do those that name a user.
LEMMA RequestCalls ==
  ASSUME Shape, NEW h \in Handlers, NEW u \in Users, Request(h, u)
  PROVE  CallsStep
<1>0. UNCHANGED user BY DEF Request, SetupCounts, ResendInvite, RegisterReads, AskVerification,
     ForgotPassword, ApproveReads, RejectReads, DisableReads, EnableReads
<1>1. CASE SetupCounts(h, u)
  <2>1. Begin(h, Asked("setup", "read", u)) /\ \A v \in Users : ~Exists(v)
    BY <1>1 DEF SetupCounts, Starts, Asked
  <2> QED BY <1>0, <2>1, RequestBegins DEF Purposes
<1>2. CASE ResendInvite(h, u)
  <2>1. Begin(h, Asked("invite", "issue", u)) BY <1>2 DEF ResendInvite, Asks, Asked
  <2>2. user[u].status = "provisioned"
    BY <1>2 DEF ResendInvite
  <2> QED BY <1>0, <2>1, <2>2, RequestBegins DEF Purposes
<1>3. CASE RegisterReads(h, u)
  <2> DEFINE next == IF policy.verify THEN "provisioned" ELSE AfterVerified
             new == [Idle EXCEPT !.op = "register", !.step = "read", !.user = u, !.next = next]
  <2>1. /\ next \in {"provisioned", "pending_approval", "active"}
        /\ next = "active" => ~policy.approve
    BY DEF AfterVerified
  <2>2. Begin(h, new) BY <1>3 DEF RegisterReads
  <2> HIDE DEF next
  <2>3. new \in Calls /\ new.op = "register" /\ new.user = u /\ new.step = "read" /\ new.next = next
    BY <2>1 DEF Idle, Calls
  <2> HIDE DEF new
  <2> QED BY <1>0, <2>1, <2>2, <2>3, CallBegins DEF Opened
<1>4. CASE AskVerification(h, u)
  <2>1. Begin(h, Asked("verify", "issue", u)) /\ user[u].status # "absent"
    BY <1>4 DEF AskVerification, Asks, Asked, Exists
  <2> QED BY <1>0, <2>1, RequestBegins DEF Purposes
<1>5. CASE ForgotPassword(h, u)
  <2>1. Begin(h, Asked("reset", "issue", u)) BY <1>5 DEF ForgotPassword, Asks, Asked
  <2>2. user[u].verified /\ user[u].status # "absent"
    BY <1>5 DEF ForgotPassword, IsActive
  <2> QED BY <1>0, <2>1, <2>2, RequestBegins DEF Purposes
<1>6. user[u].status = "pending_approval" => ~IsOwner(u)
  BY DEF Shape, OwnerStays, IsActive
<1>7. CASE ApproveReads(h, u)
  <2>1. Begin(h, Asked("approve", "read", u)) BY <1>7 DEF ApproveReads, Starts, Asked
  <2>2. user[u].status # "absent" /\ ~IsOwner(u)
    BY <1>6, <1>7 DEF ApproveReads
  <2> QED BY <1>0, <2>1, <2>2, RequestBegins DEF Purposes
<1>8. CASE RejectReads(h, u)
  <2>1. Begin(h, Asked("reject", "read", u)) BY <1>8 DEF RejectReads, Starts, Asked
  <2>2. user[u].status # "absent" /\ ~IsOwner(u)
    BY <1>6, <1>8 DEF RejectReads
  <2> QED BY <1>0, <2>1, <2>2, RequestBegins DEF Purposes
<1>9. CASE DisableReads(h, u)
  <2>1. Begin(h, Asked("disable", "read", u)) BY <1>9 DEF DisableReads, Starts, Asked
  <2>2. user[u].status # "absent" /\ ~IsOwner(u) /\ user[u].status \in {"active", "disabled"}
    BY <1>9 DEF DisableReads, Manageable, IsActive, Exists
  <2> QED BY <1>0, <2>1, <2>2, RequestBegins DEF Purposes
<1>10. CASE EnableReads(h, u)
  <2>1. Begin(h, Asked("enable", "read", u)) BY <1>10 DEF EnableReads, Starts, Asked
  <2>2. user[u].status # "absent" /\ ~IsOwner(u) /\ user[u].status \in {"active", "disabled"}
    BY <1>10 DEF EnableReads, Manageable, Exists
  <2> QED BY <1>0, <2>1, <2>2, RequestBegins DEF Purposes
<1> QED BY <1>1, <1>2, <1>3, <1>4, <1>5, <1>7, <1>8, <1>9, <1>10 DEF Request

\* A request that presents a token is about the user of that token.
LEMMA Presented ==
  ASSUME Shape, NEW h \in Handlers, NEW op \in {"accept", "verified", "reset_password"},
         NEW purpose, Presents(h, op, purpose), UNCHANGED user, op = "accept" => purpose = "invite"
  PROVE  CallsStep
<1>1. PICK t \in DOMAIN token :
        /\ token[t].live /\ token[t].purpose = purpose
        /\ Begin(h, [Idle EXCEPT !.op = op, !.step = "read", !.user = token[t].user, !.token = t])
  BY DEF Presents
<1> DEFINE new == [Idle EXCEPT !.op = op, !.step = "read", !.user = token[t].user, !.token = t]
<1>2. token \in Seq(Tokens) BY DEF Shape, TypeOK, Tokens
<1>a. DOMAIN token = 1 .. Len(token) /\ Len(token) \in Nat BY <1>2, LenProperties
<1>b. t \in 1 .. Len(token) BY <1>1, <1>a
<1>c. token[t] \in Tokens BY <1>2, <1>b, ElementOfSeq
<1>3. t \in Nat /\ token[t].user \in Users
  BY <1>a, <1>b, <1>c DEF Tokens
<1>4. new \in Calls /\ new.op = op /\ new.user = token[t].user /\ new.step = "read"
  BY <1>3 DEF Idle, Calls
<1>5. Begin(h, new) BY <1>1
<1> HIDE DEF new
<1>6. op \notin {"setup", "register", "approve", "reject", "disable", "enable", "reset", "invite"} OBVIOUS
<1> QED BY <1>1, <1>3, <1>4, <1>5, <1>6, CallBegins DEF Opened

\* The three links that arrive by mail.
LEMMA OpenCalls ==
  ASSUME Shape, NEW h \in Handlers, Opens(h)
  PROVE  CallsStep
<1>1. CASE AcceptReads(h) BY <1>1, Presented DEF AcceptReads
<1>2. CASE VerifyReads(h) BY <1>2, Presented DEF VerifyReads
<1>3. CASE ResetReads(h) BY <1>3, Presented DEF ResetReads
<1> QED BY <1>1, <1>2, <1>3 DEF Opens

\* Every step of the system, seen from the requests in flight.
LEMMA CallsOfNext ==
  ASSUME Shape, [Next]_vars
  PROVE  CallsStep
<1>1. ASSUME NEW h \in Handlers, Issues(h) PROVE CallsStep
  <2>1. CASE InvalidateActive(h)
    <3> DEFINE seen == LiveTokens(call[h].user, call[h].op)
               new == [call[h] EXCEPT !.step = "insert", !.seen = seen]
    <3>1. token \in Seq(Tokens) BY DEF Shape, TypeOK, Tokens
    <3>2. seen \subseteq Nat BY <3>1, LenProperties DEF LiveTokens
    <3>3. call \in [Handlers -> Calls] /\ call[h].user \in Users /\ call[h].op \in Purposes
      BY <2>1 DEF InvalidateActive, Shape, TypeOK, CallsAreGood, Good, Purposes
    <3> HIDE DEF seen
    <3>4. /\ new \in Calls /\ new.op = call[h].op /\ new.user = call[h].user
          /\ new.step = "insert" /\ new.seen = seen
      BY <3>2, <3>3 DEF Calls
    <3>5. call' = [call EXCEPT ![h] = new] BY <2>1, <3>3 DEF InvalidateActive, seen
    <3>6. user'[call[h].user].status # "absent" /\ UNCHANGED token
      BY <2>1 DEF InvalidateActive, Shape, CallsAreGood, Good
    <3> HIDE DEF new
    <3> QED BY <3>3, <3>4, <3>5, <3>6, CallWritten DEF CallStep, Advanced, seen
  <2>2. CASE IssueCommits(h) BY <2>2, CallEnds DEF IssueCommits
  <2> QED BY <1>1, <2>1, <2>2 DEF Issues
<1>2. ASSUME NEW h \in Handlers, Dropped(h) PROVE CallsStep
  BY <1>2, CallEnds DEF Dropped, Answers
<1>3. ASSUME NEW u \in Users, AtOnce(u) PROVE CallsStep
  BY <1>3, CallsKept DEF AtOnce, Invite, RegisterViaOauth, SetPassword, HandleLink, Unlink
<1>4. ASSUME NEW t \in DOMAIN token, TokenExpires(t) PROVE CallsStep
  BY <1>4, CallsKept DEF TokenExpires
<1>5. ASSUME NEW p \in Policies, UpdatePolicy(p) PROVE CallsStep
  BY <1>5, CallsKept DEF UpdatePolicy
<1>6. CASE UNCHANGED vars BY <1>6, CallsKept DEF vars
<1> QED BY <1>1, <1>2, <1>3, <1>4, <1>5, <1>6, CommitCalls, RequestCalls, OpenCalls DEF Next

----------------------------------------------------------------------------
(* The invariants.                                                         *)

\* Every user who is there without an invitation can sign in.
HasAWayIn == \A u \in Users : Exists(u) /\ ~user[u].invited => user[u].password \/ user[u].linked

\* Who accepted an invitation has a password, which stops a second time.
AcceptedHasPassword ==
  \A u \in Users : accepts[u] = 1 => user[u].password \/ user[u].status = "deleted"

\* A reset is issued to a verified address; only deletion takes the mark away.
ResetsAreVerified ==
  \A h \in Handlers : call[h].op = "reset" =>
    user[call[h].user].verified \/ user[call[h].user].status = "deleted"

\* Approval, once an administrator's, cannot come from an invitation either:
\* it was sent by one, or it reaches a user whose password stops the accept.
Settled(u) == u \in vouched \/ user[u].password \/ user[u].status = "deleted"

ApprovalInv ==
  strict =>
    /\ policy.approve
    /\ \A u \in Users : user[u].status \in {"active", "disabled"} => u \in vouched
    /\ \A u \in Users : user[u].status = "provisioned" => Settled(u)
    /\ \A h \in Handlers :
         /\ call[h].op = "register" \/ call[h].step = "move" => call[h].next # "active"
         /\ call[h].op \in {"disable", "enable"} => call[h].user \in vouched
         /\ call[h].op \in {"invite", "accept"} => Settled(call[h].user)
    /\ \A t \in DOMAIN token : token[t].live /\ token[t].purpose = "invite" => Settled(token[t].user)

IInv ==
  /\ Shape
  /\ InviteAcceptedOnce /\ AcceptedHasPassword
  /\ HasAWayIn
  /\ ResetsAreVerified /\ ResetNeedsVerified
  /\ ApprovalInv
  /\ OnlyDropsLeaveBehind

\* The installation starts with the invariants.
LEMMA InitIInv == Init => IInv
<1> SUFFICES ASSUME Init PROVE IInv OBVIOUS
<1> USE DEF Init
<1>1. NoRow \in Rows /\ Idle \in Calls
  BY DEF NoRow, Rows, Statuses, Idle, Calls, Purposes
<1>2. token \in Seq([purpose : Purposes, user : Users, live : BOOLEAN]) /\ DOMAIN token = {}
  BY EmptySeq
<1>3. Shape
  BY <1>1, <1>2 DEF Shape, TypeOK, CallsAreGood, Good, Decides, Blank, OwnerStays, Exists, IsOwner,
     NoRow, Idle
<1>4. /\ InviteAcceptedOnce /\ AcceptedHasPassword /\ HasAWayIn
      /\ ResetsAreVerified /\ ResetNeedsVerified
  BY <1>2 DEF InviteAcceptedOnce, AcceptedHasPassword, HasAWayIn, ResetsAreVerified,
     ResetNeedsVerified, Exists, NoRow, Idle
<1>5. ApprovalInv BY <1>2 DEF ApprovalInv, SeededPolicy, NoRow, Idle
<1>6. OnlyDropsLeaveBehind BY DEF OnlyDropsLeaveBehind, LeftBehind, NoRow
<1> QED BY <1>3, <1>4, <1>5, <1>6 DEF IInv

\* What every step keeps of a row.
LEMMA RowFacts ==
  ASSUME Shape, RowsStep, NEW u \in Users
  PROVE  /\ user[u] \in Rows /\ user'[u] \in Rows
         /\ user[u].status # "absent" => user'[u].status # "absent"
         /\ user[u].status = "deleted" => user'[u].status = "deleted"
         /\ user[u].status # "absent" /\ ~IsOwner(u) => ~user'[u].owner
         /\ user[u].verified => user'[u].verified \/ Deleted(u)
         /\ user[u].password => user'[u].password \/ Deleted(u)
<1>1. user[u] \in Rows /\ user'[u] \in Rows BY DEF Shape, TypeOK, RowsStep
<1>2. RowStep(u) BY DEF RowsStep
<1>3. user[u].status \in {"absent", "deleted"} => ~user[u].verified /\ ~user[u].password
  BY DEF Shape, Blank, Exists, NoRow
<1> USE <1>1, <1>3 DEF Rows, Exists, IsOwner
<1>4. CASE user'[u] = user[u] BY <1>4
<1>5. CASE Created(u) BY <1>5 DEF Created
<1>6. CASE Deleted(u) BY <1>6 DEF Deleted, NoRow
<1>7. CASE Moved(u) BY <1>7 DEF Moved
<1>8. CASE Gained(u) BY <1>8 DEF Gained
<1>9. CASE Unlinked(u) BY <1>9 DEF Unlinked
<1>10. CASE Accepted(u) BY <1>10 DEF Accepted
<1> QED BY <1>2, <1>4, <1>5, <1>6, <1>7, <1>8, <1>9, <1>10 DEF RowStep

----------------------------------------------------------------------------
(* The invariants are kept.                                                *)

\* A request, whether it goes on or begins, has what its next step needs.
LEMMA GoodKept ==
  ASSUME Shape, RowsStep, CallsStep, NEW h \in Handlers
  PROVE  Good(call[h])'
<1>0. Good(call[h]) /\ call'[h] \in Calls BY DEF Shape, CallsAreGood, CallsStep
<1>1. CallStep(h) BY DEF CallsStep
<1>2. CASE call'[h] = call[h]
  <2>1. ASSUME Decides(call[h])
        PROVE  user'[call[h].user].status # "absent" /\ ~user'[call[h].user].owner
    <3>1. call[h].user \in Users BY <1>0, <2>1 DEF Good, Decides, Purposes
    <3> QED BY <1>0, <2>1, <3>1, RowFacts DEF Good
  <2>2. ASSUME call[h].step \in {"issue", "insert"} PROVE user'[call[h].user].status # "absent"
    BY <1>0, <2>2, RowFacts DEF Good
  <2> QED BY <1>0, <1>2, <2>1, <2>2 DEF Good, Decides, IsOwner
<1>3. CASE call'[h] = Idle
  BY <1>0, <1>3 DEF Good, Idle, Decides
<1>4. CASE Opened(h)
  BY <1>0, <1>4 DEF Good, Opened, Decides, IsOwner
<1>5. CASE Advanced(h)
  BY <1>0, <1>5 DEF Good, Advanced, Decides, IsOwner, IsActive, Purposes, Shape, OwnerStays
<1> QED BY <1>1, <1>2, <1>3, <1>4, <1>5 DEF CallStep

\* A row that is gone is blank, and an owner is active with a password.
LEMMA RowShape ==
  ASSUME Shape, RowsStep, NEW u \in Users
  PROVE  /\ ~Exists(u)' => user'[u] = [NoRow EXCEPT !.status = user'[u].status]
         /\ user'[u].owner => user'[u].status = "active" /\ user'[u].password
         /\ accepts'[u] \in Nat
<1>1. /\ RowStep(u) /\ user[u] \in Rows /\ user'[u] \in Rows /\ accepts'[u] \in Nat
      /\ IsOwner(u) => user[u].status = "active" /\ user[u].password
      /\ ~Exists(u) => user[u] = [NoRow EXCEPT !.status = user[u].status]
  BY DEF Shape, TypeOK, RowsStep, Blank, OwnerStays, IsActive
<1> USE <1>1 DEF Rows, Exists, IsOwner
<1>4. CASE user'[u] = user[u] BY <1>4
<1>5. CASE Created(u) BY <1>5 DEF Created
<1>6. CASE Deleted(u) BY <1>6 DEF Deleted, NoRow
<1>7. CASE Moved(u) BY <1>7 DEF Moved
<1>8. CASE Gained(u) BY <1>8 DEF Gained
<1>9. CASE Unlinked(u) BY <1>9 DEF Unlinked
<1>10. CASE Accepted(u) BY <1>10 DEF Accepted
<1> QED BY <1>4, <1>5, <1>6, <1>7, <1>8, <1>9, <1>10 DEF RowStep

\* The administrator's policy is one of those on offer.
LEMMA PolicyStep ==
  ASSUME Shape, [Next]_vars
  PROVE  /\ policy' \in Policies \cup {SeededPolicy} /\ strict' \in BOOLEAN
         /\ vouched \subseteq vouched' /\ vouched' \subseteq Users
         /\ strict' /\ (strict => policy.approve) => strict /\ policy'.approve
<1>0. policy \in Policies \cup {SeededPolicy} /\ strict \in BOOLEAN
  BY DEF Shape, TypeOK
<1>1. vouched \subseteq vouched' /\ vouched' \subseteq Users BY RowsOfNext DEF RowsStep
<1>2. CASE UNCHANGED <<policy, strict>>
  <2>1. strict' = strict /\ policy' = policy BY <1>2
  <2>2. policy' \in Policies \cup {SeededPolicy} /\ strict' \in BOOLEAN BY <1>0, <2>1
  <2>3. strict' => strict BY <2>1
  <2>4. policy'.approve <=> policy.approve BY <2>1
  <2> QED BY <1>1, <2>2, <2>3, <2>4
<1>3. ASSUME NEW p \in Policies, UpdatePolicy(p)
      PROVE  /\ policy' \in Policies \cup {SeededPolicy} /\ strict' \in BOOLEAN
             /\ strict' => strict /\ policy'.approve
  <2>1. policy' = p /\ strict' = (strict /\ p.approve) BY <1>3 DEF UpdatePolicy
  <2>2. p.approve \in BOOLEAN BY AccountsAssumption
  <2> QED BY <1>0, <2>1, <2>2
<1>4. ASSUME NEW h \in Handlers, Issues(h) \/ Opens(h) \/ Dropped(h) PROVE UNCHANGED <<policy, strict>>
  BY <1>4 DEF Issues, Opens, Dropped, Answers, InvalidateActive, IssueCommits,
     AcceptReads, VerifyReads, ResetReads
<1>5. ASSUME NEW h \in Handlers, Commits(h) PROVE UNCHANGED <<policy, strict>>
  BY <1>5 DEF Commits, SetupCommits, EmailTaken, Answers, RegisterCommits, AcceptCommits, VerifyMarks,
     VerifyConsumes, VerifyMoves, ResetCommits, ApproveCommits, RejectCommits, AbleCommits
<1>6. ASSUME NEW h \in Handlers, NEW u \in Users, Request(h, u) PROVE UNCHANGED <<policy, strict>>
  BY <1>6 DEF Request, SetupCounts, ResendInvite, RegisterReads, AskVerification,
     ForgotPassword, ApproveReads, RejectReads, DisableReads, EnableReads
<1>7. ASSUME NEW u \in Users, AtOnce(u) PROVE UNCHANGED <<policy, strict>>
  BY <1>7 DEF AtOnce, Invite, RegisterViaOauth, SetPassword, HandleLink, Unlink
<1>8. ASSUME NEW t \in DOMAIN token, TokenExpires(t) PROVE UNCHANGED <<policy, strict>>
  BY <1>8 DEF TokenExpires
<1>9. CASE UNCHANGED vars BY <1>9, <1>2 DEF vars
<1> QED BY <1>1, <1>2, <1>3, <1>4, <1>5, <1>6, <1>7, <1>8, <1>9 DEF Next

\* A verification of u has set the mark and has the token or the status to write.
Attended(u) == \E h \in Handlers : Verifying(h) /\ call[h].user = u

\* What drops a verification names its user.
LEMMA HaltedStep ==
  ASSUME Shape, [Next]_vars
  PROVE  halted \subseteq halted' /\ halted' \subseteq Users
<1>0. halted \subseteq Users BY DEF Shape, TypeOK
<1>1. ASSUME NEW h \in Handlers, Dropped(h)
      PROVE  halted \subseteq halted' /\ halted' \subseteq Users
  BY <1>0, <1>1 DEF Dropped, Verifying, Shape, CallsAreGood, Good
<1>2. ASSUME NEW h \in Handlers, Issues(h) \/ Opens(h) PROVE UNCHANGED halted
  BY <1>2 DEF Issues, Opens, InvalidateActive, IssueCommits, AcceptReads, VerifyReads, ResetReads
<1>3. ASSUME NEW h \in Handlers, Commits(h) PROVE UNCHANGED halted
  BY <1>3 DEF Commits, SetupCommits, EmailTaken, Answers, RegisterCommits, AcceptCommits, VerifyMarks,
     VerifyConsumes, VerifyMoves, ResetCommits, ApproveCommits, RejectCommits, AbleCommits
<1>4. ASSUME NEW h \in Handlers, NEW u \in Users, Request(h, u) PROVE UNCHANGED halted
  BY <1>4 DEF Request, SetupCounts, ResendInvite, RegisterReads, AskVerification,
     ForgotPassword, ApproveReads, RejectReads, DisableReads, EnableReads
<1>5. ASSUME NEW u \in Users, AtOnce(u) PROVE UNCHANGED halted
  BY <1>5 DEF AtOnce, Invite, RegisterViaOauth, SetPassword, HandleLink, Unlink
<1>6. ASSUME NEW t \in DOMAIN token, TokenExpires(t) PROVE UNCHANGED halted
  BY <1>6 DEF TokenExpires
<1>7. ASSUME NEW p \in Policies, UpdatePolicy(p) PROVE UNCHANGED halted
  BY <1>7 DEF UpdatePolicy
<1> QED BY <1>0, <1>1, <1>2, <1>3, <1>4, <1>5, <1>6, <1>7 DEF Next, vars

\* A verification past the mark goes on, is dropped, or ends with its user moved on.
LEMMA VerifyingStep ==
  ASSUME Shape, [Next]_vars, NEW h \in Handlers, Verifying(h)
  PROVE  \/ Verifying(h)' /\ call'[h].user = call[h].user
         \/ call[h].user \in halted'
         \/ user'[call[h].user].status # "provisioned"
<1> DEFINE Goal == \/ Verifying(h)' /\ call'[h].user = call[h].user
                   \/ call[h].user \in halted'
                   \/ user'[call[h].user].status # "provisioned"
<1>0. /\ call \in [Handlers -> Calls] /\ Good(call[h]) /\ user \in [Users -> Rows]
      /\ call[h].op = "verified" /\ call[h].step \in {"marked", "move"}
      /\ call[h].user \in Users /\ call[h] # Idle
  BY DEF Shape, TypeOK, CallsAreGood, Good, Verifying, Idle
<1>1. ASSUME call'[h] = call[h] PROVE Goal BY <1>1 DEF Verifying
<1>2. ASSUME NEW g \in Handlers, g # h, \E new : call' = [call EXCEPT ![g] = new]
      PROVE  call'[h] = call[h]
  BY <1>0, <1>2
<1>3. ASSUME NEW g \in Handlers, Issues(g) \/ Opens(g) PROVE call'[h] = call[h]
  <2>1. g # h
    BY <1>0, <1>3 DEF Issues, InvalidateActive, IssueCommits, Opens, AcceptReads, VerifyReads,
       ResetReads, Presents, Begin
  <2>2. \E new : call' = [call EXCEPT ![g] = new]
    BY <1>0, <1>3 DEF Issues, InvalidateActive, IssueCommits, End, Opens, AcceptReads, VerifyReads,
       ResetReads, Presents, Begin
  <2> QED BY <1>2, <2>1, <2>2
<1>4. ASSUME NEW g \in Handlers, Dropped(g) PROVE Goal
  <2>1. CASE g = h BY <1>0, <1>4, <2>1 DEF Dropped
  <2>2. CASE g # h BY <1>1, <1>2, <1>4, <2>2 DEF Dropped, End
  <2> QED BY <2>1, <2>2
<1>5. ASSUME NEW g \in Handlers, Commits(g) PROVE Goal
  <2>1. ASSUME g # h PROVE Goal
    <3>1. \E new : call' = [call EXCEPT ![g] = new]
      <4>0. call \in [Handlers -> Calls] BY <1>0
      <4>1. CASE VerifyMarks(g) BY <4>0, <4>1 DEF VerifyMarks
      <4>2. CASE VerifyConsumes(g) BY <4>0, <4>2 DEF VerifyConsumes, End
      <4>3. CASE RegisterCommits(g) BY <4>0, <4>3 DEF RegisterCommits, End
      <4> QED BY <1>5, <4>1, <4>2, <4>3 DEF Commits, SetupCommits, EmailTaken, Answers, End,
                AcceptCommits, VerifyMoves, ResetCommits, ApproveCommits, RejectCommits, AbleCommits
    <3> QED BY <1>1, <1>2, <2>1, <3>1
  <2>2. ASSUME g = h PROVE Goal
    <3>1. VerifyConsumes(h) \/ VerifyMoves(h)
      BY <1>0, <1>5, <2>2 DEF Commits, SetupCommits, EmailTaken, RegisterCommits, AcceptCommits,
         VerifyMarks, ResetCommits, ApproveCommits, RejectCommits, AbleCommits, At
    <3>2. CASE VerifyConsumes(h)
      <4>1. CASE user[call[h].user].status = "provisioned"
        BY <1>0, <3>2, <4>1 DEF VerifyConsumes, Verifying, Calls
      <4>2. CASE user[call[h].user].status # "provisioned"
        BY <3>2, <4>2 DEF VerifyConsumes
      <4> QED BY <4>1, <4>2
    <3>3. CASE VerifyMoves(h)
      <4>1. call[h].next \in {"pending_approval", "active"} BY <1>0, <3>3 DEF Good, VerifyMoves, At
      <4>2. CASE Exists(call[h].user) BY <1>0, <3>3, <4>1, <4>2 DEF VerifyMoves, Sets, Rows
      <4>3. CASE ~Exists(call[h].user) BY <3>3, <4>3 DEF VerifyMoves, Exists
      <4> QED BY <4>2, <4>3
    <3> QED BY <3>1, <3>2, <3>3
  <2> QED BY <2>1, <2>2
<1>6. ASSUME NEW g \in Handlers, NEW u \in Users, Request(g, u) PROVE call'[h] = call[h]
  <2>1. \E new : Begin(g, new)
    BY <1>6 DEF Request, SetupCounts, ResendInvite, RegisterReads, AskVerification, ForgotPassword,
       ApproveReads, RejectReads, DisableReads, EnableReads, Starts, Asks
  <2> QED BY <1>0, <2>1 DEF Begin
<1>7. ASSUME NEW u \in Users, AtOnce(u) PROVE call'[h] = call[h]
  BY <1>7 DEF AtOnce, Invite, RegisterViaOauth, SetPassword, HandleLink, Unlink
<1>8. ASSUME NEW t \in DOMAIN token, TokenExpires(t) PROVE call'[h] = call[h]
  BY <1>8 DEF TokenExpires
<1>9. ASSUME NEW p \in Policies, UpdatePolicy(p) PROVE call'[h] = call[h]
  BY <1>9 DEF UpdatePolicy
<1>10. ASSUME UNCHANGED vars PROVE Goal BY <1>1, <1>10 DEF vars
<1> HIDE DEF Goal
<1>11. Goal BY <1>1, <1>3, <1>4, <1>5, <1>6, <1>7, <1>8, <1>9, <1>10 DEF Next
<1> QED BY <1>11 DEF Goal

\* A registrant becomes verified by a request that goes on to move him on.
LEMMA BehindKept ==
  ASSUME Shape, OnlyDropsLeaveBehind, [Next]_vars
  PROVE  OnlyDropsLeaveBehind'
<1>1. RowsStep /\ halted \subseteq halted' BY RowsOfNext, HaltedStep
<1>2. ASSUME NEW u \in Users, user'[u].verified, user'[u].status = "provisioned"
      PROVE  Attended(u)' \/ u \in halted'
  <2>1. RowStep(u) /\ user[u] \in Rows BY <1>1 DEF RowsStep, Shape, TypeOK
  <2>2. ASSUME user[u].verified, user[u].status = "provisioned"
        PROVE  Attended(u)' \/ u \in halted'
    <3>1. CASE u \in halted BY <1>1, <3>1
    <3>2. CASE u \notin halted
      <4>1. PICK h \in Handlers : Verifying(h) /\ call[h].user = u
        BY <2>2, <3>2 DEF OnlyDropsLeaveBehind, LeftBehind
      <4> QED BY <1>2, <4>1, VerifyingStep DEF Attended
    <3> QED BY <3>1, <3>2
  <2> USE <2>1 DEF Rows
  <2>3. CASE user'[u] = user[u] BY <1>2, <2>2, <2>3
  <2>4. CASE Created(u) BY <1>2, <2>4 DEF Created
  <2>5. CASE Deleted(u) BY <1>2, <2>5 DEF Deleted, NoRow
  <2>6. CASE Moved(u) BY <1>2, <2>6 DEF Moved
  <2>7. CASE Gained(u) BY <1>2, <2>2, <2>7 DEF Gained, Attended
  <2>8. CASE Unlinked(u) BY <1>2, <2>2, <2>8 DEF Unlinked
  <2>9. CASE Accepted(u) BY <1>2, <2>9 DEF Accepted
  <2> QED BY <2>3, <2>4, <2>5, <2>6, <2>7, <2>8, <2>9 DEF RowStep
<1> QED BY <1>2 DEF OnlyDropsLeaveBehind, LeftBehind, Attended

\* Types, requests in flight, blank rows and the owner together.
LEMMA ShapeKept ==
  ASSUME Shape, [Next]_vars
  PROVE  Shape'
<1>1. RowsStep /\ TokensStep /\ CallsStep BY RowsOfNext, TokensOfNext, CallsOfNext
<1>2. TypeOK'
  BY <1>1, PolicyStep, HaltedStep DEF TypeOK, RowsStep, TokensStep, CallsStep, Tokens
<1>3. CallsAreGood' BY <1>1, GoodKept DEF CallsAreGood
<1>4. Blank' /\ OwnerStays' BY <1>1, RowShape DEF Blank, OwnerStays, IsOwner, IsActive
<1> QED BY <1>2, <1>3, <1>4 DEF Shape

\* An accept finds no password, and so no earlier accept.
LEMMA AcceptsKept ==
  ASSUME IInv, [Next]_vars
  PROVE  InviteAcceptedOnce' /\ AcceptedHasPassword'
<1>1. Shape /\ RowsStep BY RowsOfNext DEF IInv
<1>2. ASSUME NEW u \in Users
      PROVE  accepts'[u] <= 1 /\ (accepts'[u] = 1 => user'[u].password \/ user'[u].status = "deleted")
  <2>1. /\ RowStep(u) /\ accepts[u] \in Nat /\ accepts[u] <= 1 /\ user[u] \in Rows
        /\ accepts[u] = 1 => user[u].password \/ user[u].status = "deleted"
    BY <1>1 DEF RowsStep, IInv, InviteAcceptedOnce, AcceptedHasPassword, Shape, TypeOK
  <2>2. CASE accepts'[u] = accepts[u]
    <3>1. Deleted(u) => user'[u].status = "deleted" BY DEF Deleted, NoRow
    <3> QED BY <1>1, <2>1, <2>2, <3>1, RowFacts
  <2>3. CASE Accepted(u) /\ accepts'[u] = accepts[u] + 1
    BY <2>1, <2>3 DEF Accepted, Exists, Rows
  <2> QED BY <2>1, <2>2, <2>3 DEF RowStep
<1> QED BY <1>2 DEF InviteAcceptedOnce, AcceptedHasPassword

\* No write takes the last way in away.
LEMMA WaysKept ==
  ASSUME IInv, [Next]_vars
  PROVE  HasAWayIn'
<1>1. Shape /\ RowsStep BY RowsOfNext DEF IInv
<1>2. ASSUME NEW u \in Users, user'[u].status \notin {"absent", "deleted"}
      PROVE  user'[u].invited \/ user'[u].password \/ user'[u].linked
  <2>1. /\ RowStep(u) /\ user[u] \in Rows /\ user'[u] \in Rows
        /\ Exists(u) => user[u].invited \/ user[u].password \/ user[u].linked
    BY <1>1 DEF RowsStep, IInv, HasAWayIn, Shape, TypeOK
  <2> USE <2>1 DEF Rows, Exists
  <2>4. CASE user'[u] = user[u] BY <1>2, <2>4
  <2>5. CASE Created(u) BY <2>5 DEF Created
  <2>6. CASE Deleted(u) BY <1>2, <2>6 DEF Deleted, NoRow
  <2>7. CASE Moved(u) BY <2>7 DEF Moved
  <2>8. CASE Gained(u) BY <2>8 DEF Gained
  <2>9. CASE Unlinked(u) BY <2>9 DEF Unlinked
  <2>10. CASE Accepted(u) BY <2>10 DEF Accepted
  <2> QED BY <2>4, <2>5, <2>6, <2>7, <2>8, <2>9, <2>10 DEF RowStep
<1> QED BY <1>2 DEF HasAWayIn, Exists

\* Every token has its user.
LEMMA TokenHasUser ==
  ASSUME TokensStep, NEW t, t \in DOMAIN token'
  PROVE  token'[t].user \in Users
<1>1. token' \in Seq(Tokens) BY DEF TokensStep
<1>2. DOMAIN token' = 1 .. Len(token') BY <1>1, LenProperties
<1>3. t \in 1 .. Len(token') BY <1>2
<1>4. token'[t] \in Tokens BY <1>1, <1>3, ElementOfSeq
<1> QED BY <1>4 DEF Tokens

\* A reset token comes from a request that saw a verified address.
LEMMA ResetsKept ==
  ASSUME IInv, [Next]_vars
  PROVE  ResetsAreVerified' /\ ResetNeedsVerified'
<1>1. Shape /\ RowsStep /\ TokensStep /\ CallsStep
  BY RowsOfNext, TokensOfNext, CallsOfNext DEF IInv
<1>2. \A u \in Users : Deleted(u) => user'[u].status = "deleted" BY DEF Deleted, NoRow
<1>3. ASSUME NEW h \in Handlers, call'[h].op = "reset"
      PROVE  user'[call'[h].user].verified \/ user'[call'[h].user].status = "deleted"
  <2>1. CallStep(h) /\ Good(call[h]) BY <1>1 DEF CallsStep, Shape, CallsAreGood
  <2>2. CASE call[h].op = "reset" /\ call'[h].user = call[h].user
    <3>1. call[h].user \in Users BY <2>1, <2>2 DEF Good
    <3>2. user[call[h].user].verified \/ user[call[h].user].status = "deleted"
      BY <2>2 DEF IInv, ResetsAreVerified
    <3> QED BY <1>1, <1>2, <2>2, <3>1, <3>2, RowFacts
  <2>3. CASE call'[h] = Idle BY <1>3, <2>3 DEF Idle
  <2>4. CASE Opened(h) BY <1>3, <2>4 DEF Opened
  <2>5. CASE Advanced(h) /\ ~(call[h].op = "reset") BY <1>3, <2>5 DEF Advanced
  <2>6. Advanced(h) => call'[h].user = call[h].user BY DEF Advanced
  <2> QED BY <1>3, <2>1, <2>2, <2>3, <2>4, <2>5, <2>6 DEF CallStep
<1>4. ASSUME NEW t \in DOMAIN token', token'[t].live, token'[t].purpose = "reset"
      PROVE  user'[token'[t].user].verified
  <2> DEFINE u == token'[t].user
  <2>1. u \in Users BY <1>1, TokenHasUser
  <2>2. Carried(t) \/ Issued(t) \/ Invited(t) BY <1>1, <1>4 DEF TokensStep
  <2>3. CASE Carried(t)
    <3>1. user[u].verified BY <1>4, <2>3 DEF Carried, IInv, ResetNeedsVerified
    <3>2. ~Deleted(u) BY <1>4 DEF Deleted
    <3> QED BY <1>1, <2>1, <3>1, <3>2, RowFacts
  <2>4. CASE Issued(t)
    BY <1>4, <2>4 DEF Issued, IInv, ResetsAreVerified, Exists
  <2>5. CASE Invited(t) BY <1>4, <2>5 DEF Invited
  <2> QED BY <2>2, <2>3, <2>4, <2>5
<1> QED BY <1>3, <1>4 DEF ResetsAreVerified, ResetNeedsVerified

\* Approval: by cases over what the step did to a row, a request and a token.
LEMMA ApprovalKept ==
  ASSUME IInv, [Next]_vars
  PROVE  ApprovalInv'
<1> SUFFICES ASSUME strict' PROVE ApprovalInv' BY DEF ApprovalInv
<1>1. Shape /\ RowsStep /\ TokensStep /\ CallsStep
  BY RowsOfNext, TokensOfNext, CallsOfNext DEF IInv
<1>2. /\ strict /\ policy'.approve
      /\ vouched \subseteq vouched' /\ vouched' \subseteq Users
  BY <1>1, PolicyStep DEF IInv, ApprovalInv
<1>3. /\ policy.approve
      /\ \A u \in Users : user[u].status \in {"active", "disabled"} => u \in vouched
      /\ \A u \in Users : user[u].status = "provisioned" => Settled(u)
      /\ \A h \in Handlers :
           /\ call[h].op = "register" \/ call[h].step = "move" => call[h].next # "active"
           /\ call[h].op \in {"disable", "enable"} => call[h].user \in vouched
           /\ call[h].op \in {"invite", "accept"} => Settled(call[h].user)
      /\ \A t \in DOMAIN token :
           token[t].live /\ token[t].purpose = "invite" => Settled(token[t].user)
  BY <1>2 DEF IInv, ApprovalInv
<1> DEFINE Settles(u) == u \in vouched' \/ user'[u].password \/ user'[u].status = "deleted"
<1>4. ASSUME NEW u \in Users, Settled(u) PROVE Settles(u)
  <2>1. Deleted(u) => user'[u].status = "deleted" BY DEF Deleted, NoRow
  <2> QED BY <1>1, <1>2, <1>4, <2>1, RowFacts DEF Settled
<1>5. ~Unapproved BY <1>3 DEF Unapproved
<1>6. \A u \in Users : Cleared(u) => u \in vouched' BY <1>2, <1>3, <1>5 DEF Cleared
<1>7. ASSUME NEW u \in Users
      PROVE  /\ user'[u].status \in {"active", "disabled"} => u \in vouched'
             /\ user'[u].status = "provisioned" => u \in vouched' \/ user'[u].password
  <2>1. RowStep(u) /\ user[u] \in Rows /\ user'[u] \in Rows
    BY <1>1 DEF RowsStep, Shape, TypeOK
  <2>2. /\ user[u].status \in {"active", "disabled"} => u \in vouched'
        /\ user[u].status = "provisioned" => u \in vouched' \/ user[u].password
    BY <1>2, <1>3 DEF Settled
  <2> USE <1>6, <2>1, <2>2 DEF Rows
  <2>3. CASE user'[u] = user[u] BY <2>3
  <2>4. CASE Created(u) BY <2>4 DEF Created
  <2>5. CASE Deleted(u) BY <2>5 DEF Deleted, NoRow
  <2>6. CASE Moved(u) BY <2>6 DEF Moved
  <2>7. CASE Gained(u) BY <2>7 DEF Gained
  <2>8. CASE Unlinked(u) BY <2>8 DEF Unlinked
  <2>9. CASE Accepted(u)
    <3>1. Settled(u) BY <1>3, <2>9 DEF Accepted
    <3>2. u \in vouched' BY <1>2, <2>9, <3>1 DEF Accepted, Settled, Exists
    <3> QED BY <2>9, <3>2 DEF Accepted
  <2> QED BY <2>3, <2>4, <2>5, <2>6, <2>7, <2>8, <2>9 DEF RowStep
<1>8. ASSUME NEW h \in Handlers
      PROVE  /\ call'[h].op = "register" \/ call'[h].step = "move" => call'[h].next # "active"
             /\ call'[h].op \in {"disable", "enable"} => call'[h].user \in vouched'
             /\ call'[h].op \in {"invite", "accept"} => Settles(call'[h].user)
  <2>1. CallStep(h) /\ Good(call[h]) BY <1>1 DEF CallsStep, Shape, CallsAreGood
  <2>2. /\ call[h].op = "register" \/ call[h].step = "move" => call[h].next # "active"
        /\ call[h].op \in {"disable", "enable"} => call[h].user \in vouched'
        /\ call[h].op \in {"invite", "accept"} => Settles(call[h].user)
    <3>1. call[h].op \in {"invite", "accept"} => call[h].user \in Users BY <2>1 DEF Good
    <3> QED BY <1>2, <1>3, <1>4, <3>1
  <2>3. CASE call'[h] = call[h] BY <2>2, <2>3 DEF Settled
  <2>4. CASE call'[h] = Idle BY <2>4 DEF Idle
  <2>5. CASE Opened(h)
    <3>1. call'[h].op = "invite" => Settled(call'[h].user) BY <1>3, <2>5 DEF Opened
    <3>2. call'[h].op = "accept" => Settled(call'[h].user) BY <1>3, <2>5 DEF Opened
    <3>3. call'[h].op \in {"disable", "enable"} => call'[h].user \in vouched'
      BY <1>2, <1>3, <2>5 DEF Opened
    <3>4. call'[h].op = "register" \/ call'[h].step = "move" => call'[h].next # "active"
      BY <1>3, <2>5 DEF Opened
    <3>5. call'[h].user \in Users BY <2>5 DEF Opened
    <3>6. Settled(call'[h].user) => Settles(call'[h].user) BY <1>4, <3>5 DEF Settled
    <3> QED BY <3>1, <3>2, <3>3, <3>4, <3>6
  <2>6. CASE Advanced(h)
    <3>1. call'[h].op \notin {"register", "disable", "enable", "accept"}
      BY <2>6 DEF Advanced, Purposes
    <3>2. call'[h].step = "move" => call'[h].next # "active" BY <1>3, <2>6 DEF Advanced
    <3>3. call'[h].op = "invite" => call[h].op = "invite" /\ call'[h].user = call[h].user
      BY <2>6 DEF Advanced
    <3>4. call'[h].op = "invite" => Settles(call'[h].user) BY <2>2, <3>3 DEF Settled
    <3> QED BY <3>1, <3>2, <3>4
  <2> QED BY <2>1, <2>3, <2>4, <2>5, <2>6 DEF CallStep
<1>9. ASSUME NEW t \in DOMAIN token', token'[t].live, token'[t].purpose = "invite"
      PROVE  Settles(token'[t].user)
  <2>1. token'[t].user \in Users BY <1>1, TokenHasUser
  <2>2. CASE Carried(t)
    <3>1. Settled(token'[t].user) BY <1>3, <1>9, <2>2 DEF Carried
    <3> QED BY <1>4, <2>1, <3>1 DEF Settled
  <2>3. CASE Issued(t)
    <3>1. Settled(token'[t].user) BY <1>3, <1>9, <2>3 DEF Issued
    <3> QED BY <1>4, <2>1, <3>1 DEF Settled
  <2>4. CASE Invited(t) BY <2>4 DEF Invited, Settled
  <2> QED BY <1>1, <1>9, <2>2, <2>3, <2>4 DEF TokensStep
<1> QED BY <1>2, <1>7, <1>8, <1>9 DEF ApprovalInv, Settled

\* The six parts are kept together: each rests on the shape.
LEMMA NextIInv == IInv /\ [Next]_vars => IInv'
BY ShapeKept, AcceptsKept, WaysKept, ResetsKept, ApprovalKept, BehindKept DEF IInv

\* The inductive invariant.
LEMMA AlwaysIInv == Spec => []IInv
BY InitIInv, NextIInv, PTL DEF Spec

----------------------------------------------------------------------------
(* Theorems.                                                               *)

\* The tables and the requests keep their types, through every statement of
\* routes/setup.rs, invite.rs, register.rs, verify_email.rs, users.rs and
\* password_reset.rs.
THEOREM TypeCorrect == Spec => []TypeOK
<1>1. IInv => TypeOK BY DEF IInv, Shape
<1> QED BY <1>1, AlwaysIInv, PTL

\* The owner keeps an active account with a password: guard_not_owner_not_self
\* is asked when the row is read, and nobody becomes the owner afterwards.
THEOREM OwnersStay == Spec => []OwnerStays
<1>1. IInv => OwnerStays BY DEF IInv, Shape
<1> QED BY <1>1, AlwaysIInv, PTL

\* An invitation is accepted once, whatever number of its links is live: the
\* primary key of user_credentials stops the second accept_invite.
THEOREM InvitationsAcceptedOnce == Spec => []InviteAcceptedOnce
<1>1. IInv => InviteAcceptedOnce BY DEF IInv
<1> QED BY <1>1, AlwaysIInv, PTL

\* A live reset link belongs to a verified address: forgot_password asks for
\* the mark, no write takes it away, and a deleted user gets no token.
THEOREM ResetsNeedVerified == Spec => []ResetNeedsVerified
<1>1. IInv => ResetNeedsVerified BY DEF IInv
<1> QED BY <1>1, AlwaysIInv, PTL

\* While approval has been required nobody was active whom no administrator
\* approved or invited, although verify_email and the member administration
\* write a status they decided on earlier.
THEOREM ApprovalsAreNotSkipped == Spec => []ApprovalIsNotSkipped
<1>1. IInv => ApprovalIsNotSkipped BY DEF IInv, ApprovalInv, ApprovalIsNotSkipped
<1> QED BY <1>1, AlwaysIInv, PTL

\* Of the statements of verify_email only a request dropped between them leaves
\* a registrant verified and provisioned.
THEOREM DropsAloneLeaveBehind == Spec => []OnlyDropsLeaveBehind
<1>1. IInv => OnlyDropsLeaveBehind BY DEF IInv
<1> QED BY <1>1, AlwaysIInv, PTL

\* So while none is, every verified registrant is on his way.
COROLLARY UndroppedMoveOn == Spec => [](halted = {} => VerifiedMovesOn)
<1>1. OnlyDropsLeaveBehind => (halted = {} => VerifiedMovesOn)
  BY DEF OnlyDropsLeaveBehind, VerifiedMovesOn
<1> QED BY <1>1, DropsAloneLeaveBehind, PTL

\* Whoever may act without an invitation can sign in again: unlinking an
\* identity asks for the password, which is never taken away.
THEOREM WaysInAreKept == Spec => []KeepsAWayIn
<1>1. IInv => KeepsAWayIn BY DEF IInv, HasAWayIn, KeepsAWayIn, Principal, Exists
<1> QED BY <1>1, AlwaysIInv, PTL

----------------------------------------------------------------------------
(* When a setup races with no other setup.                                 *)

OneSetup == \A g, h \in Handlers : call[g].op = "setup" /\ call[h].op = "setup" => g = h

\* A setup under way found no user, and so no owner.
OwnerInv ==
  /\ AtMostOneOwner
  /\ \A h \in Handlers : call[h].op = "setup" => \A u \in Users : ~IsOwner(u)

\* Only the commit of a setup makes an owner.
LEMMA OwnersAreSetUp ==
  ASSUME Shape, [Next]_vars, NEW u \in Users, user'[u].owner, ~user[u].owner
  PROVE  \E h \in Handlers : SetupCommits(h) /\ call[h].user = u
<1>1. RowStep(u) /\ user[u] \in Rows BY RowsOfNext DEF RowsStep, Shape, TypeOK
<1> USE <1>1 DEF Rows
<1>2. CASE Created(u) BY <1>2 DEF Created
<1>3. CASE Deleted(u) BY <1>3 DEF Deleted, NoRow
<1>4. CASE Moved(u) BY <1>4 DEF Moved
<1>5. CASE Gained(u) BY <1>5 DEF Gained
<1>6. CASE Unlinked(u) BY <1>6 DEF Unlinked
<1>7. CASE Accepted(u) BY <1>7 DEF Accepted
<1> QED BY <1>2, <1>3, <1>4, <1>5, <1>6, <1>7 DEF RowStep

\* A setup that goes on was under way, or has just counted no user.
LEMMA SetupsUnderWay ==
  ASSUME Shape, [Next]_vars, NEW h \in Handlers, call'[h].op = "setup"
  PROVE  call'[h] = call[h] \/ (UNCHANGED user /\ \A u \in Users : ~Exists(u))
<1>1. CallStep(h) BY CallsOfNext DEF CallsStep
<1> QED BY <1>1 DEF CallStep, Opened, Advanced, Idle, Purposes

\* The commit of the one setup ends it, and finds no owner before it.
LEMMA OwnerStep ==
  ASSUME Shape, OneSetup, OwnerInv, [Next]_vars
  PROVE  OwnerInv'
<1>0. call \in [Handlers -> Calls] /\ \A u \in Users : IsOwner(u) => Exists(u)
  BY DEF Shape, TypeOK, OwnerStays, IsActive, Exists
<1>1. CASE \E h \in Handlers, u \in Users : SetupCommits(h) /\ call[h].user = u
  <2>1. PICK h \in Handlers, u \in Users : SetupCommits(h) /\ call[h].user = u BY <1>1
  <2>2. call[h].op = "setup" /\ call' = [call EXCEPT ![h] = Idle] BY <2>1 DEF SetupCommits, At, End
  <2>3. \A v \in Users : ~IsOwner(v) BY <2>2 DEF OwnerInv
  <2>4. \A v \in Users : v # u => user'[v] = user[v]
    BY <2>1 DEF SetupCommits, Creates, Shape, TypeOK
  <2>5. AtMostOneOwner' BY <2>3, <2>4 DEF AtMostOneOwner, IsOwner
  <2>6. \A g \in Handlers : call'[g].op # "setup"
    BY <1>0, <2>2 DEF OneSetup, Idle
  <2> QED BY <2>5, <2>6 DEF OwnerInv
<1>2. CASE ~\E h \in Handlers, u \in Users : SetupCommits(h) /\ call[h].user = u
  <2>1. \A u \in Users : user'[u].owner => user[u].owner BY <1>2, OwnersAreSetUp
  <2>2. AtMostOneOwner' BY <2>1 DEF OwnerInv, AtMostOneOwner, IsOwner
  <2>3. ASSUME NEW h \in Handlers, call'[h].op = "setup", NEW u \in Users
        PROVE  ~user'[u].owner
    BY <1>0, <2>1, <2>3, SetupsUnderWay DEF OwnerInv, IsOwner
  <2> QED BY <2>2, <2>3 DEF OwnerInv, IsOwner
<1> QED BY <1>1, <1>2

\* register_owner counts the users outside its transaction, which closes no
\* race; but one setup at a time makes one owner, whatever else goes on.
THEOREM OneSetupOneOwner == Spec /\ []OneSetup => []AtMostOneOwner
<1>1. Init => OwnerInv BY DEF Init, OwnerInv, AtMostOneOwner, IsOwner, NoRow, Idle
<1>2. IInv => Shape BY DEF IInv
<1>3. OwnerInv => AtMostOneOwner BY DEF OwnerInv
<1> QED BY <1>1, <1>2, <1>3, OwnerStep, AlwaysIInv, PTL DEF Spec

----------------------------------------------------------------------------
(* When the tokens of a user are issued one at a time.                     *)

IssuesTo(h, u, purpose) ==
  call[h].step \in {"issue", "insert"} /\ call[h].user = u /\ call[h].op = purpose

OneIssue ==
  \A g, h \in Handlers, u \in Users, purpose \in Purposes :
    IssuesTo(g, u, purpose) /\ IssuesTo(h, u, purpose) => g = h

\* An insertion is about to follow the consumption of every token it replaces.
TokenInv ==
  /\ OneActiveToken
  /\ \A t \in DOMAIN token : token[t].live => user[token[t].user].status # "absent"
  /\ \A h \in Handlers : call[h].step = "insert" =>
       LiveTokens(call[h].user, call[h].op) \subseteq call[h].seen

\* A live token of a user and purpose was one before, or is the new one.
LEMMA TokensCarried ==
  ASSUME Shape, TokenInv, [Next]_vars, NEW u \in Users, NEW purpose,
         NEW t \in LiveTokens(u, purpose)'
  PROVE  /\ t \in DOMAIN token' /\ token'[t].live
         /\ token'[t].user = u /\ token'[t].purpose = purpose
         /\ t \in LiveTokens(u, purpose) \/ Issued(t) \/ Invited(t)
         /\ t \in LiveTokens(u, purpose) => user[u].status # "absent"
<1>1. TokensStep BY TokensOfNext
<1>2. /\ t \in DOMAIN token' /\ token'[t].live
      /\ token'[t].user = u /\ token'[t].purpose = purpose
  BY DEF LiveTokens
<1>3. t \in LiveTokens(u, purpose) => user[u].status # "absent" BY DEF LiveTokens, TokenInv
<1>4. Carried(t) => t \in LiveTokens(u, purpose) BY <1>2 DEF Carried, LiveTokens
<1> QED BY <1>1, <1>2, <1>3, <1>4 DEF TokensStep

\* What is issued or sent with an invitation leaves no other live.
LEMMA NewTokenAlone ==
  ASSUME Shape, TokenInv, [Next]_vars, NEW u \in Users, NEW purpose,
         NEW s \in LiveTokens(u, purpose)', NEW t \in LiveTokens(u, purpose)',
         Issued(t) \/ Invited(t)
  PROVE  s = t
<1>1. CASE Issued(s) \/ Invited(s) BY <1>1 DEF Issued, Invited
<1>2. ASSUME s \in LiveTokens(u, purpose), s # t PROVE FALSE
  <2>1. /\ s \in DOMAIN token' /\ token'[s].live /\ user[u].status # "absent"
        /\ token'[t].user = u /\ token'[t].purpose = purpose
    BY <1>2, TokensCarried
  <2>2. CASE Issued(t)
    <3>1. PICK h \in Handlers :
            /\ call[h].step = "insert" /\ call[h].op = purpose /\ call[h].user = u
            /\ \A r \in DOMAIN token' : r \in call[h].seen /\ r # t => ~token'[r].live
      BY <2>1, <2>2 DEF Issued
    <3>2. s \in call[h].seen BY <1>2, <3>1 DEF TokenInv
    <3> QED BY <1>2, <2>1, <3>1, <3>2
  <2>3. CASE Invited(t) BY <2>1, <2>3 DEF Invited
  <2> QED BY <2>2, <2>3
<1> QED BY <1>1, <1>2, TokensCarried

\* What an insertion has seen stays all there is while no other issue is under way.
LEMMA SeenKept ==
  ASSUME Shape, TokenInv, OneIssue, [Next]_vars, NEW h \in Handlers, call'[h].step = "insert"
  PROVE  LiveTokens(call[h].user, call[h].op)' \subseteq call'[h].seen
<1>0. call \in [Handlers -> Calls] /\ Good(call[h]) /\ CallStep(h)
  BY CallsOfNext DEF Shape, TypeOK, CallsAreGood, CallsStep
<1>1. CASE call'[h] = call[h]
  <2> DEFINE u == call[h].user
             purpose == call[h].op
  <2>1. u \in Users /\ purpose \in Purposes /\ user[u].status # "absent"
    BY <1>0, <1>1 DEF Good
  <2>2. LiveTokens(u, purpose) \subseteq call[h].seen BY <1>1 DEF TokenInv
  <2>3. ASSUME NEW t \in LiveTokens(call[h].user, call[h].op)' PROVE t \in call[h].seen
    <3>1. t \in DOMAIN token' /\ token'[t].user = u /\ token'[t].purpose = purpose
      BY <1>1, <2>3 DEF LiveTokens
    <3>2. CASE Issued(t)
      <4>1. PICK g \in Handlers : call[g].step = "insert" /\ End(g)
                                /\ call[g].op = purpose /\ call[g].user = u
        BY <3>1, <3>2 DEF Issued
      <4>2. g = h BY <1>1, <2>1, <4>1 DEF OneIssue, IssuesTo
      <4>3. call'[h].step = "idle" BY <1>0, <4>1, <4>2 DEF End, Idle
      <4> QED BY <4>3
    <3>3. CASE Invited(t) BY <2>1, <3>1, <3>3 DEF Invited
    <3>4. CASE Carried(t) BY <2>2, <3>1, <3>4 DEF Carried, LiveTokens
    <3>5. token'[t].live BY <1>1, <2>3 DEF LiveTokens
    <3> QED BY <3>1, <3>2, <3>3, <3>4, <3>5, TokensOfNext DEF TokensStep
  <2> QED BY <1>1, <2>3
<1>2. CASE Advanced(h)
  <2>1. call'[h].seen = LiveTokens(call'[h].user, call'[h].op) /\ UNCHANGED token
    BY <1>2 DEF Advanced
  <2> QED BY <2>1 DEF LiveTokens
<1> QED BY <1>0, <1>1, <1>2 DEF CallStep, Opened, Idle

\* A user and purpose keep one live token at most.
LEMMA TokenInvStep ==
  ASSUME Shape, TokenInv, OneIssue, [Next]_vars
  PROVE  TokenInv'
<1>1. OneActiveToken'
  <2>1. ASSUME NEW u \in Users, NEW purpose \in Purposes,
               NEW s \in LiveTokens(u, purpose)', NEW t \in LiveTokens(u, purpose)'
        PROVE  s = t
    <3>1. CASE s \in LiveTokens(u, purpose) /\ t \in LiveTokens(u, purpose)
      BY <3>1 DEF TokenInv, OneActiveToken
    <3>2. CASE Issued(t) \/ Invited(t) BY <3>2, NewTokenAlone
    <3>3. CASE Issued(s) \/ Invited(s) BY <3>3, NewTokenAlone
    <3> QED BY <3>1, <3>2, <3>3, TokensCarried
  <2> QED BY <2>1 DEF OneActiveToken
<1>2. ASSUME NEW t \in DOMAIN token', token'[t].live
      PROVE  user'[token'[t].user].status # "absent"
  <2>1. TokensStep /\ RowsStep BY TokensOfNext, RowsOfNext
  <2>2. token'[t].user \in Users BY <2>1, TokenHasUser
  <2>3. CASE Carried(t) BY <2>1, <2>2, <2>3, RowFacts DEF Carried, TokenInv
  <2>4. CASE Issued(t) BY <2>4 DEF Issued, Exists
  <2>5. CASE Invited(t) BY <2>5 DEF Invited
  <2> QED BY <1>2, <2>1, <2>3, <2>4, <2>5 DEF TokensStep
<1> QED BY <1>1, <1>2, SeenKept DEF TokenInv

\* issue_replacing invalidates and inserts in one transaction, which two of
\* them may interleave; as long as a user gets one token of a purpose at a
\* time, there is at most one that opens something.
THEOREM OneIssueOneToken == Spec /\ []OneIssue => []OneActiveToken
<1>1. Init => TokenInv
  <2> SUFFICES ASSUME Init PROVE TokenInv OBVIOUS
  <2>1. DOMAIN token = {} BY EmptySeq DEF Init
  <2>2. LiveTokens(Nobody, "none") = {} /\ \A u \in Users, p \in Purposes : LiveTokens(u, p) = {}
    BY <2>1 DEF LiveTokens
  <2> QED BY <2>1, <2>2 DEF Init, TokenInv, OneActiveToken, Idle
<1>2. IInv => Shape BY DEF IInv
<1>3. TokenInv => OneActiveToken BY DEF TokenInv
<1> QED BY <1>1, <1>2, <1>3, TokenInvStep, AlwaysIInv, PTL DEF Spec

----------------------------------------------------------------------------
(* The life of an account.                                                 *)

\* Nothing touches a deleted user or takes an owner down, and nobody becomes
\* absent or provisioned again.
LifeStep ==
  \A u \in Users :
    /\ user[u].status = "deleted" => user'[u] = user[u]
    /\ IsOwner(u) => user'[u].owner /\ user'[u].status = "active"
    /\ user'[u].status \in {"absent", "provisioned"} => user[u].status \in {"absent", user'[u].status}

\* Whatever was decided on a row that another request wrote since: the writes
\* by id of routes/users.rs and verify_email.rs find a deleted user gone.
THEOREM LivesGoForward == Spec => [][LifeStep]_vars
<1>1. ASSUME Shape, [Next]_vars PROVE LifeStep
  <2>1. ASSUME NEW u \in Users
        PROVE  /\ user[u].status = "deleted" => user'[u] = user[u]
               /\ IsOwner(u) => user'[u].owner /\ user'[u].status = "active"
               /\ user'[u].status \in {"absent", "provisioned"} =>
                    user[u].status \in {"absent", user'[u].status}
    <3>1. /\ RowStep(u) /\ user[u] \in Rows
          /\ IsOwner(u) => user[u].status = "active"
          /\ user[u].status = "deleted" => user[u] = [NoRow EXCEPT !.status = "deleted"]
      BY <1>1, RowsOfNext DEF RowsStep, Shape, TypeOK, OwnerStays, IsActive, Blank, Exists
    <3> USE <3>1 DEF Rows, Exists, IsOwner
    <3>2. CASE user'[u] = user[u] BY <3>2
    <3>3. CASE Created(u) BY <3>3 DEF Created
    <3>4. CASE Deleted(u) BY <3>4 DEF Deleted, NoRow
    <3>5. CASE Moved(u) BY <3>5 DEF Moved
    <3>6. CASE Gained(u) BY <3>6 DEF Gained
    <3>7. CASE Unlinked(u) BY <3>7 DEF Unlinked
    <3>8. CASE Accepted(u) BY <3>8 DEF Accepted
    <3> QED BY <3>2, <3>3, <3>4, <3>5, <3>6, <3>7, <3>8 DEF RowStep
  <2> QED BY <2>1 DEF LifeStep
<1>2. IInv => Shape BY DEF IInv
<1> QED BY <1>1, <1>2, AlwaysIInv, PTL DEF Spec
=============================================================================
