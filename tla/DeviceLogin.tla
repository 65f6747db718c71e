----------------------------- MODULE DeviceLogin -----------------------------
(***************************************************************************)
(* The RFC 8628 device grant behind `swarmhive login` (routes/device.rs):  *)
(* the CLI asks for a code and polls the token endpoint, a user approves   *)
(* or denies the code in the browser, and the poll that claims an approved *)
(* grant mints the token. Of the CLI (commands/login.rs) the model keeps   *)
(* whether it still polls: its loop ends with the first answer that is not *)
(* a token, authorization_pending or slow_down, an error of the transport  *)
(* and a body that is no OAuth error among them. Whoever else holds the    *)
(* code may poll at any time.                                              *)
(*                                                                         *)
(* None of the handlers opens a transaction: a read and the write that     *)
(* rests on it are two steps, and a request remembers the row it read. The *)
(* delete and the insert of device_code touch different rows and rest on   *)
(* no read, and are one step. User codes are distinct, and the instance    *)
(* has its first owner.                                                    *)
(***************************************************************************)
EXTENDS Naturals, FiniteSets

CONSTANTS
  Grants,       \* the rows that device_code inserts
  Polls,        \* device_token requests in flight at once
  Tabs,         \* device_approve and device_deny requests in flight at once
  Interval,     \* the polling interval, in units of time
  MaxFaults     \* requests dropped before they are done, or failed by the database

ASSUME DeviceLoginAssumption == Interval \in Nat \ {0} /\ MaxFaults \in Nat

VARIABLES
  status,       \* of the row; none before it is inserted, gone once it is deleted
  life,         \* of the row: live, expired, or old enough for the lazy cleanup
  polled,       \* time since last_polled_at, no longer counted at Interval
  minted,       \* the tokens created from the grant
  poll, tab,    \* the request in each slot and the row it read
  polling,      \* the grants whose CLI is in its polling loop
  faults

vars == <<status, life, polled, minted, poll, tab, polling, faults>>

Free == [at |-> "free"]

Init ==
  /\ status = [g \in Grants |-> "none"]
  /\ life = [g \in Grants |-> "live"]
  /\ polled = [g \in Grants |-> Interval]
  /\ minted = [g \in Grants |-> 0]
  /\ poll = [p \in Polls |-> Free] /\ tab = [t \in Tabs |-> Free]
  /\ polling = {}
  /\ faults = 0

Exists(g) == status[g] \notin {"none", "gone"}

\* device_code: rows long expired go, a new one comes, and the CLI starts to poll.
DeviceCode(g) ==
  /\ status[g] = "none"
  /\ status' = [h \in Grants |-> IF h = g THEN "pending"
                                 ELSE IF Exists(h) /\ life[h] = "old" THEN "gone"
                                 ELSE status[h]]
  /\ polling' = polling \cup {g}
  /\ UNCHANGED <<life, polled, minted, poll, tab, faults>>

----------------------------------------------------------------------------
(* device_token.                                                           *)

Pollable(g) == Exists(g) /\ life[g] = "live"

\* Mutant: a poll that came too soon counts as the last one.
SlowDownRefreshes(g) ==
  /\ status[g] # "none"
  /\ \/ Pollable(g) /\ polled[g] < Interval /\ polled' = [polled EXCEPT ![g] = 0]
     \/ (~Pollable(g) \/ status[g] \in {"denied", "completed"}) /\ UNCHANGED polled
  /\ UNCHANGED <<status, life, minted, poll, tab, polling, faults>>

\* slow_down, and every other answer that needs no write.
PollAnswers(g) ==
  /\ status[g] # "none"
  /\ \/ ~Pollable(g) \/ polled[g] < Interval
     \/ status[g] \in {"denied", "completed"}
  /\ UNCHANGED vars

PollReads(p, g) ==
  /\ poll[p] = Free /\ Pollable(g) /\ polled[g] = Interval
  /\ status[g] \in {"pending", "approved"}
  /\ poll' = [poll EXCEPT ![p] = [at |-> status[g], grant |-> g]]
  /\ UNCHANGED <<status, life, polled, minted, tab, polling, faults>>

PollPending(p) ==
  /\ poll[p].at = "pending"
  /\ polled' = [polled EXCEPT ![poll[p].grant] = IF Exists(poll[p].grant) THEN 0 ELSE @]
  /\ poll' = [poll EXCEPT ![p] = Free]
  /\ UNCHANGED <<status, life, minted, tab, polling, faults>>

\* Mutant: the update is not conditional on the status.
ClaimsAnyway(p) ==
  /\ poll[p].at = "approved"
  /\ status' = [status EXCEPT ![poll[p].grant] = "completed"]
  /\ poll' = [poll EXCEPT ![p].at = "claimed"]
  /\ UNCHANGED <<life, polled, minted, tab, polling, faults>>

\* The conditional update: only one poll finds the row still approved.
PollClaims(p) ==
  LET g == poll[p].grant
  IN /\ poll[p].at = "approved"
     /\ IF status[g] = "approved"
        THEN /\ status' = [status EXCEPT ![g] = "completed"]
             /\ poll' = [poll EXCEPT ![p].at = "claimed"]
        ELSE poll' = [poll EXCEPT ![p] = Free] /\ UNCHANGED status
     /\ UNCHANGED <<life, polled, minted, tab, polling, faults>>

\* Mutant: a code that expired since it was claimed gets no token.
MintsUnlessExpired(p) ==
  LET g == poll[p].grant
  IN /\ poll[p].at = "claimed"
     /\ minted' = [minted EXCEPT ![g] = IF life[g] = "live" THEN @ + 1 ELSE @]
     /\ poll' = [poll EXCEPT ![p] = Free]
     /\ UNCHANGED <<status, life, polled, tab, polling, faults>>

\* The token is inserted; an audit row that fails after it changes the answer only.
PollMints(p) ==
  /\ poll[p].at = "claimed"
  /\ minted' = [minted EXCEPT ![poll[p].grant] = @ + 1]
  /\ poll' = [poll EXCEPT ![p] = Free]
  /\ UNCHANGED <<status, life, polled, tab, polling, faults>>

----------------------------------------------------------------------------
(* device_approve and device_deny: read the row, then update it by its id. *)

\* Mutant: a grant that was denied can still be approved.
ApproveReadsDenied(t, g) ==
  /\ tab[t] = Free /\ life[g] = "live" /\ status[g] \in {"pending", "denied"}
  /\ tab' = [tab EXCEPT ![t] = [at |-> "approved", grant |-> g]]
  /\ UNCHANGED <<status, life, polled, minted, poll, polling, faults>>

ApproveReads(t, g) ==
  /\ tab[t] = Free /\ life[g] = "live" /\ status[g] = "pending"
  /\ tab' = [tab EXCEPT ![t] = [at |-> "approved", grant |-> g]]
  /\ UNCHANGED <<status, life, polled, minted, poll, polling, faults>>

DenyReads(t, g) ==
  /\ tab[t] = Free /\ life[g] = "live" /\ status[g] = "pending"
  /\ tab' = [tab EXCEPT ![t] = [at |-> "denied", grant |-> g]]
  /\ UNCHANGED <<status, life, polled, minted, poll, polling, faults>>

\* A row deleted meanwhile fails the update.
TabCommits(t) ==
  LET g == tab[t].grant
  IN /\ tab[t] # Free
     /\ status' = [status EXCEPT ![g] = IF Exists(g) THEN tab[t].at ELSE @]
     /\ tab' = [tab EXCEPT ![t] = Free]
     /\ UNCHANGED <<life, polled, minted, poll, polling, faults>>

----------------------------------------------------------------------------
(* Time and failure.                                                       *)

\* A unit of the polling interval passes.
Passes(g) ==
  /\ polled[g] < Interval
  /\ polled' = [polled EXCEPT ![g] = @ + 1]
  /\ UNCHANGED <<status, life, minted, poll, tab, polling, faults>>

\* Fifteen minutes, and then an hour more.
Ages(g) ==
  /\ Exists(g) /\ life[g] # "old"
  /\ life' = [life EXCEPT ![g] = IF @ = "live" THEN "expired" ELSE "old"]
  /\ UNCHANGED <<status, polled, minted, poll, tab, polling, faults>>

\* The CLI leaves its loop: it has its final answer, a request of its failed or
\* was answered by something else than an OAuth error, or its user stopped it.
LeavesLoop(g) ==
  /\ g \in polling /\ polling' = polling \ {g}
  /\ UNCHANGED <<status, life, polled, minted, poll, tab, faults>>

\* A request ends where it is. A poll of the CLI's own takes the loop with it.
Dropped ==
  /\ faults < MaxFaults /\ faults' = faults + 1
  /\ \/ \E p \in Polls : /\ poll[p] # Free /\ poll' = [poll EXCEPT ![p] = Free]
                         /\ polling' \in {polling, polling \ {poll[p].grant}}
                         /\ UNCHANGED tab
     \/ \E t \in Tabs : /\ tab[t] # Free /\ tab' = [tab EXCEPT ![t] = Free]
                        /\ UNCHANGED <<poll, polling>>
  /\ UNCHANGED <<status, life, polled, minted>>

PollStep(p) == PollPending(p) \/ PollClaims(p) \/ PollMints(p)

Next ==
  \/ \E g \in Grants :
       \/ DeviceCode(g) \/ PollAnswers(g) \/ LeavesLoop(g) \/ Passes(g) \/ Ages(g)
       \/ \E p \in Polls : PollReads(p, g)
       \/ \E t \in Tabs : ApproveReads(t, g) \/ DenyReads(t, g)
  \/ \E p \in Polls : PollStep(p)
  \/ \E t \in Tabs : TabCommits(t)
  \/ Dropped

\* A CLI polls for as long as it is in its loop, requests are carried out, and
\* time passes between two polls. Nothing keeps a CLI in its loop. Strong
\* fairness for PollReads: the slots only bound the model, and a poll of one
\* grant does not wait for those of another.
Fairness ==
  /\ \A g \in Grants : /\ WF_vars(Passes(g))
                        /\ SF_vars(g \in polling /\ \E p \in Polls : PollReads(p, g))
  /\ \A p \in Polls : WF_vars(PollStep(p))
  /\ \A t \in Tabs : WF_vars(TabCommits(t))

Spec == Init /\ [][Next]_vars

FairSpec == Spec /\ Fairness

----------------------------------------------------------------------------
(* Properties.                                                             *)

Requests(ats) == {Free} \cup [at : ats, grant : Grants]

\* The type invariant of the rows and of the requests that read them.
TypeOK ==
  /\ status \in [Grants -> {"none", "pending", "approved", "denied", "completed", "gone"}]
  /\ life \in [Grants -> {"live", "expired", "old"}]
  /\ polled \in [Grants -> 0..Interval]
  /\ minted \in [Grants -> Nat]
  /\ poll \in [Polls -> Requests({"pending", "approved", "claimed"})]
  /\ tab \in [Tabs -> Requests({"approved", "denied"})]
  /\ polling \subseteq Grants
  /\ faults \in 0..MaxFaults

\* However many polls race, and whatever is dropped, one approval mints at
\* most one token.
OneTokenPerGrant == \A g \in Grants : minted[g] <= 1

\* denied and completed are final: no request takes a grant out of them.
TerminalIsFinal ==
  [][\A g \in Grants : status[g] \in {"denied", "completed"} => status'[g] \in {status[g], "gone"}]_vars

\* The poll p claimed the grant g, and is about to create its token.
ClaimedBy(p, g) == poll[p].at = "claimed" /\ poll[p].grant = g

\* A grant used up for nothing: completed, without a token and without a poll
\* about to create one.
Lost == {g \in Grants : status[g] = "completed" /\ minted[g] = 0 /\ \A p \in Polls : ~ClaimedBy(p, g)}

\* A completed grant has its token, or the poll that claimed it is about to
\* create it.
CompletedMeansMinted == Lost = {}

\* The claim and the token are two statements (routes/device.rs): each request
\* that ends between them costs one grant at most, and nothing else costs any,
\* neither racing polls, nor a code that expires, nor a second decision.
LossesAreDrops == Cardinality(Lost) <= faults

\* While its CLI polls, an approved grant is claimed before long, unless it
\* expires first: polling too fast slows the CLI down but does not lock it out.
\* A CLI whose loop has ended claims nothing, and the grant is left to expire.
ApprovedIsClaimed ==
  \A g \in Grants : LET Waits == status[g] = "approved" /\ life[g] = "live" /\ g \in polling
                    IN Waits ~> ~Waits
=============================================================================
