--------------------------- MODULE Notifications ---------------------------
(***************************************************************************)
(* The notification pipeline of swarmhive-server: the transactional outbox *)
(* (notify/emit.rs), the single polling worker that fans events out and    *)
(* delivers them (notify/worker.rs), and the operators who edit endpoints  *)
(* and subscriptions and re-enqueue deliveries meanwhile                   *)
(* (routes/notifications.rs).                                              *)
(*                                                                         *)
(* Each await point of the worker that separates a database read from the  *)
(* write that uses it, or a write from its commit, is a step of its own.   *)
(* What the worker holds in memory or in an uncommitted transaction is     *)
(* lost when a tick aborts; the five tables are what remains.              *)
(***************************************************************************)
EXTENDS Integers, FiniteSets, Sequences, SequencesExt

CONSTANTS
  EventTypes, Apps,   \* event types and applications an event can be about
  NoApp,              \* the NULL app_id of an unscoped subscription
  Subs,               \* subscription ids; the columns of a row never change:
  SubType, SubApp,    \*   its event type, its app (or NoApp) and
  SubEndpoint,        \*   its webhook endpoint (NoEndpoint: an email one)
  Endpoints, NoEndpoint,
  BatchSize,          \* DEFAULT_BATCH_SIZE, 50 in the code
  MaxAttempts,        \* DEFAULT_MAX_ATTEMPTS, 5 in the code
  MaxEvents,          \* bound on emitted events
  MaxManual,          \* bound on manual redeliveries of one delivery
  MaxFaults           \* bound on database errors and restarts

ASSUME NotificationsAssumption ==
  /\ NoApp \notin Apps /\ NoEndpoint \notin Endpoints
  /\ IsFiniteSet(Subs)
  /\ SubType \in [Subs -> EventTypes]
  /\ SubApp \in [Subs -> Apps \cup {NoApp}]
  /\ SubEndpoint \in [Subs -> Endpoints \cup {NoEndpoint}]
  /\ BatchSize \in Nat \ {0} /\ MaxAttempts \in Nat \ {0}
  /\ MaxEvents \in Nat /\ MaxManual \in Nat /\ MaxFaults \in Nat

VARIABLES
  \* The database. Row ids of outbox and delivery are positions: both tables
  \* are append-only and are read in created_at order.
  outbox,        \* notification_outbox
  delivery,      \* notification_delivery
  history,       \* notification_delivery_attempt, the rows of each delivery
  subscription,  \* notification_subscription: where each id is in its life
  endpoint,      \* webhook_endpoint
  \* The worker.
  pc,            \* the await point it is at
  rows,          \* outbox rows locked by the expansion and not yet fanned out
  staged, done,  \* what the open expansion has inserted and updated
  batch,         \* snapshots of the claimed deliveries not yet handled
  job,           \* the delivery in hand
  \* History variables: they restrict nothing.
  accepted,      \* deliveries some receiver has accepted
  audience,      \* the subscriptions live when each event was emitted
  manual,        \* manual redeliveries of each delivery
  owed,          \* redelivered, no attempt begun since
  disabledBy,    \* who last disabled an endpoint
  okSince,       \* a success was recorded since the failing streak began
  faults

tables  == <<outbox, delivery, history, subscription, endpoint>>
worker  == <<pc, rows, staged, done, batch, job>>
ghosts  == <<accepted, audience, manual, owed, disabledBy, okSince, faults>>
vars    == <<tables, worker, ghosts>>

EventKinds  == [type : EventTypes, app : Apps]
Results     == {"ok", "retryable", "permanent"}
SubStates   == {"absent", "creating", "live", "deleted"}

\* failing_since against the three-day limit: NULL, younger, old enough.
FailingAges == {"none", "recent", "old"}

\* The row of an endpoint; state tells a row from one not yet or no longer there.
EndpointRow == [state : {"absent", "live", "deleted"},
                disabled : BOOLEAN, failing : FailingAges]
NoRow       == [state |-> "absent", disabled |-> FALSE, failing |-> "none"]

IsLive(ep) == ep \in Endpoints /\ endpoint[ep].state = "live"

EndpointOf(d) == SubEndpoint[delivery[d].sub]

\* The n smallest members of a set of row ids: ORDER BY created_at LIMIT n.
Oldest(S, n) == {x \in S : Cardinality({y \in S : y < x}) < n}

NoJob == [id |-> 0, attempt |-> 0, result |-> "ok", health |-> FALSE, ep |-> NoRow]

Init ==
  /\ outbox = <<>> /\ delivery = <<>> /\ history = <<>>
  /\ subscription = [s \in Subs |-> "absent"]
  /\ endpoint = [ep \in Endpoints |-> NoRow]
  /\ pc = "idle" /\ rows = {} /\ staged = <<>> /\ done = {}
  /\ batch = {} /\ job = NoJob
  /\ accepted = {} /\ audience = <<>> /\ manual = <<>> /\ owed = {}
  /\ disabledBy = [ep \in Endpoints |-> "nobody"]
  /\ okSince = [ep \in Endpoints |-> FALSE]
  /\ faults = 0

----------------------------------------------------------------------------
(* The producers: a release-train transaction that commits with its event. *)

Emit(kind) ==
  /\ Len(outbox) < MaxEvents
  /\ outbox' = Append(outbox, [type |-> kind.type, app |-> kind.app, status |-> "pending"])
  /\ audience' = Append(audience, {s \in Subs : subscription[s] = "live"})
  /\ UNCHANGED <<delivery, history, subscription, endpoint, worker,
                 accepted, manual, owed, disabledBy, okSince, faults>>

----------------------------------------------------------------------------
(* expand_outbox_batch: one transaction, read committed.                   *)

\* Mutant: rows are marked dispatched when they are picked, not when fanned out.
DispatchesOnPick ==
  /\ pc = "idle"
  /\ pc' = "expand"
  /\ rows' = Oldest({o \in DOMAIN outbox : outbox[o].status = "pending"}, BatchSize)
  /\ outbox' = [o \in DOMAIN outbox |->
       IF o \in rows' THEN [outbox[o] EXCEPT !.status = "dispatched"] ELSE outbox[o]]
  /\ UNCHANGED <<delivery, history, subscription, endpoint, staged, done, batch, job, ghosts>>

ExpandOutboxBatch ==
  /\ pc = "idle"
  /\ pc' = "expand"
  /\ rows' = Oldest({o \in DOMAIN outbox : outbox[o].status = "pending"}, BatchSize)
  /\ UNCHANGED <<tables, staged, done, batch, job, ghosts>>

Matches(s, o) ==
  /\ subscription[s] = "live"
  /\ SubType[s] = outbox[o].type
  /\ SubApp[s] \in {NoApp, outbox[o].app}

NewDelivery(o, s) ==
  [event |-> o, sub |-> s, status |-> "pending", attempt |-> 0, due |-> FALSE]

\* Mutant: an event nobody subscribes to is not counted as fanned out.
SkipsUnmatched(o) ==
  /\ pc = "expand" /\ o \in rows
  /\ \A other \in rows : o <= other
  /\ \E subs \in SetToSeqs({s \in Subs : Matches(s, o)}) :
       /\ staged' = staged \o [i \in DOMAIN subs |-> NewDelivery(o, subs[i])]
       /\ done' = IF subs = <<>> THEN done ELSE done \cup {o}
  /\ rows' = rows \ {o}
  /\ UNCHANGED <<tables, pc, batch, job, ghosts>>

FanoutOutboxRow(o) ==
  /\ pc = "expand" /\ o \in rows
  /\ \A other \in rows : o <= other
  /\ \E subs \in SetToSeqs({s \in Subs : Matches(s, o)}) :
       staged' = staged \o [i \in DOMAIN subs |-> NewDelivery(o, subs[i])]
  /\ done' = done \cup {o}
  /\ rows' = rows \ {o}
  /\ UNCHANGED <<tables, pc, batch, job, ghosts>>

\* Mutant: the deliveries are inserted, the events stay pending.
CommitsWithoutDispatching ==
  /\ pc = "expand" /\ rows = {}
  /\ pc' = "claim"
  /\ delivery' = delivery \o staged
  /\ history' = history \o [i \in DOMAIN staged |-> <<>>]
  /\ manual' = manual \o [i \in DOMAIN staged |-> 0]
  /\ staged' = <<>> /\ done' = {}
  /\ UNCHANGED <<outbox, subscription, endpoint, rows, batch, job,
                 accepted, audience, owed, disabledBy, okSince, faults>>

ExpandCommit ==
  /\ pc = "expand" /\ rows = {}
  /\ pc' = "claim"
  /\ delivery' = delivery \o staged
  /\ history' = history \o [i \in DOMAIN staged |-> <<>>]
  /\ manual' = manual \o [i \in DOMAIN staged |-> 0]
  /\ outbox' = [o \in DOMAIN outbox |->
       IF o \in done THEN [outbox[o] EXCEPT !.status = "dispatched"] ELSE outbox[o]]
  /\ staged' = <<>> /\ done' = {}
  /\ UNCHANGED <<subscription, endpoint, rows, batch, job,
                 accepted, audience, owed, disabledBy, okSince, faults>>

----------------------------------------------------------------------------
(* deliver_due_batch and deliver_one.                                      *)

\* Mutants: dead rows are claimed again; failed rows never are.
ClaimsUnsent(d) == delivery[d].status # "sent"
ClaimsPendingOnly(d) == delivery[d].status = "pending"

Claimable(d) ==
  \/ delivery[d].status = "pending"
  \/ delivery[d].status = "failed" /\ delivery[d].due

DeliverDueBatch ==
  /\ pc = "claim"
  /\ batch' = {[id |-> d, attempt |-> delivery[d].attempt] :
                 d \in Oldest({d \in DOMAIN delivery : Claimable(d)}, BatchSize)}
  /\ pc' = IF batch' = {} THEN "idle" ELSE "deliver"
  /\ UNCHANGED <<tables, rows, staged, done, job, ghosts>>

\* What delivery_request finds wrong with the context of a delivery.
Undeliverable(d) ==
  \/ subscription[delivery[d].sub] # "live"
  \/ /\ EndpointOf(d) # NoEndpoint
     /\ ~IsLive(EndpointOf(d)) \/ endpoint[EndpointOf(d)].disabled

\* The next snapshot of the batch, taken in hand with what preflight decided.
Take(snap, where, result) ==
  /\ pc = "deliver" /\ snap \in batch
  /\ \A other \in batch : snap.id <= other.id
  /\ batch' = batch \ {snap}
  /\ job' = [NoJob EXCEPT !.id = snap.id, !.attempt = snap.attempt, !.result = result]
  /\ pc' = where
  /\ owed' = owed \ {snap.id}
  /\ UNCHANGED <<tables, rows, staged, done,
                 accepted, audience, manual, disabledBy, okSince>>

DeliveryRequest(snap) ==
  /\ ~Undeliverable(snap.id)
  /\ Take(snap, "send", "ok")
  /\ UNCHANGED faults

DeliveryRequestRefused(snap) ==
  /\ Undeliverable(snap.id)
  /\ Take(snap, "persist", "permanent")
  /\ UNCHANGED faults

\* A database error while the context is read is a retryable failure.
DeliveryRequestDbError(snap) ==
  /\ faults < MaxFaults /\ faults' = faults + 1
  /\ Take(snap, "persist", "retryable")

\* The external call. A receiver may have accepted what the worker sees fail
\* (a timeout after processing); SMTP failures are all retryable.
Deliver(result) ==
  /\ pc = "send"
  /\ EndpointOf(job.id) = NoEndpoint => result # "permanent"
  /\ job' = [job EXCEPT !.result = result, !.health = EndpointOf(job.id) # NoEndpoint]
  /\ \/ accepted' = accepted \cup {job.id}
     \/ result # "ok" /\ UNCHANGED accepted
  /\ pc' = "persist"
  /\ UNCHANGED <<tables, rows, staged, done, batch,
                 audience, manual, owed, disabledBy, okSince, faults>>

\* Mutant: the attempt in hand is not counted.
ExhaustedOneLate == job.result = "permanent" \/ job.attempt >= MaxAttempts

Exhausted == job.result = "permanent" \/ job.attempt + 1 >= MaxAttempts

\* Mutant: only what reached the receiver counts as an attempt.
MarkCountsSends(row) ==
  [row EXCEPT !.attempt = IF job.result = "permanent" THEN @ ELSE job.attempt + 1, !.due = FALSE,
              !.status = IF job.result = "ok" THEN "sent"
                         ELSE IF Exhausted THEN "dead" ELSE "failed"]

\* mark_success / mark_failure: the columns a result writes.
Mark(row) ==
  [row EXCEPT !.attempt = job.attempt + 1, !.due = FALSE,
              !.status = IF job.result = "ok" THEN "sent"
                         ELSE IF Exhausted THEN "dead" ELSE "failed"]

\* Mutant: the attempt row keeps the status the delivery had before.
RecordsOldStatus(row) == [no |-> job.attempt + 1, status |-> row.status]

\* record_attempt: the row it appends, of the delivery as this result leaves it.
RecordAttempt(row) == [no |-> job.attempt + 1, status |-> Mark(row).status]

\* A success always reports to the endpoint, a failure only once it is dead.
ReportsHealth == job.health /\ (job.result = "ok" \/ Exhausted)

\* The result transaction: the delivery row is updated (and locked until the
\* commit) and update_endpoint_health has read the endpoint, without a lock.
Persist ==
  /\ pc = "persist"
  /\ pc' = "commit"
  /\ job' = [job EXCEPT !.ep = IF ReportsHealth THEN endpoint[EndpointOf(job.id)] ELSE NoRow]
  /\ UNCHANGED <<tables, rows, staged, done, batch, ghosts>>

\* Mutant: a success clears only a streak about to disable the endpoint.
HealsLate == job.ep.state = "live" /\ job.result = "ok" /\ job.ep.failing = "old"

\* The columns update_endpoint_health writes, decided from the row it read.
Heals    == job.ep.state = "live" /\ job.result = "ok" /\ job.ep.failing # "none"
Starts   == job.ep.state = "live" /\ job.result # "ok" /\ job.ep.failing = "none"
Disables == job.ep.state = "live" /\ job.result # "ok" /\ job.ep.failing = "old" /\ ~job.ep.disabled

HealthUpdate(row) ==
  [row EXCEPT !.failing = IF Heals THEN "none" ELSE IF Starts THEN "recent"
                          ELSE IF Disables THEN "old" ELSE @,
              !.disabled = Disables \/ @]

UpdateEndpointHealth(ep) ==
  /\ endpoint' = [endpoint EXCEPT ![ep] = HealthUpdate(@)]
  /\ disabledBy' = [disabledBy EXCEPT ![ep] = IF Disables THEN "worker" ELSE @]
  /\ okSince' = [okSince EXCEPT ![ep] = job.result = "ok" \/ (@ /\ ~Starts)]

AfterOne == IF batch = {} THEN "idle" ELSE "deliver"

CommitResult ==
  /\ pc = "commit"
  /\ delivery' = [delivery EXCEPT ![job.id] = Mark(@)]
  /\ history' = [history EXCEPT ![job.id] = Append(@, RecordAttempt(delivery[job.id]))]
  /\ IF ReportsHealth
     THEN /\ Heals \/ Starts \/ Disables => IsLive(EndpointOf(job.id))
          /\ UpdateEndpointHealth(EndpointOf(job.id))
     ELSE UNCHANGED <<endpoint, disabledBy, okSince>>
  /\ pc' = AfterOne /\ job' = NoJob
  /\ UNCHANGED <<outbox, subscription, rows, staged, done, batch,
                 accepted, audience, manual, owed, faults>>

\* Whatever ends a tick early: the open transaction rolls back and what was
\* claimed waits for the next tick.
Abort ==
  /\ pc' = "idle" /\ rows' = {} /\ staged' = <<>> /\ done' = {}
  /\ batch' = {} /\ job' = NoJob
  /\ UNCHANGED <<tables, accepted, audience, manual, owed, disabledBy, okSince>>

\* The endpoint was deleted since it was read: its UPDATE finds no row.
CommitConflict ==
  /\ pc = "commit" /\ ReportsHealth /\ (Heals \/ Starts \/ Disables)
  /\ ~IsLive(EndpointOf(job.id))
  /\ Abort
  /\ UNCHANGED faults

\* Any other database error of run_once, or a restart of the server.
TickFails ==
  /\ pc # "idle"
  /\ faults < MaxFaults /\ faults' = faults + 1
  /\ Abort

----------------------------------------------------------------------------
(* Time.                                                                   *)

\* next_retry_at <= now.
BackoffElapses(d) ==
  /\ d \in DOMAIN delivery /\ delivery[d].status = "failed" /\ ~delivery[d].due
  /\ delivery' = [delivery EXCEPT ![d].due = TRUE]
  /\ UNCHANGED <<outbox, history, subscription, endpoint, worker, ghosts>>

\* now - failing_since reaches AUTO_DISABLE_AFTER_DAYS.
FailingAgesOut(ep) ==
  /\ endpoint[ep].failing = "recent"
  /\ endpoint' = [endpoint EXCEPT ![ep].failing = "old"]
  /\ UNCHANGED <<outbox, delivery, history, subscription, worker, ghosts>>

----------------------------------------------------------------------------
(* The operators (holders of notification:manage).                         *)

\* Nothing compares the status: any delivery can be put back, and the attempt
\* counter stays. A row locked by the result transaction makes the UPDATE wait.
Redeliver(d) ==
  /\ d \in DOMAIN delivery
  /\ ~(pc = "commit" /\ job.id = d)
  /\ manual[d] < MaxManual
  /\ delivery' = [delivery EXCEPT ![d].status = "pending", ![d].due = FALSE]
  /\ manual' = [manual EXCEPT ![d] = @ + 1]
  /\ owed' = owed \cup {d}
  /\ UNCHANGED <<outbox, history, subscription, endpoint, worker,
                 accepted, audience, disabledBy, okSince, faults>>

CreateWebhookEndpoint(ep) ==
  /\ endpoint[ep].state = "absent"
  /\ endpoint' = [endpoint EXCEPT ![ep].state = "live"]
  /\ UNCHANGED <<outbox, delivery, history, subscription, worker, ghosts>>

\* PATCH with a disabled flag clears the failing streak either way.
UpdateWebhookEndpoint(ep, disabled) ==
  /\ IsLive(ep)
  /\ endpoint' = [endpoint EXCEPT ![ep] = [@ EXCEPT !.disabled = disabled, !.failing = "none"]]
  /\ disabledBy' = [disabledBy EXCEPT ![ep] = IF disabled THEN "operator" ELSE "nobody"]
  /\ UNCHANGED <<outbox, delivery, history, subscription, worker,
                 accepted, audience, manual, owed, okSince, faults>>

DeleteWebhookEndpoint(ep) ==
  /\ IsLive(ep)
  /\ endpoint' = [endpoint EXCEPT ![ep] = [NoRow EXCEPT !.state = "deleted"]]
  /\ subscription' = [s \in Subs |->
       IF subscription[s] = "live" /\ SubEndpoint[s] = ep THEN "deleted" ELSE subscription[s]]
  /\ UNCHANGED <<outbox, delivery, history, worker, ghosts>>

\* The handler looks the endpoint up, then inserts the row: no lock and no
\* foreign key ties the two.
CreateSubscription(s) ==
  /\ subscription[s] = "absent"
  /\ SubEndpoint[s] # NoEndpoint => IsLive(SubEndpoint[s])
  /\ subscription' = [subscription EXCEPT ![s] = "creating"]
  /\ UNCHANGED <<outbox, delivery, history, endpoint, worker, ghosts>>

InsertSubscription(s) ==
  /\ subscription[s] = "creating"
  /\ subscription' = [subscription EXCEPT ![s] = "live"]
  /\ UNCHANGED <<outbox, delivery, history, endpoint, worker, ghosts>>

DeleteSubscription(s) ==
  /\ subscription[s] = "live"
  /\ subscription' = [subscription EXCEPT ![s] = "deleted"]
  /\ UNCHANGED <<outbox, delivery, history, endpoint, worker, ghosts>>

----------------------------------------------------------------------------

\* What run_once does of itself, call after call.
RunOnce ==
  \/ ExpandOutboxBatch
  \/ \E o \in rows : FanoutOutboxRow(o)
  \/ ExpandCommit
  \/ DeliverDueBatch
  \/ \E snap \in batch : DeliveryRequest(snap) \/ DeliveryRequestRefused(snap)
  \/ \E result \in Results : Deliver(result)
  \/ Persist
  \/ CommitResult
  \/ CommitConflict

Faults ==
  \/ \E snap \in batch : DeliveryRequestDbError(snap)
  \/ TickFails

Time ==
  \/ \E d \in DOMAIN delivery : BackoffElapses(d)
  \/ \E ep \in Endpoints : FailingAgesOut(ep)

Operators ==
  \/ \E d \in DOMAIN delivery : Redeliver(d)
  \/ \E ep \in Endpoints :
       \/ CreateWebhookEndpoint(ep)
       \/ \E disabled \in BOOLEAN : UpdateWebhookEndpoint(ep, disabled)
       \/ DeleteWebhookEndpoint(ep)
  \/ \E s \in Subs : CreateSubscription(s) \/ InsertSubscription(s) \/ DeleteSubscription(s)

Next ==
  \/ \E kind \in EventKinds : Emit(kind)
  \/ RunOnce
  \/ Faults
  \/ Time
  \/ Operators

Spec == Init /\ [][Next]_vars

\* spawn_tasks calls run_once for ever and time passes. Nobody is obliged to
\* emit an event, to edit the configuration or to make the database fail.
Fairness ==
  /\ WF_vars(RunOnce)
  /\ \A d \in 1..(MaxEvents * Cardinality(Subs)) : WF_vars(BackoffElapses(d))

FairSpec == Spec /\ Fairness

----------------------------------------------------------------------------
(* Properties.                                                             *)

OutboxRow   == [type : EventTypes, app : Apps, status : {"pending", "dispatched"}]
DeliveryRow == [event : Nat, sub : Subs, attempt : Nat, due : BOOLEAN,
                status : {"pending", "sent", "failed", "dead"}]
AttemptRow  == [no : Nat, status : {"sent", "failed", "dead"}]
Snapshot    == [id : Nat, attempt : Nat]
Job         == [id : Nat, attempt : Nat, result : Results, health : BOOLEAN, ep : EndpointRow]

\* The type invariant of the tables and of the worker's memory.
TypeOK ==
  /\ outbox \in Seq(OutboxRow)
  /\ delivery \in Seq(DeliveryRow)
  /\ history \in Seq(Seq(AttemptRow))
  /\ subscription \in [Subs -> SubStates]
  /\ endpoint \in [Endpoints -> EndpointRow]
  /\ pc \in {"idle", "expand", "claim", "deliver", "send", "persist", "commit"}
  /\ rows \subseteq Nat /\ done \subseteq Nat
  /\ staged \in Seq(DeliveryRow)
  /\ batch \subseteq Snapshot
  /\ job \in Job
  /\ accepted \subseteq Nat /\ owed \subseteq Nat
  /\ audience \in Seq(SUBSET Subs)
  /\ manual \in Seq(Nat)
  /\ disabledBy \in [Endpoints -> {"nobody", "operator", "worker"}]
  /\ okSince \in [Endpoints -> BOOLEAN]
  /\ faults \in Nat

\* The attempt table is the exact, gapless history of every delivery whatever
\* aborts, restarts and redeliveries came between: its rows are numbered
\* 1..attempt, and the last one carries the status of a delivery at rest.
HistoryIsExact ==
  \A d \in DOMAIN delivery :
    /\ Len(history[d]) = delivery[d].attempt
    /\ \A k \in DOMAIN history[d] : history[d][k].no = k
    /\ delivery[d].status # "pending" =>
         /\ delivery[d].attempt > 0
         /\ history[d][delivery[d].attempt].status = delivery[d].status

\* An event is fanned out once: however the expansion transaction is cut short
\* and run again, no subscription gets two deliveries of one event.
FanoutOnce ==
  \A d1, d2 \in DOMAIN delivery :
    delivery[d1].event = delivery[d2].event /\ delivery[d1].sub = delivery[d2].sub => d1 = d2

\* A committed event is never lost: once it is dispatched, every subscription
\* to it that was live when it was emitted, and still is, has its delivery,
\* and no delivery exists of an event still pending.
NoEventLost ==
  /\ \A o \in DOMAIN outbox : \A s \in audience[o] :
       outbox[o].status = "dispatched" /\ Matches(s, o) =>
         \E d \in DOMAIN delivery : delivery[d].event = o /\ delivery[d].sub = s
  /\ \A d \in DOMAIN delivery : outbox[delivery[d].event].status = "dispatched"

\* The retry budget: attempts beyond MaxAttempts are paid for one by one by
\* manual redeliveries, and only a delivery with budget left is rescheduled.
BudgetRespected ==
  \A d \in DOMAIN delivery :
    /\ delivery[d].attempt <= MaxAttempts + manual[d]
    /\ delivery[d].status = "failed" => delivery[d].attempt < MaxAttempts

\* A delivery that reached sent or dead leaves it only by a manual redelivery:
\* no snapshot the worker still holds overwrites a result.
SettledStaysSettled ==
  [][\A d \in DOMAIN delivery :
       delivery[d].status \in {"sent", "dead"} /\ delivery'[d] # delivery[d] =>
         /\ delivery'[d].status = "pending"
         /\ delivery'[d].attempt = delivery[d].attempt
         /\ manual'[d] = manual[d] + 1]_vars

\* failing_since dates an unbroken streak: no delivery to the endpoint was
\* recorded as sent after it, so auto-disable never hits an endpoint that
\* accepted something in the window.
FailingStreakIsUnbroken ==
  \A ep \in Endpoints : endpoint[ep].failing # "none" => ~okSince[ep]

\* Every committed event is fanned out, and every delivery queued for sending
\* is eventually sent or dead, however often the tick failed before.
EventsAreDispatched ==
  \A o \in 1..MaxEvents :
    (o \in DOMAIN outbox) ~> (o \in DOMAIN outbox /\ outbox[o].status = "dispatched")

DeliveriesSettle ==
  \A d \in 1..(MaxEvents * Cardinality(Subs)) :
    (d \in DOMAIN delivery) ~> (d \in DOMAIN delivery /\ delivery[d].status \in {"sent", "dead"})

----------------------------------------------------------------------------
(* The abstract specification, and the mapping under which it is kept.     *)

RowsOf(o, s) == {d \in DOMAIN delivery : delivery[d].event = o /\ delivery[d].sub = s}

\* A pending or a failed row is a queued delivery: the worker will take it up.
Promised(o, s) ==
  IF RowsOf(o, s) = {} THEN "none"
  ELSE LET d == CHOOSE d \in RowsOf(o, s) : TRUE
       IN IF delivery[d].status \in {"sent", "dead"} THEN delivery[d].status ELSE "queued"

Promise == INSTANCE DeliveryPromise WITH
  event    <- [o \in 1..MaxEvents |->
                 IF o \notin DOMAIN outbox THEN "none"
                 ELSE IF outbox[o].status = "pending" THEN "waiting" ELSE "fanned out"],
  promised <- [p \in (1..MaxEvents) \X Subs |-> Promised(p[1], p[2])],
  accepted <- {<<delivery[d].event, delivery[d].sub>> : d \in accepted}

\* The tables, the worker with its aborted ticks and retries, and the operators
\* racing it implement the promise, liveness included: nothing committed is
\* forgotten, fanned out twice, settled without cause or left unsettled.
PromiseIsKept == Promise!FairSpec

----------------------------------------------------------------------------
(* Statements of the repository that the code does not keep.               *)

\* routes/notifications.rs: an endpoint both disabled and failing was disabled
\* by the worker, so that the UI can tell the two kinds of stop apart.
DisabledAndFailingMeansAuto ==
  \A ep \in Endpoints :
    endpoint[ep].disabled /\ endpoint[ep].failing # "none" => disabledBy[ep] = "worker"

\* routes/notifications.rs: subscriptions pointing to a deleted endpoint are
\* removed with it.
NoDanglingSubscription ==
  \A s \in Subs : subscription[s] = "live" /\ SubEndpoint[s] # NoEndpoint =>
    endpoint[SubEndpoint[s]].state = "live"

\* openspec notifications, "Manual redelivery": triggering it re-enqueues the
\* delivery for sending, so it is not dead before another attempt has begun.
RedeliveryIsHonoured ==
  \A d \in owed : delivery[d].status # "dead"
=============================================================================
