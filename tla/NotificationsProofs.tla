------------------------ MODULE NotificationsProofs ------------------------
(***************************************************************************)
(* Proofs about the notification pipeline, for every set of subscriptions  *)
(* and endpoints, every batch size and every retry budget. What the code   *)
(* does not keep is proved of the behaviours without the step that breaks  *)
(* it, so that nothing else does.                                          *)
(***************************************************************************)
EXTENDS Notifications, TLAPS, FiniteSetTheorems, SequenceTheorems

----------------------------------------------------------------------------
(* Tables: sequences as the functions they are.                            *)

\* A function on 1..n is a sequence of length n.
LEMMA FunctionIsSeq ==
  ASSUME NEW S, NEW n \in Nat, NEW f \in [1..n -> S]
  PROVE  f \in Seq(S) /\ Len(f) = n /\ DOMAIN f = 1..n
  OBVIOUS

\* Updating one row of a table keeps the table and its size.
LEMMA UpdateIsSeq ==
  ASSUME NEW S, NEW s \in Seq(S), NEW i, NEW v \in S
  PROVE  /\ [s EXCEPT ![i] = v] \in Seq(S)
         /\ Len([s EXCEPT ![i] = v]) = Len(s)
         /\ DOMAIN [s EXCEPT ![i] = v] = DOMAIN s
<1>1. s \in [1..Len(s) -> S] /\ Len(s) \in Nat
  OBVIOUS
<1>2. [s EXCEPT ![i] = v] \in [1..Len(s) -> S]
  BY <1>1
<1> QED  BY <1>1, <1>2, FunctionIsSeq

\* The rows of a table followed by those inserted after them.
LEMMA ConcatRows ==
  ASSUME NEW S, NEW s \in Seq(S), NEW t \in Seq(S)
  PROVE  /\ s \o t \in Seq(S)
         /\ Len(s \o t) = Len(s) + Len(t)
         /\ DOMAIN (s \o t) = 1..(Len(s) + Len(t))
         /\ \A i \in 1..(Len(s) + Len(t)) :
              (s \o t)[i] = IF i <= Len(s) THEN s[i] ELSE t[i - Len(s)]
  BY ConcatProperties

\* A table computed row by row from another.
LEMMA RowwiseSeq ==
  ASSUME NEW S, NEW T, NEW s \in Seq(S), NEW f \in [DOMAIN s -> T]
  PROVE  f \in Seq(T) /\ Len(f) = Len(s) /\ DOMAIN f = DOMAIN s
<1>1. Len(s) \in Nat /\ DOMAIN s = 1..Len(s)
  OBVIOUS
<1> QED  BY <1>1, FunctionIsSeq

\* Row ids are positive numbers, and ORDER BY .. LIMIT selects some of them.
LEMMA RowIds ==
  ASSUME NEW S, NEW s \in Seq(S)
  PROVE  DOMAIN s \subseteq Nat /\ \A i \in DOMAIN s : s[i] \in S /\ i > 0
  OBVIOUS

\* ORDER BY .. LIMIT selects rows of the set it is given.
LEMMA OldestIsSubset ==
  ASSUME NEW S, NEW n
  PROVE  Oldest(S, n) \subseteq S
  BY DEF Oldest

\* The orders in which matching subscriptions can be read are sequences of
\* them, without repetition.
LEMMA OrdersAreSeqs ==
  ASSUME NEW S \in SUBSET Subs, NEW f \in SetToSeqs(S)
  PROVE  /\ f \in Seq(S) /\ f \in Seq(Subs)
         /\ \A i, j \in DOMAIN f : i # j => f[i] # f[j]
<1>1. IsFiniteSet(S)
  BY NotificationsAssumption, FS_Subset
<1>2. Cardinality(S) \in Nat
  BY <1>1, FS_CardinalityType
<1>3. f \in [1..Cardinality(S) -> S] /\ \A i, j \in 1..Cardinality(S) : i # j => f[i] # f[j]
  BY DEF SetToSeqs
<1>4. f \in Seq(S)
  BY <1>2, <1>3, FunctionIsSeq
<1>5. f \in Seq(Subs)
  BY <1>4
<1>6. DOMAIN f = 1..Cardinality(S)
  BY <1>3
<1> QED  BY <1>3, <1>4, <1>5, <1>6

----------------------------------------------------------------------------
(* What the worker holds in memory agrees with the tables: the core of every *)
(* other invariant. Only the worker writes attempt counters and moves a      *)
(* delivery out of pending and failed, so a claimed snapshot is never stale  *)
(* in these columns, whatever the operators do while it is in hand.          *)

InHand == pc \in {"send", "persist", "commit"}

Held(x) ==
  /\ x.id \in DOMAIN delivery
  /\ x.attempt = delivery[x.id].attempt
  /\ delivery[x.id].status \in {"pending", "failed"}

Sizes ==
  /\ Len(history) = Len(delivery) /\ Len(manual) = Len(delivery)
  /\ Len(audience) = Len(outbox)

Claims ==
  /\ \A snap \in batch : Held(snap)
  /\ pc \in {"idle", "expand", "claim"} => batch = {}
  /\ InHand => Held(job) /\ \A snap \in batch : snap.id # job.id
  /\ InHand /\ job.health => EndpointOf(job.id) # NoEndpoint

WorkerInv == TypeOK /\ Sizes /\ Claims

\* A result that reports endpoint health is about a delivery with an endpoint.
LEMMA JobEndpoint ==
  ASSUME TypeOK, Claims, InHand, job.health
  PROVE  EndpointOf(job.id) \in Endpoints
<1>1. delivery[job.id] \in DeliveryRow
  BY RowIds DEF TypeOK, Claims, Held
<1>2. delivery[job.id].sub \in Subs
  BY <1>1 DEF DeliveryRow
<1> QED  BY <1>2, NotificationsAssumption DEF Claims, EndpointOf

----------------------------------------------------------------------------
(* Type correctness.                                                       *)

\* The empty tables have their types.
LEMMA InitTypeOK == Init => TypeOK
  BY NotificationsAssumption DEF Init, TypeOK, NoRow, NoJob, EndpointRow, FailingAges, Job, Results, SubStates

\* Emit keeps every table and the worker in their types.
LEMMA EmitTypeOK ==
  ASSUME TypeOK, NEW kind \in EventKinds, Emit(kind)
  PROVE  TypeOK'
<1>1. outbox' \in Seq(OutboxRow)
  BY DEF Emit, OutboxRow, EventKinds, TypeOK
<1>2. audience' \in Seq(SUBSET Subs)
  BY DEF Emit, TypeOK
<1> QED  BY <1>1, <1>2 DEF Emit, TypeOK, worker

\* ExpandOutboxBatch keeps every table and the worker in their types.
LEMMA ExpandOutboxBatchTypeOK ==
  ASSUME TypeOK, ExpandOutboxBatch
  PROVE  TypeOK'
<1>1. rows' \subseteq DOMAIN outbox
  BY OldestIsSubset DEF ExpandOutboxBatch
<1>2. rows' \subseteq Nat
  BY <1>1, RowIds DEF TypeOK
<1> QED  BY <1>2 DEF ExpandOutboxBatch, TypeOK, tables, ghosts

\* FanoutOutboxRow keeps every table and the worker in their types.
LEMMA FanoutOutboxRowTypeOK ==
  ASSUME TypeOK, NEW o \in rows, FanoutOutboxRow(o)
  PROVE  TypeOK'
<1> DEFINE M == {s \in Subs : Matches(s, o)}
<1>1. PICK subs \in SetToSeqs(M) :
        staged' = staged \o [i \in DOMAIN subs |-> NewDelivery(o, subs[i])]
  BY DEF FanoutOutboxRow
<1>2. subs \in Seq(Subs)
  <2>1. M \in SUBSET Subs
    OBVIOUS
  <2> HIDE DEF M
  <2> QED  BY <1>1, <2>1, OrdersAreSeqs
<1>3. [i \in DOMAIN subs |-> NewDelivery(o, subs[i])] \in [DOMAIN subs -> DeliveryRow]
  BY <1>2 DEF NewDelivery, DeliveryRow, TypeOK
<1>4. [i \in DOMAIN subs |-> NewDelivery(o, subs[i])] \in Seq(DeliveryRow)
  BY <1>2, <1>3, RowwiseSeq
<1>5. staged' \in Seq(DeliveryRow)
  BY <1>1, <1>4, ConcatRows DEF TypeOK
<1> QED  BY <1>5 DEF FanoutOutboxRow, TypeOK, tables, ghosts

\* ExpandCommit keeps every table and the worker in their types.
LEMMA ExpandCommitTypeOK ==
  ASSUME TypeOK, ExpandCommit
  PROVE  TypeOK'
<1>0. staged \in Seq(DeliveryRow) /\ outbox \in Seq(OutboxRow)
  BY DEF TypeOK
<1>1. delivery' \in Seq(DeliveryRow)
  BY <1>0, ConcatRows DEF ExpandCommit, TypeOK
<1>2. history' \in Seq(Seq(AttemptRow))
  <2>1. [i \in DOMAIN staged |-> <<>>] \in [DOMAIN staged -> Seq(AttemptRow)]
    OBVIOUS
  <2>2. [i \in DOMAIN staged |-> <<>>] \in Seq(Seq(AttemptRow))
    BY <1>0, <2>1, RowwiseSeq
  <2> QED  BY <2>2, ConcatRows DEF ExpandCommit, TypeOK
<1>3. manual' \in Seq(Nat)
  <2>1. [i \in DOMAIN staged |-> 0] \in [DOMAIN staged -> Nat]
    OBVIOUS
  <2>2. [i \in DOMAIN staged |-> 0] \in Seq(Nat)
    BY <1>0, <2>1, RowwiseSeq
  <2> QED  BY <2>2, ConcatRows DEF ExpandCommit, TypeOK
<1>4. outbox' \in Seq(OutboxRow)
  <2>1. \A o \in DOMAIN outbox :
          outbox[o] \in OutboxRow /\ [outbox[o] EXCEPT !.status = "dispatched"] \in OutboxRow
    <3>1. \A o \in DOMAIN outbox : outbox[o] \in OutboxRow
      BY <1>0, RowIds
    <3> QED  BY <3>1 DEF OutboxRow
  <2>2. outbox' \in [DOMAIN outbox -> OutboxRow]
    BY <2>1 DEF ExpandCommit
  <2> QED  BY <1>0, <2>2, RowwiseSeq
<1>5. staged' \in Seq(DeliveryRow) /\ done' \subseteq Nat
  BY DEF ExpandCommit
<1> QED  BY <1>1, <1>2, <1>3, <1>4, <1>5 DEF ExpandCommit, TypeOK

\* DeliverDueBatch keeps every table and the worker in their types.
LEMMA DeliverDueBatchTypeOK ==
  ASSUME TypeOK, DeliverDueBatch
  PROVE  TypeOK'
<1>1. Oldest({d \in DOMAIN delivery : Claimable(d)}, BatchSize) \subseteq DOMAIN delivery
  BY OldestIsSubset
<1>2. \A d \in DOMAIN delivery : d \in Nat /\ delivery[d].attempt \in Nat
  <2>1. delivery \in Seq(DeliveryRow)
    BY DEF TypeOK
  <2>2. \A d \in DOMAIN delivery : delivery[d] \in DeliveryRow /\ d \in Nat
    BY <2>1, RowIds
  <2> QED  BY <2>2 DEF DeliveryRow
<1>3. batch' \subseteq Snapshot
  <2> DEFINE chosen == Oldest({d \in DOMAIN delivery : Claimable(d)}, BatchSize)
  <2>1. batch' = {[id |-> d, attempt |-> delivery[d].attempt] : d \in chosen}
    BY DEF DeliverDueBatch
  <2>2. \A d \in chosen : [id |-> d, attempt |-> delivery[d].attempt] \in Snapshot
    BY <1>1, <1>2 DEF Snapshot
  <2> HIDE DEF chosen
  <2> QED  BY <2>1, <2>2
<1> QED  BY <1>3 DEF DeliverDueBatch, TypeOK, tables, ghosts

\* Take keeps every table and the worker in their types.
LEMMA TakeTypeOK ==
  ASSUME TypeOK, NEW snap \in batch, NEW where \in {"send", "persist"}, NEW r \in Results,
         Take(snap, where, r), faults' \in Nat
  PROVE  TypeOK'
<1>1. job' \in Job
  BY DEF Take, TypeOK, Snapshot, Job, NoJob, NoRow, EndpointRow, FailingAges
<1> QED  BY <1>1 DEF Take, TypeOK, tables

\* Deliver keeps every table and the worker in their types.
LEMMA DeliverTypeOK ==
  ASSUME TypeOK, NEW r \in Results, Deliver(r)
  PROVE  TypeOK'
<1>1. job' \in Job
  BY DEF Deliver, TypeOK, Job
<1>2. accepted' \subseteq Nat
  BY DEF Deliver, TypeOK, Job
<1> QED  BY <1>1, <1>2 DEF Deliver, TypeOK, tables

\* Persist keeps every table and the worker in their types.
LEMMA PersistTypeOK ==
  ASSUME TypeOK, Claims, Persist
  PROVE  TypeOK'
<1>1. ReportsHealth => endpoint[EndpointOf(job.id)] \in EndpointRow
  BY JobEndpoint DEF Persist, InHand, ReportsHealth, TypeOK
<1>2. NoRow \in EndpointRow
  BY DEF NoRow, EndpointRow, FailingAges
<1>3. job' \in Job
  BY <1>1, <1>2 DEF Persist, TypeOK, Job
<1> QED  BY <1>3 DEF Persist, TypeOK, tables, ghosts

\* The row a result is written to, before and after.
LEMMA MarkedRow ==
  ASSUME TypeOK, Claims, InHand
  PROVE  /\ delivery[job.id] \in DeliveryRow
         /\ Mark(delivery[job.id]) \in DeliveryRow
         /\ Mark(delivery[job.id]).attempt = job.attempt + 1
         /\ Mark(delivery[job.id]).status \in {"sent", "failed", "dead"}
<1>1. delivery[job.id] \in DeliveryRow
  BY RowIds DEF TypeOK, Claims, Held
<1>2. job.attempt \in Nat
  BY DEF TypeOK, Job
<1> DEFINE result == IF job.result = "ok" THEN "sent" ELSE IF Exhausted THEN "dead" ELSE "failed"
<1>3. result \in {"sent", "failed", "dead"}
  OBVIOUS
<1>5. Mark(delivery[job.id]) =
        [delivery[job.id] EXCEPT !.attempt = job.attempt + 1, !.due = FALSE, !.status = result]
  BY DEF Mark
<1> HIDE DEF result
<1>6. job.attempt + 1 \in Nat
  BY <1>2
<1>7. Mark(delivery[job.id]) \in DeliveryRow
  BY <1>1, <1>3, <1>5, <1>6 DEF DeliveryRow
<1>8. Mark(delivery[job.id]).attempt = job.attempt + 1 /\ Mark(delivery[job.id]).status = result
  BY <1>1, <1>5 DEF DeliveryRow
<1> QED  BY <1>1, <1>3, <1>7, <1>8

\* Health keeps every table and the worker in their types.
LEMMA HealthTypeOK ==
  ASSUME TypeOK, NEW ep, UpdateEndpointHealth(ep)
  PROVE  /\ endpoint' \in [Endpoints -> EndpointRow]
         /\ disabledBy' \in [Endpoints -> {"nobody", "operator", "worker"}]
         /\ okSince' \in [Endpoints -> BOOLEAN]
<1>1. \A row \in EndpointRow : HealthUpdate(row) \in EndpointRow
  BY DEF EndpointRow, HealthUpdate, FailingAges, Disables
<1>2. endpoint' \in [Endpoints -> EndpointRow]
  BY <1>1 DEF UpdateEndpointHealth, TypeOK
<1>3. disabledBy' \in [Endpoints -> {"nobody", "operator", "worker"}]
  BY DEF UpdateEndpointHealth, TypeOK
<1>4. okSince' \in [Endpoints -> BOOLEAN]
  BY DEF UpdateEndpointHealth, TypeOK
<1> QED  BY <1>2, <1>3, <1>4

\* CommitResult keeps every table and the worker in their types.
LEMMA CommitResultTypeOK ==
  ASSUME TypeOK, Sizes, Claims, CommitResult
  PROVE  TypeOK'
<1>0. InHand
  BY DEF CommitResult, InHand
<1>1. delivery' \in Seq(DeliveryRow)
  <2>1. delivery' = [delivery EXCEPT ![job.id] = Mark(delivery[job.id])]
    BY DEF CommitResult
  <2> QED  BY <1>0, <2>1, MarkedRow, UpdateIsSeq DEF TypeOK
<1>2. history' \in Seq(Seq(AttemptRow))
  <2> DEFINE new == [no |-> job.attempt + 1, status |-> Mark(delivery[job.id]).status]
  <2>1. new \in AttemptRow
    BY <1>0, MarkedRow DEF AttemptRow, TypeOK, Job
  <2>2. history' = [history EXCEPT ![job.id] = Append(history[job.id], new)]
    BY DEF CommitResult, RecordAttempt
  <2>3. history \in Seq(Seq(AttemptRow)) /\ job.id \in DOMAIN history
    BY <1>0 DEF TypeOK, Claims, Held, Sizes
  <2>4. history[job.id] \in Seq(AttemptRow)
    BY <2>3, RowIds
  <2> HIDE DEF new
  <2>5. Append(history[job.id], new) \in Seq(AttemptRow)
    BY <2>1, <2>4
  <2> QED  BY <2>2, <2>3, <2>5, UpdateIsSeq
<1>3. /\ endpoint' \in [Endpoints -> EndpointRow]
      /\ disabledBy' \in [Endpoints -> {"nobody", "operator", "worker"}]
      /\ okSince' \in [Endpoints -> BOOLEAN]
  BY HealthTypeOK DEF CommitResult, TypeOK
<1>4. job' \in Job
  BY DEF CommitResult, Job, NoJob, NoRow, EndpointRow, FailingAges, Results
<1> QED  BY <1>1, <1>2, <1>3, <1>4 DEF CommitResult, TypeOK, AfterOne

\* Abort keeps every table and the worker in their types.
LEMMA AbortTypeOK ==
  ASSUME TypeOK, Abort, faults' \in Nat
  PROVE  TypeOK'
<1>1. job' \in Job
  BY DEF Abort, Job, NoJob, NoRow, EndpointRow, FailingAges, Results
<1>2. staged' \in Seq(DeliveryRow)
  BY DEF Abort
<1> QED  BY <1>1, <1>2 DEF Abort, TypeOK, tables

\* BackoffElapses keeps every table and the worker in their types.
LEMMA BackoffElapsesTypeOK ==
  ASSUME TypeOK, NEW d, BackoffElapses(d)
  PROVE  TypeOK'
<1>1. delivery[d] \in DeliveryRow
  BY RowIds DEF BackoffElapses, TypeOK
<1>2. [delivery[d] EXCEPT !.due = TRUE] \in DeliveryRow
  BY <1>1 DEF DeliveryRow
<1>3. delivery' = [delivery EXCEPT ![d] = [delivery[d] EXCEPT !.due = TRUE]]
  BY DEF BackoffElapses
<1>4. delivery' \in Seq(DeliveryRow)
  BY <1>2, <1>3, UpdateIsSeq DEF TypeOK
<1> QED  BY <1>4 DEF BackoffElapses, TypeOK, worker, ghosts

\* Redeliver keeps every table and the worker in their types.
LEMMA RedeliverTypeOK ==
  ASSUME TypeOK, Sizes, NEW d, Redeliver(d)
  PROVE  TypeOK'
<1> DEFINE row == [delivery[d] EXCEPT !.status = "pending", !.due = FALSE]
<1>1. delivery[d] \in DeliveryRow
  BY RowIds DEF Redeliver, TypeOK
<1>2. row \in DeliveryRow
  BY <1>1 DEF DeliveryRow
<1>3. delivery' = [delivery EXCEPT ![d] = row]
  BY DEF Redeliver
<1> HIDE DEF row
<1>4. delivery' \in Seq(DeliveryRow)
  BY <1>2, <1>3, UpdateIsSeq DEF TypeOK
<1>5. d \in DOMAIN manual /\ d \in Nat
  BY DEF Redeliver, TypeOK, Sizes
<1>6. manual[d] + 1 \in Nat
  BY <1>5, RowIds DEF TypeOK
<1>7. manual' = [manual EXCEPT ![d] = manual[d] + 1]
  BY DEF Redeliver
<1>8. manual' \in Seq(Nat)
  BY <1>6, <1>7, UpdateIsSeq DEF TypeOK
<1> QED  BY <1>4, <1>5, <1>8 DEF Redeliver, TypeOK, worker

\* Operators on endpoints and subscriptions, and the three-day limit, touch the
\* two configuration tables only.
Configure ==
  \/ \E ep \in Endpoints :
       \/ FailingAgesOut(ep) \/ CreateWebhookEndpoint(ep) \/ DeleteWebhookEndpoint(ep)
       \/ \E disabled \in BOOLEAN : UpdateWebhookEndpoint(ep, disabled)
  \/ \E s \in Subs : CreateSubscription(s) \/ InsertSubscription(s) \/ DeleteSubscription(s)

\* Configure keeps every table and the worker in their types.
LEMMA ConfigureTypeOK ==
  ASSUME TypeOK, Configure
  PROVE  TypeOK'
<1>0. \A row \in EndpointRow, b \in BOOLEAN :
        /\ [row EXCEPT !.failing = "old"] \in EndpointRow
        /\ [row EXCEPT !.state = "live"] \in EndpointRow
        /\ [row EXCEPT !.disabled = b, !.failing = "none"] \in EndpointRow
        /\ [NoRow EXCEPT !.state = "deleted"] \in EndpointRow
  BY DEF EndpointRow, FailingAges, NoRow
<1>1. CASE \E ep \in Endpoints : FailingAgesOut(ep) \/ CreateWebhookEndpoint(ep)
  <2>1. endpoint' \in [Endpoints -> EndpointRow]
    <3>1. PICK ep \in Endpoints : FailingAgesOut(ep) \/ CreateWebhookEndpoint(ep)
      BY <1>1
    <3>2. endpoint \in [Endpoints -> EndpointRow]
      BY DEF TypeOK
    <3>3. endpoint' = [endpoint EXCEPT ![ep] = [endpoint[ep] EXCEPT !.failing = "old"]]
          \/ endpoint' = [endpoint EXCEPT ![ep] = [endpoint[ep] EXCEPT !.state = "live"]]
      BY <3>1 DEF FailingAgesOut, CreateWebhookEndpoint
    <3>4. endpoint[ep] \in EndpointRow
      BY <3>2
    <3> QED  BY <1>0, <3>2, <3>3, <3>4
  <2> QED  BY <1>1, <2>1 DEF FailingAgesOut, CreateWebhookEndpoint, TypeOK, worker, ghosts
<1>2. CASE \E ep \in Endpoints : DeleteWebhookEndpoint(ep)
  <2>1. endpoint' \in [Endpoints -> EndpointRow]
    BY <1>0, <1>2 DEF DeleteWebhookEndpoint, TypeOK
  <2> QED  BY <1>2, <2>1 DEF DeleteWebhookEndpoint, TypeOK, SubStates, worker, ghosts
<1>3. CASE \E ep \in Endpoints : \E disabled \in BOOLEAN : UpdateWebhookEndpoint(ep, disabled)
  <2>1. PICK ep \in Endpoints, disabled \in BOOLEAN : UpdateWebhookEndpoint(ep, disabled)
    BY <1>3
  <2>2. endpoint' \in [Endpoints -> EndpointRow]
    BY <1>0, <2>1 DEF UpdateWebhookEndpoint, TypeOK
  <2>3. disabledBy' \in [Endpoints -> {"nobody", "operator", "worker"}]
    BY <2>1 DEF UpdateWebhookEndpoint, TypeOK
  <2> QED  BY <2>1, <2>2, <2>3 DEF UpdateWebhookEndpoint, TypeOK, worker
<1>4. CASE \E s \in Subs : CreateSubscription(s) \/ InsertSubscription(s) \/ DeleteSubscription(s)
  BY <1>4 DEF CreateSubscription, InsertSubscription, DeleteSubscription, TypeOK, SubStates, worker, ghosts
<1> QED  BY <1>1, <1>2, <1>3, <1>4 DEF Configure

----------------------------------------------------------------------------
(* The worker's memory and the tables stay in agreement.                   *)

\* While the worker stands still, rows keep the columns it relies on.
KeepsRows ==
  \A d \in DOMAIN delivery :
    /\ d \in DOMAIN delivery'
    /\ delivery'[d].attempt = delivery[d].attempt
    /\ delivery'[d].sub = delivery[d].sub
    /\ delivery[d].status \in {"pending", "failed"} => delivery'[d].status \in {"pending", "failed"}

\* A step that keeps the rows in hand keeps what the worker holds about them.
LEMMA ClaimsWhileStill ==
  ASSUME Claims, KeepsRows, UNCHANGED <<pc, batch, job>>
  PROVE  Claims'
<1>1. \A x : Held(x) => Held(x)'
  BY DEF Held, KeepsRows
<1>2. InHand' = InHand
  BY DEF InHand
<1>3. InHand => job.id \in DOMAIN delivery
  BY DEF Claims, Held
<1>4. InHand /\ job.health => EndpointOf(job.id)' # NoEndpoint
  BY <1>3 DEF Claims, KeepsRows, EndpointOf
<1> QED  BY <1>1, <1>2, <1>4 DEF Claims

\* Emit keeps the worker in agreement with the tables.
LEMMA EmitInv ==
  ASSUME WorkerInv, NEW kind \in EventKinds, Emit(kind)
  PROVE  WorkerInv'
<1>1. TypeOK'
  BY EmitTypeOK DEF WorkerInv
<1>2. Sizes'
  BY DEF WorkerInv, TypeOK, Sizes, Emit
<1>3. KeepsRows /\ UNCHANGED <<pc, batch, job>>
  BY DEF Emit, KeepsRows, worker
<1> QED  BY <1>1, <1>2, <1>3, ClaimsWhileStill DEF WorkerInv

\* Configure keeps the worker in agreement with the tables.
LEMMA ConfigureInv ==
  ASSUME WorkerInv, Configure
  PROVE  WorkerInv'
<1>1. TypeOK'
  BY ConfigureTypeOK DEF WorkerInv
<1>2. UNCHANGED <<outbox, delivery, history, audience, manual, pc, batch, job>>
  BY DEF Configure, FailingAgesOut, CreateWebhookEndpoint, DeleteWebhookEndpoint, UpdateWebhookEndpoint,
         CreateSubscription, InsertSubscription, DeleteSubscription, worker, ghosts
<1>3. Sizes'
  BY <1>2 DEF WorkerInv, Sizes
<1>4. KeepsRows
  BY <1>2 DEF KeepsRows
<1> QED  BY <1>1, <1>2, <1>3, <1>4, ClaimsWhileStill DEF WorkerInv

\* BackoffElapses keeps the worker in agreement with the tables.
LEMMA BackoffElapsesInv ==
  ASSUME WorkerInv, NEW d, BackoffElapses(d)
  PROVE  WorkerInv'
<1>1. TypeOK'
  BY BackoffElapsesTypeOK DEF WorkerInv
<1>2. delivery' = [delivery EXCEPT ![d] = [delivery[d] EXCEPT !.due = TRUE]]
  BY DEF BackoffElapses
<1>3. delivery \in Seq(DeliveryRow) /\ d \in DOMAIN delivery
  BY DEF WorkerInv, TypeOK, BackoffElapses
<1>4. delivery[d] \in DeliveryRow
  BY <1>3, RowIds
<1>5. Len(delivery') = Len(delivery)
  BY <1>2, <1>3
<1>6. Sizes'
  BY <1>5 DEF WorkerInv, Sizes, BackoffElapses, ghosts
<1>7. KeepsRows
  BY <1>2, <1>3, <1>4 DEF KeepsRows, DeliveryRow
<1> QED  BY <1>1, <1>6, <1>7, ClaimsWhileStill DEF WorkerInv, BackoffElapses, worker

\* Redeliver keeps the worker in agreement with the tables.
LEMMA RedeliverInv ==
  ASSUME WorkerInv, NEW d, Redeliver(d)
  PROVE  WorkerInv'
<1>1. TypeOK'
  BY RedeliverTypeOK DEF WorkerInv
<1>2. delivery' = [delivery EXCEPT ![d] = [delivery[d] EXCEPT !.status = "pending", !.due = FALSE]]
  BY DEF Redeliver
<1>3. delivery \in Seq(DeliveryRow) /\ d \in DOMAIN delivery /\ manual \in Seq(Nat)
  BY DEF WorkerInv, TypeOK, Redeliver
<1>4. delivery[d] \in DeliveryRow
  BY <1>3, RowIds
<1>5. Len(delivery') = Len(delivery)
  BY <1>2, <1>3
<1>6. Len(manual') = Len(manual)
  BY <1>3 DEF Redeliver
<1>7. Sizes'
  BY <1>5, <1>6 DEF WorkerInv, Sizes, Redeliver
<1>8. KeepsRows
  BY <1>2, <1>3, <1>4 DEF KeepsRows, DeliveryRow
<1> QED  BY <1>1, <1>7, <1>8, ClaimsWhileStill DEF WorkerInv, Redeliver, worker

\* ExpandOutboxBatch keeps the worker in agreement with the tables.
LEMMA ExpandOutboxBatchInv ==
  ASSUME WorkerInv, ExpandOutboxBatch
  PROVE  WorkerInv'
<1>1. TypeOK'
  BY ExpandOutboxBatchTypeOK DEF WorkerInv
<1>2. Sizes'
  BY DEF WorkerInv, Sizes, ExpandOutboxBatch, tables, ghosts
<1>3. Claims'
  BY DEF WorkerInv, Claims, InHand, ExpandOutboxBatch, tables
<1> QED  BY <1>1, <1>2, <1>3 DEF WorkerInv

\* FanoutOutboxRow keeps the worker in agreement with the tables.
LEMMA FanoutOutboxRowInv ==
  ASSUME WorkerInv, NEW o \in rows, FanoutOutboxRow(o)
  PROVE  WorkerInv'
<1>1. TypeOK'
  BY FanoutOutboxRowTypeOK DEF WorkerInv
<1>2. Sizes'
  BY DEF WorkerInv, Sizes, FanoutOutboxRow, tables, ghosts
<1>3. Claims'
  BY DEF WorkerInv, Claims, InHand, FanoutOutboxRow, tables
<1> QED  BY <1>1, <1>2, <1>3 DEF WorkerInv

\* The tables after the expansion commits: old rows first, then the new ones.
LEMMA CommittedRows ==
  ASSUME TypeOK, Sizes, ExpandCommit
  PROVE  /\ Len(delivery') = Len(delivery) + Len(staged)
         /\ DOMAIN delivery' = 1..(Len(delivery) + Len(staged))
         /\ Len(history') = Len(delivery')
         /\ Len(manual') = Len(delivery')
         /\ \A d \in DOMAIN delivery' :
              /\ delivery'[d] = IF d <= Len(delivery) THEN delivery[d] ELSE staged[d - Len(delivery)]
              /\ history'[d] = IF d <= Len(delivery) THEN history[d] ELSE <<>>
              /\ manual'[d] = IF d <= Len(delivery) THEN manual[d] ELSE 0
<1> DEFINE h == [i \in DOMAIN staged |-> <<>>]
           m == [i \in DOMAIN staged |-> 0]
<1>0. staged \in Seq(DeliveryRow) /\ delivery \in Seq(DeliveryRow)
  BY DEF TypeOK
<1>1. h \in [DOMAIN staged -> Seq(AttemptRow)] /\ m \in [DOMAIN staged -> Nat]
  OBVIOUS
<1>2. \A i \in 1..Len(staged) : h[i] = <<>> /\ m[i] = 0
  BY <1>0
<1>3. delivery' = delivery \o staged /\ history' = history \o h /\ manual' = manual \o m
  BY DEF ExpandCommit
<1> HIDE DEF h, m
<1>4. /\ h \in Seq(Seq(AttemptRow)) /\ Len(h) = Len(staged)
      /\ m \in Seq(Nat) /\ Len(m) = Len(staged)
  BY <1>0, <1>1, RowwiseSeq
<1>5. /\ Len(delivery') = Len(delivery) + Len(staged)
      /\ DOMAIN delivery' = 1..(Len(delivery) + Len(staged))
      /\ \A d \in 1..(Len(delivery) + Len(staged)) :
           delivery'[d] = IF d <= Len(delivery) THEN delivery[d] ELSE staged[d - Len(delivery)]
  BY <1>0, <1>3, ConcatRows
<1>6. history \in Seq(Seq(AttemptRow)) /\ manual \in Seq(Nat)
  BY DEF TypeOK
<1>7. /\ Len(history') = Len(history) + Len(staged)
      /\ \A d \in 1..(Len(history) + Len(staged)) :
           history'[d] = IF d <= Len(history) THEN history[d] ELSE h[d - Len(history)]
  <2>1. /\ Len(history \o h) = Len(history) + Len(h)
        /\ \A d \in 1..(Len(history) + Len(h)) :
             (history \o h)[d] = IF d <= Len(history) THEN history[d] ELSE h[d - Len(history)]
    BY <1>4, <1>6, ConcatRows
  <2> QED  BY <1>3, <1>4, <2>1
<1>8. /\ Len(manual') = Len(manual) + Len(staged)
      /\ \A d \in 1..(Len(manual) + Len(staged)) :
           manual'[d] = IF d <= Len(manual) THEN manual[d] ELSE m[d - Len(manual)]
  <2>1. /\ Len(manual \o m) = Len(manual) + Len(m)
        /\ \A d \in 1..(Len(manual) + Len(m)) :
             (manual \o m)[d] = IF d <= Len(manual) THEN manual[d] ELSE m[d - Len(manual)]
    BY <1>4, <1>6, ConcatRows
  <2> QED  BY <1>3, <1>4, <2>1
<1>9. Len(staged) \in Nat /\ Len(delivery) \in Nat
  BY <1>0
<1>10. \A d \in 1..(Len(delivery) + Len(staged)) : d > Len(delivery) => d - Len(delivery) \in 1..Len(staged)
  BY <1>9
<1> QED  BY <1>2, <1>5, <1>7, <1>8, <1>9, <1>10 DEF Sizes

\* ExpandCommit keeps the worker in agreement with the tables.
LEMMA ExpandCommitInv ==
  ASSUME WorkerInv, ExpandCommit
  PROVE  WorkerInv'
<1>1. TypeOK'
  BY ExpandCommitTypeOK DEF WorkerInv
<1>2. Len(outbox') = Len(outbox)
  <2>1. outbox \in Seq(OutboxRow)
    BY DEF WorkerInv, TypeOK
  <2>2. DOMAIN outbox' = DOMAIN outbox
    BY DEF ExpandCommit
  <2> QED  BY <1>1, <2>1, <2>2 DEF TypeOK
<1>3. Sizes'
  BY <1>2, CommittedRows DEF WorkerInv, Sizes, ExpandCommit
<1>4. Claims'
  BY DEF WorkerInv, Claims, InHand, ExpandCommit
<1> QED  BY <1>1, <1>3, <1>4 DEF WorkerInv

\* DeliverDueBatch keeps the worker in agreement with the tables.
LEMMA DeliverDueBatchInv ==
  ASSUME WorkerInv, DeliverDueBatch
  PROVE  WorkerInv'
<1>1. TypeOK'
  BY DeliverDueBatchTypeOK DEF WorkerInv
<1>2. Sizes'
  BY DEF WorkerInv, Sizes, DeliverDueBatch, tables, ghosts
<1>3. \A snap \in batch' : Held(snap)
  <2> DEFINE due == {d \in DOMAIN delivery : Claimable(d)}
  <2>1. Oldest(due, BatchSize) \subseteq due
    BY OldestIsSubset
  <2>2. \A snap \in batch' : \E d \in due : snap = [id |-> d, attempt |-> delivery[d].attempt]
    BY <2>1 DEF DeliverDueBatch
  <2> QED  BY <2>2 DEF Held, Claimable
<1>4. Claims'
  BY <1>3 DEF Claims, Held, InHand, DeliverDueBatch, tables
<1> QED  BY <1>1, <1>2, <1>4 DEF WorkerInv

\* Take keeps the worker in agreement with the tables.
LEMMA TakeInv ==
  ASSUME WorkerInv, NEW snap \in batch, NEW where \in {"send", "persist"}, NEW r \in Results,
         Take(snap, where, r), faults' \in Nat
  PROVE  WorkerInv'
<1>1. TypeOK'
  BY TakeTypeOK DEF WorkerInv
<1>2. Sizes'
  BY DEF WorkerInv, Sizes, Take, tables
<1>3. job'.id = snap.id /\ job'.attempt = snap.attempt /\ job'.health = FALSE
  BY DEF Take, NoJob
<1>4. \A other \in batch : other.id = snap.id => other = snap
  BY DEF WorkerInv, Claims, Held, TypeOK, Snapshot
<1>5. Claims'
  BY <1>3, <1>4 DEF WorkerInv, Claims, Held, InHand, Take, tables
<1> QED  BY <1>1, <1>2, <1>5 DEF WorkerInv

\* Deliver keeps the worker in agreement with the tables.
LEMMA DeliverInv ==
  ASSUME WorkerInv, NEW r \in Results, Deliver(r)
  PROVE  WorkerInv'
<1>1. TypeOK'
  BY DeliverTypeOK DEF WorkerInv
<1>2. Sizes'
  BY DEF WorkerInv, Sizes, Deliver, tables
<1>3. job'.id = job.id /\ job'.attempt = job.attempt /\ job'.health = (EndpointOf(job.id) # NoEndpoint)
  BY DEF Deliver, WorkerInv, TypeOK, Job
<1>4. Claims'
  BY <1>3 DEF WorkerInv, Claims, Held, InHand, Deliver, tables, EndpointOf
<1> QED  BY <1>1, <1>2, <1>4 DEF WorkerInv

\* Persist keeps the worker in agreement with the tables.
LEMMA PersistInv ==
  ASSUME WorkerInv, Persist
  PROVE  WorkerInv'
<1>1. TypeOK'
  BY PersistTypeOK DEF WorkerInv
<1>2. Sizes'
  BY DEF WorkerInv, Sizes, Persist, tables, ghosts
<1>3. job'.id = job.id /\ job'.attempt = job.attempt /\ job'.health = job.health
  BY DEF Persist, WorkerInv, TypeOK, Job
<1>4. Claims'
  BY <1>3 DEF WorkerInv, Claims, Held, InHand, Persist, tables, EndpointOf
<1> QED  BY <1>1, <1>2, <1>4 DEF WorkerInv

\* What a committed result changes in the two delivery tables.
LEMMA ResultRows ==
  ASSUME WorkerInv, CommitResult
  PROVE  /\ job.id \in DOMAIN delivery /\ job.id \in DOMAIN history
         /\ delivery' = [delivery EXCEPT ![job.id] = Mark(delivery[job.id])]
         /\ history' = [history EXCEPT ![job.id] = Append(history[job.id],
              [no |-> job.attempt + 1, status |-> Mark(delivery[job.id]).status])]
         /\ DOMAIN delivery' = DOMAIN delivery /\ Len(delivery') = Len(delivery)
         /\ DOMAIN history' = DOMAIN history /\ Len(history') = Len(history)
         /\ \A d \in DOMAIN delivery : d # job.id =>
              delivery'[d] = delivery[d] /\ history'[d] = history[d]
<1>1. InHand
  BY DEF CommitResult, InHand
<1>2. job.id \in DOMAIN delivery /\ job.id \in DOMAIN history
  BY <1>1 DEF WorkerInv, Claims, Held, Sizes, TypeOK
<1>3. delivery' = [delivery EXCEPT ![job.id] = Mark(delivery[job.id])]
  BY DEF CommitResult
<1>4. history' = [history EXCEPT ![job.id] = Append(history[job.id],
              [no |-> job.attempt + 1, status |-> Mark(delivery[job.id]).status])]
  BY DEF CommitResult, RecordAttempt
<1>5. TypeOK'
  BY CommitResultTypeOK DEF WorkerInv
<1>6. DOMAIN delivery' = DOMAIN delivery /\ DOMAIN history' = DOMAIN history
  BY <1>3, <1>4
<1>7. Len(delivery') = Len(delivery) /\ Len(history') = Len(history)
  BY <1>5, <1>6 DEF WorkerInv, TypeOK
<1>8. \A d \in DOMAIN delivery : d \in DOMAIN history
  BY DEF WorkerInv, Sizes, TypeOK
<1> QED  BY <1>2, <1>3, <1>4, <1>6, <1>7, <1>8

\* CommitResult keeps the worker in agreement with the tables.
LEMMA CommitResultInv ==
  ASSUME WorkerInv, CommitResult
  PROVE  WorkerInv'
<1>1. TypeOK'
  BY CommitResultTypeOK DEF WorkerInv
<1>2. Sizes'
  BY ResultRows DEF WorkerInv, Sizes, CommitResult
<1>3. InHand
  BY DEF CommitResult, InHand
<1>4. \A snap \in batch : Held(snap)'
  BY <1>3, ResultRows DEF WorkerInv, Claims, Held
<1>5. Claims'
  BY <1>4 DEF WorkerInv, Claims, Held, InHand, CommitResult, AfterOne
<1> QED  BY <1>1, <1>2, <1>5 DEF WorkerInv

\* Abort keeps the worker in agreement with the tables.
LEMMA AbortInv ==
  ASSUME WorkerInv, Abort, faults' \in Nat
  PROVE  WorkerInv'
<1>1. TypeOK'
  BY AbortTypeOK DEF WorkerInv
<1>2. Sizes'
  BY DEF WorkerInv, Sizes, Abort, tables
<1>3. Claims'
  BY DEF Claims, InHand, Abort
<1> QED  BY <1>1, <1>2, <1>3 DEF WorkerInv

\* Every step of the pipeline keeps the agreement of the worker with the tables.
LEMMA WorkerInvStep == WorkerInv /\ [Next]_vars => WorkerInv'
<1> SUFFICES ASSUME WorkerInv, [Next]_vars  PROVE WorkerInv'
  OBVIOUS
<1>1. CASE \E kind \in EventKinds : Emit(kind)
  BY <1>1, EmitInv
<1>2. CASE ExpandOutboxBatch
  BY <1>2, ExpandOutboxBatchInv
<1>3. CASE \E o \in rows : FanoutOutboxRow(o)
  BY <1>3, FanoutOutboxRowInv
<1>4. CASE ExpandCommit
  BY <1>4, ExpandCommitInv
<1>5. CASE DeliverDueBatch
  BY <1>5, DeliverDueBatchInv
<1>6. CASE \E snap \in batch :
         DeliveryRequest(snap) \/ DeliveryRequestRefused(snap) \/ DeliveryRequestDbError(snap)
  <2>1. PICK snap \in batch :
          DeliveryRequest(snap) \/ DeliveryRequestRefused(snap) \/ DeliveryRequestDbError(snap)
    BY <1>6
  <2>2. faults' \in Nat
    BY <2>1 DEF DeliveryRequest, DeliveryRequestRefused, DeliveryRequestDbError, WorkerInv, TypeOK
  <2>3. \E where \in {"send", "persist"}, r \in Results : Take(snap, where, r)
    BY <2>1 DEF DeliveryRequest, DeliveryRequestRefused, DeliveryRequestDbError, Results
  <2> QED  BY <2>2, <2>3, TakeInv
<1>7. CASE \E result \in Results : Deliver(result)
  BY <1>7, DeliverInv
<1>8. CASE Persist
  BY <1>8, PersistInv
<1>9. CASE CommitResult
  BY <1>9, CommitResultInv
<1>10. CASE CommitConflict \/ TickFails
  <2>1. Abort /\ faults' \in Nat
    BY <1>10 DEF CommitConflict, TickFails, WorkerInv, TypeOK
  <2> QED  BY <2>1, AbortInv
<1>11. CASE \E d \in DOMAIN delivery : BackoffElapses(d)
  BY <1>11, BackoffElapsesInv
<1>12. CASE \E d \in DOMAIN delivery : Redeliver(d)
  BY <1>12, RedeliverInv
<1>13. CASE Configure
  BY <1>13, ConfigureInv
<1>14. CASE UNCHANGED vars
  BY <1>14 DEF vars, tables, worker, ghosts, WorkerInv, TypeOK, Sizes, Claims, InHand, Held, EndpointOf
<1> QED
  BY <1>1, <1>2, <1>3, <1>4, <1>5, <1>6, <1>7, <1>8, <1>9, <1>10, <1>11, <1>12, <1>13, <1>14
  DEF Next, RunOnce, Faults, Time, Operators, Configure

\* In every reachable state the tables and the worker's memory are well typed
\* and agree: the claimed snapshots are those of rows still pending or failed.
THEOREM WorkerAgrees == Spec => []WorkerInv
<1>1. Init => WorkerInv
  BY InitTypeOK DEF Init, WorkerInv, Sizes, Claims, InHand
<1> QED  BY <1>1, WorkerInvStep, PTL DEF Spec

\* Type correctness of the tables and of the worker's memory.
THEOREM TypeCorrect == Spec => []TypeOK
<1>1. WorkerInv => TypeOK
  BY DEF WorkerInv
<1> QED  BY <1>1, WorkerAgrees, PTL

----------------------------------------------------------------------------
(* A settled delivery is reopened by an operator only.                     *)

\* The four actions that write the delivery tables.
LEMMA DeliveryWriters ==
  ASSUME [Next]_vars
  PROVE  \/ ExpandCommit
         \/ CommitResult
         \/ \E d \in DOMAIN delivery : BackoffElapses(d)
         \/ \E d \in DOMAIN delivery : Redeliver(d)
         \/ UNCHANGED <<delivery, history, manual>>
  BY DEF Next, RunOnce, Faults, Time, Operators, vars, tables, worker, ghosts, Emit, ExpandOutboxBatch,
     FanoutOutboxRow, DeliverDueBatch, DeliveryRequest, DeliveryRequestRefused, DeliveryRequestDbError,
     Take, Deliver, Persist, CommitConflict, TickFails, Abort, FailingAgesOut, CreateWebhookEndpoint,
     UpdateWebhookEndpoint, DeleteWebhookEndpoint, CreateSubscription, InsertSubscription, DeleteSubscription

Reopened(d) ==
  delivery[d].status \in {"sent", "dead"} /\ delivery'[d] # delivery[d] =>
    /\ delivery'[d].status = "pending"
    /\ delivery'[d].attempt = delivery[d].attempt
    /\ manual'[d] = manual[d] + 1

\* No snapshot held by the worker, however old, overwrites a settled delivery:
\* only the redelivery endpoint takes it out of sent or dead.
THEOREM SettledIsSettled == Spec => SettledStaysSettled
<1>1. WorkerInv /\ [Next]_vars => \A d \in DOMAIN delivery : Reopened(d)
  <2> SUFFICES ASSUME WorkerInv, [Next]_vars, NEW d \in DOMAIN delivery  PROVE Reopened(d)
    OBVIOUS
  <2>0. d \in 1..Len(delivery) /\ delivery[d] \in DeliveryRow /\ DOMAIN manual = DOMAIN delivery
    BY DEF WorkerInv, TypeOK, Sizes
  <2>1. CASE ExpandCommit
    <3>1. Len(staged) \in Nat
      BY DEF WorkerInv, TypeOK
    <3> QED  BY <2>0, <2>1, <3>1, CommittedRows DEF WorkerInv, Reopened
  <2>2. CASE CommitResult
    <3>1. delivery[job.id].status \in {"pending", "failed"}
      BY <2>2 DEF WorkerInv, Claims, Held, InHand, CommitResult
    <3> QED  BY <2>2, <3>1, ResultRows DEF Reopened
  <2>3. CASE \E x \in DOMAIN delivery : BackoffElapses(x)
    BY <2>3 DEF BackoffElapses, Reopened
  <2>4. CASE \E x \in DOMAIN delivery : Redeliver(x)
    <3>1. PICK x \in DOMAIN delivery : Redeliver(x)
      BY <2>4
    <3>2. CASE x = d
      BY <2>0, <3>1, <3>2 DEF Redeliver, Reopened, DeliveryRow
    <3>3. CASE x # d
      BY <3>1, <3>3 DEF Redeliver, Reopened
    <3> QED  BY <3>2, <3>3
  <2>5. CASE UNCHANGED <<delivery, history, manual>>
    BY <2>5 DEF Reopened
  <2> QED  BY <2>1, <2>2, <2>3, <2>4, <2>5, DeliveryWriters
<1>2. WorkerInv /\ [Next]_vars => 
        [\A d \in DOMAIN delivery :
           delivery[d].status \in {"sent", "dead"} /\ delivery'[d] # delivery[d] =>
             /\ delivery'[d].status = "pending"
             /\ delivery'[d].attempt = delivery[d].attempt
             /\ manual'[d] = manual[d] + 1]_vars
  BY <1>1 DEF Reopened
<1> QED  BY <1>2, WorkerAgrees, PTL DEF Spec, SettledStaysSettled

----------------------------------------------------------------------------
(* Fan-out happens once. The open expansion works on pending events only,  *)
(* which have no delivery yet, and inserts at most one row per pair.       *)

PendingIn(S) == \A o \in S : o \in DOMAIN outbox /\ outbox[o].status = "pending"

FanoutInv ==
  /\ FanoutOnce
  /\ \A d \in DOMAIN delivery :
       delivery[d].event \in DOMAIN outbox /\ outbox[delivery[d].event].status = "dispatched"
  /\ pc # "expand" => rows = {} /\ staged = <<>> /\ done = {}
  /\ PendingIn(rows) /\ PendingIn(done) /\ rows \cap done = {}
  /\ \A i \in DOMAIN staged :
       staged[i].event \in done /\ staged[i].status = "pending" /\ staged[i].attempt = 0
  /\ \A i, j \in DOMAIN staged :
       staged[i].event = staged[j].event /\ staged[i].sub = staged[j].sub => i = j

\* Steps outside the expansion only touch columns it does not look at.
LEMMA FanoutFrame ==
  ASSUME FanoutInv, UNCHANGED <<outbox, rows, staged, done>>,
         pc' = "expand" <=> pc = "expand",
         DOMAIN delivery' = DOMAIN delivery,
         \A d \in DOMAIN delivery :
           delivery'[d].event = delivery[d].event /\ delivery'[d].sub = delivery[d].sub
  PROVE  FanoutInv'
  BY DEF FanoutInv, FanoutOnce, PendingIn

\* Opening the expansion transaction keeps the fan-out exact.
LEMMA FanoutExpandBegins ==
  ASSUME FanoutInv, ExpandOutboxBatch
  PROVE  FanoutInv'
<1> DEFINE pending == {o \in DOMAIN outbox : outbox[o].status = "pending"}
<1>1. rows' \subseteq pending
  BY OldestIsSubset DEF ExpandOutboxBatch
<1>2. staged' = <<>> /\ done' = {} /\ pc' = "expand" /\ UNCHANGED <<outbox, delivery>>
  BY DEF FanoutInv, ExpandOutboxBatch, tables
<1> QED  BY <1>1, <1>2 DEF FanoutInv, FanoutOnce, PendingIn

\* Fanning one outbox row out keeps the fan-out exact.
LEMMA FanoutRow ==
  ASSUME TypeOK, FanoutInv, NEW o \in rows, FanoutOutboxRow(o)
  PROVE  FanoutInv'
<1> DEFINE M == {s \in Subs : Matches(s, o)}
<1>1. PICK subs \in SetToSeqs(M) :
        staged' = staged \o [i \in DOMAIN subs |-> NewDelivery(o, subs[i])]
  BY DEF FanoutOutboxRow
<1> DEFINE new == [i \in DOMAIN subs |-> NewDelivery(o, subs[i])]
<1>2. subs \in Seq(Subs) /\ \A i, j \in DOMAIN subs : i # j => subs[i] # subs[j]
  <2>1. M \in SUBSET Subs
    OBVIOUS
  <2> HIDE DEF M
  <2> QED  BY <1>1, <2>1, OrdersAreSeqs
<1>3. new \in [DOMAIN subs -> DeliveryRow]
  <2>1. o \in Nat /\ \A i \in DOMAIN subs : subs[i] \in Subs
    BY <1>2 DEF TypeOK
  <2> QED  BY <2>1 DEF NewDelivery, DeliveryRow
<1>4. \A i \in DOMAIN subs : /\ new[i].event = o /\ new[i].sub = subs[i]
                             /\ new[i].status = "pending" /\ new[i].attempt = 0
  BY DEF NewDelivery
<1>5. staged' = staged \o new
  BY <1>1
<1> HIDE DEF new, M
<1>6. new \in Seq(DeliveryRow) /\ Len(new) = Len(subs) /\ DOMAIN new = DOMAIN subs
  BY <1>2, <1>3, RowwiseSeq
<1>7. staged \in Seq(DeliveryRow)
  BY DEF TypeOK
<1>8. /\ DOMAIN staged' = 1..(Len(staged) + Len(new))
      /\ \A i \in DOMAIN staged' :
           staged'[i] = IF i <= Len(staged) THEN staged[i] ELSE new[i - Len(staged)]
  <2>1. DOMAIN (staged \o new) = 1..(Len(staged) + Len(new))
    BY ONLY <1>6, <1>7, ConcatRows, ZenonT(30)
  <2>2. \A i \in 1..(Len(staged) + Len(new)) :
          (staged \o new)[i] = IF i <= Len(staged) THEN staged[i] ELSE new[i - Len(staged)]
    BY ONLY <1>6, <1>7, ConcatRows
  <2> QED  BY ONLY <1>5, <2>1, <2>2
<1>9. /\ Len(staged) \in Nat /\ DOMAIN staged = 1..Len(staged)
      /\ Len(new) \in Nat /\ DOMAIN new = 1..Len(new)
  BY <1>6, <1>7
<1>10. \A i \in DOMAIN staged' :
         \/ i \in DOMAIN staged /\ staged'[i] = staged[i]
         \/ i > Len(staged) /\ i - Len(staged) \in DOMAIN subs /\ staged'[i] = new[i - Len(staged)]
  BY <1>6, <1>8, <1>9
<1>11. o \notin done /\ done' = done \cup {o} /\ rows' = rows \ {o} /\ pc = "expand" /\ pc' = "expand"
  BY DEF FanoutInv, FanoutOutboxRow
<1>12. \A i \in DOMAIN staged' :
         staged'[i].event \in done' /\ staged'[i].status = "pending" /\ staged'[i].attempt = 0
  BY <1>4, <1>10, <1>11 DEF FanoutInv
<1>13. ASSUME NEW i \in DOMAIN staged', NEW j \in DOMAIN staged',
              staged'[i].event = staged'[j].event, staged'[i].sub = staged'[j].sub
       PROVE  i = j
  <2>1. CASE i \in DOMAIN staged /\ j \in DOMAIN staged
    BY <1>8, <1>9, <1>13, <2>1 DEF FanoutInv
  <2>2. CASE i \notin DOMAIN staged /\ j \notin DOMAIN staged
    <3>1. /\ i - Len(staged) \in DOMAIN subs /\ staged'[i] = new[i - Len(staged)]
          /\ j - Len(staged) \in DOMAIN subs /\ staged'[j] = new[j - Len(staged)]
      BY <1>10, <2>2
    <3>2. subs[i - Len(staged)] = subs[j - Len(staged)]
      BY <1>4, <1>13, <3>1
    <3>3. i - Len(staged) = j - Len(staged)
      BY <1>2, <3>1, <3>2
    <3> QED  BY <1>8, <1>9, <3>3
  <2>3. CASE i \in DOMAIN staged /\ j \notin DOMAIN staged
    BY <1>4, <1>8, <1>9, <1>10, <1>11, <1>13, <2>3 DEF FanoutInv
  <2>4. CASE i \notin DOMAIN staged /\ j \in DOMAIN staged
    BY <1>4, <1>8, <1>9, <1>10, <1>11, <1>13, <2>4 DEF FanoutInv
  <2> QED  BY <2>1, <2>2, <2>3, <2>4
<1>14. PendingIn(rows') /\ PendingIn(done') /\ rows' \cap done' = {}
  BY <1>11 DEF FanoutInv, PendingIn
<1> QED  BY <1>11, <1>12, <1>13, <1>14 DEF FanoutInv, FanoutOnce, PendingIn, FanoutOutboxRow, tables

\* Committing the expansion keeps the fan-out exact.
LEMMA FanoutCommits ==
  ASSUME WorkerInv, FanoutInv, ExpandCommit
  PROVE  FanoutInv'
<1>1. /\ DOMAIN delivery' = 1..(Len(delivery) + Len(staged))
      /\ \A d \in DOMAIN delivery' :
           delivery'[d] = IF d <= Len(delivery) THEN delivery[d] ELSE staged[d - Len(delivery)]
  BY CommittedRows DEF WorkerInv
<1>2. /\ Len(staged) \in Nat /\ DOMAIN staged = 1..Len(staged)
      /\ Len(delivery) \in Nat /\ DOMAIN delivery = 1..Len(delivery)
  BY DEF WorkerInv, TypeOK
<1>3. \A d \in DOMAIN delivery' :
        \/ d \in DOMAIN delivery /\ delivery'[d] = delivery[d]
        \/ d > Len(delivery) /\ d - Len(delivery) \in DOMAIN staged /\ delivery'[d] = staged[d - Len(delivery)]
  BY <1>1, <1>2
<1>4. DOMAIN outbox' = DOMAIN outbox
  BY DEF ExpandCommit
<1>5. \A o \in DOMAIN outbox : o \in done => outbox'[o].status = "dispatched"
  <2>1. \A o \in DOMAIN outbox : outbox[o] \in OutboxRow
    BY RowIds DEF WorkerInv, TypeOK
  <2> QED  BY <2>1 DEF ExpandCommit, OutboxRow
<1>6. \A o \in DOMAIN outbox : outbox[o].status = "dispatched" => outbox'[o].status = "dispatched"
  BY DEF ExpandCommit, FanoutInv, PendingIn
<1>7. \A d \in DOMAIN delivery' :
        delivery'[d].event \in DOMAIN outbox' /\ outbox'[delivery'[d].event].status = "dispatched"
  BY <1>3, <1>4, <1>5, <1>6 DEF FanoutInv, PendingIn
<1>8. ASSUME NEW d1 \in DOMAIN delivery', NEW d2 \in DOMAIN delivery',
             delivery'[d1].event = delivery'[d2].event, delivery'[d1].sub = delivery'[d2].sub
      PROVE  d1 = d2
  <2>1. CASE d1 \in DOMAIN delivery /\ d2 \in DOMAIN delivery
    BY <1>1, <1>2, <1>8, <2>1 DEF FanoutInv, FanoutOnce
  <2>2. CASE d1 \notin DOMAIN delivery /\ d2 \notin DOMAIN delivery
    <3>1. d1 - Len(delivery) = d2 - Len(delivery)
      BY <1>3, <1>8, <2>2 DEF FanoutInv
    <3> QED  BY <1>1, <1>2, <3>1
  <2>3. CASE d1 \in DOMAIN delivery /\ d2 \notin DOMAIN delivery
    BY <1>1, <1>2, <1>3, <1>8, <2>3 DEF FanoutInv, PendingIn
  <2>4. CASE d1 \notin DOMAIN delivery /\ d2 \in DOMAIN delivery
    BY <1>1, <1>2, <1>3, <1>8, <2>4 DEF FanoutInv, PendingIn
  <2> QED  BY <2>1, <2>2, <2>3, <2>4
<1>9. rows' = {} /\ staged' = <<>> /\ done' = {}
  BY DEF ExpandCommit
<1> QED  BY <1>7, <1>8, <1>9 DEF FanoutInv, FanoutOnce, PendingIn

\* Every step keeps the fan-out exact.
LEMMA FanoutStep ==
  ASSUME WorkerInv, FanoutInv, [Next]_vars
  PROVE  FanoutInv'
<1>1. CASE \E kind \in EventKinds : Emit(kind)
  <2>1. outbox \in Seq(OutboxRow)
    BY DEF WorkerInv, TypeOK
  <2>2. \A o \in DOMAIN outbox : o \in DOMAIN outbox' /\ outbox'[o] = outbox[o]
    BY <1>1, <2>1 DEF Emit
  <2>3. UNCHANGED <<delivery, pc, rows, staged, done>>
    BY <1>1 DEF Emit, worker
  <2> QED  BY <2>2, <2>3 DEF FanoutInv, FanoutOnce, PendingIn
<1>2. CASE ExpandOutboxBatch
  BY <1>2, FanoutExpandBegins
<1>3. CASE \E o \in rows : FanoutOutboxRow(o)
  BY <1>3, FanoutRow DEF WorkerInv
<1>4. CASE ExpandCommit
  BY <1>4, FanoutCommits
<1>5. CASE \/ DeliverDueBatch \/ Persist
           \/ \E result \in Results : Deliver(result)
           \/ \E snap \in batch :
                DeliveryRequest(snap) \/ DeliveryRequestRefused(snap) \/ DeliveryRequestDbError(snap)
  <2>1. UNCHANGED <<outbox, delivery, rows, staged, done>> /\ pc # "expand" /\ pc' # "expand"
    BY <1>5 DEF DeliverDueBatch, Persist, Deliver, DeliveryRequest, DeliveryRequestRefused,
                DeliveryRequestDbError, Take, tables
  <2> QED  BY <2>1, FanoutFrame
<1>6. CASE CommitResult
  <2>1. delivery[job.id] \in DeliveryRow
    BY <1>6, RowIds, ResultRows DEF WorkerInv, TypeOK
  <2>2. Mark(delivery[job.id]).event = delivery[job.id].event /\ Mark(delivery[job.id]).sub = delivery[job.id].sub
    BY <2>1 DEF Mark, DeliveryRow
  <2>3. UNCHANGED <<outbox, rows, staged, done>> /\ pc # "expand" /\ pc' # "expand"
    BY <1>6 DEF CommitResult, AfterOne
  <2> QED  BY <1>6, <2>2, <2>3, ResultRows, FanoutFrame
<1>7. CASE CommitConflict \/ TickFails
  BY <1>7 DEF CommitConflict, TickFails, Abort, tables, FanoutInv, FanoutOnce, PendingIn
<1>8. CASE \E d \in DOMAIN delivery : BackoffElapses(d) \/ Redeliver(d)
  <2>1. PICK d \in DOMAIN delivery : BackoffElapses(d) \/ Redeliver(d)
    BY <1>8
  <2>2. delivery[d] \in DeliveryRow
    BY RowIds DEF WorkerInv, TypeOK
  <2>3. DOMAIN delivery' = DOMAIN delivery /\ UNCHANGED <<outbox, pc, rows, staged, done>>
    BY <2>1 DEF BackoffElapses, Redeliver, worker
  <2>4. \A x \in DOMAIN delivery :
          delivery'[x].event = delivery[x].event /\ delivery'[x].sub = delivery[x].sub
    BY <2>1, <2>2 DEF BackoffElapses, Redeliver, DeliveryRow
  <2> QED  BY <2>3, <2>4, FanoutFrame
<1>9. CASE Configure \/ UNCHANGED vars
  <2>1. UNCHANGED <<outbox, delivery, pc, rows, staged, done>>
    BY <1>9 DEF Configure, FailingAgesOut, CreateWebhookEndpoint, DeleteWebhookEndpoint, UpdateWebhookEndpoint,
                CreateSubscription, InsertSubscription, DeleteSubscription, vars, tables, worker
  <2> QED  BY <2>1, FanoutFrame
<1> QED
  BY <1>1, <1>2, <1>3, <1>4, <1>5, <1>6, <1>7, <1>8, <1>9
  DEF Next, RunOnce, Faults, Time, Operators, Configure

\* An event is fanned out once, to one delivery per subscription, however many
\* times the expansion transaction is rolled back and run again.
THEOREM FanoutIsOnce == Spec => []FanoutOnce
<1>1. Init => FanoutInv
  BY DEF Init, FanoutInv, FanoutOnce, PendingIn
<1>2. WorkerInv /\ FanoutInv /\ [Next]_vars => FanoutInv'
  BY FanoutStep
<1>3. FanoutInv => FanoutOnce
  BY DEF FanoutInv
<1> QED  BY <1>1, <1>2, <1>3, WorkerAgrees, PTL DEF Spec

----------------------------------------------------------------------------
(* The attempt history is exact and the retry budget is respected.         *)

\* A pending delivery that used up its budget has a redelivery to spend.
BudgetInv ==
  /\ BudgetRespected
  /\ \A d \in DOMAIN delivery :
       delivery[d].status = "pending" => delivery[d].attempt < MaxAttempts + manual[d]

RowOk(d) ==
  /\ Len(history[d]) = delivery[d].attempt
  /\ \A k \in DOMAIN history[d] : history[d][k].no = k
  /\ delivery[d].status # "pending" =>
       /\ delivery[d].attempt > 0
       /\ history[d][delivery[d].attempt].status = delivery[d].status
  /\ delivery[d].attempt <= MaxAttempts + manual[d]
  /\ delivery[d].status = "failed" => delivery[d].attempt < MaxAttempts
  /\ delivery[d].status = "pending" => delivery[d].attempt < MaxAttempts + manual[d]

\* The per-row form of the history and budget invariants is the invariants themselves.
LEMMA RowOkIsInv ==
  (\A d \in DOMAIN delivery : RowOk(d)) <=> HistoryIsExact /\ BudgetInv
  BY DEF RowOk, HistoryIsExact, BudgetInv, BudgetRespected

\* No step breaks the history or the budget of a delivery.
LEMMA RowOkStep ==
  ASSUME WorkerInv, FanoutInv, \A d \in DOMAIN delivery : RowOk(d), [Next]_vars
  PROVE  \A d \in DOMAIN delivery' : RowOk(d)'
<1>0. /\ \A d \in DOMAIN delivery : /\ delivery[d] \in DeliveryRow /\ d \in Nat
                                    /\ history[d] \in Seq(AttemptRow) /\ manual[d] \in Nat
      /\ DOMAIN history = DOMAIN delivery /\ DOMAIN manual = DOMAIN delivery
  BY RowIds DEF WorkerInv, TypeOK, Sizes
<1>1. CASE ExpandCommit
  <2>1. /\ DOMAIN delivery' = 1..(Len(delivery) + Len(staged))
        /\ \A d \in DOMAIN delivery' :
             /\ delivery'[d] = IF d <= Len(delivery) THEN delivery[d] ELSE staged[d - Len(delivery)]
             /\ history'[d] = IF d <= Len(delivery) THEN history[d] ELSE <<>>
             /\ manual'[d] = IF d <= Len(delivery) THEN manual[d] ELSE 0
    BY <1>1, CommittedRows DEF WorkerInv
  <2>2. /\ Len(staged) \in Nat /\ DOMAIN staged = 1..Len(staged)
        /\ Len(delivery) \in Nat /\ DOMAIN delivery = 1..Len(delivery)
    BY DEF WorkerInv, TypeOK
  <2> SUFFICES ASSUME NEW d \in DOMAIN delivery'  PROVE RowOk(d)'
    OBVIOUS
  <2>3. CASE d <= Len(delivery)
    BY <2>1, <2>2, <2>3 DEF RowOk
  <2>4. CASE ~(d <= Len(delivery))
    <3>1. d - Len(delivery) \in DOMAIN staged
      BY <2>1, <2>2, <2>4
    <3>2. delivery'[d].status = "pending" /\ delivery'[d].attempt = 0 /\ history'[d] = <<>> /\ manual'[d] = 0
      BY <2>1, <2>4, <3>1 DEF FanoutInv
    <3> QED  BY <3>2, NotificationsAssumption DEF RowOk
  <2> QED  BY <2>3, <2>4
<1>2. CASE CommitResult
  <2> SUFFICES ASSUME NEW d \in DOMAIN delivery  PROVE RowOk(d)'
    BY <1>2, ResultRows
  <2>1. UNCHANGED manual
    BY <1>2 DEF CommitResult
  <2>2. CASE d # job.id
    BY <1>2, <2>1, <2>2, ResultRows DEF RowOk
  <2>3. CASE d = job.id
    <3> DEFINE row == Mark(delivery[d])
               new == [no |-> job.attempt + 1, status |-> row.status]
    <3>1. InHand /\ job.attempt = delivery[d].attempt /\ delivery[d].status \in {"pending", "failed"}
      BY <1>2, <2>3 DEF CommitResult, InHand, WorkerInv, Claims, Held
    <3>2. row.attempt = job.attempt + 1 /\ row.status \in {"sent", "failed", "dead"}
      BY <2>3, <3>1, MarkedRow DEF WorkerInv
    <3>3. row.status = "failed" => job.attempt + 1 < MaxAttempts
      BY <1>0, <3>1, NotificationsAssumption DEF Mark, Exhausted, DeliveryRow
    <3>4. delivery'[d] = row /\ history'[d] = Append(history[d], new) /\ manual'[d] = manual[d]
      BY <1>2, <2>1, <2>3, ResultRows
    <3>5. Len(history[d]) = job.attempt /\ history[d] \in Seq(AttemptRow) /\ job.attempt \in Nat
      BY <1>0, <3>1 DEF RowOk, DeliveryRow
    <3>6. job.attempt + 1 <= MaxAttempts + manual[d]
      BY <1>0, <3>1, <3>5, NotificationsAssumption DEF RowOk
    <3>7. /\ Len(history'[d]) = job.attempt + 1
          /\ \A k \in 1..job.attempt : history'[d][k] = history[d][k]
          /\ history'[d][job.attempt + 1] = new
          /\ DOMAIN history'[d] = 1..(job.attempt + 1)
          /\ DOMAIN history[d] = 1..job.attempt
      BY <3>4, <3>5
    <3>8. new.no = job.attempt + 1 /\ new.status = row.status
      OBVIOUS
    <3> HIDE DEF row, new
    <3>9. \A k \in DOMAIN history'[d] : history'[d][k].no = k
      BY <3>5, <3>7, <3>8 DEF RowOk
    <3> QED  BY <3>2, <3>3, <3>4, <3>5, <3>6, <3>7, <3>8, <3>9 DEF RowOk
  <2> QED  BY <2>2, <2>3
<1>3. CASE \E x \in DOMAIN delivery : BackoffElapses(x)
  <2>1. PICK x \in DOMAIN delivery : BackoffElapses(x)
    BY <1>3
  <2>2. UNCHANGED <<history, manual>> /\ delivery' = [delivery EXCEPT ![x] = [delivery[x] EXCEPT !.due = TRUE]]
    BY <2>1 DEF BackoffElapses, ghosts
  <2>3. \A d \in DOMAIN delivery :
          delivery'[d].status = delivery[d].status /\ delivery'[d].attempt = delivery[d].attempt
    BY <1>0, <2>2 DEF DeliveryRow
  <2> QED  BY <2>2, <2>3 DEF RowOk
<1>4. CASE \E x \in DOMAIN delivery : Redeliver(x)
  <2>1. PICK x \in DOMAIN delivery : Redeliver(x)
    BY <1>4
  <2>2. /\ UNCHANGED history /\ DOMAIN delivery' = DOMAIN delivery
        /\ manual' = [manual EXCEPT ![x] = manual[x] + 1]
        /\ delivery' = [delivery EXCEPT ![x] = [delivery[x] EXCEPT !.status = "pending", !.due = FALSE]]
    BY <2>1 DEF Redeliver
  <2> SUFFICES ASSUME NEW d \in DOMAIN delivery  PROVE RowOk(d)'
    BY <2>2
  <2>3. CASE d # x
    BY <2>2, <2>3 DEF RowOk
  <2>4. CASE d = x
    <3>1. /\ delivery'[d].status = "pending" /\ delivery'[d].attempt = delivery[d].attempt
          /\ manual'[d] = manual[d] + 1 /\ delivery[d].attempt \in Nat /\ manual[d] \in Nat
      BY <1>0, <2>2, <2>4 DEF DeliveryRow
    <3> QED  BY <2>2, <3>1, NotificationsAssumption DEF RowOk
  <2> QED  BY <2>3, <2>4
<1>5. CASE UNCHANGED <<delivery, history, manual>>
  BY <1>5 DEF RowOk
<1> QED  BY <1>1, <1>2, <1>3, <1>4, <1>5, DeliveryWriters

\* The history is exact and the budget respected in every reachable state.
LEMMA RowOkAlways == Spec => [](HistoryIsExact /\ BudgetInv)
<1> DEFINE RowsOk == \A d \in DOMAIN delivery : RowOk(d)
<1>1. Init => WorkerInv /\ FanoutInv /\ RowsOk
  BY InitTypeOK DEF Init, WorkerInv, Sizes, Claims, InHand, FanoutInv, FanoutOnce, PendingIn
<1>2. WorkerInv /\ FanoutInv /\ RowsOk /\ [Next]_vars => (WorkerInv /\ FanoutInv /\ RowsOk)'
  BY WorkerInvStep, FanoutStep, RowOkStep
<1>3. RowsOk => HistoryIsExact /\ BudgetInv
  BY RowOkIsInv
<1> HIDE DEF RowsOk
<1> QED  BY <1>1, <1>2, <1>3, PTL DEF Spec

\* The attempt table is the gapless history of every delivery.
THEOREM HistoryExact == Spec => []HistoryIsExact
  BY RowOkAlways, PTL

\* Attempts beyond the budget are paid for by manual redeliveries, one each.
THEOREM BudgetKept == Spec => []BudgetRespected
<1>1. BudgetInv => BudgetRespected
  BY DEF BudgetInv
<1> QED  BY <1>1, RowOkAlways, PTL


----------------------------------------------------------------------------
(* Three statements of the repository that a race breaks, each as far as it *)
(* holds: the race named in the hypothesis is the only one that breaks it.  *)

\* The steps that neither write the deliveries nor begin or end a debt.
LEMMA OwedWriters ==
  ASSUME WorkerInv, [Next]_vars
  PROVE  \/ ExpandCommit
         \/ CommitResult
         \/ \E d \in DOMAIN delivery : BackoffElapses(d)
         \/ \E d \in DOMAIN delivery : Redeliver(d)
         \/ \E snap \in batch, where \in {"send", "persist"}, r \in Results : Take(snap, where, r)
         \/ UNCHANGED <<delivery, owed>> /\ (InHand' => InHand /\ job'.id = job.id)
<1>1. CASE \E snap \in batch :
        DeliveryRequest(snap) \/ DeliveryRequestRefused(snap) \/ DeliveryRequestDbError(snap)
  BY <1>1 DEF DeliveryRequest, DeliveryRequestRefused, DeliveryRequestDbError, Results
<1>2. CASE \/ Persist \/ \E result \in Results : Deliver(result)
  <2>1. UNCHANGED <<delivery, owed>> /\ InHand BY <1>2 DEF Persist, Deliver, tables, ghosts, InHand
  <2>2. job'.id = job.id BY <1>2 DEF Persist, Deliver, WorkerInv, TypeOK, Job
  <2> QED BY <2>1, <2>2
<1>3. CASE \/ ExpandOutboxBatch \/ DeliverDueBatch \/ CommitConflict \/ TickFails
           \/ \E o \in rows : FanoutOutboxRow(o)
  BY <1>3 DEF ExpandOutboxBatch, DeliverDueBatch, CommitConflict, TickFails, Abort, FanoutOutboxRow,
     tables, ghosts, InHand
<1>4. CASE Configure \/ (\E kind \in EventKinds : Emit(kind)) \/ UNCHANGED vars
  BY <1>4 DEF Configure, FailingAgesOut, CreateWebhookEndpoint, UpdateWebhookEndpoint, DeleteWebhookEndpoint,
     CreateSubscription, InsertSubscription, DeleteSubscription, Emit, vars, tables, worker, ghosts, InHand
<1> QED BY <1>1, <1>2, <1>3, <1>4 DEF Next, RunOnce, Faults, Time, Operators, Configure

\* A redelivery that comes while the worker has the delivery in hand.
RedeliversInHand == \E d \in DOMAIN delivery : Redeliver(d) /\ InHand /\ job.id = d

\* What is owed an attempt is not in hand: taking it up settles the debt.
OwedInv ==
  /\ owed \subseteq DOMAIN delivery
  /\ RedeliveryIsHonoured
  /\ InHand => job.id \notin owed

\* Only the commit of a result makes a delivery dead, and one taken up is not owed.
LEMMA OwedStep ==
  ASSUME WorkerInv, OwedInv, [Next]_vars, [~RedeliversInHand]_vars
  PROVE  OwedInv'
<1>0. /\ \A d \in DOMAIN delivery : delivery[d] \in DeliveryRow
      /\ Len(delivery) \in Nat /\ DOMAIN delivery = 1..Len(delivery)
      /\ Len(staged) \in Nat
  BY RowIds DEF WorkerInv, TypeOK
<1> USE DEF OwedInv, RedeliveryIsHonoured
<1>1. CASE ExpandCommit
  <2>1. /\ UNCHANGED owed /\ ~InHand'
        /\ \A d \in DOMAIN delivery : d \in DOMAIN delivery' /\ delivery'[d] = delivery[d]
    BY <1>0, <1>1, CommittedRows DEF ExpandCommit, InHand, WorkerInv
  <2> QED BY <2>1
<1>2. CASE CommitResult
  <2>1. UNCHANGED owed /\ InHand /\ ~InHand' BY <1>2 DEF CommitResult, AfterOne, InHand
  <2> QED BY <1>2, <2>1, ResultRows
<1>3. CASE \E d \in DOMAIN delivery : BackoffElapses(d)
  <2>1. UNCHANGED <<owed, pc, job>> /\ DOMAIN delivery' = DOMAIN delivery
    BY <1>3 DEF BackoffElapses, worker, ghosts
  <2>2. \A d \in DOMAIN delivery : delivery'[d].status = delivery[d].status
    BY <1>0, <1>3 DEF BackoffElapses, DeliveryRow
  <2> QED BY <2>1, <2>2 DEF InHand
<1>4. ASSUME NEW d \in DOMAIN delivery, Redeliver(d) PROVE OwedInv'
  <2>1. /\ owed' = owed \cup {d} /\ UNCHANGED <<pc, job>> /\ manual' = [manual EXCEPT ![d] = @ + 1]
        /\ delivery' = [delivery EXCEPT ![d] = [delivery[d] EXCEPT !.status = "pending", !.due = FALSE]]
    BY <1>4 DEF Redeliver, worker
  <2>2. ~(InHand /\ job.id = d)
    <3>1. CASE UNCHANGED vars
      <4>1. d \in DOMAIN manual /\ manual[d] \in Nat BY <1>0 DEF WorkerInv, TypeOK, Sizes
      <4>2. manual' = manual BY <3>1 DEF vars, ghosts
      <4>3. manual'[d] = manual[d] + 1 BY <2>1, <4>1
      <4> QED BY <4>1, <4>2, <4>3
    <3>2. CASE ~UNCHANGED vars BY <1>4, <3>2 DEF RedeliversInHand
    <3> QED BY <3>1, <3>2
  <2>3. /\ delivery'[d].status = "pending" /\ DOMAIN delivery' = DOMAIN delivery
        /\ \A x \in DOMAIN delivery : x # d => delivery'[x] = delivery[x]
    BY <1>0, <2>1 DEF DeliveryRow
  <2> QED BY <2>1, <2>2, <2>3 DEF InHand
<1>5. ASSUME NEW snap \in batch, NEW where \in {"send", "persist"}, NEW r \in Results, Take(snap, where, r)
      PROVE  OwedInv'
  <2>1. owed' = owed \ {snap.id} /\ UNCHANGED delivery /\ job'.id = snap.id
    BY <1>5 DEF Take, tables, NoJob
  <2> QED BY <2>1
<1>6. CASE UNCHANGED <<delivery, owed>> /\ (InHand' => InHand /\ job'.id = job.id)
  BY <1>6
<1> QED BY <1>1, <1>2, <1>3, <1>4, <1>5, <1>6, OwedWriters

\* A manual redelivery leads to another attempt before the delivery is dead,
\* save one that comes while the worker has that delivery in hand, whose
\* commit overwrites it (routes/notifications.rs, redeliver).
THEOREM RedeliveryAtRestIsHonoured ==
  Spec /\ [][~RedeliversInHand]_vars => []RedeliveryIsHonoured
<1>1. Init => OwedInv BY DEF Init, OwedInv, RedeliveryIsHonoured, InHand
<1>2. OwedInv => RedeliveryIsHonoured BY DEF OwedInv
<1> QED BY <1>1, <1>2, OwedStep, WorkerAgrees, PTL DEF Spec

\* An endpoint is deleted between the check and the insert of a subscription to it.
DeletesUnderCreation ==
  \E ep \in Endpoints, s \in Subs :
    DeleteWebhookEndpoint(ep) /\ SubEndpoint[s] = ep /\ subscription[s] = "creating"

\* A subscription that is there, or about to be, has its endpoint.
AnchoredInv ==
  \A s \in Subs : subscription[s] \in {"creating", "live"} /\ SubEndpoint[s] # NoEndpoint =>
    endpoint[SubEndpoint[s]].state = "live"

\* The worker keeps the state of every endpoint, and touches no subscription.
LEMMA WorkerKeepsAnchors ==
  ASSUME WorkerInv, [Next]_vars
  PROVE  Configure \/ (UNCHANGED subscription /\ \A ep \in Endpoints : endpoint'[ep].state = endpoint[ep].state)
<1>1. CASE CommitResult
  <2>1. UNCHANGED subscription /\ endpoint \in [Endpoints -> EndpointRow]
    BY <1>1 DEF CommitResult, WorkerInv, TypeOK
  <2>2. CASE UNCHANGED endpoint BY <2>1, <2>2
  <2>3. CASE UpdateEndpointHealth(EndpointOf(job.id))
    <3>1. \A row \in EndpointRow : HealthUpdate(row).state = row.state BY DEF HealthUpdate, EndpointRow
    <3>2. endpoint' = [endpoint EXCEPT ![EndpointOf(job.id)] = HealthUpdate(endpoint[EndpointOf(job.id)])]
      BY <2>3 DEF UpdateEndpointHealth
    <3> QED BY <2>1, <3>1, <3>2
  <2> QED BY <1>1, <2>2, <2>3 DEF CommitResult
<1>2. CASE ~CommitResult /\ ~Configure
  BY <1>2 DEF Next, RunOnce, Faults, Time, Operators, Configure, vars, tables, worker, ghosts, Emit,
     ExpandOutboxBatch, FanoutOutboxRow, ExpandCommit, DeliverDueBatch, DeliveryRequest,
     DeliveryRequestRefused, DeliveryRequestDbError, Take, Deliver, Persist, CommitConflict, TickFails,
     Abort, BackoffElapses, Redeliver
<1> QED BY <1>1, <1>2

\* A deletion takes the subscriptions with it that are already there.
LEMMA AnchoredStep ==
  ASSUME WorkerInv, AnchoredInv, [Next]_vars, [~DeletesUnderCreation]_vars
  PROVE  AnchoredInv'
<1>0. /\ endpoint \in [Endpoints -> EndpointRow] /\ subscription \in [Subs -> SubStates]
      /\ \A s \in Subs : SubEndpoint[s] \in Endpoints \cup {NoEndpoint}
  BY NotificationsAssumption DEF WorkerInv, TypeOK
<1>1. CASE UNCHANGED subscription /\ \A ep \in Endpoints : endpoint'[ep].state = endpoint[ep].state
  BY <1>0, <1>1 DEF AnchoredInv
<1>2. ASSUME NEW ep \in Endpoints, DeleteWebhookEndpoint(ep) PROVE AnchoredInv'
  <2>1. CASE UNCHANGED vars BY <2>1 DEF vars, tables, AnchoredInv
  <2>2. CASE ~UNCHANGED vars
    <3>1. \A s \in Subs : SubEndpoint[s] = ep => subscription'[s] \notin {"creating", "live"}
      BY <1>0, <1>2, <2>2 DEF DeletesUnderCreation, DeleteWebhookEndpoint
    <3>2. \A s \in Subs : subscription'[s] \in {"creating", "live"} => subscription'[s] = subscription[s]
      BY <1>0, <1>2 DEF DeleteWebhookEndpoint
    <3>3. \A x \in Endpoints : x # ep => endpoint'[x] = endpoint[x]
      BY <1>2 DEF DeleteWebhookEndpoint
    <3> QED BY <1>0, <3>1, <3>2, <3>3 DEF AnchoredInv
  <2> QED BY <2>1, <2>2
<1>3. ASSUME NEW ep \in Endpoints, NEW disabled \in BOOLEAN,
             FailingAgesOut(ep) \/ CreateWebhookEndpoint(ep) \/ UpdateWebhookEndpoint(ep, disabled)
      PROVE  AnchoredInv'
  <2>1. UNCHANGED subscription
    BY <1>3 DEF FailingAgesOut, CreateWebhookEndpoint, UpdateWebhookEndpoint
  <2>2. endpoint[ep] \in EndpointRow /\ \A x \in Endpoints : x # ep => endpoint'[x] = endpoint[x]
    BY <1>0, <1>3 DEF FailingAgesOut, CreateWebhookEndpoint, UpdateWebhookEndpoint
  <2>3. CASE CreateWebhookEndpoint(ep)
    <3>1. endpoint' = [endpoint EXCEPT ![ep] = [endpoint[ep] EXCEPT !.state = "live"]]
      BY <2>3 DEF CreateWebhookEndpoint
    <3>2. endpoint'[ep].state = "live" BY <1>0, <2>2, <3>1 DEF EndpointRow
    <3> QED BY <1>0, <2>1, <2>2, <3>2 DEF AnchoredInv
  <2>4. CASE FailingAgesOut(ep) \/ UpdateWebhookEndpoint(ep, disabled)
    <3>1. \/ endpoint' = [endpoint EXCEPT ![ep] = [endpoint[ep] EXCEPT !.failing = "old"]]
          \/ endpoint' = [endpoint EXCEPT ![ep] =
                           [endpoint[ep] EXCEPT !.disabled = disabled, !.failing = "none"]]
      BY <2>4 DEF FailingAgesOut, UpdateWebhookEndpoint
    <3>2. endpoint'[ep].state = endpoint[ep].state BY <1>0, <2>2, <3>1 DEF EndpointRow
    <3> QED BY <1>0, <2>1, <2>2, <3>2 DEF AnchoredInv
  <2> QED BY <1>3, <2>3, <2>4
<1>4. ASSUME NEW s \in Subs, CreateSubscription(s) \/ InsertSubscription(s) \/ DeleteSubscription(s)
      PROVE  AnchoredInv'
  BY <1>0, <1>4 DEF CreateSubscription, InsertSubscription, DeleteSubscription, AnchoredInv, IsLive
<1> QED BY <1>1, <1>2, <1>3, <1>4, WorkerKeepsAnchors DEF Configure

\* A subscription has its endpoint, save one that was checked before and
\* inserted after a deletion (routes/notifications.rs, create_subscription).
THEOREM SubscriptionsAreAnchored ==
  Spec /\ [][~DeletesUnderCreation]_vars => []NoDanglingSubscription
<1>1. Init => AnchoredInv BY DEF Init, AnchoredInv
<1>2. AnchoredInv => NoDanglingSubscription BY DEF AnchoredInv, NoDanglingSubscription
<1> QED BY <1>1, <1>2, AnchoredStep, WorkerAgrees, PTL DEF Spec

\* An operator disables an endpoint while an attempt to it is in hand.
DisablesInHand ==
  \E ep \in Endpoints : UpdateWebhookEndpoint(ep, TRUE) /\ InHand /\ EndpointOf(job.id) = ep

\* Whoever but the worker disabled it, and an attempt that will report to it.
Stopped(ep) == endpoint[ep].disabled /\ disabledBy[ep] # "worker"
Reports(ep) == InHand /\ (pc = "send" \/ job.health) /\ EndpointOf(job.id) = ep

\* A stopped endpoint has no streak, and nothing in hand can start one.
StoppedInv == \A ep \in Endpoints : Stopped(ep) => endpoint[ep].failing = "none" /\ ~Reports(ep)

\* A step that records no result, stops no endpoint and takes up no delivery.
LEMMA StoppedFrame ==
  ASSUME StoppedInv, UNCHANGED disabledBy,
         \A ep \in Endpoints :
           /\ endpoint'[ep].disabled => endpoint[ep].disabled
           /\ endpoint[ep].failing = "none" => endpoint'[ep].failing = "none"
           /\ Reports(ep)' => Reports(ep)
  PROVE  StoppedInv'
BY DEF StoppedInv, Stopped

\* What is in hand stays what it was, or is put aside.
LEMMA ReportsFrame ==
  ASSUME WorkerInv, KeepsRows,
         InHand' => /\ InHand /\ job'.id = job.id
                    /\ (pc' = "send" \/ job'.health) => (pc = "send" \/ job.health)
  PROVE  \A ep \in Endpoints : Reports(ep)' => Reports(ep)
<1>1. InHand => job.id \in DOMAIN delivery BY DEF WorkerInv, Claims, Held
<1>2. InHand' => EndpointOf(job.id)' = EndpointOf(job.id) BY <1>1 DEF EndpointOf, KeepsRows
<1> QED BY <1>2 DEF Reports

\* The worker disables in its own name, and starts no streak at a stopped endpoint.
LEMMA StoppedWrites ==
  ASSUME WorkerInv, StoppedInv, CommitResult
  PROVE  StoppedInv'
<1>1. pc = "commit" /\ InHand /\ ~InHand' BY DEF CommitResult, AfterOne, InHand
<1>2. \A ep \in Endpoints : ~Reports(ep)' BY <1>1 DEF Reports
<1>3. CASE ~ReportsHealth
  <2>1. UNCHANGED <<endpoint, disabledBy>> BY <1>3 DEF CommitResult
  <2> QED BY <1>2, <2>1 DEF StoppedInv, Stopped
<1>4. CASE ReportsHealth
  <2> DEFINE ep == EndpointOf(job.id)
             row == HealthUpdate(endpoint[ep])
  <2>1. ep \in Endpoints /\ Reports(ep)
    BY <1>1, <1>4, JobEndpoint DEF ReportsHealth, WorkerInv, Reports
  <2>2. endpoint \in [Endpoints -> EndpointRow] /\ DOMAIN disabledBy = Endpoints
    BY DEF WorkerInv, TypeOK
  <2>3. /\ endpoint' = [endpoint EXCEPT ![ep] = row]
        /\ disabledBy' = [disabledBy EXCEPT ![ep] = IF Disables THEN "worker" ELSE disabledBy[ep]]
    BY <1>4 DEF CommitResult, UpdateEndpointHealth
  <2>4. ~Stopped(ep) BY <2>1 DEF StoppedInv
  <2>5. endpoint[ep] \in EndpointRow BY <2>1, <2>2
  <2>6. row.disabled => Disables \/ endpoint[ep].disabled BY <2>5 DEF HealthUpdate, EndpointRow
  <2> HIDE DEF row, ep
  <2>7. ~(endpoint'[ep].disabled /\ disabledBy'[ep] # "worker")
    BY <2>1, <2>2, <2>3, <2>4, <2>6 DEF Stopped
  <2>8. \A x \in Endpoints : x # ep => endpoint'[x] = endpoint[x] /\ disabledBy'[x] = disabledBy[x]
    BY <2>2, <2>3
  <2> QED BY <1>2, <2>7, <2>8 DEF StoppedInv, Stopped
<1> QED BY <1>3, <1>4

\* What the worker takes in hand to send goes to an endpoint that is not disabled.
LEMMA StoppedTakes ==
  ASSUME WorkerInv, StoppedInv, NEW snap \in batch,
         DeliveryRequest(snap) \/ DeliveryRequestRefused(snap) \/ DeliveryRequestDbError(snap)
  PROVE  StoppedInv'
<1>1. UNCHANGED <<endpoint, disabledBy, delivery>> /\ job'.id = snap.id /\ job'.health = FALSE
  BY DEF DeliveryRequest, DeliveryRequestRefused, DeliveryRequestDbError, Take, tables, NoJob
<1>2. CASE DeliveryRequest(snap)
  <2>1. \A ep \in Endpoints : EndpointOf(snap.id) = ep => ~endpoint[ep].disabled
    BY <1>2, NotificationsAssumption DEF DeliveryRequest, Undeliverable
  <2> QED BY <1>1, <2>1 DEF StoppedInv, Stopped, Reports, EndpointOf
<1>3. CASE DeliveryRequestRefused(snap) \/ DeliveryRequestDbError(snap)
  <2>1. pc' = "persist" BY <1>3 DEF DeliveryRequestRefused, DeliveryRequestDbError, Take
  <2> QED BY <1>1, <2>1 DEF StoppedInv, Stopped, Reports
<1> QED BY <1>2, <1>3

\* The operators, and time: what they write is an endpoint with nothing in hand.
LEMMA StoppedConfigured ==
  ASSUME WorkerInv, StoppedInv, Configure, [~DisablesInHand]_vars
  PROVE  StoppedInv'
<1>0. endpoint \in [Endpoints -> EndpointRow] /\ DOMAIN disabledBy = Endpoints
  BY DEF WorkerInv, TypeOK
<1>1. UNCHANGED <<delivery, pc, job>>
  BY DEF Configure, FailingAgesOut, CreateWebhookEndpoint, DeleteWebhookEndpoint, UpdateWebhookEndpoint,
     CreateSubscription, InsertSubscription, DeleteSubscription, worker, ghosts
<1>2. \A ep \in Endpoints : Reports(ep)' => Reports(ep) BY <1>1 DEF Reports, InHand, EndpointOf
<1>3. ASSUME NEW ep \in Endpoints, NEW disabled \in BOOLEAN, UpdateWebhookEndpoint(ep, disabled)
      PROVE  StoppedInv'
  <2>1. CASE UNCHANGED vars BY <1>2, <2>1 DEF vars, tables, ghosts, StoppedInv, Stopped
  <2>2. CASE ~UNCHANGED vars
    <3>1. /\ endpoint' = [endpoint EXCEPT ![ep] = [endpoint[ep] EXCEPT !.disabled = disabled, !.failing = "none"]]
          /\ \A x \in Endpoints : x # ep => disabledBy'[x] = disabledBy[x]
      BY <1>0, <1>3 DEF UpdateWebhookEndpoint
    <3>2. endpoint[ep] \in EndpointRow BY <1>0
    <3>3. /\ endpoint'[ep].failing = "none" /\ endpoint'[ep].disabled = disabled
          /\ \A x \in Endpoints : x # ep => endpoint'[x] = endpoint[x]
      BY <1>0, <3>1, <3>2 DEF EndpointRow
    <3>4. disabled => ~Reports(ep) BY <1>3, <2>2 DEF DisablesInHand, Reports
    <3> QED BY <1>2, <3>1, <3>3, <3>4 DEF StoppedInv, Stopped
  <2> QED BY <2>1, <2>2
<1>4. ASSUME NEW ep \in Endpoints, FailingAgesOut(ep) PROVE StoppedInv'
  <2>1. UNCHANGED disabledBy /\ endpoint[ep].failing = "recent"
        /\ endpoint' = [endpoint EXCEPT ![ep] = [endpoint[ep] EXCEPT !.failing = "old"]]
    BY <1>4 DEF FailingAgesOut, ghosts
  <2>2. endpoint[ep] \in EndpointRow BY <1>0
  <2>3. /\ endpoint'[ep].disabled = endpoint[ep].disabled
        /\ \A x \in Endpoints : x # ep => endpoint'[x] = endpoint[x]
    BY <1>0, <2>1, <2>2 DEF EndpointRow
  <2> QED BY <1>2, <2>1, <2>3, StoppedFrame
<1>5. ASSUME NEW ep \in Endpoints, CreateWebhookEndpoint(ep) PROVE StoppedInv'
  <2>1. UNCHANGED disabledBy /\ endpoint' = [endpoint EXCEPT ![ep] = [endpoint[ep] EXCEPT !.state = "live"]]
    BY <1>5 DEF CreateWebhookEndpoint, ghosts
  <2>2. endpoint[ep] \in EndpointRow BY <1>0
  <2>3. /\ endpoint'[ep].disabled = endpoint[ep].disabled /\ endpoint'[ep].failing = endpoint[ep].failing
        /\ \A x \in Endpoints : x # ep => endpoint'[x] = endpoint[x]
    BY <1>0, <2>1, <2>2 DEF EndpointRow
  <2> QED BY <1>2, <2>1, <2>3, StoppedFrame
<1>6. ASSUME NEW ep \in Endpoints, DeleteWebhookEndpoint(ep) PROVE StoppedInv'
  <2>1. /\ UNCHANGED disabledBy /\ endpoint'[ep].disabled = FALSE /\ endpoint'[ep].failing = "none"
        /\ \A x \in Endpoints : x # ep => endpoint'[x] = endpoint[x]
    BY <1>0, <1>6 DEF DeleteWebhookEndpoint, NoRow, ghosts
  <2> QED BY <1>2, <2>1, StoppedFrame
<1>7. ASSUME NEW s \in Subs, CreateSubscription(s) \/ InsertSubscription(s) \/ DeleteSubscription(s)
      PROVE  StoppedInv'
  <2>1. UNCHANGED <<endpoint, disabledBy>>
    BY <1>7 DEF CreateSubscription, InsertSubscription, DeleteSubscription, ghosts
  <2> QED BY <1>2, <2>1 DEF StoppedInv, Stopped
<1> QED BY <1>3, <1>4, <1>5, <1>6, <1>7 DEF Configure

\* No step gives a stopped endpoint a streak.
LEMMA StoppedStep ==
  ASSUME WorkerInv, StoppedInv, [Next]_vars, [~DisablesInHand]_vars
  PROVE  StoppedInv'
<1>0. /\ \A d \in DOMAIN delivery : delivery[d] \in DeliveryRow
      /\ InHand => job.id \in DOMAIN delivery
      /\ job \in Job
  BY RowIds DEF WorkerInv, TypeOK, Claims, Held
<1>1. ASSUME UNCHANGED <<endpoint, disabledBy>>, KeepsRows,
             InHand' => /\ InHand /\ job'.id = job.id
                        /\ (pc' = "send" \/ job'.health) => (pc = "send" \/ job.health)
      PROVE  StoppedInv'
  BY <1>1, ReportsFrame DEF StoppedInv, Stopped
<1>2. CASE CommitResult BY <1>2, StoppedWrites
<1>3. ASSUME NEW snap \in batch,
             DeliveryRequest(snap) \/ DeliveryRequestRefused(snap) \/ DeliveryRequestDbError(snap)
      PROVE  StoppedInv'
  BY <1>3, StoppedTakes
<1>4. CASE Configure BY <1>4, StoppedConfigured
<1>5. CASE \/ ExpandOutboxBatch \/ ExpandCommit \/ DeliverDueBatch \/ CommitConflict \/ TickFails
           \/ \E o \in rows : FanoutOutboxRow(o)
  <2>1. UNCHANGED <<endpoint, disabledBy>> /\ ~InHand'
    BY <1>5 DEF ExpandOutboxBatch, ExpandCommit, DeliverDueBatch, CommitConflict, TickFails, Abort,
       FanoutOutboxRow, tables, ghosts, InHand
  <2> QED BY <2>1 DEF StoppedInv, Stopped, Reports
<1>6. CASE Persist \/ \E result \in Results : Deliver(result)
  <2>1. UNCHANGED <<endpoint, disabledBy, delivery>> /\ InHand
    BY <1>6 DEF Persist, Deliver, tables, ghosts, InHand
  <2>2. job'.id = job.id /\ pc' # "send" /\ (pc # "send" => job'.health = job.health)
    BY <1>0, <1>6 DEF Persist, Deliver, Job
  <2> QED BY <1>1, <2>1, <2>2 DEF KeepsRows
<1>7. CASE (\E kind \in EventKinds : Emit(kind)) \/ UNCHANGED vars
  <2>1. UNCHANGED <<endpoint, disabledBy, delivery, pc, job>>
    BY <1>7 DEF Emit, vars, tables, worker, ghosts
  <2> QED BY <1>1, <2>1 DEF KeepsRows, InHand
<1>8. ASSUME NEW d \in DOMAIN delivery, BackoffElapses(d) \/ Redeliver(d) PROVE StoppedInv'
  <2>1. UNCHANGED <<endpoint, disabledBy, pc, job>>
    BY <1>8 DEF BackoffElapses, Redeliver, worker, ghosts
  <2>2. /\ DOMAIN delivery' = DOMAIN delivery
        /\ \A x \in DOMAIN delivery : delivery'[x].sub = delivery[x].sub
    BY <1>0, <1>8 DEF BackoffElapses, Redeliver, DeliveryRow
  <2>3. InHand => EndpointOf(job.id)' = EndpointOf(job.id) BY <1>0, <2>1, <2>2 DEF EndpointOf
  <2> QED BY <2>1, <2>3 DEF StoppedInv, Stopped, Reports, InHand
<1> QED BY <1>2, <1>3, <1>4, <1>5, <1>6, <1>7, <1>8
        DEF Next, RunOnce, Faults, Time, Operators, Configure

\* An endpoint both disabled and failing was disabled by the worker, save one
\* that an operator disables while an attempt to it is in hand
\* (routes/notifications.rs, update_webhook_endpoint).
THEOREM StopsAreTold == Spec /\ [][~DisablesInHand]_vars => []DisabledAndFailingMeansAuto
<1>1. Init => StoppedInv BY DEF Init, StoppedInv, Stopped, NoRow
<1>2. StoppedInv => DisabledAndFailingMeansAuto
  BY DEF StoppedInv, Stopped, DisabledAndFailingMeansAuto
<1> QED BY <1>1, <1>2, StoppedStep, WorkerAgrees, PTL DEF Spec
=============================================================================
