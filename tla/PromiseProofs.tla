--------------------------- MODULE PromiseProofs ---------------------------
(***************************************************************************)
(* What the notification pipeline promises to its users: no committed      *)
(* event is lost, the failing streak that disables an endpoint is          *)
(* unbroken, and every step of the tables, the worker and the operators is *)
(* a step of DeliveryPromise or none.                                      *)
(***************************************************************************)
EXTENDS NotificationsProofs

----------------------------------------------------------------------------
(* No committed event is lost.                                             *)

\* Whatever the order in which the subscriptions are read, each is.
LEMMA OrdersAreComplete ==
  ASSUME NEW S \in SUBSET Subs, NEW f \in SetToSeqs(S), NEW s \in S
  PROVE  \E i \in DOMAIN f : f[i] = s
<1>1. IsFiniteSet(S)
  BY NotificationsAssumption, FS_Subset
<1>2. Cardinality(S) \in Nat
  BY <1>1, FS_CardinalityType
<1> DEFINE D == 1..Cardinality(S)
<1>3. f \in [D -> S] /\ \A i, j \in D : i # j => f[i] # f[j]
  BY DEF SetToSeqs
<1>4. f \in Injection(D, S)
  BY <1>3 DEF Injection, IsInjective
<1>5. Cardinality(D) = Cardinality(S)
  BY <1>2, FS_Interval
<1>6. f \in Surjection(D, S)
  BY <1>1, <1>4, <1>5, FS_Injection
<1> QED  BY <1>3, <1>6 DEF Surjection

\* A subscription that was live once is live or deleted, and what the open
\* expansion counts as fanned out it has staged for all who were there.
AudienceInv ==
  /\ \A o \in DOMAIN outbox : \A s \in audience[o] :
       subscription[s] \in {"live", "deleted"}
  /\ \A o \in done : \A s \in audience[o] : Matches(s, o) =>
       \E i \in DOMAIN staged : staged[i].event = o /\ staged[i].sub = s
  /\ \A o \in DOMAIN outbox : \A s \in audience[o] :
       outbox[o].status = "dispatched" /\ Matches(s, o) =>
         \E d \in DOMAIN delivery : delivery[d].event = o /\ delivery[d].sub = s

\* A step that writes no event and no fan-out, and brings no subscription back
\* to life, forgets no one.
LEMMA AudienceFrame ==
  ASSUME AudienceInv, UNCHANGED <<outbox, audience>>,
         done' = {} \/ UNCHANGED <<done, staged>>,
         done \subseteq DOMAIN outbox,
         \A s \in Subs : subscription[s] \in {"live", "deleted"} =>
           subscription'[s] \in {subscription[s], "deleted"},
         \A o \in DOMAIN outbox : audience[o] \subseteq Subs,
         DOMAIN delivery' = DOMAIN delivery,
         \A d \in DOMAIN delivery :
           delivery'[d].event = delivery[d].event /\ delivery'[d].sub = delivery[d].sub
  PROVE  AudienceInv'
<1>1. \A o \in DOMAIN outbox : \A s \in audience[o] :
        /\ subscription[s] \in {"live", "deleted"}
        /\ subscription'[s] \in {"live", "deleted"}
        /\ Matches(s, o)' => Matches(s, o)
  BY DEF AudienceInv, Matches
<1> QED  BY <1>1 DEF AudienceInv

\* Fanning one outbox row out leaves no one of its audience behind.
LEMMA AudienceRow ==
  ASSUME WorkerInv, FanoutInv, AudienceInv, NEW o \in rows, FanoutOutboxRow(o)
  PROVE  AudienceInv'
<1> DEFINE M == {s \in Subs : Matches(s, o)}
<1>1. PICK subs \in SetToSeqs(M) :
        staged' = staged \o [i \in DOMAIN subs |-> NewDelivery(o, subs[i])]
  BY DEF FanoutOutboxRow
<1> DEFINE new == [i \in DOMAIN subs |-> NewDelivery(o, subs[i])]
<1>2. M \in SUBSET Subs
  OBVIOUS
<1>3. subs \in Seq(Subs) /\ \A s \in M : \E i \in DOMAIN subs : subs[i] = s
  <2> HIDE DEF M
  <2> QED  BY <1>1, <1>2, OrdersAreSeqs, OrdersAreComplete
<1>4. \A i \in DOMAIN subs : new[i].event = o /\ new[i].sub = subs[i]
  BY DEF NewDelivery
<1>5. new \in [DOMAIN subs -> DeliveryRow]
  <2>1. o \in Nat /\ \A i \in DOMAIN subs : subs[i] \in Subs
    BY <1>3 DEF WorkerInv, TypeOK
  <2> QED  BY <2>1 DEF NewDelivery, DeliveryRow
<1>6. staged' = staged \o new
  BY <1>1
<1>7. \A s \in Subs : Matches(s, o) => s \in M
  OBVIOUS
<1> HIDE DEF new, M
<1>8. new \in Seq(DeliveryRow) /\ Len(new) = Len(subs) /\ DOMAIN new = DOMAIN subs
  BY <1>3, <1>5, RowwiseSeq
<1>9. staged \in Seq(DeliveryRow)
  BY DEF WorkerInv, TypeOK
<1>10. /\ DOMAIN staged' = 1..(Len(staged) + Len(new))
       /\ \A i \in 1..(Len(staged) + Len(new)) :
            staged'[i] = IF i <= Len(staged) THEN staged[i] ELSE new[i - Len(staged)]
  <2>1. DOMAIN (staged \o new) = 1..(Len(staged) + Len(new))
    BY ONLY <1>8, <1>9, ConcatRows
  <2>2. \A i \in 1..(Len(staged) + Len(new)) :
          (staged \o new)[i] = IF i <= Len(staged) THEN staged[i] ELSE new[i - Len(staged)]
    BY ONLY <1>8, <1>9, ConcatRows
  <2> QED  BY ONLY <1>6, <2>1, <2>2
<1>11. /\ Len(staged) \in Nat /\ DOMAIN staged = 1..Len(staged)
       /\ Len(new) \in Nat /\ DOMAIN new = 1..Len(new)
  BY <1>8, <1>9
<1>12. \A i \in DOMAIN staged : i \in DOMAIN staged' /\ staged'[i] = staged[i]
  BY <1>10, <1>11
<1>13. \A j \in DOMAIN new : j + Len(staged) \in DOMAIN staged' /\ staged'[j + Len(staged)] = new[j]
  BY <1>10, <1>11
<1>14. UNCHANGED tables /\ UNCHANGED audience /\ done' = done \cup {o}
  BY DEF FanoutOutboxRow, ghosts
<1>15. o \in DOMAIN outbox /\ audience[o] \subseteq Subs
  BY DEF FanoutInv, PendingIn, WorkerInv, TypeOK, Sizes
<1>16. \A s \in audience[o] : Matches(s, o) =>
         \E i \in DOMAIN staged' : staged'[i].event = o /\ staged'[i].sub = s
  <2> SUFFICES ASSUME NEW s \in audience[o], Matches(s, o)
               PROVE  \E i \in DOMAIN staged' : staged'[i].event = o /\ staged'[i].sub = s
    OBVIOUS
  <2>1. PICK j \in DOMAIN subs : subs[j] = s
    BY <1>3, <1>7, <1>15
  <2>2. j \in DOMAIN new /\ new[j].event = o /\ new[j].sub = s
    BY <1>4, <1>8, <2>1
  <2> QED  BY <1>13, <2>2
<1>17. \A s, x : Matches(s, x)' = Matches(s, x)
  BY <1>14 DEF Matches, tables
<1>18. \A x \in done' : \A s \in audience[x] : Matches(s, x) =>
         \E i \in DOMAIN staged' : staged'[i].event = x /\ staged'[i].sub = s
  BY <1>12, <1>14, <1>16 DEF AudienceInv
<1> QED  BY <1>14, <1>17, <1>18 DEF AudienceInv, tables

\* Committing the expansion gives everyone staged a row of the table.
LEMMA AudienceCommits ==
  ASSUME WorkerInv, FanoutInv, AudienceInv, ExpandCommit
  PROVE  AudienceInv'
<1>1. /\ DOMAIN delivery' = 1..(Len(delivery) + Len(staged))
      /\ \A d \in DOMAIN delivery' :
           delivery'[d] = IF d <= Len(delivery) THEN delivery[d] ELSE staged[d - Len(delivery)]
  BY CommittedRows DEF WorkerInv
<1>2. /\ Len(staged) \in Nat /\ DOMAIN staged = 1..Len(staged)
      /\ Len(delivery) \in Nat /\ DOMAIN delivery = 1..Len(delivery)
  BY DEF WorkerInv, TypeOK
<1>3. \A d \in DOMAIN delivery : d \in DOMAIN delivery' /\ delivery'[d] = delivery[d]
  BY <1>1, <1>2
<1>4. \A i \in DOMAIN staged :
        i + Len(delivery) \in DOMAIN delivery' /\ delivery'[i + Len(delivery)] = staged[i]
  BY <1>1, <1>2
<1>5. UNCHANGED <<subscription, audience>> /\ done' = {}
  BY DEF ExpandCommit
<1>6. DOMAIN outbox' = DOMAIN outbox /\ \A o \in DOMAIN outbox : outbox[o] \in OutboxRow
  BY RowIds DEF ExpandCommit, WorkerInv, TypeOK
<1>7. \A o \in DOMAIN outbox :
        /\ outbox'[o].type = outbox[o].type /\ outbox'[o].app = outbox[o].app
        /\ outbox'[o].status = "dispatched" => o \in done \/ outbox[o].status = "dispatched"
  BY <1>6 DEF ExpandCommit, OutboxRow
<1>8. \A o \in DOMAIN outbox, s \in Subs : Matches(s, o)' = Matches(s, o)
  BY <1>5, <1>7 DEF Matches
<1>9. \A o \in DOMAIN outbox : audience[o] \subseteq Subs
  BY DEF WorkerInv, TypeOK, Sizes
<1>10. ASSUME NEW o \in DOMAIN outbox, NEW s \in audience[o],
              outbox'[o].status = "dispatched", Matches(s, o)
       PROVE  \E d \in DOMAIN delivery' : delivery'[d].event = o /\ delivery'[d].sub = s
  <2>1. CASE o \in done
    BY <1>4, <1>10, <2>1 DEF AudienceInv
  <2>2. CASE outbox[o].status = "dispatched"
    BY <1>3, <1>10, <2>2 DEF AudienceInv
  <2> QED  BY <1>7, <1>10, <2>1, <2>2
<1>11. \A o \in DOMAIN outbox' : \A s \in audience'[o] : subscription'[s] \in {"live", "deleted"}
  BY <1>5, <1>6 DEF AudienceInv
<1>12. \A o \in DOMAIN outbox' : \A s \in audience'[o] :
         outbox'[o].status = "dispatched" /\ Matches(s, o)' =>
           \E d \in DOMAIN delivery' : delivery'[d].event = o /\ delivery'[d].sub = s
  BY <1>5, <1>6, <1>8, <1>9, <1>10
<1> QED  BY <1>5, <1>11, <1>12 DEF AudienceInv

\* A new event is addressed to those who are there.
LEMMA AudienceEmits ==
  ASSUME WorkerInv, FanoutInv, AudienceInv, NEW kind \in EventKinds, Emit(kind)
  PROVE  AudienceInv'
<1> DEFINE n == Len(outbox) + 1
<1>1. outbox \in Seq(OutboxRow) /\ audience \in Seq(SUBSET Subs) /\ Len(audience) = Len(outbox)
  BY DEF WorkerInv, TypeOK, Sizes
<1>2. /\ DOMAIN outbox' = DOMAIN outbox \cup {n} /\ n \notin DOMAIN outbox
      /\ \A o \in DOMAIN outbox : outbox'[o] = outbox[o] /\ audience'[o] = audience[o]
      /\ outbox'[n].status = "pending"
      /\ audience'[n] = {s \in Subs : subscription[s] = "live"}
  BY <1>1 DEF Emit
<1>3. UNCHANGED <<delivery, subscription, staged, done>> /\ done \subseteq DOMAIN outbox
  BY DEF Emit, worker, FanoutInv, PendingIn
<1>4. \A s, o : o \in DOMAIN outbox => Matches(s, o)' = Matches(s, o)
  BY <1>2, <1>3 DEF Matches
<1> QED  BY <1>2, <1>3, <1>4 DEF AudienceInv

\* Every step leaves no one of an audience behind.
LEMMA AudienceStep ==
  ASSUME WorkerInv, FanoutInv, AudienceInv, [Next]_vars
  PROVE  AudienceInv'
<1>0. /\ done \subseteq DOMAIN outbox
      /\ \A o \in DOMAIN outbox : audience[o] \subseteq Subs
      /\ subscription \in [Subs -> SubStates]
      /\ \A d \in DOMAIN delivery : delivery[d] \in DeliveryRow
  BY RowIds DEF FanoutInv, PendingIn, WorkerInv, TypeOK, Sizes
<1>1. CASE \E kind \in EventKinds : Emit(kind)
  BY <1>1, AudienceEmits
<1>2. CASE \E o \in rows : FanoutOutboxRow(o)
  BY <1>2, AudienceRow
<1>3. CASE ExpandCommit
  BY <1>3, AudienceCommits
<1>4. CASE \/ ExpandOutboxBatch \/ DeliverDueBatch \/ Persist
           \/ \E result \in Results : Deliver(result)
           \/ \E snap \in batch :
                DeliveryRequest(snap) \/ DeliveryRequestRefused(snap) \/ DeliveryRequestDbError(snap)
           \/ UNCHANGED vars
  <2>1. UNCHANGED <<outbox, delivery, subscription, audience, staged, done>>
    BY <1>4 DEF ExpandOutboxBatch, DeliverDueBatch, Persist, Deliver, DeliveryRequest,
                DeliveryRequestRefused, DeliveryRequestDbError, Take, tables, worker, ghosts, vars
  <2> QED  BY <1>0, <2>1, AudienceFrame
<1>5. CASE CommitResult
  <2>1. Mark(delivery[job.id]).event = delivery[job.id].event /\ Mark(delivery[job.id]).sub = delivery[job.id].sub
    BY <1>0, <1>5, ResultRows DEF Mark, DeliveryRow
  <2>2. UNCHANGED <<outbox, subscription, audience, staged, done>>
    BY <1>5 DEF CommitResult
  <2> QED  BY <1>0, <1>5, <2>1, <2>2, ResultRows, AudienceFrame
<1>6. CASE CommitConflict \/ TickFails
  <2>1. done' = {} /\ UNCHANGED <<outbox, delivery, subscription, audience>>
    BY <1>6 DEF CommitConflict, TickFails, Abort, tables
  <2> QED  BY <1>0, <2>1, AudienceFrame
<1>7. CASE \E d \in DOMAIN delivery : BackoffElapses(d) \/ Redeliver(d)
  <2>1. PICK d \in DOMAIN delivery : BackoffElapses(d) \/ Redeliver(d)
    BY <1>7
  <2>2. DOMAIN delivery' = DOMAIN delivery /\ UNCHANGED <<outbox, subscription, audience, staged, done>>
    BY <2>1 DEF BackoffElapses, Redeliver, worker, ghosts
  <2>3. \A x \in DOMAIN delivery :
          delivery'[x].event = delivery[x].event /\ delivery'[x].sub = delivery[x].sub
    BY <1>0, <2>1 DEF BackoffElapses, Redeliver, DeliveryRow
  <2> QED  BY <1>0, <2>2, <2>3, AudienceFrame
<1>8. CASE Configure
  <2>1. UNCHANGED <<outbox, delivery, audience, staged, done>>
    BY <1>8 DEF Configure, FailingAgesOut, CreateWebhookEndpoint, DeleteWebhookEndpoint, UpdateWebhookEndpoint,
                CreateSubscription, InsertSubscription, DeleteSubscription, worker, ghosts
  <2>2. \A s \in Subs : subscription[s] \in {"live", "deleted"} =>
          subscription'[s] \in {subscription[s], "deleted"}
    BY <1>0, <1>8 DEF Configure, FailingAgesOut, CreateWebhookEndpoint, DeleteWebhookEndpoint,
                UpdateWebhookEndpoint, CreateSubscription, InsertSubscription, DeleteSubscription
  <2> QED  BY <1>0, <2>1, <2>2, AudienceFrame
<1> QED
  BY <1>1, <1>2, <1>3, <1>4, <1>5, <1>6, <1>7, <1>8
  DEF Next, RunOnce, Faults, Time, Operators, Configure

\* No committed event is lost: whoever subscribed to it before it was emitted
\* and still does has a delivery of it once the expansion has dispatched it.
THEOREM EventsAreKept == Spec => []NoEventLost
<1>1. Init => FanoutInv /\ AudienceInv
  BY DEF Init, FanoutInv, FanoutOnce, PendingIn, AudienceInv
<1>2. WorkerInv /\ FanoutInv /\ AudienceInv /\ [Next]_vars => (FanoutInv /\ AudienceInv)'
  BY FanoutStep, AudienceStep
<1>3. FanoutInv /\ AudienceInv => NoEventLost
  BY DEF FanoutInv, AudienceInv, NoEventLost
<1> QED  BY <1>1, <1>2, <1>3, WorkerAgrees, PTL DEF Spec

----------------------------------------------------------------------------
(* The failing streak is unbroken. The worker decides what to write from a *)
(* row it read before: what makes this safe is that it alone begins a      *)
(* streak, so a row read without one still has none.                       *)

\* What the result transaction read agrees with the endpoint it will write.
ReadAgrees(ep) ==
  /\ job.ep.state # "live" => job.ep.failing = "none"
  /\ job.ep.failing = "none" => endpoint[ep].failing = "none"
  /\ job.ep.failing # "none" => ~okSince[ep]

StreakInv ==
  /\ FailingStreakIsUnbroken
  /\ \A ep \in Endpoints : endpoint[ep].state # "live" => endpoint[ep].failing = "none"
  /\ pc = "commit" /\ ReportsHealth => ReadAgrees(EndpointOf(job.id))

\* A step that records no result begins no streak.
LEMMA StreakFrame ==
  ASSUME WorkerInv, StreakInv, UNCHANGED okSince,
         pc' = "commit" => UNCHANGED <<pc, job>>,
         InHand => EndpointOf(job.id)' = EndpointOf(job.id),
         \A ep \in Endpoints :
           /\ endpoint[ep].failing = "none" => endpoint'[ep].failing = "none"
           /\ endpoint'[ep].state # "live" => endpoint'[ep].failing = "none"
  PROVE  StreakInv'
<1>1. FailingStreakIsUnbroken'
  BY DEF StreakInv, FailingStreakIsUnbroken
<1>2. ASSUME pc' = "commit", ReportsHealth'
      PROVE  ReadAgrees(EndpointOf(job.id))'
  <2>1. pc = "commit" /\ UNCHANGED job /\ InHand
    BY <1>2 DEF InHand
  <2>2. ReportsHealth /\ EndpointOf(job.id)' = EndpointOf(job.id)
    BY <1>2, <2>1 DEF ReportsHealth, Exhausted
  <2>3. ReadAgrees(EndpointOf(job.id))
    BY <2>1, <2>2 DEF StreakInv
  <2>4. EndpointOf(job.id) \in Endpoints
    BY <2>1, <2>2, JobEndpoint DEF ReportsHealth, WorkerInv
  <2> DEFINE ep == EndpointOf(job.id)
  <2>5. /\ job.ep.state # "live" => job.ep.failing = "none"
        /\ job.ep.failing = "none" => endpoint[ep].failing = "none"
        /\ job.ep.failing # "none" => ~okSince[ep]
    BY <2>3 DEF ReadAgrees
  <2>6. ep' = ep
    BY <2>2
  <2> HIDE DEF ep
  <2>7. /\ job'.ep.state # "live" => job'.ep.failing = "none"
        /\ job'.ep.failing = "none" => endpoint'[ep'].failing = "none"
        /\ job'.ep.failing # "none" => ~okSince'[ep']
    BY <2>1, <2>4, <2>5, <2>6 DEF ep
  <2> QED  BY <2>7 DEF ReadAgrees, ep
<1> QED  BY <1>1, <1>2 DEF StreakInv

\* The transaction reads the endpoint: what it read is what there is.
LEMMA StreakReads ==
  ASSUME WorkerInv, StreakInv, Persist
  PROVE  StreakInv'
<1>1. UNCHANGED <<endpoint, okSince, delivery>> /\ pc = "persist" /\ pc' = "commit" /\ InHand
  BY DEF Persist, tables, ghosts, InHand
<1>2. job' = [job EXCEPT !.ep = IF ReportsHealth THEN endpoint[EndpointOf(job.id)] ELSE NoRow] /\ job \in Job
  BY DEF Persist, WorkerInv, TypeOK
<1> DEFINE row == IF ReportsHealth THEN endpoint[EndpointOf(job.id)] ELSE NoRow
<1>3. job' = [job EXCEPT !.ep = row]
  BY <1>2
<1> HIDE DEF row
<1>4. /\ job'.id = job.id /\ job'.attempt = job.attempt /\ job'.result = job.result
      /\ job'.health = job.health /\ job'.ep = row
  BY <1>2, <1>3 DEF Job
<1>5. ReportsHealth' = ReportsHealth /\ EndpointOf(job.id)' = EndpointOf(job.id)
  BY <1>1, <1>4 DEF ReportsHealth, Exhausted, EndpointOf
<1>6. ASSUME ReportsHealth
      PROVE  ReadAgrees(EndpointOf(job.id))'
  <2> DEFINE ep == EndpointOf(job.id)
  <2>1. ep \in Endpoints
    BY <1>1, <1>6, JobEndpoint DEF ReportsHealth, WorkerInv
  <2>2. row = endpoint[ep]
    BY <1>6 DEF row
  <2>3. ep' = ep
    BY <1>5
  <2> HIDE DEF ep
  <2>4. /\ job'.ep.state # "live" => job'.ep.failing = "none"
        /\ job'.ep.failing = "none" => endpoint'[ep'].failing = "none"
        /\ job'.ep.failing # "none" => ~okSince'[ep']
    BY <1>1, <1>4, <2>1, <2>2, <2>3 DEF StreakInv, FailingStreakIsUnbroken
  <2> QED  BY <2>4 DEF ReadAgrees, ep
<1> QED  BY <1>1, <1>5, <1>6 DEF StreakInv, FailingStreakIsUnbroken

\* The transaction writes the endpoint: a success leaves no streak behind.
LEMMA StreakWrites ==
  ASSUME WorkerInv, StreakInv, CommitResult
  PROVE  StreakInv'
<1>1. pc = "commit" /\ pc' # "commit" /\ InHand
  BY DEF CommitResult, AfterOne, InHand
<1>2. CASE ~ReportsHealth
  <2>1. UNCHANGED <<endpoint, okSince>>
    BY <1>2 DEF CommitResult
  <2> QED  BY <1>1, <2>1 DEF StreakInv, FailingStreakIsUnbroken
<1>3. CASE ReportsHealth
  <2> DEFINE ep == EndpointOf(job.id)
             row == HealthUpdate(endpoint[ep])
             ok == job.result = "ok" \/ (okSince[ep] /\ ~Starts)
  <2>1. ep \in Endpoints
    BY <1>1, <1>3, JobEndpoint DEF ReportsHealth, WorkerInv
  <2>2. ReadAgrees(ep)
    BY <1>1, <1>3 DEF StreakInv
  <2>3. endpoint' = [endpoint EXCEPT ![ep] = row] /\ okSince' = [okSince EXCEPT ![ep] = ok]
    BY <1>3 DEF CommitResult, UpdateEndpointHealth
  <2>4. endpoint \in [Endpoints -> EndpointRow] /\ okSince \in [Endpoints -> BOOLEAN]
    BY DEF WorkerInv, TypeOK
  <2>5. Heals \/ Starts \/ Disables => endpoint[ep].state = "live"
    BY <1>3 DEF CommitResult, IsLive
  <2>6. endpoint[ep] \in EndpointRow
    BY <2>1, <2>4
  <2>7. /\ row.state = endpoint[ep].state
        /\ row.failing = IF Heals THEN "none" ELSE IF Starts THEN "recent"
                         ELSE IF Disables THEN "old" ELSE endpoint[ep].failing
    BY <2>6 DEF HealthUpdate, EndpointRow
  <2>8. row.failing # "none" => ~ok
    <3>1. CASE job.result = "ok"
      BY <2>2, <2>7, <3>1 DEF Heals, Starts, Disables, ReadAgrees
    <3>2. CASE job.result # "ok"
      <4>1. CASE Starts
        BY <3>2, <4>1
      <4>2. CASE ~Starts /\ job.ep.failing # "none"
        BY <2>2, <3>2, <4>2 DEF ReadAgrees
      <4>3. CASE ~Starts /\ job.ep.failing = "none"
        BY <2>1, <2>2, <2>7, <4>3 DEF Heals, Disables, ReadAgrees
      <4> QED  BY <4>1, <4>2, <4>3
    <3> QED  BY <3>1, <3>2
  <2>9. row.state # "live" => row.failing = "none"
    BY <2>1, <2>5, <2>7 DEF StreakInv
  <2> HIDE DEF row, ok, ep
  <2>10. \A x \in Endpoints : x # ep => endpoint'[x] = endpoint[x] /\ okSince'[x] = okSince[x]
    BY <2>3, <2>4
  <2>11. endpoint'[ep] = row /\ okSince'[ep] = ok
    BY <2>1, <2>3, <2>4
  <2>12. FailingStreakIsUnbroken'
    BY <2>8, <2>10, <2>11 DEF StreakInv, FailingStreakIsUnbroken
  <2> QED  BY <1>1, <2>9, <2>10, <2>11, <2>12 DEF StreakInv
<1> QED  BY <1>2, <1>3

\* Every step keeps the streak of every endpoint unbroken.
LEMMA StreakStep ==
  ASSUME WorkerInv, StreakInv, [Next]_vars
  PROVE  StreakInv'
<1>0. /\ InHand => job.id \in DOMAIN delivery
      /\ \A d \in DOMAIN delivery : delivery[d] \in DeliveryRow
      /\ endpoint \in [Endpoints -> EndpointRow]
      /\ job.id \in Nat
  BY RowIds DEF WorkerInv, TypeOK, Claims, Held, Job
<1>1. CASE Persist
  BY <1>1, StreakReads
<1>2. CASE CommitResult
  BY <1>2, StreakWrites
<1>3. CASE \/ ExpandOutboxBatch \/ DeliverDueBatch
           \/ \E result \in Results : Deliver(result)
           \/ \E snap \in batch :
                DeliveryRequest(snap) \/ DeliveryRequestRefused(snap) \/ DeliveryRequestDbError(snap)
           \/ \E o \in rows : FanoutOutboxRow(o)
           \/ CommitConflict \/ TickFails
  <2>1. UNCHANGED <<endpoint, delivery, okSince>> /\ pc' # "commit"
    BY <1>3 DEF ExpandOutboxBatch, DeliverDueBatch, Deliver, DeliveryRequest, DeliveryRequestRefused,
                DeliveryRequestDbError, Take, FanoutOutboxRow, CommitConflict, TickFails, Abort, tables, ghosts
  <2> QED  BY <2>1 DEF StreakInv, FailingStreakIsUnbroken
<1>4. CASE ExpandCommit
  <2>1. UNCHANGED <<endpoint, okSince>> /\ pc' # "commit"
    BY <1>4 DEF ExpandCommit
  <2> QED  BY <2>1 DEF StreakInv, FailingStreakIsUnbroken
<1>5. CASE (\E kind \in EventKinds : Emit(kind)) \/ UNCHANGED vars
  <2>1. UNCHANGED <<endpoint, delivery, okSince, pc, job>>
    BY <1>5 DEF Emit, worker, vars, tables, ghosts
  <2>2. EndpointOf(job.id)' = EndpointOf(job.id)
    BY <2>1 DEF EndpointOf
  <2> QED  BY <2>1, <2>2, StreakFrame DEF StreakInv
<1>6. CASE \E d \in DOMAIN delivery : BackoffElapses(d) \/ Redeliver(d)
  <2>1. PICK d \in DOMAIN delivery : BackoffElapses(d) \/ Redeliver(d)
    BY <1>6
  <2>2. UNCHANGED <<endpoint, okSince, pc, job>>
    BY <2>1 DEF BackoffElapses, Redeliver, worker, ghosts
  <2>3. \A x \in DOMAIN delivery : delivery'[x].sub = delivery[x].sub
    BY <1>0, <2>1 DEF BackoffElapses, Redeliver, DeliveryRow
  <2>4. InHand => EndpointOf(job.id)' = EndpointOf(job.id)
    BY <1>0, <2>2, <2>3 DEF EndpointOf
  <2> QED  BY <2>2, <2>4, StreakFrame DEF StreakInv
<1>7. CASE Configure
  <2>1. UNCHANGED <<delivery, okSince, pc, job>>
    BY <1>7 DEF Configure, FailingAgesOut, CreateWebhookEndpoint, DeleteWebhookEndpoint, UpdateWebhookEndpoint,
                CreateSubscription, InsertSubscription, DeleteSubscription, worker, ghosts
  <2>2. EndpointOf(job.id)' = EndpointOf(job.id)
    BY <2>1 DEF EndpointOf
  <2>3. ASSUME NEW x \in Endpoints
        PROVE  /\ endpoint[x].failing = "none" => endpoint'[x].failing = "none"
               /\ endpoint'[x].state # "live" => endpoint'[x].failing = "none"
    <3>1. endpoint[x].state # "live" => endpoint[x].failing = "none"
      BY DEF StreakInv
    <3>2. CASE \E ep \in Endpoints :
                 FailingAgesOut(ep) \/ CreateWebhookEndpoint(ep) \/ DeleteWebhookEndpoint(ep)
      BY <1>0, <3>1, <3>2 DEF FailingAgesOut, CreateWebhookEndpoint, DeleteWebhookEndpoint, NoRow, EndpointRow
    <3>3. CASE \E ep \in Endpoints, disabled \in BOOLEAN : UpdateWebhookEndpoint(ep, disabled)
      BY <1>0, <3>1, <3>3 DEF UpdateWebhookEndpoint, EndpointRow, IsLive
    <3>4. CASE UNCHANGED endpoint
      BY <3>1, <3>4
    <3> QED
      BY <1>7, <3>2, <3>3, <3>4 DEF Configure, CreateSubscription, InsertSubscription, DeleteSubscription
  <2> QED  BY <2>1, <2>2, <2>3, StreakFrame
<1> QED
  BY <1>1, <1>2, <1>3, <1>4, <1>5, <1>6, <1>7
  DEF Next, RunOnce, Faults, Time, Operators, Configure

\* Nothing was recorded as sent to an endpoint since its failing streak began,
\* although each result is written from a row read earlier without a lock.
THEOREM StreakIsUnbroken == Spec => []FailingStreakIsUnbroken
<1>1. Init => StreakInv
  BY DEF Init, StreakInv, FailingStreakIsUnbroken, NoRow
<1>2. WorkerInv /\ StreakInv /\ [Next]_vars => StreakInv'
  BY StreakStep
<1>3. StreakInv => FailingStreakIsUnbroken
  BY DEF StreakInv
<1> QED  BY <1>1, <1>2, <1>3, WorkerAgrees, PTL DEF Spec

----------------------------------------------------------------------------
(* The pipeline keeps DeliveryPromise.                                     *)

\* The promise of one pair of an event and a subscription, read off a table.
RowsIn(D, o, s) == {d \in DOMAIN D : D[d].event = o /\ D[d].sub = s}

Kept(status) == IF status \in {"sent", "dead"} THEN status ELSE "queued"

PromisedIn(D, o, s) ==
  IF RowsIn(D, o, s) = {} THEN "none" ELSE Kept(D[CHOOSE d \in RowsIn(D, o, s) : TRUE].status)

OncePerPair(D) ==
  \A d1, d2 \in DOMAIN D : D[d1].event = D[d2].event /\ D[d1].sub = D[d2].sub => d1 = d2

\* The delivery of a pair says where the promise of the pair is.
LEMMA RowIsThePromise ==
  ASSUME NEW D, OncePerPair(D), NEW d \in DOMAIN D
  PROVE  PromisedIn(D, D[d].event, D[d].sub) = Kept(D[d].status)
<1> DEFINE R == RowsIn(D, D[d].event, D[d].sub)
<1>1. R = {d}
  BY DEF RowsIn, OncePerPair
<1>2. (CHOOSE x \in R : TRUE) = d
  <2> HIDE DEF R
  <2> QED  BY <1>1
<1> QED  BY <1>1, <1>2 DEF PromisedIn

\* A pair without a delivery was promised nothing.
LEMMA NoRowNoPromise ==
  ASSUME NEW D, NEW o, NEW s, \A d \in DOMAIN D : D[d].event = o => D[d].sub # s
  PROVE  PromisedIn(D, o, s) = "none"
  BY DEF PromisedIn, RowsIn

\* Rows that keep their pair and stay queued, sent or dead keep the promise.
LEMMA SameRowsSamePromise ==
  ASSUME NEW D, NEW E, OncePerPair(D), DOMAIN E = DOMAIN D,
         NEW o, NEW s,
         \A d \in DOMAIN D : E[d].event = D[d].event /\ E[d].sub = D[d].sub,
         \A d \in DOMAIN D : D[d].event = o /\ D[d].sub = s => Kept(E[d].status) = Kept(D[d].status)
  PROVE  PromisedIn(E, o, s) = PromisedIn(D, o, s)
<1>1. OncePerPair(E)
  BY DEF OncePerPair
<1>2. CASE \E d \in DOMAIN D : D[d].event = o /\ D[d].sub = s
  <2>1. PICK d \in DOMAIN D : D[d].event = o /\ D[d].sub = s
    BY <1>2
  <2>2. PromisedIn(D, o, s) = Kept(D[d].status)
    BY <2>1, RowIsThePromise
  <2>3. PromisedIn(E, o, s) = Kept(E[d].status)
    BY <1>1, <2>1, RowIsThePromise
  <2> QED  BY <2>1, <2>2, <2>3
<1>3. CASE ~\E d \in DOMAIN D : D[d].event = o /\ D[d].sub = s
  BY <1>3, NoRowNoPromise
<1> QED  BY <1>2, <1>3

\* The refinement mapping, by name.
Pairs   == (1..MaxEvents) \X Subs
fanned  == [o \in 1..MaxEvents |->
              IF o \notin DOMAIN outbox THEN "none"
              ELSE IF outbox[o].status = "pending" THEN "waiting" ELSE "fanned out"]
owing   == [p \in (1..MaxEvents) \X Subs |-> Promised(p[1], p[2])]
taken   == {<<delivery[d].event, delivery[d].sub>> : d \in accepted}

\* The steps of the promise in these words.
PublishStep(o) ==
  /\ fanned[o] = "none"
  /\ fanned' = [fanned EXCEPT ![o] = "waiting"]
  /\ owing' = owing /\ taken' = taken

FanOutStep(S, new) ==
  /\ S # {} /\ \A o \in S : fanned[o] = "waiting"
  /\ fanned' = [o \in 1..MaxEvents |-> IF o \in S THEN "fanned out" ELSE fanned[o]]
  /\ owing' = [p \in Pairs |-> IF p \in new THEN "queued" ELSE owing[p]]
  /\ taken' = taken

AcceptStep(p) ==
  /\ owing[p] = "queued"
  /\ taken' = taken \cup {p}
  /\ fanned' = fanned /\ owing' = owing

SettleStep(p, status) ==
  /\ owing[p] = "queued" /\ status \in {"sent", "dead"}
  /\ status = "sent" => p \in taken
  /\ owing' = [owing EXCEPT ![p] = status]
  /\ fanned' = fanned /\ taken' = taken

ReopenStep(p) ==
  /\ owing[p] \in {"sent", "dead"}
  /\ owing' = [owing EXCEPT ![p] = "queued"]
  /\ fanned' = fanned /\ taken' = taken

PromiseStep ==
  \/ \E o \in 1..MaxEvents : PublishStep(o)
  \/ \E S \in SUBSET (1..MaxEvents) : \E new \in SUBSET (S \X Subs) : FanOutStep(S, new)
  \/ \E p \in Pairs :
       AcceptStep(p) \/ (\E status \in {"sent", "dead"} : SettleStep(p, status)) \/ ReopenStep(p)
  \/ fanned' = fanned /\ owing' = owing /\ taken' = taken

\* These are the steps of the promise, or none.
LEMMA StepsOfThePromise == PromiseStep => [Promise!Next]_(Promise!vars)
<1>1. ASSUME NEW o \in 1..MaxEvents, PublishStep(o)  PROVE Promise!Next
  <2>1. Promise!Publish(o)
    BY <1>1 DEF PublishStep, Promise!Publish, fanned, owing, taken
  <2> QED  BY <2>1 DEF Promise!Next, Promise!Events
<1>2. ASSUME NEW S \in SUBSET (1..MaxEvents), NEW new \in SUBSET (S \X Subs), FanOutStep(S, new)
      PROVE  Promise!Next
  <2>1. Promise!FanOut <=>
          \E T \in SUBSET {o \in 1..MaxEvents : fanned[o] = "waiting"} :
            /\ T # {}
            /\ fanned' = [o \in 1..MaxEvents |-> IF o \in T THEN "fanned out" ELSE fanned[o]]
            /\ \E pairs \in SUBSET (T \X Subs) :
                 owing' = [p \in Pairs |-> IF p \in pairs THEN "queued" ELSE owing[p]]
            /\ taken' = taken
    BY DEF Promise!FanOut, Promise!Events, Promise!Deliveries, Pairs, fanned, owing, taken
  <2>2. Promise!FanOut
    BY <1>2, <2>1 DEF FanOutStep
  <2> QED  BY <2>2 DEF Promise!Next
<1>3. ASSUME NEW p \in Pairs, AcceptStep(p)  PROVE Promise!Next
  <2>1. Promise!Accept(p)
    BY <1>3 DEF AcceptStep, Promise!Accept, fanned, owing, taken
  <2> QED  BY <2>1 DEF Promise!Next, Promise!Deliveries, Promise!Events, Pairs
<1>4. ASSUME NEW p \in Pairs, NEW status \in {"sent", "dead"}, SettleStep(p, status)  PROVE Promise!Next
  <2>1. Promise!Settle(p)
    BY <1>4 DEF SettleStep, Promise!Settle, fanned, owing, taken
  <2> QED  BY <2>1 DEF Promise!Next, Promise!Deliveries, Promise!Events, Pairs
<1>5. ASSUME NEW p \in Pairs, ReopenStep(p)  PROVE Promise!Next
  <2>1. Promise!Reopen(p)
    BY <1>5 DEF ReopenStep, Promise!Reopen, fanned, owing, taken
  <2> QED  BY <2>1 DEF Promise!Next, Promise!Deliveries, Promise!Events, Pairs
<1>6. ASSUME fanned' = fanned /\ owing' = owing /\ taken' = taken  PROVE UNCHANGED Promise!vars
  BY <1>6 DEF Promise!vars, fanned, owing, taken
<1> QED  BY <1>1, <1>2, <1>3, <1>4, <1>5, <1>6 DEF PromiseStep

\* What the mapping needs of a reachable state: the events fit, only rows were
\* accepted, and a success in hand was accepted.
PromiseInv ==
  /\ Len(outbox) <= MaxEvents
  /\ accepted \subseteq DOMAIN delivery
  /\ pc \in {"persist", "commit"} /\ job.result = "ok" => job.id \in accepted

KeptInv == WorkerInv /\ FanoutInv /\ PromiseInv

\* Every step keeps it.
LEMMA PromiseInvStep ==
  ASSUME KeptInv, [Next]_vars
  PROVE  PromiseInv'
<1>0. /\ outbox \in Seq(OutboxRow) /\ delivery \in Seq(DeliveryRow) /\ staged \in Seq(DeliveryRow)
      /\ job \in Job
      /\ InHand => job.id \in DOMAIN delivery
  BY DEF KeptInv, WorkerInv, TypeOK, Claims, Held
<1> USE DEF KeptInv, PromiseInv
<1>1. CASE \E kind \in EventKinds : Emit(kind)
  <2>1. Len(outbox') = Len(outbox) + 1 /\ Len(outbox) < MaxEvents
    BY <1>0, <1>1 DEF Emit
  <2>2. UNCHANGED <<delivery, accepted, pc, job>>
    BY <1>1 DEF Emit, worker
  <2> QED  BY <1>0, <2>1, <2>2, NotificationsAssumption
<1>2. CASE ExpandCommit
  <2>1. Len(outbox') = Len(outbox)
    <3>1. outbox' \in Seq(OutboxRow) /\ DOMAIN outbox' = DOMAIN outbox
      BY <1>2, ExpandCommitTypeOK DEF ExpandCommit, WorkerInv, TypeOK
    <3> QED  BY <1>0, <3>1
  <2>2. DOMAIN delivery \subseteq DOMAIN delivery'
    BY <1>0, <1>2, CommittedRows DEF WorkerInv
  <2>3. UNCHANGED accepted /\ pc' = "claim"
    BY <1>2 DEF ExpandCommit
  <2> QED  BY <2>1, <2>2, <2>3
<1>3. CASE \/ ExpandOutboxBatch \/ DeliverDueBatch
           \/ \E o \in rows : FanoutOutboxRow(o)
           \/ \E snap \in batch :
                DeliveryRequest(snap) \/ DeliveryRequestRefused(snap) \/ DeliveryRequestDbError(snap)
           \/ CommitConflict \/ TickFails
  <2>1. UNCHANGED <<outbox, delivery, accepted>>
    BY <1>3 DEF ExpandOutboxBatch, DeliverDueBatch, FanoutOutboxRow, DeliveryRequest, DeliveryRequestRefused,
                DeliveryRequestDbError, Take, CommitConflict, TickFails, Abort, tables, ghosts
  <2>2. pc' \in {"persist", "commit"} => job'.result # "ok"
    BY <1>3 DEF ExpandOutboxBatch, DeliverDueBatch, FanoutOutboxRow, DeliveryRequest, DeliveryRequestRefused,
                DeliveryRequestDbError, Take, CommitConflict, TickFails, Abort, NoJob
  <2> QED  BY <2>1, <2>2
<1>4. CASE \E result \in Results : Deliver(result)
  <2>1. PICK result \in Results : Deliver(result)
    BY <1>4
  <2>2. job'.id = job.id /\ job'.result = result
    BY <1>0, <2>1 DEF Deliver, Job
  <2>3. UNCHANGED <<outbox, delivery>> /\ job.id \in DOMAIN delivery
    BY <1>0, <2>1 DEF Deliver, tables, InHand
  <2>4. accepted' = accepted \cup {job.id} \/ (result # "ok" /\ UNCHANGED accepted)
    BY <2>1 DEF Deliver
  <2> QED  BY <2>2, <2>3, <2>4
<1>5. CASE Persist
  <2>1. job'.id = job.id /\ job'.result = job.result
    BY <1>0, <1>5 DEF Persist, Job
  <2>2. UNCHANGED <<outbox, delivery, accepted>> /\ pc = "persist"
    BY <1>5 DEF Persist, tables, ghosts
  <2> QED  BY <2>1, <2>2
<1>6. CASE CommitResult
  <2>1. DOMAIN delivery' = DOMAIN delivery
    BY <1>6, ResultRows
  <2>2. UNCHANGED <<outbox, accepted>> /\ pc' \notin {"persist", "commit"}
    BY <1>6 DEF CommitResult, AfterOne
  <2> QED  BY <2>1, <2>2
<1>7. CASE \E d \in DOMAIN delivery : BackoffElapses(d) \/ Redeliver(d)
  <2>1. DOMAIN delivery' = DOMAIN delivery /\ UNCHANGED <<outbox, accepted, pc, job>>
    BY <1>7 DEF BackoffElapses, Redeliver, worker, ghosts
  <2> QED  BY <2>1
<1>8. CASE Configure \/ UNCHANGED vars
  <2>1. UNCHANGED <<outbox, delivery, accepted, pc, job>>
    BY <1>8 DEF Configure, FailingAgesOut, CreateWebhookEndpoint, DeleteWebhookEndpoint, UpdateWebhookEndpoint,
                CreateSubscription, InsertSubscription, DeleteSubscription, vars, tables, worker, ghosts
  <2> QED  BY <2>1
<1> QED
  BY <1>1, <1>2, <1>3, <1>4, <1>5, <1>6, <1>7, <1>8
  DEF Next, RunOnce, Faults, Time, Operators, Configure

\* The mapping of the table of deliveries, now and after a step.
LEMMA OwingIsRead ==
  /\ owing = [p \in Pairs |-> PromisedIn(delivery, p[1], p[2])]
  /\ owing' = [p \in Pairs |-> PromisedIn(delivery', p[1], p[2])]
<1>1. \A o, s : Promised(o, s) = PromisedIn(delivery, o, s)
  BY DEF Promised, PromisedIn, Kept, RowsOf, RowsIn
<1>2. \A o, s : Promised(o, s)' = PromisedIn(delivery', o, s)
  BY DEF Promised, PromisedIn, Kept, RowsOf, RowsIn
<1> QED  BY <1>1, <1>2 DEF owing, Pairs

\* Every delivery is of a pair, and its status is where the promise is.
LEMMA OwingOfRow ==
  ASSUME KeptInv, NEW d \in DOMAIN delivery
  PROVE  /\ OncePerPair(delivery)
         /\ <<delivery[d].event, delivery[d].sub>> \in Pairs
         /\ owing[<<delivery[d].event, delivery[d].sub>>] = Kept(delivery[d].status)
<1>1. OncePerPair(delivery)
  BY DEF KeptInv, FanoutInv, FanoutOnce, OncePerPair
<1>2. delivery[d] \in DeliveryRow /\ outbox \in Seq(OutboxRow)
  BY RowIds DEF KeptInv, WorkerInv, TypeOK
<1>3. delivery[d].event \in 1..MaxEvents
  BY <1>2, NotificationsAssumption DEF KeptInv, FanoutInv, PromiseInv
<1>4. delivery[d].sub \in Subs
  BY <1>2 DEF DeliveryRow
<1>5. <<delivery[d].event, delivery[d].sub>> \in Pairs
  BY <1>3, <1>4 DEF Pairs
<1> QED  BY <1>1, <1>5, OwingIsRead, RowIsThePromise

\* A step that adds no row and settles or reopens none owes the same.
LEMMA OwingFrame ==
  ASSUME KeptInv, DOMAIN delivery' = DOMAIN delivery,
         \A d \in DOMAIN delivery :
           /\ delivery'[d].event = delivery[d].event /\ delivery'[d].sub = delivery[d].sub
           /\ Kept(delivery'[d].status) = Kept(delivery[d].status)
  PROVE  owing' = owing
<1>1. OncePerPair(delivery)
  BY DEF KeptInv, FanoutInv, FanoutOnce, OncePerPair
<1>2. \A o, s : PromisedIn(delivery', o, s) = PromisedIn(delivery, o, s)
  BY <1>1, SameRowsSamePromise
<1> QED  BY <1>2, OwingIsRead

\* A step that settles or reopens one delivery changes what is owed of its pair.
LEMMA OwingMoves ==
  ASSUME KeptInv, NEW r \in DOMAIN delivery, DOMAIN delivery' = DOMAIN delivery,
         \A d \in DOMAIN delivery :
           /\ delivery'[d].event = delivery[d].event /\ delivery'[d].sub = delivery[d].sub
           /\ d # r => Kept(delivery'[d].status) = Kept(delivery[d].status)
  PROVE  owing' = [owing EXCEPT ![<<delivery[r].event, delivery[r].sub>>] = Kept(delivery'[r].status)]
<1> DEFINE p == <<delivery[r].event, delivery[r].sub>>
<1>1. OncePerPair(delivery) /\ p \in Pairs
  BY OwingOfRow
<1>2. OncePerPair(delivery')
  BY <1>1 DEF OncePerPair
<1>3. PromisedIn(delivery', delivery[r].event, delivery[r].sub) = Kept(delivery'[r].status)
  BY <1>2, RowIsThePromise
<1>4. ASSUME NEW q \in Pairs, q # p
      PROVE  PromisedIn(delivery', q[1], q[2]) = PromisedIn(delivery, q[1], q[2])
  <2>1. q = <<q[1], q[2]>>
    BY DEF Pairs
  <2>2. ~(delivery[r].event = q[1] /\ delivery[r].sub = q[2])
    BY <1>4, <2>1
  <2>3. \A d \in DOMAIN delivery : delivery[d].event = q[1] /\ delivery[d].sub = q[2] =>
          Kept(delivery'[d].status) = Kept(delivery[d].status)
    BY <2>2
  <2> QED  BY <1>1, <2>3, SameRowsSamePromise
<1>5. p[1] = delivery[r].event /\ p[2] = delivery[r].sub
  OBVIOUS
<1> HIDE DEF p
<1> QED  BY <1>1, <1>3, <1>4, <1>5, OwingIsRead DEF p

\* What is seen of the rows a receiver accepted.
LEMMA TakenFrame ==
  ASSUME KeptInv,
         \A d \in DOMAIN delivery :
           delivery'[d].event = delivery[d].event /\ delivery'[d].sub = delivery[d].sub
  PROVE  /\ accepted' = accepted => taken' = taken
         /\ \A r \in DOMAIN delivery : accepted' = accepted \cup {r} =>
              taken' = taken \cup {<<delivery[r].event, delivery[r].sub>>}
  BY DEF KeptInv, PromiseInv, taken

\* A step that leaves the events alone is not seen in them.
LEMMA FannedFrame == outbox' = outbox => fanned' = fanned
  BY DEF fanned

\* Emitting an event publishes it.
LEMMA EmitPublishes ==
  ASSUME KeptInv, NEW kind \in EventKinds, Emit(kind)
  PROVE  PromiseStep
<1> DEFINE n == Len(outbox) + 1
<1>1. outbox \in Seq(OutboxRow) /\ Len(outbox) < MaxEvents
  BY DEF KeptInv, WorkerInv, TypeOK, Emit
<1>2. n \in 1..MaxEvents /\ n \notin DOMAIN outbox
  BY <1>1, NotificationsAssumption
<1>3. /\ DOMAIN outbox' = DOMAIN outbox \cup {n}
      /\ \A o \in DOMAIN outbox : outbox'[o] = outbox[o]
      /\ outbox'[n].status = "pending"
  BY <1>1 DEF Emit
<1>4. UNCHANGED <<delivery, accepted>>
  BY DEF Emit
<1> HIDE DEF n
<1>5. fanned[n] = "none" /\ fanned' = [fanned EXCEPT ![n] = "waiting"]
  BY <1>2, <1>3 DEF fanned
<1>6. owing' = owing /\ taken' = taken
  BY <1>4, OwingFrame, TakenFrame
<1> QED  BY <1>2, <1>5, <1>6 DEF PromiseStep, PublishStep

\* Committing the expansion fans out what it has done, all of it at once.
LEMMA CommitFansOut ==
  ASSUME KeptInv, ExpandCommit
  PROVE  PromiseStep
<1> DEFINE new == {<<staged[i].event, staged[i].sub>> : i \in DOMAIN staged}
<1>0. OncePerPair(delivery) /\ OncePerPair(delivery')
  <2>1. FanoutInv'
    BY FanoutCommits DEF KeptInv
  <2> QED  BY <2>1 DEF KeptInv, FanoutInv, FanoutOnce, OncePerPair
<1>1. /\ DOMAIN delivery' = 1..(Len(delivery) + Len(staged))
      /\ \A d \in DOMAIN delivery' :
           delivery'[d] = IF d <= Len(delivery) THEN delivery[d] ELSE staged[d - Len(delivery)]
  BY CommittedRows DEF KeptInv, WorkerInv
<1>2. /\ Len(staged) \in Nat /\ DOMAIN staged = 1..Len(staged)
      /\ Len(delivery) \in Nat /\ DOMAIN delivery = 1..Len(delivery)
      /\ staged \in Seq(DeliveryRow)
  BY DEF KeptInv, WorkerInv, TypeOK
<1>3. \A d \in DOMAIN delivery : d \in DOMAIN delivery' /\ delivery'[d] = delivery[d]
  BY <1>1, <1>2
<1>4. \A i \in DOMAIN staged :
        i + Len(delivery) \in DOMAIN delivery' /\ delivery'[i + Len(delivery)] = staged[i]
  BY <1>1, <1>2
<1>5. \A d \in DOMAIN delivery' :
        \/ d \in DOMAIN delivery
        \/ d - Len(delivery) \in DOMAIN staged /\ delivery'[d] = staged[d - Len(delivery)]
  BY <1>1, <1>2
<1>6. \A i \in DOMAIN staged :
        staged[i].event \in done /\ staged[i].sub \in Subs /\ staged[i].status = "pending"
  <2>1. \A i \in DOMAIN staged : staged[i] \in DeliveryRow
    BY <1>2, RowIds
  <2>2. \A i \in DOMAIN staged : staged[i].sub \in Subs
    BY <2>1 DEF DeliveryRow
  <2> QED  BY <2>2 DEF KeptInv, FanoutInv
<1>7. done \subseteq 1..MaxEvents /\ new \subseteq done \X Subs
  <2>1. done \subseteq DOMAIN outbox /\ DOMAIN outbox = 1..Len(outbox) /\ Len(outbox) \in Nat
    BY DEF KeptInv, FanoutInv, PendingIn, WorkerInv, TypeOK
  <2>2. done \subseteq 1..MaxEvents
    BY <2>1, NotificationsAssumption DEF KeptInv, PromiseInv
  <2> QED  BY <1>6, <2>2
<1>8. \A p \in new : PromisedIn(delivery', p[1], p[2]) = "queued"
  <2> SUFFICES ASSUME NEW i \in DOMAIN staged
               PROVE  PromisedIn(delivery', staged[i].event, staged[i].sub) = "queued"
    OBVIOUS
  <2>1. Kept(staged[i].status) = "queued"
    BY <1>6 DEF Kept
  <2> QED  BY <1>0, <1>4, <2>1, RowIsThePromise
<1>9. ASSUME NEW p \in Pairs, p \notin new
      PROVE  PromisedIn(delivery', p[1], p[2]) = PromisedIn(delivery, p[1], p[2])
  <2>0. p = <<p[1], p[2]>>
    BY DEF Pairs
  <2>1. CASE \E d \in DOMAIN delivery : delivery[d].event = p[1] /\ delivery[d].sub = p[2]
    BY <1>0, <1>3, <2>1, RowIsThePromise
  <2>2. CASE ~\E d \in DOMAIN delivery : delivery[d].event = p[1] /\ delivery[d].sub = p[2]
    <3>1. \A d \in DOMAIN delivery' : delivery'[d].event = p[1] => delivery'[d].sub # p[2]
      BY <1>3, <1>5, <1>9, <2>0, <2>2
    <3> QED  BY <2>2, <3>1, NoRowNoPromise
  <2> QED  BY <2>1, <2>2
<1> HIDE DEF new
<1>10. owing' = [p \in Pairs |-> IF p \in new THEN "queued" ELSE owing[p]]
  BY <1>8, <1>9, OwingIsRead
<1>11. taken' = taken
  <2>1. \A d \in DOMAIN delivery :
          delivery'[d].event = delivery[d].event /\ delivery'[d].sub = delivery[d].sub
    BY <1>3
  <2> QED  BY <2>1, TakenFrame DEF ExpandCommit
<1>12. /\ \A o \in done : fanned[o] = "waiting"
       /\ fanned' = [o \in 1..MaxEvents |-> IF o \in done THEN "fanned out" ELSE fanned[o]]
  <2>1. \A o \in DOMAIN outbox : outbox[o] \in OutboxRow
    BY RowIds DEF KeptInv, WorkerInv, TypeOK
  <2>2. DOMAIN outbox' = DOMAIN outbox
        /\ \A o \in DOMAIN outbox :
             outbox'[o].status = IF o \in done THEN "dispatched" ELSE outbox[o].status
    BY <2>1 DEF ExpandCommit, OutboxRow
  <2>3. \A o \in done : o \in DOMAIN outbox /\ outbox[o].status = "pending"
    BY DEF KeptInv, FanoutInv, PendingIn
  <2> QED  BY <1>7, <2>2, <2>3 DEF fanned
<1>13. CASE done # {}
  BY <1>7, <1>10, <1>11, <1>12, <1>13 DEF PromiseStep, FanOutStep
<1>14. CASE done = {}
  <2>1. new = {}
    BY <1>7, <1>14
  <2>2. owing' = owing
    BY <1>10, <2>1, OwingIsRead
  <2>3. fanned' = fanned
    BY <1>12, <1>14 DEF fanned
  <2> QED  BY <1>11, <2>2, <2>3 DEF PromiseStep
<1> QED  BY <1>13, <1>14

\* An external call is accepted by the receiver, or nothing is seen of it.
LEMMA DeliverAccepts ==
  ASSUME KeptInv, NEW result \in Results, Deliver(result)
  PROVE  PromiseStep
<1>1. job.id \in DOMAIN delivery /\ delivery[job.id].status \in {"pending", "failed"}
  BY DEF KeptInv, WorkerInv, Claims, Held, InHand, Deliver
<1>2. UNCHANGED <<outbox, delivery>>
  BY DEF Deliver, tables
<1>3. owing' = owing /\ fanned' = fanned
  BY <1>2, OwingFrame, FannedFrame
<1>4. PICK p \in Pairs : p = <<delivery[job.id].event, delivery[job.id].sub>>
  BY <1>1, OwingOfRow
<1>5. owing[p] = "queued"
  BY <1>1, <1>4, OwingOfRow DEF Kept
<1>6. taken' = taken \cup {p} \/ taken' = taken
  BY <1>1, <1>2, <1>4, TakenFrame DEF Deliver
<1> QED  BY <1>3, <1>5, <1>6 DEF PromiseStep, AcceptStep

\* Committing a result settles the delivery, or leaves it queued.
LEMMA ResultSettles ==
  ASSUME KeptInv, CommitResult
  PROVE  PromiseStep
<1>1. /\ job.id \in DOMAIN delivery /\ delivery[job.id].status \in {"pending", "failed"}
      /\ pc = "commit" /\ InHand
  BY DEF KeptInv, WorkerInv, Claims, Held, InHand, CommitResult
<1>2. DOMAIN delivery' = DOMAIN delivery /\ UNCHANGED <<outbox, accepted>>
  BY ResultRows DEF KeptInv, CommitResult
<1>3. \A d \in DOMAIN delivery : d # job.id => delivery'[d] = delivery[d]
  BY ResultRows DEF KeptInv
<1>4. delivery'[job.id] = Mark(delivery[job.id]) /\ delivery[job.id] \in DeliveryRow
  BY <1>1, ResultRows, MarkedRow DEF KeptInv, WorkerInv
<1>5. /\ delivery'[job.id].event = delivery[job.id].event /\ delivery'[job.id].sub = delivery[job.id].sub
      /\ delivery'[job.id].status = IF job.result = "ok" THEN "sent" ELSE IF Exhausted THEN "dead" ELSE "failed"
  BY <1>4 DEF Mark, DeliveryRow
<1>6. \A d \in DOMAIN delivery :
        delivery'[d].event = delivery[d].event /\ delivery'[d].sub = delivery[d].sub
  BY <1>3, <1>5
<1>7. PICK p \in Pairs : p = <<delivery[job.id].event, delivery[job.id].sub>>
  BY <1>1, OwingOfRow
<1>8. owing[p] = "queued"
  BY <1>1, <1>7, OwingOfRow DEF Kept
<1>9. fanned' = fanned /\ taken' = taken
  BY <1>2, <1>6, FannedFrame, TakenFrame
<1>10. owing' = [owing EXCEPT ![p] = Kept(delivery'[job.id].status)]
  BY <1>1, <1>2, <1>3, <1>6, <1>7, OwingMoves
<1>11. CASE delivery'[job.id].status \in {"sent", "dead"}
  <2>1. delivery'[job.id].status = "sent" => p \in taken
    BY <1>1, <1>5, <1>7 DEF KeptInv, PromiseInv, taken
  <2> QED  BY <1>8, <1>9, <1>10, <1>11, <2>1 DEF PromiseStep, SettleStep, Kept
<1>12. CASE delivery'[job.id].status \notin {"sent", "dead"}
  <2>1. owing' = owing
    BY <1>8, <1>10, <1>12, OwingIsRead DEF Kept
  <2> QED  BY <1>9, <2>1 DEF PromiseStep
<1> QED  BY <1>11, <1>12

\* A manual redelivery reopens what was settled.
LEMMA RedeliverReopens ==
  ASSUME KeptInv, NEW r \in DOMAIN delivery, Redeliver(r)
  PROVE  PromiseStep
<1>1. \A d \in DOMAIN delivery : delivery[d] \in DeliveryRow
  BY RowIds DEF KeptInv, WorkerInv, TypeOK
<1>2. /\ DOMAIN delivery' = DOMAIN delivery /\ UNCHANGED <<outbox, accepted>>
      /\ \A d \in DOMAIN delivery : d # r => delivery'[d] = delivery[d]
  BY DEF Redeliver
<1>3. /\ delivery'[r].event = delivery[r].event /\ delivery'[r].sub = delivery[r].sub
      /\ delivery'[r].status = "pending"
  BY <1>1 DEF Redeliver, DeliveryRow
<1>4. \A d \in DOMAIN delivery :
        delivery'[d].event = delivery[d].event /\ delivery'[d].sub = delivery[d].sub
  BY <1>2, <1>3
<1>5. PICK p \in Pairs : p = <<delivery[r].event, delivery[r].sub>>
  BY OwingOfRow
<1>6. owing[p] = Kept(delivery[r].status)
  BY <1>5, OwingOfRow
<1>7. owing' = [owing EXCEPT ![p] = "queued"]
  BY <1>2, <1>3, <1>4, <1>5, OwingMoves DEF Kept
<1>8. fanned' = fanned /\ taken' = taken
  BY <1>2, <1>4, FannedFrame, TakenFrame
<1>9. CASE delivery[r].status \in {"sent", "dead"}
  BY <1>6, <1>7, <1>8, <1>9 DEF PromiseStep, ReopenStep, Kept
<1>10. CASE delivery[r].status \notin {"sent", "dead"}
  <2>1. owing' = owing
    BY <1>6, <1>7, <1>10, OwingIsRead DEF Kept
  <2> QED  BY <1>8, <2>1 DEF PromiseStep
<1> QED  BY <1>9, <1>10

\* Every step of the pipeline is a step of the promise, or is not seen.
LEMMA StepIsPromised ==
  ASSUME KeptInv, [Next]_vars
  PROVE  PromiseStep
<1>1. CASE \E kind \in EventKinds : Emit(kind)
  BY <1>1, EmitPublishes
<1>2. CASE ExpandCommit
  BY <1>2, CommitFansOut
<1>3. CASE \E result \in Results : Deliver(result)
  BY <1>3, DeliverAccepts
<1>4. CASE CommitResult
  BY <1>4, ResultSettles
<1>5. CASE \E d \in DOMAIN delivery : Redeliver(d)
  BY <1>5, RedeliverReopens
<1>6. CASE \E d \in DOMAIN delivery : BackoffElapses(d)
  <2>1. \A d \in DOMAIN delivery : delivery[d] \in DeliveryRow
    BY RowIds DEF KeptInv, WorkerInv, TypeOK
  <2>2. DOMAIN delivery' = DOMAIN delivery /\ UNCHANGED <<outbox, accepted>>
    BY <1>6 DEF BackoffElapses, ghosts
  <2>3. \A d \in DOMAIN delivery :
          /\ delivery'[d].event = delivery[d].event /\ delivery'[d].sub = delivery[d].sub
          /\ delivery'[d].status = delivery[d].status
    BY <1>6, <2>1 DEF BackoffElapses, DeliveryRow
  <2> QED  BY <2>2, <2>3, OwingFrame, TakenFrame, FannedFrame DEF PromiseStep
<1>7. CASE \/ ExpandOutboxBatch \/ DeliverDueBatch \/ Persist
           \/ \E o \in rows : FanoutOutboxRow(o)
           \/ \E snap \in batch :
                DeliveryRequest(snap) \/ DeliveryRequestRefused(snap) \/ DeliveryRequestDbError(snap)
           \/ CommitConflict \/ TickFails \/ Configure \/ UNCHANGED vars
  <2>1. UNCHANGED <<outbox, delivery, accepted>>
    BY <1>7 DEF ExpandOutboxBatch, DeliverDueBatch, Persist, FanoutOutboxRow, DeliveryRequest,
                DeliveryRequestRefused, DeliveryRequestDbError, Take, CommitConflict, TickFails, Abort,
                Configure, FailingAgesOut, CreateWebhookEndpoint, DeleteWebhookEndpoint, UpdateWebhookEndpoint,
                CreateSubscription, InsertSubscription, DeleteSubscription, tables, worker, ghosts, vars
  <2> QED  BY <2>1, OwingFrame, TakenFrame, FannedFrame DEF PromiseStep
<1> QED
  BY <1>1, <1>2, <1>3, <1>4, <1>5, <1>6, <1>7
  DEF Next, RunOnce, Faults, Time, Operators, Configure

\* The empty tables promise nothing.
LEMMA InitPromisesNothing == Init => Promise!Init
<1> SUFFICES ASSUME Init  PROVE Promise!Init
  OBVIOUS
<1>1. fanned = [o \in 1..MaxEvents |-> "none"]
  BY DEF Init, fanned
<1>2. \A p \in Pairs : PromisedIn(delivery, p[1], p[2]) = "none"
  BY NoRowNoPromise DEF Init
<1>3. owing = [p \in Pairs |-> "none"]
  BY <1>2, OwingIsRead
<1>4. taken = {}
  BY DEF Init, taken
<1> QED  BY <1>1, <1>3, <1>4 DEF Promise!Init, Promise!Events, Promise!Deliveries, Pairs, fanned, owing, taken

\* The tables, the worker with its aborted ticks and retries, and the operators
\* racing it take no step the promise does not allow: nothing committed is
\* fanned out twice, sent unless accepted, or reopened but by an operator.
THEOREM PipelineKeepsPromise == Spec => Promise!Spec
<1>1. Init => KeptInv
  BY InitTypeOK, NotificationsAssumption
  DEF Init, KeptInv, WorkerInv, Sizes, Claims, InHand, FanoutInv, FanoutOnce, PendingIn, PromiseInv
<1>2. KeptInv /\ [Next]_vars => KeptInv'
  BY WorkerInvStep, FanoutStep, PromiseInvStep DEF KeptInv
<1>3. KeptInv /\ [Next]_vars => [Promise!Next]_(Promise!vars)
  BY StepIsPromised, StepsOfThePromise
<1> QED  BY <1>1, <1>2, <1>3, InitPromisesNothing, PTL DEF Spec, Promise!Spec

=============================================================================
