-------------------------- MODULE DeliveryPromise --------------------------
(***************************************************************************)
(* What the notification pipeline promises, with no outbox, worker or      *)
(* retry in sight: a committed event is fanned out once, to some of the    *)
(* subscriptions; every delivery that results is queued until it is        *)
(* settled as sent, which takes a receiver that accepted it, or as dead;   *)
(* and only an operator puts a settled delivery back in the queue.         *)
(***************************************************************************)
EXTENDS Naturals

CONSTANTS Subs, MaxEvents

VARIABLES event,      \* where each event is in its life
          promised,   \* the delivery of each event to each subscription
          accepted    \* the deliveries some receiver has accepted

vars == <<event, promised, accepted>>

Events     == 1..MaxEvents
Deliveries == Events \X Subs

Init ==
  /\ event = [o \in Events |-> "none"]
  /\ promised = [d \in Deliveries |-> "none"]
  /\ accepted = {}

Publish(o) ==
  /\ event[o] = "none"
  /\ event' = [event EXCEPT ![o] = "waiting"]
  /\ UNCHANGED <<promised, accepted>>

FanOut ==
  \E S \in SUBSET {o \in Events : event[o] = "waiting"} :
    /\ S # {}
    /\ event' = [o \in Events |-> IF o \in S THEN "fanned out" ELSE event[o]]
    /\ \E new \in SUBSET (S \X Subs) :
         promised' = [d \in Deliveries |-> IF d \in new THEN "queued" ELSE promised[d]]
    /\ UNCHANGED accepted

\* A receiver may accept the same delivery again: at least once, not exactly.
Accept(d) ==
  /\ promised[d] = "queued"
  /\ accepted' = accepted \cup {d}
  /\ UNCHANGED <<event, promised>>

Settle(d) ==
  /\ promised[d] = "queued"
  /\ \/ d \in accepted /\ promised' = [promised EXCEPT ![d] = "sent"]
     \/ promised' = [promised EXCEPT ![d] = "dead"]
  /\ UNCHANGED <<event, accepted>>

Reopen(d) ==
  /\ promised[d] \in {"sent", "dead"}
  /\ promised' = [promised EXCEPT ![d] = "queued"]
  /\ UNCHANGED <<event, accepted>>

Next ==
  \/ \E o \in Events : Publish(o)
  \/ FanOut
  \/ \E d \in Deliveries : Accept(d) \/ Settle(d) \/ Reopen(d)

Spec == Init /\ [][Next]_vars

FairSpec == Spec /\ WF_vars(FanOut) /\ \A d \in Deliveries : WF_vars(Settle(d))
=============================================================================
