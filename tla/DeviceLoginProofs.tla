------------------------- MODULE DeviceLoginProofs --------------------------
(***************************************************************************)
(* Proofs about DeviceLogin, for any number of grants, polls and faults.   *)
(* One token per grant, and final answers that stay final, rest on one     *)
(* decision at a time for each grant (OneDecision): device_approve and     *)
(* device_deny update the row by its id alone, and the run                 *)
(* DeviceLogin_race shows two of them taking a grant out of a final        *)
(* status. That a drop loses one grant at most does not rest on it.        *)
(***************************************************************************)
EXTENDS DeviceLogin, FiniteSetTheorems, TLAPS

\* No two browser requests are deciding the same grant.
OneDecision ==
  \A t, u \in Tabs : tab[t] # Free /\ tab[u] # Free /\ tab[t].grant = tab[u].grant => t = u

\* Before its claim a grant has no token and no poll that is about to make one.
UnclaimedHasNoToken ==
  \A g \in Grants : status[g] \notin {"completed", "gone"} =>
    minted[g] = 0 /\ \A p \in Polls : ~ClaimedBy(p, g)

\* The poll that claimed a grant is the only one, and has not minted yet.
ClaimIsExclusive ==
  \A g \in Grants : \A p, q \in Polls :
    ClaimedBy(p, g) => minted[g] = 0 /\ (ClaimedBy(q, g) => p = q)

\* What a decision is about to write rests on a row that is still pending.
DecisionIsFresh ==
  \A t \in Tabs : tab[t] # Free => status[tab[t].grant] \in {"pending", "gone"}

IInv == TypeOK /\ UnclaimedHasNoToken /\ ClaimIsExclusive /\ OneTokenPerGrant /\ DecisionIsFresh

\* A slot that is not free holds a row's id.
LEMMA SlotsHoldRows ==
  ASSUME TypeOK
  PROVE  /\ \A p \in Polls : poll[p].at # "free" =>
              poll[p] \in [at : {"pending", "approved", "claimed"}, grant : Grants]
         /\ \A t \in Tabs : tab[t] # Free =>
              tab[t] \in [at : {"approved", "denied"}, grant : Grants]
BY DEF TypeOK, Requests, Free

\* Every state of the device grant has its type.
LEMMA TypeStep ==
  ASSUME TypeOK, [Next]_vars
  PROVE  TypeOK'
<1> USE DeviceLoginAssumption
<1>1. ASSUME NEW g \in Grants, DeviceCode(g) PROVE TypeOK'
  BY <1>1 DEF TypeOK, DeviceCode, Exists
<1>2. ASSUME NEW g \in Grants, NEW p \in Polls, PollReads(p, g) PROVE TypeOK'
  <2>1. [at |-> status[g], grant |-> g] \in Requests({"pending", "approved", "claimed"})
    BY <1>2 DEF PollReads, Requests
  <2> QED BY <1>2, <2>1 DEF TypeOK, PollReads
<1>3. ASSUME NEW p \in Polls, PollPending(p) PROVE TypeOK'
  <2>1. poll[p].grant \in Grants BY <1>3, SlotsHoldRows DEF PollPending
  <2>2. Free \in Requests({"pending", "approved", "claimed"}) BY DEF Requests
  <2> QED BY <1>3, <2>1, <2>2 DEF TypeOK, PollPending
<1>4. ASSUME NEW p \in Polls, PollClaims(p) PROVE TypeOK'
  <2>1. poll[p] \in [at : {"pending", "approved", "claimed"}, grant : Grants]
    BY <1>4, SlotsHoldRows DEF PollClaims
  <2>2. [poll[p] EXCEPT !.at = "claimed"] \in Requests({"pending", "approved", "claimed"})
    BY <2>1 DEF Requests
  <2>3. Free \in Requests({"pending", "approved", "claimed"}) BY DEF Requests
  <2> QED BY <1>4, <2>1, <2>2, <2>3 DEF TypeOK, PollClaims
<1>5. ASSUME NEW p \in Polls, PollMints(p) PROVE TypeOK'
  <2>1. poll[p].grant \in Grants BY <1>5, SlotsHoldRows DEF PollMints
  <2>2. Free \in Requests({"pending", "approved", "claimed"}) BY DEF Requests
  <2> QED BY <1>5, <2>1, <2>2 DEF TypeOK, PollMints
<1>6. ASSUME NEW g \in Grants, NEW t \in Tabs, ApproveReads(t, g) \/ DenyReads(t, g) PROVE TypeOK'
  <2>1. \A a \in {"approved", "denied"} :
          [at |-> a, grant |-> g] \in Requests({"approved", "denied"})
    BY DEF Requests
  <2> QED BY <1>6, <2>1 DEF TypeOK, ApproveReads, DenyReads
<1>7. ASSUME NEW t \in Tabs, TabCommits(t) PROVE TypeOK'
  <2>1. tab[t] \in [at : {"approved", "denied"}, grant : Grants]
    BY <1>7, SlotsHoldRows DEF TabCommits
  <2>2. Free \in Requests({"approved", "denied"}) BY DEF Requests
  <2> QED BY <1>7, <2>1, <2>2 DEF TypeOK, TabCommits
<1>8. ASSUME NEW g \in Grants, Passes(g) PROVE TypeOK'
  BY <1>8 DEF TypeOK, Passes
<1>9. ASSUME NEW g \in Grants, Ages(g) PROVE TypeOK'
  BY <1>9 DEF TypeOK, Ages
<1>12. ASSUME NEW g \in Grants, LeavesLoop(g) PROVE TypeOK'
  BY <1>12 DEF TypeOK, LeavesLoop
<1>10. ASSUME Dropped PROVE TypeOK'
  <2>1. \A ats : Free \in Requests(ats) BY DEF Requests
  <2> QED BY <1>10, <2>1 DEF TypeOK, Dropped
<1>11. ASSUME UNCHANGED vars PROVE TypeOK'
  BY <1>11 DEF TypeOK, vars
<1> QED BY <1>1, <1>2, <1>3, <1>4, <1>5, <1>6, <1>7, <1>8, <1>9, <1>10, <1>11, <1>12
        DEF Next, PollStep, PollAnswers

\* The type invariant holds for every number of grants, polls, decisions and
\* faults, and every interval.
THEOREM TypeCorrect == Spec => []TypeOK
<1>1. Init => TypeOK
  BY DeviceLoginAssumption DEF Init, TypeOK, Requests, Free
<1>2. TypeOK /\ [Next]_vars => TypeOK'
  BY TypeStep
<1> QED BY <1>1, <1>2, PTL DEF Spec

\* The inductive step of the invariant behind one token per grant.
LEMMA InductiveStep ==
  ASSUME OneDecision, IInv, [Next]_vars
  PROVE  IInv'
<1> USE DEF IInv
<1>0. TypeOK' BY TypeStep
<1> DEFINE Rest == UnclaimedHasNoToken /\ ClaimIsExclusive /\ OneTokenPerGrant /\ DecisionIsFresh
<1>1. ASSUME NEW g \in Grants, DeviceCode(g) PROVE Rest'
  <2>1. \A h \in Grants : /\ status'[h] \notin {"completed", "gone"} => status[h] \notin {"completed", "gone"}
                          /\ status[h] \in {"pending", "gone"} => status'[h] \in {"pending", "gone"}
    BY <1>1 DEF DeviceCode, Exists, TypeOK
  <2>2. \A t \in Tabs : tab[t] # Free => tab[t].grant \in Grants
    BY SlotsHoldRows
  <2>3. UNCHANGED <<minted, poll, tab>> BY <1>1 DEF DeviceCode
  <2> QED BY <2>1, <2>2, <2>3
          DEF UnclaimedHasNoToken, ClaimIsExclusive, OneTokenPerGrant, DecisionIsFresh, ClaimedBy, Free
<1>2. ASSUME NEW g \in Grants, NEW p \in Polls, PollReads(p, g) PROVE Rest'
  <2>1. \A q \in Polls, h \in Grants : ClaimedBy(q, h)' => ClaimedBy(q, h)
    BY <1>2 DEF PollReads, ClaimedBy, TypeOK
  <2>2. UNCHANGED <<status, minted, tab>> BY <1>2 DEF PollReads
  <2> QED BY <2>1, <2>2
          DEF UnclaimedHasNoToken, ClaimIsExclusive, OneTokenPerGrant, DecisionIsFresh, Free
<1>3. ASSUME NEW p \in Polls, PollPending(p) PROVE Rest'
  <2>1. \A q \in Polls, h \in Grants : ClaimedBy(q, h)' => ClaimedBy(q, h)
    BY <1>3 DEF PollPending, ClaimedBy, TypeOK, Free
  <2>2. UNCHANGED <<status, minted, tab>> BY <1>3 DEF PollPending
  <2> QED BY <2>1, <2>2
          DEF UnclaimedHasNoToken, ClaimIsExclusive, OneTokenPerGrant, DecisionIsFresh, Free
<1>4. ASSUME NEW p \in Polls, PollClaims(p) PROVE Rest'
  <2> DEFINE g == poll[p].grant
  <2>1. poll[p] \in [at : {"pending", "approved", "claimed"}, grant : Grants]
    BY <1>4, SlotsHoldRows DEF PollClaims
  <2>2. UNCHANGED <<minted, tab>> BY <1>4 DEF PollClaims
  <2>3. CASE status[g] = "approved"
    <3>1. /\ status' = [status EXCEPT ![g] = "completed"]
          /\ poll' = [poll EXCEPT ![p].at = "claimed"]
      BY <1>4, <2>3 DEF PollClaims
    <3>2. \A q \in Polls, h \in Grants : ClaimedBy(q, h)' => ClaimedBy(q, h) \/ (q = p /\ h = g)
      BY <2>1, <3>1 DEF ClaimedBy, TypeOK
    <3>3. minted[g] = 0 /\ \A q \in Polls : ~ClaimedBy(q, g)
      BY <2>1, <2>3 DEF UnclaimedHasNoToken
    <3>4. g \in Grants BY <2>1
    <3>5. \A t \in Tabs : tab[t] # Free => tab[t].grant \in Grants /\ tab[t].grant # g
      BY <2>3, SlotsHoldRows DEF DecisionIsFresh
    <3>6. \A h \in Grants \ {g} : status'[h] = status[h]
      BY <3>1 DEF TypeOK
    <3>7. status'[g] = "completed" BY <3>1, <3>4 DEF TypeOK
    <3> HIDE DEF g
    <3>8. UnclaimedHasNoToken'
      BY <2>2, <3>2, <3>6, <3>7 DEF UnclaimedHasNoToken
    <3>9. ClaimIsExclusive'
      BY <2>2, <3>2, <3>3 DEF ClaimIsExclusive
    <3>10. OneTokenPerGrant'
      BY <2>2 DEF OneTokenPerGrant
    <3>11. DecisionIsFresh'
      BY <2>2, <3>5, <3>6 DEF DecisionIsFresh, Free
    <3> QED BY <3>8, <3>9, <3>10, <3>11
  <2>4. CASE status[g] # "approved"
    <3>1. poll' = [poll EXCEPT ![p] = Free] /\ UNCHANGED status
      BY <1>4, <2>4 DEF PollClaims
    <3>2. \A q \in Polls, h \in Grants : ClaimedBy(q, h)' => ClaimedBy(q, h)
      BY <3>1 DEF ClaimedBy, TypeOK, Free
    <3> QED BY <2>2, <3>1, <3>2
            DEF UnclaimedHasNoToken, ClaimIsExclusive, OneTokenPerGrant, DecisionIsFresh, Free
  <2> QED BY <2>3, <2>4
<1>5. ASSUME NEW p \in Polls, PollMints(p) PROVE Rest'
  <2> DEFINE g == poll[p].grant
  <2>1. g \in Grants /\ ClaimedBy(p, g)
    BY <1>5, SlotsHoldRows DEF PollMints, ClaimedBy
  <2>2. /\ minted' = [minted EXCEPT ![g] = @ + 1] /\ poll' = [poll EXCEPT ![p] = Free]
        /\ UNCHANGED <<status, tab>>
    BY <1>5 DEF PollMints
  <2>3. status[g] \in {"completed", "gone"} BY <2>1 DEF UnclaimedHasNoToken
  <2>4. minted[g] = 0 /\ \A q \in Polls : ClaimedBy(q, g) => q = p
    BY <2>1 DEF ClaimIsExclusive
  <2>5. \A q \in Polls, h \in Grants : ClaimedBy(q, h)' => ClaimedBy(q, h) /\ q # p
    BY <2>2 DEF ClaimedBy, TypeOK, Free
  <2>6. /\ \A h \in Grants \ {g} : minted'[h] = minted[h]
        /\ minted'[g] = 1
    BY <2>1, <2>2, <2>4 DEF TypeOK
  <2> HIDE DEF g
  <2>7. UnclaimedHasNoToken' BY <2>2, <2>3, <2>5, <2>6 DEF UnclaimedHasNoToken
  <2>8. ClaimIsExclusive' BY <2>4, <2>5, <2>6 DEF ClaimIsExclusive
  <2>9. OneTokenPerGrant' BY <2>6 DEF OneTokenPerGrant
  <2>10. DecisionIsFresh' BY <2>2 DEF DecisionIsFresh, Free
  <2> QED BY <2>7, <2>8, <2>9, <2>10
<1>6. ASSUME NEW g \in Grants, NEW t \in Tabs, ApproveReads(t, g) \/ DenyReads(t, g) PROVE Rest'
  <2>1. /\ status[g] = "pending" /\ UNCHANGED <<status, minted, poll>>
        /\ \E a \in {"approved", "denied"} : tab' = [tab EXCEPT ![t] = [at |-> a, grant |-> g]]
    BY <1>6 DEF ApproveReads, DenyReads
  <2>2. \A u \in Tabs : tab'[u] = tab[u] \/ tab'[u].grant = g
    BY <2>1 DEF TypeOK
  <2> QED BY <2>1, <2>2
          DEF UnclaimedHasNoToken, ClaimIsExclusive, OneTokenPerGrant, DecisionIsFresh, ClaimedBy, Free
<1>7. ASSUME NEW t \in Tabs, TabCommits(t) PROVE Rest'
  <2> DEFINE g == tab[t].grant
  <2>1. tab[t] \in [at : {"approved", "denied"}, grant : Grants]
    BY <1>7, SlotsHoldRows DEF TabCommits
  <2>2. status[g] \in {"pending", "gone"} BY <1>7 DEF TabCommits, DecisionIsFresh
  <2>4. /\ status' = [status EXCEPT ![g] = IF Exists(g) THEN tab[t].at ELSE @]
        /\ UNCHANGED <<minted, poll>>
    BY <1>7 DEF TabCommits
  <2>3. \A u \in Tabs : tab'[u] # Free => /\ tab'[u] = tab[u]
                                         /\ status'[tab[u].grant] = status[tab[u].grant]
    BY <1>7, <2>4, SlotsHoldRows DEF TabCommits, OneDecision, TypeOK
  <2>5. \A h \in Grants : status'[h] \notin {"completed", "gone"} => status[h] \notin {"completed", "gone"}
    BY <2>1, <2>2, <2>4 DEF Exists, TypeOK
  <2> QED BY <2>3, <2>4, <2>5
          DEF UnclaimedHasNoToken, ClaimIsExclusive, OneTokenPerGrant, DecisionIsFresh, ClaimedBy, Free
<1>8. ASSUME NEW g \in Grants, Passes(g) \/ Ages(g) \/ LeavesLoop(g) PROVE Rest'
  <2>1. UNCHANGED <<status, minted, poll, tab>> BY <1>8 DEF Passes, Ages, LeavesLoop
  <2> QED BY <2>1
          DEF UnclaimedHasNoToken, ClaimIsExclusive, OneTokenPerGrant, DecisionIsFresh, ClaimedBy, Free
<1>9. ASSUME Dropped PROVE Rest'
  <2>1. UNCHANGED <<status, minted>> BY <1>9 DEF Dropped
  <2>2. \A q \in Polls, h \in Grants : ClaimedBy(q, h)' => ClaimedBy(q, h)
    BY <1>9 DEF Dropped, ClaimedBy, TypeOK, Free
  <2>3. \A t \in Tabs : tab'[t] # Free => tab'[t] = tab[t]
    BY <1>9 DEF Dropped, TypeOK
  <2> QED BY <2>1, <2>2, <2>3
          DEF UnclaimedHasNoToken, ClaimIsExclusive, OneTokenPerGrant, DecisionIsFresh, Free
<1>10. ASSUME UNCHANGED vars PROVE Rest'
  BY <1>10
     DEF vars, UnclaimedHasNoToken, ClaimIsExclusive, OneTokenPerGrant, DecisionIsFresh, ClaimedBy, Free
<1> QED BY <1>0, <1>1, <1>2, <1>3, <1>4, <1>5, <1>6, <1>7, <1>8, <1>9, <1>10
        DEF Next, PollStep, PollAnswers

\* The invariant holds from the start, as long as decisions come one at a time.
LEMMA Invariance == Spec /\ []OneDecision => []IInv
<1>1. Init => IInv
  BY DeviceLoginAssumption
     DEF Init, IInv, TypeOK, Requests, Free, UnclaimedHasNoToken, ClaimIsExclusive, ClaimedBy,
         OneTokenPerGrant, DecisionIsFresh
<1>2. OneDecision /\ IInv /\ [Next]_vars => IInv'
  BY InductiveStep
<1> QED BY <1>1, <1>2, PTL DEF Spec

\* As long as the decisions on a grant come one at a time, one approval mints at
\* most one token, whatever polls race for it and whatever requests are dropped.
THEOREM MintsOnce == Spec /\ []OneDecision => []OneTokenPerGrant
<1>1. IInv => OneTokenPerGrant BY DEF IInv
<1> QED BY <1>1, Invariance, PTL

\* As long as the decisions on a grant come one at a time, a denied or completed
\* grant only ever leaves its status by being deleted.
THEOREM AnswersAreFinal == Spec /\ []OneDecision => TerminalIsFinal
<1> DEFINE Final == \A g \in Grants :
             status[g] \in {"denied", "completed"} => status'[g] \in {status[g], "gone"}
<1>1. ASSUME IInv, [Next]_vars PROVE [Final]_vars
  <2>1. ASSUME NEW g \in Grants, DeviceCode(g) PROVE Final
    BY <1>1, <2>1 DEF DeviceCode, Exists, IInv, TypeOK
  <2>2. ASSUME NEW p \in Polls, PollClaims(p) PROVE Final
    BY <1>1, <2>2 DEF PollClaims, IInv, TypeOK
  <2>3. ASSUME NEW t \in Tabs, TabCommits(t) PROVE Final
    BY <1>1, <2>3 DEF TabCommits, Exists, IInv, TypeOK, DecisionIsFresh
  <2>4. ASSUME UNCHANGED status PROVE Final
    BY <2>4
  <2> QED
    BY <1>1, <2>1, <2>2, <2>3, <2>4
       DEF Next, PollStep, PollAnswers, PollReads, PollPending, PollMints, ApproveReads, DenyReads,
           Passes, Ages, LeavesLoop, Dropped, vars
<1> QED BY <1>1, Invariance, PTL DEF Spec, TerminalIsFinal

----------------------------------------------------------------------------
(* Grants used up for nothing.                                             *)

\* One more grant is lost at a time, and only to a request that ends early.
LEMMA LostStep ==
  ASSUME TypeOK, [Next]_vars
  PROVE  \/ Lost' \subseteq Lost /\ faults' >= faults
         \/ faults' = faults + 1 /\ \E x : Lost' \subseteq Lost \cup {x}
<1> DEFINE Goal == \/ Lost' \subseteq Lost /\ faults' >= faults
                   \/ faults' = faults + 1 /\ \E x : Lost' \subseteq Lost \cup {x}
<1>0. faults \in Nat BY DEF TypeOK
\* Nothing is lost as long as claims and tokens stay and no row becomes completed.
<1>1. ASSUME faults' = faults,
             \A g \in Grants : status'[g] = "completed" => status[g] = "completed",
             \A g \in Grants : minted'[g] = 0 => minted[g] = 0,
             \A p \in Polls, g \in Grants : ClaimedBy(p, g) => ClaimedBy(p, g)' \/ minted'[g] > 0
      PROVE  Goal
  BY <1>0, <1>1 DEF Lost
<1>2. ASSUME NEW g \in Grants, DeviceCode(g) PROVE Goal
  <2>1. \A h \in Grants : status'[h] = "completed" => status[h] = "completed"
    BY <1>2 DEF DeviceCode, TypeOK
  <2> QED BY <1>1, <1>2, <2>1 DEF DeviceCode, ClaimedBy
<1>3. ASSUME NEW g \in Grants, NEW p \in Polls, PollReads(p, g) PROVE Goal
  <2>1. \A q \in Polls, h \in Grants : ClaimedBy(q, h) => ClaimedBy(q, h)'
    BY <1>3 DEF PollReads, ClaimedBy, TypeOK, Free
  <2> QED BY <1>1, <1>3, <2>1 DEF PollReads
<1>4. ASSUME NEW p \in Polls, PollPending(p) PROVE Goal
  <2>1. \A q \in Polls, h \in Grants : ClaimedBy(q, h) => ClaimedBy(q, h)'
    BY <1>4 DEF PollPending, ClaimedBy, TypeOK
  <2> QED BY <1>1, <1>4, <2>1 DEF PollPending
<1>5. ASSUME NEW p \in Polls, PollClaims(p) PROVE Goal
  <2> DEFINE g == poll[p].grant
  <2>1. g \in Grants /\ poll[p].at = "approved"
    BY <1>5, SlotsHoldRows DEF PollClaims
  <2>2. CASE status[g] = "approved"
    <3>1. /\ status' = [status EXCEPT ![g] = "completed"]
          /\ poll' = [poll EXCEPT ![p].at = "claimed"]
          /\ UNCHANGED <<minted, faults>>
      BY <1>5, <2>2 DEF PollClaims
    <3>2. poll'[p].at = "claimed" /\ poll'[p].grant = g
      BY <2>1, <3>1, SlotsHoldRows DEF TypeOK
    <3>3. \A q \in Polls, h \in Grants : ClaimedBy(q, h) => ClaimedBy(q, h)'
      BY <2>1, <3>1 DEF ClaimedBy, TypeOK
    <3>4. \A h \in Grants \ {g} : status'[h] = status[h]
      BY <3>1 DEF TypeOK
    <3> HIDE DEF g
    <3>5. Lost' \subseteq Lost
      BY <3>1, <3>2, <3>3, <3>4 DEF Lost, ClaimedBy
    <3> QED BY <1>0, <3>1, <3>5
  <2>3. CASE status[g] # "approved"
    <3>1. \A q \in Polls, h \in Grants : ClaimedBy(q, h) => ClaimedBy(q, h)'
      BY <1>5, <2>3 DEF PollClaims, ClaimedBy, TypeOK
    <3> QED BY <1>1, <1>5, <2>3, <3>1 DEF PollClaims
  <2> QED BY <2>2, <2>3
<1>6. ASSUME NEW p \in Polls, PollMints(p) PROVE Goal
  <2>1. poll[p].grant \in Grants BY <1>6, SlotsHoldRows DEF PollMints
  <2>2. \A h \in Grants : /\ minted'[h] = 0 => minted[h] = 0
                          /\ h = poll[p].grant => minted'[h] > 0
    BY <1>6, <2>1 DEF PollMints, TypeOK
  <2>3. \A q \in Polls, h \in Grants : ClaimedBy(q, h) => ClaimedBy(q, h)' \/ minted'[h] > 0
    BY <1>6, <2>2 DEF PollMints, ClaimedBy, TypeOK
  <2> QED BY <1>1, <1>6, <2>2, <2>3 DEF PollMints
<1>7. ASSUME NEW g \in Grants, NEW t \in Tabs, ApproveReads(t, g) \/ DenyReads(t, g) PROVE Goal
  BY <1>1, <1>7 DEF ApproveReads, DenyReads, ClaimedBy
<1>8. ASSUME NEW t \in Tabs, TabCommits(t) PROVE Goal
  <2>1. tab[t].at \in {"approved", "denied"} BY <1>8, SlotsHoldRows DEF TabCommits
  <2>2. \A h \in Grants : status'[h] = "completed" => status[h] = "completed"
    BY <1>8, <2>1 DEF TabCommits, TypeOK
  <2> QED BY <1>1, <1>8, <2>2 DEF TabCommits, ClaimedBy
<1>9. ASSUME NEW g \in Grants, Passes(g) \/ Ages(g) \/ LeavesLoop(g) PROVE Goal
  BY <1>1, <1>9 DEF Passes, Ages, LeavesLoop, ClaimedBy
<1>10. ASSUME Dropped PROVE Goal
  <2>1. faults' = faults + 1 /\ UNCHANGED <<status, minted>> BY <1>10 DEF Dropped
  <2>2. CASE UNCHANGED poll
    BY <2>1, <2>2 DEF Lost, ClaimedBy
  <2>3. ASSUME NEW p \in Polls, poll' = [poll EXCEPT ![p] = Free] PROVE Goal
    <3>1. \A q \in Polls \ {p} : poll'[q] = poll[q] BY <2>3 DEF TypeOK
    <3>2. Lost' \subseteq Lost \cup {poll[p].grant}
      BY <2>1, <3>1 DEF Lost, ClaimedBy
    <3> QED BY <2>1, <3>2
  <2> QED BY <1>10, <2>2, <2>3 DEF Dropped
<1>11. CASE UNCHANGED vars
  BY <1>1, <1>11 DEF vars, ClaimedBy
<1> QED
  BY <1>1, <1>2, <1>3, <1>4, <1>5, <1>6, <1>7, <1>8, <1>9, <1>10, <1>11
     DEF Next, PollStep, PollAnswers, vars, ClaimedBy

\* Every request dropped between claim and token costs one grant at most, and
\* nothing else costs any: with any number of racing polls and decisions.
THEOREM OnlyDropsLose == Spec => []LossesAreDrops
<1> DEFINE Inv == IsFiniteSet(Lost) /\ LossesAreDrops
<1>1. Init => Inv
  <2> SUFFICES ASSUME Init PROVE Inv OBVIOUS
  <2>1. Lost = {} BY DEF Init, Lost
  <2> QED BY <2>1, FS_EmptySet DEF Init, LossesAreDrops
<1>2. TypeOK /\ Inv /\ [Next]_vars => Inv'
  <2> SUFFICES ASSUME TypeOK, Inv, [Next]_vars PROVE Inv' OBVIOUS
  <2>0. faults \in Nat /\ faults' \in Nat BY TypeStep DEF TypeOK
  <2>1. CASE Lost' \subseteq Lost /\ faults' >= faults
    <3>1. IsFiniteSet(Lost') /\ Cardinality(Lost') <= Cardinality(Lost)
      BY <2>1, FS_Subset
    <3>2. Cardinality(Lost) \in Nat /\ Cardinality(Lost') \in Nat BY <3>1, FS_CardinalityType
    <3> QED BY <2>0, <2>1, <3>1, <3>2 DEF LossesAreDrops
  <2>2. ASSUME faults' = faults + 1, NEW x, Lost' \subseteq Lost \cup {x} PROVE Inv'
    <3>0. IsFiniteSet(Lost) /\ Cardinality(Lost) \in Nat BY FS_CardinalityType
    <3>1. IsFiniteSet(Lost \cup {x}) /\ Cardinality(Lost \cup {x}) <= Cardinality(Lost) + 1
      <4> HIDE DEF Inv
      <4> QED BY <3>0, FS_AddElement
    <3>2. IsFiniteSet(Lost') /\ Cardinality(Lost') <= Cardinality(Lost \cup {x})
      BY <2>2, <3>1, FS_Subset
    <3>3. /\ Cardinality(Lost) \in Nat /\ Cardinality(Lost') \in Nat
          /\ Cardinality(Lost \cup {x}) \in Nat
      BY <3>1, <3>2, FS_CardinalityType
    <3> QED BY <2>0, <2>2, <3>1, <3>2, <3>3 DEF LossesAreDrops
  <2> QED BY <2>1, <2>2, LostStep
<1> QED BY <1>1, <1>2, TypeCorrect, PTL DEF Spec

\* As long as no request has been dropped, completed means that the token
\* exists or is about to.
COROLLARY UndroppedIsMinted == Spec => [](faults = 0 => CompletedMeansMinted)
<1>1. Init => Lost = {} BY DEF Init, Lost
<1>2. TypeOK /\ (faults = 0 => Lost = {}) /\ [Next]_vars => (faults = 0 => Lost = {})'
  <2> SUFFICES ASSUME TypeOK, faults = 0 => Lost = {}, [Next]_vars, faults' = 0
               PROVE  Lost' = {}
    OBVIOUS
  <2>1. faults \in Nat BY DEF TypeOK
  <2>2. Lost' \subseteq Lost /\ faults' >= faults BY <2>1, LostStep
  <2> QED BY <2>1, <2>2
<1> QED BY <1>1, <1>2, TypeCorrect, PTL DEF Spec, CompletedMeansMinted
=============================================================================
