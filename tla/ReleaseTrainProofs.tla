------------------------- MODULE ReleaseTrainProofs -------------------------
(***************************************************************************)
(* Proofs about ReleaseTrain, for any number of releases, channels,        *)
(* handlers and moves. AnnouncedOnce and YankedIsFinal rest on finalize    *)
(* being the only way to publish (the run ReleaseTrain_revived shows the   *)
(* publish endpoint taking a release out of yanked), or on no two handlers *)
(* being at work on one release. ReleaseBoard is kept without either.      *)
(***************************************************************************)
EXTENDS ReleaseTrain, TLAPS

\* The rows of a sequence are of its type.
LEMMA RowOf ==
  ASSUME NEW S, NEW s \in Seq(S), NEW i \in DOMAIN s
  PROVE  s[i] \in S
  OBVIOUS

----------------------------------------------------------------------------
(* Type correctness, with what a handler in flight has at each step.       *)

CallOk(x) ==
  /\ x \in Calls
  /\ x.op \in {"finalize", "publish", "yank"} => x.rel \in Releases /\ x.step = "read"
  /\ x.op \in Moves => x.chan \in Channels
  /\ x.op = "promote" => x.rel \in Releases
  /\ x.step \in {"chosen", "moving"} => x.op \in Moves /\ x.rel \in Releases

Shape == TypeOK /\ \A h \in Handlers : CallOk(call[h])

\* A handler that is not in flight is well formed.
LEMMA IdleOk == CallOk(Idle)
  BY DEF CallOk, Calls, Idle, Moves

\* Only a move appends to a history, and it appends a row of the table.
LEMMA RowAppended ==
  ASSUME Shape, NEW c \in Channels, NEW r \in Releases, NEW op \in Moves
  PROVE  LET rows == Append(history[c], [rel |-> r, op |-> op])
         IN /\ rows \in Seq([rel : Releases, op : Moves])
            /\ Len(rows) = Len(history[c]) + 1
            /\ DOMAIN rows = 1..(Len(history[c]) + 1)
            /\ rows[Len(history[c]) + 1] = [rel |-> r, op |-> op]
            /\ \A i \in 1..Len(history[c]) : rows[i] = history[c][i]
<1> DEFINE row == [rel |-> r, op |-> op]
<1>1. row \in [rel : Releases, op : Moves]
  OBVIOUS
<1>2. history[c] \in Seq([rel : Releases, op : Moves])
  BY DEF Shape, TypeOK
<1> HIDE DEF row
<1>3. /\ Append(history[c], row) \in Seq([rel : Releases, op : Moves])
      /\ Len(Append(history[c], row)) = Len(history[c]) + 1
      /\ DOMAIN Append(history[c], row) = 1..(Len(history[c]) + 1)
      /\ Append(history[c], row)[Len(history[c]) + 1] = row
      /\ \A i \in 1..Len(history[c]) : Append(history[c], row)[i] = history[c][i]
  BY <1>1, <1>2
<1> QED  BY <1>3 DEF row

\* A handler that takes a step with nothing but its own call changed.
LEMMA ReadsShape ==
  ASSUME Shape, NEW h \in Handlers, NEW x, CallOk(x), call' = [call EXCEPT ![h] = x],
         UNCHANGED <<status, artifacts, pointer, history, announced, movesTold>>
  PROVE  Shape'
<1>1. call' \in [Handlers -> Calls] /\ \A g \in Handlers : CallOk(call'[g])
  BY DEF Shape, TypeOK, CallOk
<1> QED  BY <1>1 DEF Shape, TypeOK, CallOk

\* A handler that ends well formed keeps the calls well formed.
LEMMA EndOk ==
  ASSUME Shape, NEW h \in Handlers, End(h)
  PROVE  call' \in [Handlers -> Calls] /\ \A g \in Handlers : CallOk(call'[g])
  BY IdleOk DEF Shape, TypeOK, CallOk, End

\* The handlers that read and do not write yet.
Reads(h) ==
  \/ \E r \in Releases : FinalizeLocks(h, r) \/ PublishReads(h, r) \/ YankReads(h, r)
  \/ \E c \in Channels :
       \/ \E r \in Releases : PromoteReads(h, c, r) \/ RollbackReads(h, c, r)
       \/ RevertReadsPointer(h, c)

\* What a handler remembers of its first reads is well formed.
LEMMA ReadsOk ==
  ASSUME Shape, NEW h \in Handlers, Reads(h)
  PROVE  Shape'
<1>1. ASSUME NEW r \in Releases, NEW op \in {"finalize", "publish", "yank"},
             Begin(h, [Idle EXCEPT !.op = op, !.step = "read", !.rel = r]),
             UNCHANGED <<status, artifacts, pointer, history, announced, movesTold>>
      PROVE  Shape'
  <2>1. CallOk([Idle EXCEPT !.op = op, !.step = "read", !.rel = r])
    BY DEF CallOk, Calls, Idle, Moves
  <2> QED  BY <1>1, <2>1, ReadsShape DEF Begin
<1>2. ASSUME NEW c \in Channels, NEW r \in Releases, NEW op \in {"promote", "rollback"},
             Begin(h, [op |-> op, step |-> "chosen", rel |-> r, chan |-> c, found |-> None]),
             UNCHANGED <<status, artifacts, pointer, history, announced, movesTold>>
      PROVE  Shape'
  <2>1. CallOk([op |-> op, step |-> "chosen", rel |-> r, chan |-> c, found |-> None])
    BY DEF CallOk, Calls, Moves
  <2> QED  BY <1>2, <2>1, ReadsShape DEF Begin
<1>3. ASSUME NEW c \in Channels, RevertReadsPointer(h, c) PROVE Shape'
  <2>1. pointer[c] \in Releases \cup {None}
    BY DEF Shape, TypeOK
  <2>2. CallOk([op |-> "revert", step |-> "read", rel |-> None, chan |-> c, found |-> pointer[c]])
    BY <2>1 DEF CallOk, Calls, Moves
  <2> QED  BY <1>3, <2>2, ReadsShape DEF RevertReadsPointer, Begin
<1>4. ASSUME NEW r \in Releases, FinalizeLocks(h, r) PROVE Shape'
  BY <1>1, <1>4 DEF FinalizeLocks
<1>5. ASSUME NEW r \in Releases, PublishReads(h, r) PROVE Shape'
  BY <1>1, <1>5 DEF PublishReads
<1>6. ASSUME NEW r \in Releases, YankReads(h, r) PROVE Shape'
  BY <1>1, <1>6 DEF YankReads
<1>7. ASSUME NEW c \in Channels, NEW r \in Releases, PromoteReads(h, c, r) PROVE Shape'
  BY <1>2, <1>7 DEF PromoteReads
<1>8. ASSUME NEW c \in Channels, NEW r \in Releases, RollbackReads(h, c, r) PROVE Shape'
  BY <1>2, <1>8 DEF RollbackReads
<1> QED  BY <1>3, <1>4, <1>5, <1>6, <1>7, <1>8 DEF Reads

\* What a rollback finds in the history of its channel is a release it served.
LEMMA EarlierWasServed ==
  ASSUME Shape, NEW c \in Channels, NEW current, NEW r \in Earlier(c, current)
  PROVE  r \in Releases /\ \E i \in DOMAIN history[c] : history[c][i].rel = r
<1>1. PICK i \in DOMAIN history[c] : r = history[c][i].rel
  BY DEF Earlier
<1>2. history[c] \in Seq([rel : Releases, op : Moves])
  BY DEF Shape, TypeOK
<1>3. history[c][i] \in [rel : Releases, op : Moves]
  BY <1>2, RowOf
<1> QED  BY <1>1, <1>3

\* The rest of a rollback without a version, and of any move, is well formed.
LEMMA ContinuesOk ==
  ASSUME Shape, NEW h \in Handlers, RevertReadsHistory(h) \/ MoveReadsPointer(h)
  PROVE  Shape'
<1> DEFINE c == call[h].chan
<1>0. CallOk(call[h]) /\ call[h] \in Calls
  BY DEF Shape, CallOk
<1>1. CASE RevertReadsHistory(h) /\ End(h)
  BY <1>1, EndOk DEF RevertReadsHistory, Shape, TypeOK
<1>2. ASSUME RevertReadsHistory(h), NEW r \in Earlier(c, call[h].found),
             call' = [call EXCEPT ![h].step = "chosen", ![h].rel = r]
      PROVE  Shape'
  <2>1. call[h].op = "revert" /\ c \in Channels
    BY <1>0, <1>2 DEF RevertReadsHistory, CallOk, Moves
  <2>2. r \in Releases
    BY <1>2, <2>1, EarlierWasServed
  <2> DEFINE x == [call[h] EXCEPT !.step = "chosen", !.rel = r]
  <2>3. CallOk(x)
    BY <1>0, <2>1, <2>2 DEF CallOk, Calls, Moves
  <2>4. call' = [call EXCEPT ![h] = x]
    BY <1>2 DEF Shape, TypeOK
  <2> HIDE DEF x
  <2> QED  BY <1>2, <2>3, <2>4, ReadsShape DEF RevertReadsHistory
<1>3. CASE MoveReadsPointer(h)
  <2>1. c \in Channels /\ pointer[c] \in Releases \cup {None}
    BY <1>0, <1>3 DEF MoveReadsPointer, CallOk, Shape, TypeOK
  <2> DEFINE x == [call[h] EXCEPT !.step = "moving", !.found = pointer[c]]
  <2>2. CallOk(x)
    BY <1>0, <1>3, <2>1 DEF MoveReadsPointer, CallOk, Calls, Moves
  <2>3. call' = [call EXCEPT ![h] = x]
    BY <1>3 DEF MoveReadsPointer, Shape, TypeOK
  <2> HIDE DEF x
  <2> QED  BY <1>3, <2>2, <2>3, ReadsShape DEF MoveReadsPointer
<1> QED  BY <1>1, <1>2, <1>3 DEF RevertReadsHistory

\* A move writes a release of its application to a channel of it.
LEMMA MoveOk ==
  ASSUME Shape, NEW h \in Handlers, MoveCommits(h)
  PROVE  /\ call[h].chan \in Channels /\ call[h].rel \in Releases /\ call[h].op \in Moves
         /\ Shape'
<1> DEFINE c == call[h].chan
           rows == Append(history[c], [rel |-> call[h].rel, op |-> call[h].op])
<1>1. c \in Channels /\ call[h].rel \in Releases /\ call[h].op \in Moves
  BY DEF Shape, CallOk, MoveCommits
<1>2. rows \in Seq([rel : Releases, op : Moves])
  BY <1>1, RowAppended
<1>3. history' = [history EXCEPT ![c] = rows] /\ UNCHANGED <<status, artifacts, announced>>
  BY DEF MoveCommits
<1>4. pointer' = [pointer EXCEPT ![c] = call[h].rel] /\ movesTold' = [movesTold EXCEPT ![c] = movesTold[c] + 1]
  BY DEF MoveCommits
<1>5. call' \in [Handlers -> Calls] /\ \A g \in Handlers : CallOk(call'[g])
  BY EndOk DEF MoveCommits
<1> HIDE DEF rows
<1>6. history' \in [Channels -> Seq([rel : Releases, op : Moves])]
  BY <1>1, <1>2, <1>3 DEF Shape, TypeOK
<1>7. pointer' \in [Channels -> Releases \cup {None}] /\ movesTold' \in [Channels -> Nat]
  BY <1>1, <1>4 DEF Shape, TypeOK
<1> QED  BY <1>1, <1>3, <1>5, <1>6, <1>7 DEF Shape, TypeOK, CallOk

\* A handler that writes a release writes one of its application.
LEMMA ReleaseOk ==
  ASSUME Shape, NEW h \in Handlers, FinalizeCommits(h) \/ PublishCommits(h) \/ YankCommits(h)
  PROVE  call[h].rel \in Releases /\ Shape'
<1>1. call[h].rel \in Releases
  BY DEF Shape, CallOk, FinalizeCommits, PublishCommits, YankCommits
<1>2. call' \in [Handlers -> Calls] /\ \A g \in Handlers : CallOk(call'[g])
  BY EndOk DEF FinalizeCommits, PublishCommits, YankCommits
<1>3. status' \in [Releases -> Statuses] /\ announced' \in [Releases -> Nat]
  <2>1. status \in [Releases -> Statuses] /\ announced \in [Releases -> Nat]
    BY DEF Shape, TypeOK
  <2>2. CASE MarkPublished(call[h].rel)
    BY <1>1, <2>1, <2>2 DEF MarkPublished, Statuses
  <2>3. CASE YankCommits(h)
    BY <1>1, <2>1, <2>3 DEF YankCommits, Statuses
  <2> QED  BY <2>2, <2>3 DEF FinalizeCommits, PublishCommits
<1>4. UNCHANGED <<artifacts, pointer, history, movesTold>>
  BY DEF FinalizeCommits, PublishCommits, YankCommits
<1> QED  BY <1>1, <1>2, <1>3, <1>4 DEF Shape, TypeOK, CallOk

\* Every step keeps tables and calls well formed.
LEMMA ShapeStep ==
  ASSUME Shape, [Next]_vars
  PROVE  Shape'
<1>1. ASSUME NEW r \in Releases, CreateRelease(r) PROVE Shape'
  BY <1>1 DEF Shape, TypeOK, CallOk, CreateRelease, Statuses
<1>2. ASSUME NEW r \in Releases, UploadArtifact(r) PROVE Shape'
  BY <1>2 DEF Shape, TypeOK, CallOk, UploadArtifact
<1>3. ASSUME NEW h \in Handlers, MoveConflicts(h) \/ Dropped(h) PROVE Shape'
  BY <1>3, EndOk DEF Shape, TypeOK, MoveConflicts, Dropped
<1>4. CASE UNCHANGED vars
  BY <1>4 DEF Shape, TypeOK, CallOk, vars
<1> QED  BY <1>1, <1>2, <1>3, <1>4, ReadsOk, ContinuesOk, MoveOk, ReleaseOk
            DEF Next, ReleaseNext, ChannelNext, Reads

\* Tables and calls are always well formed.
LEMMA ShapeAlways == Spec => []Shape
<1>1. Init => Shape
  BY IdleOk, ReleaseTrainAssumption DEF Init, Shape, TypeOK, Statuses, CallOk
<1>2. Shape /\ [Next]_vars => Shape'
  BY ShapeStep
<1> QED  BY <1>1, <1>2, PTL DEF Spec

\* The tables and the handlers have their types for every number of them.
THEOREM TypeCorrect == Spec => []TypeOK
<1>1. Shape => TypeOK
  BY DEF Shape
<1> QED  BY <1>1, ShapeAlways, PTL

----------------------------------------------------------------------------
(* What every step does to the releases and to the channels.               *)

Released(r) == status[r] \in {"published", "yanked"}

\* A release that left draft never comes back, and no step but a move of its
\* own touches a channel.
LEMMA StepFrame ==
  ASSUME Shape, [Next]_vars
  PROVE  /\ \A r \in Releases : Released(r) => Released(r)'
         /\ \/ UNCHANGED <<pointer, history, movesTold>>
            \/ \E h \in Handlers : MoveCommits(h)
<1> USE DEF Released
<1>1. ASSUME NEW r \in Releases, CreateRelease(r)
      PROVE  /\ \A q \in Releases : Released(q) => Released(q)'
             /\ UNCHANGED <<pointer, history, movesTold>>
  BY <1>1 DEF CreateRelease, Shape, TypeOK
<1>2. ASSUME NEW h \in Handlers, FinalizeCommits(h) \/ PublishCommits(h) \/ YankCommits(h)
      PROVE  /\ \A q \in Releases : Released(q) => Released(q)'
             /\ UNCHANGED <<pointer, history, movesTold>>
  BY <1>2, ReleaseOk DEF Shape, TypeOK, FinalizeCommits, PublishCommits, YankCommits, MarkPublished
<1>3. ASSUME NEW h \in Handlers, MoveCommits(h)
      PROVE  \A q \in Releases : Released(q) => Released(q)'
  BY <1>3 DEF MoveCommits
<1>4. ASSUME UNCHANGED <<status, pointer, history, movesTold>>
      PROVE  /\ \A q \in Releases : Released(q) => Released(q)'
             /\ UNCHANGED <<pointer, history, movesTold>>
  BY <1>4
<1>5. ASSUME NEW h \in Handlers,
             Reads(h) \/ RevertReadsHistory(h) \/ MoveReadsPointer(h) \/ MoveConflicts(h) \/ Dropped(h)
      PROVE  UNCHANGED <<status, pointer, history, movesTold>>
  BY <1>5 DEF Reads, FinalizeLocks, PublishReads, YankReads, PromoteReads, RollbackReads,
     RevertReadsPointer, RevertReadsHistory, MoveReadsPointer, MoveConflicts, Dropped
<1>6. ASSUME NEW r \in Releases, UploadArtifact(r)
      PROVE  UNCHANGED <<status, pointer, history, movesTold>>
  BY <1>6 DEF UploadArtifact
<1>7. CASE UNCHANGED vars
  BY <1>7 DEF vars
<1> QED  BY <1>1, <1>2, <1>3, <1>4, <1>5, <1>6, <1>7 DEF Next, ReleaseNext, ChannelNext, Reads

----------------------------------------------------------------------------
(* Pointer, history and events agree.                                      *)

\* The pointer of a channel is the release of the last row of its history,
\* however promotes and rollbacks of it interleave.
THEOREM PointerFollowsHistory == Spec => []PointerIsLastMove
<1>1. Init => PointerIsLastMove
  BY DEF Init, PointerIsLastMove
<1>2. ASSUME Shape, PointerIsLastMove, [Next]_vars
      PROVE  PointerIsLastMove'
  <2>1. CASE UNCHANGED <<pointer, history, movesTold>>
    BY <1>2, <2>1 DEF PointerIsLastMove, Last
  <2>2. ASSUME NEW h \in Handlers, MoveCommits(h), NEW c \in Channels
        PROVE  pointer'[c] = IF history'[c] = <<>> THEN None ELSE Last(history'[c]).rel
    <3>1. /\ call[h].chan \in Channels /\ call[h].rel \in Releases /\ call[h].op \in Moves
      BY <1>2, <2>2, MoveOk
    <3>2. CASE c = call[h].chan
      <4> DEFINE row == [rel |-> call[h].rel, op |-> call[h].op]
      <4>1. history'[c] = Append(history[c], row) /\ pointer'[c] = call[h].rel
        BY <1>2, <2>2, <3>2 DEF MoveCommits, Shape, TypeOK
      <4>2. /\ history'[c] # <<>> /\ history'[c][Len(history'[c])] = row
        BY <1>2, <3>1, <4>1, RowAppended
      <4> QED  BY <4>1, <4>2 DEF Last
    <3>3. CASE c # call[h].chan
      <4>1. history'[c] = history[c] /\ pointer'[c] = pointer[c]
        BY <1>2, <2>2, <3>3 DEF MoveCommits, Shape, TypeOK
      <4> QED  BY <1>2, <4>1 DEF PointerIsLastMove
    <3> QED  BY <3>2, <3>3
  <2> QED  BY <1>2, <2>1, <2>2, StepFrame DEF PointerIsLastMove
<1> QED  BY <1>1, <1>2, ShapeAlways, PTL DEF Spec

\* A handler's call stays as it is unless the handler itself reads or ends.
LEMMA CallFrame ==
  ASSUME Shape, [Next]_vars, NEW h \in Handlers
  PROVE  \/ call'[h] = call[h] \/ call'[h] = Idle
         \/ Reads(h) \/ RevertReadsHistory(h) \/ MoveReadsPointer(h)
<1> DEFINE Goal == \/ call'[h] = call[h] \/ call'[h] = Idle
                   \/ Reads(h) \/ RevertReadsHistory(h) \/ MoveReadsPointer(h)
<1>1. ASSUME NEW g \in Handlers, End(g) PROVE Goal
  BY <1>1 DEF End, Shape, TypeOK
<1>2. ASSUME NEW g \in Handlers, Reads(g) PROVE Goal
  BY <1>2 DEF Reads, FinalizeLocks, PublishReads, YankReads, PromoteReads, RollbackReads,
     RevertReadsPointer, Begin, Shape, TypeOK
<1>3. ASSUME NEW g \in Handlers, RevertReadsHistory(g) \/ MoveReadsPointer(g) PROVE Goal
  <2>1. CASE g = h
    BY <1>3, <2>1
  <2>2. CASE g # h
    BY <1>3, <2>2 DEF RevertReadsHistory, MoveReadsPointer, End, Shape, TypeOK
  <2> QED  BY <2>1, <2>2
<1>4. ASSUME UNCHANGED call PROVE Goal
  BY <1>4
<1>5. ASSUME NEW r \in Releases, CreateRelease(r) \/ UploadArtifact(r) PROVE UNCHANGED call
  BY <1>5 DEF CreateRelease, UploadArtifact
<1>6. ASSUME NEW g \in Handlers,
             \/ FinalizeCommits(g) \/ PublishCommits(g) \/ YankCommits(g)
             \/ MoveCommits(g) \/ MoveConflicts(g) \/ Dropped(g)
      PROVE  End(g)
  BY <1>6 DEF FinalizeCommits, PublishCommits, YankCommits, MoveCommits, MoveConflicts, Dropped
<1>7. CASE UNCHANGED vars
  BY <1>4, <1>7 DEF vars
<1> QED  BY <1>1, <1>2, <1>3, <1>4, <1>5, <1>6, <1>7 DEF Next, ReleaseNext, ChannelNext, Reads

\* What each first read leaves in the handler's call.
LEMMA ReadsCall ==
  ASSUME Shape, NEW h \in Handlers, Reads(h)
  PROVE  \/ \E r \in Releases : FinalizeLocks(h, r) /\ call'[h].op = "finalize" /\ call'[h].rel = r
         \/ \E r \in Releases : PublishReads(h, r) /\ call'[h].op = "publish" /\ call'[h].rel = r
         \/ \E r \in Releases : YankReads(h, r) /\ call'[h].op = "yank" /\ call'[h].rel = r
         \/ \E c \in Channels, r \in Releases :
              PromoteReads(h, c, r) /\ call'[h].op = "promote" /\ call'[h].rel = r
         \/ \E c \in Channels, r \in Releases : RollbackReads(h, c, r) /\ call'[h].op = "rollback"
         \/ \E c \in Channels :
              RevertReadsPointer(h, c) /\ call'[h].op = "revert" /\ call'[h].step = "read"
<1>1. ASSUME NEW x, Begin(h, x) PROVE call'[h] = x
  BY <1>1 DEF Begin, Shape, TypeOK
<1>2. ASSUME NEW r \in Releases, FinalizeLocks(h, r) PROVE call'[h].op = "finalize" /\ call'[h].rel = r
  BY <1>1, <1>2 DEF FinalizeLocks, Idle
<1>3. ASSUME NEW r \in Releases, PublishReads(h, r) PROVE call'[h].op = "publish" /\ call'[h].rel = r
  BY <1>1, <1>3 DEF PublishReads, Idle
<1>4. ASSUME NEW r \in Releases, YankReads(h, r) PROVE call'[h].op = "yank" /\ call'[h].rel = r
  BY <1>1, <1>4 DEF YankReads, Idle
<1>5. ASSUME NEW c \in Channels, NEW r \in Releases, PromoteReads(h, c, r)
      PROVE  call'[h].op = "promote" /\ call'[h].rel = r
  BY <1>1, <1>5 DEF PromoteReads
<1>6. ASSUME NEW c \in Channels, NEW r \in Releases, RollbackReads(h, c, r)
      PROVE  call'[h].op = "rollback"
  BY <1>1, <1>6 DEF RollbackReads
<1>7. ASSUME NEW c \in Channels, RevertReadsPointer(h, c)
      PROVE  call'[h].op = "revert" /\ call'[h].step = "read"
  BY <1>1, <1>7 DEF RevertReadsPointer
<1> QED  BY <1>2, <1>3, <1>4, <1>5, <1>6, <1>7 DEF Reads

\* A handler that goes on with a move keeps the move; a rollback without a
\* version has chosen what its channel served earlier.
LEMMA ContinuesCall ==
  ASSUME Shape, NEW h \in Handlers, RevertReadsHistory(h) \/ MoveReadsPointer(h)
  PROVE  \/ call'[h] = Idle
         \/ /\ call[h].op \in Moves /\ call'[h].op = call[h].op /\ call'[h].chan = call[h].chan
            /\ \/ call[h].step = "chosen" /\ call'[h].rel = call[h].rel
               \/ /\ call[h].op = "revert"
                  /\ call'[h].rel \in Earlier(call[h].chan, call[h].found)
<1>1. call \in [Handlers -> Calls] /\ call[h] \in Calls /\ CallOk(call[h])
  BY DEF Shape, TypeOK, CallOk
<1>2. CASE End(h)
  BY <1>1, <1>2 DEF End
<1>3. ASSUME RevertReadsHistory(h), NEW r \in Earlier(call[h].chan, call[h].found),
             call' = [call EXCEPT ![h].step = "chosen", ![h].rel = r]
      PROVE  /\ call[h].op \in Moves /\ call'[h].op = call[h].op /\ call'[h].chan = call[h].chan
             /\ call[h].op = "revert" /\ call'[h].rel = r
  BY <1>1, <1>3 DEF RevertReadsHistory, Calls, Moves
<1>4. CASE MoveReadsPointer(h)
  BY <1>1, <1>4 DEF MoveReadsPointer, Calls, CallOk
<1> QED  BY <1>2, <1>3, <1>4 DEF RevertReadsHistory

\* A yank in flight is of a release that has left draft.
YankFresh ==
  \A h \in Handlers : call[h].op = "yank" => Released(call[h].rel)

\* No step makes a yank in flight about a draft.
LEMMA YankFreshStep ==
  ASSUME Shape, YankFresh, [Next]_vars
  PROVE  YankFresh'
<1>1. ASSUME NEW h \in Handlers, call'[h].op = "yank"
      PROVE  status'[call'[h].rel] \in {"published", "yanked"}
  <2>1. CASE call'[h] = call[h]
    <3>1. call[h].rel \in Releases /\ Released(call[h].rel)
      BY <1>1, <2>1 DEF YankFresh, Shape, CallOk
    <3>2. Released(call[h].rel)'
      BY ONLY Shape, [Next]_vars, <2>1, <3>1, StepFrame DEF Released
    <3> QED  BY <2>1, <3>2 DEF Released
  <2>2. CASE call'[h] = Idle
    BY <1>1, <2>2 DEF Idle
  <2>3. CASE Reads(h)
    <3>1. PICK r \in Releases : YankReads(h, r) /\ call'[h].rel = r
      BY <1>1, <2>3, ReadsCall
    <3> QED  BY <3>1 DEF YankReads
  <2>4. CASE RevertReadsHistory(h) \/ MoveReadsPointer(h)
    BY <1>1, <2>4, ContinuesCall DEF Idle, Moves
  <2> QED  BY <1>1, <2>1, <2>2, <2>3, <2>4, CallFrame
<1> QED  BY <1>1 DEF YankFresh, Released

\* Every change of a release and every move of a channel has its event in the
\* outbox, and nothing that rolled back has one.
THEOREM EventsAreExact == Spec => []EventsMatchState
<1> DEFINE Told(r) == announced[r] = 0 <=> status[r] \in {"absent", "draft"}
           Inv == YankFresh /\ EventsMatchState
<1>1. Init => Inv
  BY DEF Init, EventsMatchState, YankFresh, Idle
<1>2. ASSUME Shape, Inv, [Next]_vars
      PROVE  Inv'
  <2>1. ASSUME NEW q \in Releases PROVE Told(q)'
    <3>0. Told(q)
      BY <1>2 DEF EventsMatchState
    <3>1. ASSUME NEW r \in Releases, CreateRelease(r) PROVE Told(q)'
      BY <1>2, <3>0, <3>1 DEF CreateRelease, Shape, TypeOK
    <3>2. ASSUME NEW h \in Handlers, FinalizeCommits(h) \/ PublishCommits(h) PROVE Told(q)'
      BY <1>2, <3>0, <3>2, ReleaseOk DEF FinalizeCommits, PublishCommits, MarkPublished, Shape, TypeOK
    <3>3. ASSUME NEW h \in Handlers, YankCommits(h) PROVE Told(q)'
      BY <1>2, <3>0, <3>3, ReleaseOk DEF YankCommits, YankFresh, Released, Shape, TypeOK
    <3>4. CASE UNCHANGED <<status, announced>>
      BY <3>0, <3>4
    <3>5. ASSUME NEW h \in Handlers,
                 \/ Reads(h) \/ RevertReadsHistory(h) \/ MoveReadsPointer(h)
                 \/ MoveCommits(h) \/ MoveConflicts(h) \/ Dropped(h)
          PROVE  UNCHANGED <<status, announced>>
      BY <3>5 DEF Reads, FinalizeLocks, PublishReads, YankReads, PromoteReads, RollbackReads,
         RevertReadsPointer, RevertReadsHistory, MoveReadsPointer, MoveCommits, MoveConflicts, Dropped
    <3>6. ASSUME NEW r \in Releases, UploadArtifact(r) PROVE UNCHANGED <<status, announced>>
      BY <3>6 DEF UploadArtifact
    <3>7. CASE UNCHANGED vars
      BY <3>4, <3>7 DEF vars
    <3> QED  BY <1>2, <3>1, <3>2, <3>3, <3>4, <3>5, <3>6, <3>7
                DEF Next, ReleaseNext, ChannelNext, Reads
  <2>2. ASSUME NEW c \in Channels PROVE movesTold'[c] = Len(history'[c])
    <3>1. movesTold[c] = Len(history[c]) /\ Len(history[c]) \in Nat
      BY <1>2 DEF EventsMatchState, Shape, TypeOK
    <3>2. ASSUME NEW h \in Handlers, MoveCommits(h), c = call[h].chan
          PROVE  movesTold'[c] = Len(history'[c])
      <4> DEFINE row == [rel |-> call[h].rel, op |-> call[h].op]
      <4>1. history'[c] = Append(history[c], row) /\ movesTold'[c] = movesTold[c] + 1
        BY <1>2, <3>2 DEF MoveCommits, Shape, TypeOK
      <4>2. Len(Append(history[c], row)) = Len(history[c]) + 1
        BY <1>2, <3>2, MoveOk, RowAppended
      <4> QED  BY <3>1, <4>1, <4>2
    <3>3. ASSUME NEW h \in Handlers, MoveCommits(h), c # call[h].chan
          PROVE  movesTold'[c] = Len(history'[c])
      BY <1>2, <3>1, <3>3 DEF MoveCommits, Shape, TypeOK
    <3> QED  BY <1>2, <3>1, <3>2, <3>3, StepFrame
  <2>3. YankFresh'
    BY <1>2, YankFreshStep
  <2> QED  BY <2>1, <2>2, <2>3 DEF EventsMatchState
<1>3. Inv => EventsMatchState
  OBVIOUS
<1> HIDE DEF Inv
<1> QED  BY <1>1, <1>2, <1>3, ShapeAlways, PTL DEF Spec

----------------------------------------------------------------------------
(* What a channel may be pointed at.                                       *)

Served(c, r) == \E i \in DOMAIN history[c] : history[c][i].rel = r

\* A promote in flight is of a release that left draft, a rollback without a
\* version that has chosen is to a release its channel served.
MovesFresh ==
  \A h \in Handlers :
    /\ call[h].op = "promote" => Released(call[h].rel)
    /\ call[h].op = "revert" /\ call[h].step \in {"chosen", "moving"} =>
         Served(call[h].chan, call[h].rel)

\* Whatever a channel served has left draft, or a rollback named it.
NamedOrReleased ==
  \A c \in Channels : \A i \in DOMAIN history[c] :
    \/ Released(history[c][i].rel)
    \/ \E j \in DOMAIN history[c] : history[c][j] = [rel |-> history[c][i].rel, op |-> "rollback"]

\* A history only grows: its rows stay, and a new one is that of a move.
LEMMA HistoryGrows ==
  ASSUME Shape, [Next]_vars, NEW c \in Channels
  PROVE  \/ history'[c] = history[c]
         \/ \E h \in Handlers :
              /\ MoveCommits(h) /\ call[h].chan = c
              /\ call[h].rel \in Releases /\ call[h].op \in Moves
              /\ Len(history[c]) \in Nat /\ DOMAIN history[c] = 1..Len(history[c])
              /\ DOMAIN history'[c] = 1..(Len(history[c]) + 1)
              /\ history'[c][Len(history[c]) + 1] = [rel |-> call[h].rel, op |-> call[h].op]
              /\ \A i \in DOMAIN history[c] : i \in DOMAIN history'[c] /\ history'[c][i] = history[c][i]
<1>1. CASE UNCHANGED <<pointer, history, movesTold>>
  BY <1>1
<1>2. ASSUME NEW h \in Handlers, MoveCommits(h), call[h].chan = c
      PROVE  /\ call[h].rel \in Releases /\ call[h].op \in Moves
             /\ Len(history[c]) \in Nat /\ DOMAIN history[c] = 1..Len(history[c])
             /\ DOMAIN history'[c] = 1..(Len(history[c]) + 1)
             /\ history'[c][Len(history[c]) + 1] = [rel |-> call[h].rel, op |-> call[h].op]
             /\ \A i \in DOMAIN history[c] : i \in DOMAIN history'[c] /\ history'[c][i] = history[c][i]
  <2> DEFINE row == [rel |-> call[h].rel, op |-> call[h].op]
  <2>1. call[h].rel \in Releases /\ call[h].op \in Moves
    BY <1>2, MoveOk
  <2>2. history'[c] = Append(history[c], row)
    BY <1>2 DEF MoveCommits, Shape, TypeOK
  <2>3. Len(history[c]) \in Nat /\ DOMAIN history[c] = 1..Len(history[c])
    BY DEF Shape, TypeOK
  <2> QED  BY <2>1, <2>2, <2>3, RowAppended
<1>3. ASSUME NEW h \in Handlers, MoveCommits(h), call[h].chan # c
      PROVE  history'[c] = history[c]
  BY <1>3 DEF MoveCommits, Shape, TypeOK
<1> QED  BY <1>1, <1>2, <1>3, StepFrame

\* No step makes a move in flight about anything but what it may be about.
LEMMA MovesFreshStep ==
  ASSUME Shape, MovesFresh, [Next]_vars
  PROVE  MovesFresh'
<1>1. ASSUME NEW h \in Handlers, call'[h].op = "promote"
      PROVE  status'[call'[h].rel] \in {"published", "yanked"}
  <2>1. ASSUME call[h].op = "promote", call'[h].rel = call[h].rel, CallOk(call[h]), call[h].rel \in Releases
        PROVE  status'[call'[h].rel] \in {"published", "yanked"}
    <3>1. Released(call[h].rel)
      BY <2>1 DEF MovesFresh
    <3>2. Released(call[h].rel)'
      BY ONLY Shape, [Next]_vars, <2>1, <3>1, StepFrame DEF Released
    <3> QED  BY <2>1, <3>2 DEF Released
  <2>2. CallOk(call[h]) /\ (call[h].op = "promote" => call[h].rel \in Releases)
    BY DEF Shape, CallOk
  <2>3. CASE Reads(h)
    <3>1. PICK c \in Channels, r \in Releases : PromoteReads(h, c, r) /\ call'[h].rel = r
      BY <1>1, <2>3, ReadsCall
    <3> QED  BY <3>1 DEF PromoteReads
  <2>4. CASE RevertReadsHistory(h) \/ MoveReadsPointer(h)
    BY <1>1, <2>1, <2>2, <2>4, ContinuesCall DEF Idle, Moves
  <2>5. CASE call'[h] = Idle
    BY <1>1, <2>5 DEF Idle
  <2>6. CASE call'[h] = call[h]
    BY <1>1, <2>1, <2>2, <2>6
  <2> QED  BY <2>3, <2>4, <2>5, <2>6, CallFrame
<1>2. ASSUME NEW h \in Handlers, call'[h].op = "revert", call'[h].step \in {"chosen", "moving"}
      PROVE  \E i \in DOMAIN history'[call'[h].chan] : history'[call'[h].chan][i].rel = call'[h].rel
  <2>1. CASE Reads(h)
    BY <1>2, <2>1, ReadsCall
  <2>2. CASE call'[h] = Idle
    BY <1>2, <2>2 DEF Idle
  <2>3. CASE call'[h] = call[h]
    <3>1. call[h].chan \in Channels /\ Served(call[h].chan, call[h].rel)
      BY <1>2, <2>3 DEF MovesFresh, Shape, CallOk, Moves
    <3> DEFINE c == call[h].chan
    <3>2. PICK i \in DOMAIN history[c] : history[c][i].rel = call[h].rel
      BY <3>1 DEF Served
    <3>3. i \in DOMAIN history'[c] /\ history'[c][i] = history[c][i]
      BY <3>1, <3>2, HistoryGrows
    <3> QED  BY <2>3, <3>2, <3>3
  <2>4. CASE RevertReadsHistory(h) \/ MoveReadsPointer(h)
    <3>1. /\ call[h].op = "revert" /\ call'[h].chan = call[h].chan
          /\ \/ call[h].step = "chosen" /\ call'[h].rel = call[h].rel
             \/ call'[h].rel \in Earlier(call[h].chan, call[h].found)
      BY <1>2, <2>4, ContinuesCall DEF Idle
    <3>2. call[h].chan \in Channels
      BY <3>1 DEF Shape, CallOk, Moves
    <3>3. \E i \in DOMAIN history[call[h].chan] : history[call[h].chan][i].rel = call'[h].rel
      BY <3>1, <3>2, EarlierWasServed DEF MovesFresh, Served
    <3>4. history' = history
      BY <2>4 DEF RevertReadsHistory, MoveReadsPointer
    <3> QED  BY <3>1, <3>3, <3>4 DEF Served
  <2> QED  BY <2>1, <2>2, <2>3, <2>4, CallFrame
<1> QED  BY <1>1, <1>2 DEF MovesFresh, Released, Served

Channelled == MovesFresh /\ RevertsToServedRelease /\ NamedOrReleased

\* Every row a step appends is that of a move in flight, which was about a
\* release the channel served, one that left draft, or one that was named.
LEMMA ChannelledStep ==
  ASSUME Shape, Channelled, [Next]_vars
  PROVE  Channelled'
<1>1. ASSUME NEW c \in Channels, NEW i \in DOMAIN history'[c], history'[c][i].op = "revert"
      PROVE  \E j \in 1..(i - 1) : history'[c][j].rel = history'[c][i].rel
  <2>1. CASE i \in DOMAIN history[c]
    <3>1. history'[c][i] = history[c][i]
      BY <2>1, HistoryGrows
    <3>2. PICK j \in 1..(i - 1) : history[c][j].rel = history[c][i].rel
      BY <1>1, <2>1, <3>1 DEF Channelled, RevertsToServedRelease
    <3>3. j \in DOMAIN history[c]
      BY <2>1, <3>2 DEF Shape, TypeOK
    <3>4. history'[c][j] = history[c][j]
      BY <3>3, HistoryGrows
    <3> QED  BY <3>1, <3>2, <3>4
  <2>2. ASSUME i \notin DOMAIN history[c], NEW h \in Handlers, call[h].chan = c,
               MoveCommits(h), call[h].rel \in Releases, call[h].op \in Moves,
               Len(history[c]) \in Nat, DOMAIN history[c] = 1..Len(history[c]),
               DOMAIN history'[c] = 1..(Len(history[c]) + 1),
               history'[c][Len(history[c]) + 1] = [rel |-> call[h].rel, op |-> call[h].op],
               \A j \in DOMAIN history[c] : history'[c][j] = history[c][j]
        PROVE  \E j \in 1..(i - 1) : history'[c][j].rel = history'[c][i].rel
    <3>1. i = Len(history[c]) + 1 /\ 1..(i - 1) = DOMAIN history[c]
      BY <1>1, <2>2
    <3>2. call[h].op = "revert" /\ call[h].step = "moving" /\ history'[c][i].rel = call[h].rel
      BY <1>1, <2>2, <3>1 DEF MoveCommits
    <3>3. Served(c, call[h].rel)
      BY <2>2, <3>2 DEF Channelled, MovesFresh
    <3> QED  BY <2>2, <3>1, <3>2, <3>3 DEF Served
  <2> QED  BY <1>1, <2>1, <2>2, HistoryGrows
<1>2. ASSUME NEW c \in Channels, NEW i \in DOMAIN history'[c]
      PROVE  \/ status'[history'[c][i].rel] \in {"published", "yanked"}
             \/ \E j \in DOMAIN history'[c] :
                  history'[c][j] = [rel |-> history'[c][i].rel, op |-> "rollback"]
  <2> DEFINE r == history'[c][i].rel
             Kept(q) == q \in Releases /\ Released(q) => status'[q] \in {"published", "yanked"}
             Named(q) == \E j \in DOMAIN history[c] : history[c][j] = [rel |-> q, op |-> "rollback"]
             NamedNow(q) == \E j \in DOMAIN history'[c] : history'[c][j] = [rel |-> q, op |-> "rollback"]
  <2>1. ASSUME NEW q PROVE Kept(q)
    BY StepFrame DEF Released
  <2>2. ASSUME NEW q, Named(q) PROVE NamedNow(q)
    <3>1. PICK j \in DOMAIN history[c] : history[c][j] = [rel |-> q, op |-> "rollback"]
      BY <2>2
    <3>2. j \in DOMAIN history'[c] /\ history'[c][j] = history[c][j]
      BY <3>1, HistoryGrows
    <3> QED  BY <3>1, <3>2
  <2>3. ASSUME NEW k \in DOMAIN history[c]
        PROVE  /\ history[c][k].rel \in Releases
               /\ Released(history[c][k].rel) \/ Named(history[c][k].rel)
    <3>1. history[c] \in Seq([rel : Releases, op : Moves])
      BY DEF Shape, TypeOK
    <3>2. history[c][k] \in [rel : Releases, op : Moves]
      BY <3>1, RowOf
    <3> QED  BY <3>2 DEF Channelled, NamedOrReleased
  <2> HIDE DEF Kept, Named, NamedNow
  <2>4. CASE i \in DOMAIN history[c]
    <3>1. history'[c][i] = history[c][i]
      BY <2>4, HistoryGrows
    <3>2. Kept(history[c][i].rel)
      BY <2>1
    <3> QED  BY <2>2, <2>3, <2>4, <3>1, <3>2 DEF Kept, NamedNow
  <2>5. ASSUME i \notin DOMAIN history[c], NEW h \in Handlers, call[h].chan = c,
               MoveCommits(h), call[h].rel \in Releases, call[h].op \in Moves,
               Len(history[c]) \in Nat, DOMAIN history[c] = 1..Len(history[c]),
               DOMAIN history'[c] = 1..(Len(history[c]) + 1),
               history'[c][Len(history[c]) + 1] = [rel |-> call[h].rel, op |-> call[h].op]
        PROVE  status'[r] \in {"published", "yanked"} \/ NamedNow(r)
    <3>1. i = Len(history[c]) + 1
      BY <1>2, <2>5
    <3>2. history'[c][i] = [rel |-> call[h].rel, op |-> call[h].op] /\ r = call[h].rel
      BY <2>5, <3>1
    <3>3. CASE call[h].op = "promote"
      <4>1. Released(r) /\ r \in Releases
        BY <2>5, <3>2, <3>3 DEF Channelled, MovesFresh
      <4> QED  BY <2>1, <4>1 DEF Kept
    <3>4. CASE call[h].op = "rollback"
      BY <1>2, <3>2, <3>4 DEF NamedNow
    <3>5. CASE call[h].op = "revert"
      <4>1. Served(c, r)
        BY <2>5, <3>2, <3>5 DEF Channelled, MovesFresh, MoveCommits
      <4>2. Released(r) \/ Named(r)
        BY <2>3, <4>1 DEF Served
      <4> QED  BY <2>1, <2>2, <2>5, <3>2, <4>2 DEF Kept
    <3> QED  BY <2>5, <3>3, <3>4, <3>5 DEF Moves
  <2> QED  BY <2>4, <2>5, HistoryGrows DEF NamedNow
<1>3. MovesFresh'
  BY MovesFreshStep DEF Channelled
<1> QED  BY <1>1, <1>2, <1>3 DEF Channelled, RevertsToServedRelease, NamedOrReleased, Released

\* The strengthening of the two theorems below always holds.
LEMMA ChannelledAlways == Spec => []Channelled
<1>1. Init => Channelled
  BY DEF Init, Channelled, MovesFresh, RevertsToServedRelease, NamedOrReleased, Idle
<1>2. Shape /\ Channelled /\ [Next]_vars => Channelled'
  BY ChannelledStep
<1> QED  BY <1>1, <1>2, ShapeAlways, PTL DEF Spec

\* A rollback without a version never takes a channel where it was not before,
\* whatever commits between its reads and its own commit.
THEOREM RevertsStayServed == Spec => []RevertsToServedRelease
<1>1. Channelled => RevertsToServedRelease
  BY DEF Channelled
<1> QED  BY <1>1, ChannelledAlways, PTL

\* A channel at a draft was once rolled back to that version by name.
THEOREM DraftsArePinnedByName == Spec => []OnlyRollbackPinsDrafts
<1>1. ASSUME Shape, Channelled, PointerIsLastMove, NEW c \in Channels,
             pointer[c] # None, status[pointer[c]] = "draft"
      PROVE  \E i \in DOMAIN history[c] : history[c][i] = [rel |-> pointer[c], op |-> "rollback"]
  <2>1. history[c] # <<>> /\ pointer[c] = Last(history[c]).rel
    BY <1>1 DEF PointerIsLastMove
  <2>2. Len(history[c]) \in DOMAIN history[c]
    BY <1>1, <2>1 DEF Shape, TypeOK
  <2>3. pointer[c] = history[c][Len(history[c])].rel
    BY <2>1 DEF Last
  <2>4. ~Released(pointer[c])
    BY <1>1 DEF Released
  <2> QED  BY <1>1, <2>2, <2>3, <2>4 DEF Channelled, NamedOrReleased
<1>2. Shape /\ Channelled /\ PointerIsLastMove => OnlyRollbackPinsDrafts
  BY <1>1 DEF OnlyRollbackPinsDrafts
<1> QED  BY <1>2, ShapeAlways, ChannelledAlways, PointerFollowsHistory, PTL

----------------------------------------------------------------------------
(* The lock of finalize.                                                   *)

\* What finalize holds locked is a draft, no two handlers hold the same release,
\* and only releases in Direct are published without the lock.
Exclusive ==
  /\ \A h \in Handlers : call[h].op = "publish" => call[h].rel \in Direct
  /\ \A h \in Handlers : call[h].op = "finalize" => status[call[h].rel] = "draft"
  /\ \A g, h \in Handlers :
       call[g].op = "finalize" /\ call[h].op = "finalize" /\ call[g].rel = call[h].rel => g = h

\* Where a finalize or a publish that is in flight after a step comes from.
LEMMA LocksFrame ==
  ASSUME Shape, [Next]_vars, NEW h \in Handlers, call'[h].op \in {"finalize", "publish"}
  PROVE  \/ call'[h] = call[h]
         \/ call'[h].op = "publish" /\ call'[h].rel \in Direct
         \/ \E r \in Releases :
              FinalizeLocks(h, r) /\ call'[h].op = "finalize" /\ call'[h].rel = r
<1>1. CASE Reads(h)
  BY <1>1, ReadsCall DEF PublishReads
<1>2. CASE RevertReadsHistory(h) \/ MoveReadsPointer(h)
  BY <1>2, ContinuesCall DEF Idle, Moves
<1>3. CASE call'[h] = Idle
  BY <1>3 DEF Idle
<1> QED  BY <1>1, <1>2, <1>3, CallFrame

\* How a step changes the status of a release, and who is announced by it.
LEMMA StatusFrame ==
  ASSUME Shape, Exclusive, [Next]_vars, NEW q \in Releases
  PROVE  \/ status'[q] = status[q] /\ announced'[q] = announced[q]
         \/ status[q] = "absent" /\ announced'[q] = announced[q]
         \/ \E h \in Handlers :
              /\ call[h].op = "finalize" /\ call[h].rel = q /\ End(h)
              /\ announced'[q] = announced[q] + 1
         \/ q \in Direct /\ ~Locked(q)
         \/ status'[q] = "yanked" /\ ~Locked(q) /\ announced'[q] = announced[q]
<1> DEFINE Goal ==
         \/ status'[q] = status[q] /\ announced'[q] = announced[q]
         \/ status[q] = "absent" /\ announced'[q] = announced[q]
         \/ \E h \in Handlers :
              /\ call[h].op = "finalize" /\ call[h].rel = q /\ End(h)
              /\ announced'[q] = announced[q] + 1
         \/ q \in Direct /\ ~Locked(q)
         \/ status'[q] = "yanked" /\ ~Locked(q) /\ announced'[q] = announced[q]
<1>0. status \in [Releases -> Statuses] /\ announced \in [Releases -> Nat]
  BY DEF Shape, TypeOK
<1>1. ASSUME NEW r \in Releases, CreateRelease(r) PROVE Goal
  BY <1>0, <1>1 DEF CreateRelease
<1>2. ASSUME NEW h \in Handlers, FinalizeCommits(h) PROVE Goal
  BY <1>0, <1>2 DEF FinalizeCommits, MarkPublished
<1>3. ASSUME NEW h \in Handlers, YankCommits(h) PROVE Goal
  BY <1>0, <1>3 DEF YankCommits
<1>4. ASSUME NEW h \in Handlers, PublishCommits(h) PROVE Goal
  <2>1. call[h].rel \in Direct /\ ~Locked(call[h].rel)
    BY <1>4 DEF Exclusive, PublishCommits
  <2> QED  BY <1>0, <1>4, <2>1 DEF PublishCommits, MarkPublished
<1>5. ASSUME UNCHANGED <<status, announced>> PROVE Goal
  BY <1>5
<1>6. ASSUME NEW h \in Handlers,
             \/ Reads(h) \/ RevertReadsHistory(h) \/ MoveReadsPointer(h)
             \/ MoveCommits(h) \/ MoveConflicts(h) \/ Dropped(h)
      PROVE  UNCHANGED <<status, announced>>
  BY <1>6 DEF Reads, FinalizeLocks, PublishReads, YankReads, PromoteReads, RollbackReads,
     RevertReadsPointer, RevertReadsHistory, MoveReadsPointer, MoveCommits, MoveConflicts, Dropped
<1>7. ASSUME NEW r \in Releases, UploadArtifact(r) PROVE UNCHANGED <<status, announced>>
  BY <1>7 DEF UploadArtifact
<1>8. ASSUME UNCHANGED vars PROVE UNCHANGED <<status, announced>>
  BY <1>8 DEF vars
<1> HIDE DEF Goal
<1>9. Goal
  BY <1>1, <1>2, <1>3, <1>4, <1>5, <1>6, <1>7, <1>8 DEF Next, ReleaseNext, ChannelNext, Reads
<1> QED  BY <1>9 DEF Goal

\* The lock keeps a draft a draft, and to one handler, until it is published.
LEMMA ExclusiveStep ==
  ASSUME Shape, Exclusive, [Next]_vars
  PROVE  Exclusive'
<1>1. ASSUME NEW h \in Handlers, call'[h].op = "publish" PROVE call'[h].rel \in Direct
  BY <1>1, LocksFrame DEF Exclusive
<1>2. ASSUME NEW g \in Handlers, NEW h \in Handlers, call'[g].op = "finalize",
             call'[h].op = "finalize", call'[g].rel = call'[h].rel, g # h
      PROVE  FALSE
  <2>1. CASE call'[g] = call[g] /\ call'[h] = call[h]
    BY <1>2, <2>1 DEF Exclusive
  <2>2. ASSUME NEW f \in {g, h}, NEW e \in {g, h}, f # e, NEW r \in Releases,
               FinalizeLocks(f, r), call'[f].rel = r
        PROVE  FALSE
    <3>1. call[e] = call'[e]
      BY <1>2, <2>2 DEF FinalizeLocks, Begin, Shape, TypeOK
    <3>2. Locked(r)
      BY <1>2, <2>2, <3>1 DEF Locked
    <3> QED  BY <2>2, <3>2 DEF FinalizeLocks
  <2> QED  BY <1>2, <2>1, <2>2, LocksFrame
<1>3. ASSUME NEW h \in Handlers, call'[h].op = "finalize"
      PROVE  status'[call'[h].rel] = "draft"
  <2>1. ASSUME NEW r \in Releases, FinalizeLocks(h, r), call'[h].rel = r
        PROVE  status'[call'[h].rel] = "draft"
    BY <2>1 DEF FinalizeLocks
  <2>2. CASE call'[h] = call[h]
    <3> DEFINE q == call[h].rel
    <3>1. q \in Releases /\ status[q] = "draft" /\ Locked(q)
      BY <1>3, <2>2 DEF Exclusive, Locked, Shape, CallOk
    <3>2. ASSUME NEW g \in Handlers, call[g].op = "finalize", call[g].rel = q, End(g)
          PROVE  FALSE
      <4>1. g = h
        BY <1>3, <2>2, <3>2 DEF Exclusive
      <4> QED  BY <1>3, <3>2, <4>1 DEF End, Idle, Shape, TypeOK
    <3>3. status'[q] = status[q]
      BY <3>1, <3>2, StatusFrame
    <3> QED  BY <2>2, <3>1, <3>3
  <2> QED  BY <1>3, <2>1, <2>2, LocksFrame
<1> QED  BY <1>1, <1>2, <1>3 DEF Exclusive

\* What finalize holds is a draft, and one handler's, at all times.
LEMMA ExclusiveAlways == Spec => []Exclusive
<1>1. Init => Exclusive
  BY DEF Init, Exclusive, Idle
<1>2. Shape /\ Exclusive /\ [Next]_vars => Exclusive'
  BY ExclusiveStep
<1> QED  BY <1>1, <1>2, ShapeAlways, PTL DEF Spec

\* A release that is published by finalize only is announced at most once,
\* however many callers finalize it at once.
THEOREM FinalizeAnnouncesOnce == Spec => []AnnouncedOnce
<1>1. Init => AnnouncedOnce
  BY DEF Init, AnnouncedOnce
<1>2. ASSUME Shape, Exclusive, EventsMatchState, AnnouncedOnce, [Next]_vars
      PROVE  AnnouncedOnce'
  <2>1. ASSUME NEW q \in Releases \ Direct PROVE announced'[q] <= 1
    <3>1. announced[q] <= 1
      BY <1>2 DEF AnnouncedOnce
    <3>2. ASSUME NEW h \in Handlers, call[h].op = "finalize", call[h].rel = q
          PROVE  announced[q] = 0
      BY <1>2, <3>2 DEF Exclusive, EventsMatchState
    <3> QED  BY <1>2, <3>1, <3>2, StatusFrame
  <2> QED  BY <2>1 DEF AnnouncedOnce
<1> QED  BY <1>1, <1>2, ShapeAlways, ExclusiveAlways, EventsAreExact, PTL DEF Spec

\* A release that is published by finalize only stays yanked once it is.
THEOREM YankedStaysYanked == Spec => FinalizedStaysYanked
<1> DEFINE Final == \A r \in Releases \ Direct : StaysYanked(r)
<1>1. ASSUME Shape, Exclusive, [Next]_vars PROVE [Final]_vars
  <2>1. ASSUME NEW q \in Releases \ Direct, status[q] = "yanked" PROVE status'[q] = "yanked"
    <3>1. ASSUME NEW h \in Handlers, call[h].op = "finalize", call[h].rel = q PROVE FALSE
      BY <1>1, <2>1, <3>1 DEF Exclusive
    <3> QED  BY <1>1, <2>1, <3>1, StatusFrame
  <2> QED  BY <2>1 DEF StaysYanked
<1> QED  BY <1>1, ShapeAlways, ExclusiveAlways, PTL DEF Spec, FinalizedStaysYanked

----------------------------------------------------------------------------
(* The handlers implement the board.                                       *)

\* Whatever a handler in flight or a history names exists.
Exists(r) == status[r] # "absent"
NamesExist ==
  /\ \A h \in Handlers : call[h].rel \in Releases => Exists(call[h].rel)
  /\ \A c \in Channels : \A i \in DOMAIN history[c] : Exists(history[c][i].rel)

\* No step takes a release away.
LEMMA ExistsStays ==
  ASSUME Shape, [Next]_vars, NEW q \in Releases, Exists(q)
  PROVE  status'[q] # "absent"
<1> USE DEF Exists
<1>0. status \in [Releases -> Statuses] BY DEF Shape, TypeOK
<1>1. ASSUME NEW r \in Releases, CreateRelease(r) PROVE status'[q] # "absent"
  BY <1>0, <1>1 DEF CreateRelease
<1>2. ASSUME NEW h \in Handlers, FinalizeCommits(h) \/ PublishCommits(h) \/ YankCommits(h)
      PROVE  status'[q] # "absent"
  BY <1>0, <1>2, ReleaseOk DEF FinalizeCommits, PublishCommits, YankCommits, MarkPublished
<1>3. ASSUME UNCHANGED status PROVE status'[q] # "absent" BY <1>3
<1>4. ASSUME NEW h \in Handlers,
             \/ Reads(h) \/ RevertReadsHistory(h) \/ MoveReadsPointer(h)
             \/ MoveCommits(h) \/ MoveConflicts(h) \/ Dropped(h)
      PROVE  UNCHANGED status
  BY <1>4 DEF Reads, FinalizeLocks, PublishReads, YankReads, PromoteReads, RollbackReads,
     RevertReadsPointer, RevertReadsHistory, MoveReadsPointer, MoveCommits, MoveConflicts, Dropped
<1>5. ASSUME NEW r \in Releases, UploadArtifact(r) PROVE UNCHANGED status
  BY <1>5 DEF UploadArtifact
<1>6. CASE UNCHANGED vars BY <1>3, <1>6 DEF vars
<1> QED  BY <1>1, <1>2, <1>3, <1>4, <1>5, <1>6 DEF Next, ReleaseNext, ChannelNext, Reads

\* What a handler has just read exists.
LEMMA ReadsExisting ==
  ASSUME Shape, NEW h \in Handlers, Reads(h), call'[h].rel \in Releases
  PROVE  status'[call'[h].rel] # "absent"
<1>1. ASSUME NEW x, Begin(h, x) PROVE call'[h] = x
  BY <1>1 DEF Begin, Shape, TypeOK
<1>2. ASSUME NEW r \in Releases, FinalizeLocks(h, r) \/ PublishReads(h, r) \/ YankReads(h, r)
      PROVE  status'[call'[h].rel] # "absent"
  BY <1>1, <1>2 DEF FinalizeLocks, PublishReads, YankReads, Idle
<1>3. ASSUME NEW c \in Channels, NEW r \in Releases, PromoteReads(h, c, r) \/ RollbackReads(h, c, r)
      PROVE  status'[call'[h].rel] # "absent"
  BY <1>1, <1>3 DEF PromoteReads, RollbackReads
<1>4. ASSUME NEW c \in Channels, RevertReadsPointer(h, c) PROVE FALSE
  BY <1>1, <1>4, ReleaseTrainAssumption DEF RevertReadsPointer
<1> QED  BY <1>2, <1>3, <1>4 DEF Reads

\* No step makes a handler or a history name what does not exist.
LEMMA NamesExistStep ==
  ASSUME Shape, NamesExist, [Next]_vars
  PROVE  NamesExist'
<1>1. ASSUME NEW h \in Handlers, call'[h].rel \in Releases PROVE status'[call'[h].rel] # "absent"
  <2>1. CASE Reads(h) BY <1>1, <2>1, ReadsExisting
  <2>2. CASE call'[h] = Idle BY <1>1, <2>2, ReleaseTrainAssumption DEF Idle
  <2>3. CASE call'[h] = call[h]
    <3>1. Exists(call[h].rel) BY <1>1, <2>3 DEF NamesExist
    <3> QED  BY <1>1, <2>3, <3>1, ExistsStays
  <2>4. CASE RevertReadsHistory(h) \/ MoveReadsPointer(h)
    <3>1. CASE call'[h] = Idle BY <2>2, <3>1
    <3>2. CASE call'[h].rel = call[h].rel
      <4>1. Exists(call[h].rel) BY <1>1, <3>2 DEF NamesExist
      <4> QED  BY <1>1, <3>2, <4>1, ExistsStays
    <3>3. ASSUME call[h].op \in Moves, call'[h].rel \in Earlier(call[h].chan, call[h].found)
          PROVE  status'[call'[h].rel] # "absent"
      <4>1. call[h].chan \in Channels BY <3>3 DEF Shape, CallOk
      <4>2. \E i \in DOMAIN history[call[h].chan] : history[call[h].chan][i].rel = call'[h].rel
        BY <3>3, <4>1, EarlierWasServed
      <4>3. Exists(call'[h].rel) BY <4>1, <4>2 DEF NamesExist
      <4> QED  BY <1>1, <4>3, ExistsStays
    <3> QED  BY <2>4, <3>1, <3>2, <3>3, ContinuesCall
  <2> QED  BY <2>1, <2>2, <2>3, <2>4, CallFrame
<1>2. ASSUME NEW c \in Channels, NEW i \in DOMAIN history'[c]
      PROVE  status'[history'[c][i].rel] # "absent"
  <2>1. ASSUME NEW k \in DOMAIN history[c] PROVE status'[history[c][k].rel] # "absent"
    <3>1. history[c] \in Seq([rel : Releases, op : Moves]) BY DEF Shape, TypeOK
    <3>2. history[c][k] \in [rel : Releases, op : Moves] BY <3>1, RowOf
    <3>3. Exists(history[c][k].rel) BY DEF NamesExist
    <3> QED  BY <3>2, <3>3, ExistsStays
  <2>2. CASE history'[c] = history[c] BY <2>1, <2>2
  <2>3. ASSUME NEW h \in Handlers, call[h].rel \in Releases,
               Len(history[c]) \in Nat, DOMAIN history[c] = 1..Len(history[c]),
               DOMAIN history'[c] = 1..(Len(history[c]) + 1),
               history'[c][Len(history[c]) + 1] = [rel |-> call[h].rel, op |-> call[h].op],
               \A j \in DOMAIN history[c] : history'[c][j] = history[c][j]
        PROVE  status'[history'[c][i].rel] # "absent"
    <3>1. CASE i \in DOMAIN history[c] BY <2>1, <2>3, <3>1
    <3>2. CASE i = Len(history[c]) + 1
      <4>1. Exists(call[h].rel) BY <2>3 DEF NamesExist
      <4> QED  BY <2>3, <3>2, <4>1, ExistsStays
    <3> QED  BY <1>2, <2>3, <3>1, <3>2
  <2> QED  BY <2>2, <2>3, HistoryGrows
<1> QED  BY <1>1, <1>2 DEF NamesExist, Exists

\* What the steps of the board rest on.
BoardInv == YankFresh /\ Channelled /\ Exclusive /\ NamesExist

LEMMA BoardInvAlways == Spec => []BoardInv
<1>1. Init => YankFresh /\ NamesExist
  BY ReleaseTrainAssumption DEF Init, YankFresh, NamesExist, Idle
<1>2. Shape /\ YankFresh /\ NamesExist /\ [Next]_vars => YankFresh' /\ NamesExist'
  BY YankFreshStep, NamesExistStep
<1> QED  BY <1>1, <1>2, ShapeAlways, ChannelledAlways, ExclusiveAlways, PTL DEF Spec, BoardInv

\* A move is the board's, of its kind.
LEMMA MoveIsBoards ==
  ASSUME Shape, BoardInv, NEW h \in Handlers, MoveCommits(h)
  PROVE  \E c \in Channels, r \in Releases : Board!Promote(c, r) \/ Board!Rollback(c, r) \/ Board!Revert(c, r)
<1> DEFINE c == call[h].chan
           r == call[h].rel
<1>1. c \in Channels /\ r \in Releases /\ call[h].op \in Moves BY MoveOk
<1>2. Board!Move(c, r, call[h].op) BY DEF MoveCommits, Board!Move
<1>3. call[h].step = "moving" BY DEF MoveCommits
<1>4. CASE call[h].op = "promote"
  <2>1. Released(r) BY <1>4 DEF BoardInv, Channelled, MovesFresh
  <2> QED  BY <1>1, <1>2, <1>4, <2>1 DEF Board!Promote, Board!Released, Released
<1>5. CASE call[h].op = "rollback"
  <2>1. Exists(r) BY <1>1 DEF BoardInv, NamesExist
  <2> QED  BY <1>1, <1>2, <1>5, <2>1 DEF Board!Rollback, Board!Created, Exists
<1>6. CASE call[h].op = "revert"
  <2>1. Served(c, r) BY <1>3, <1>6 DEF BoardInv, Channelled, MovesFresh
  <2> QED  BY <1>1, <1>2, <1>6, <2>1 DEF Board!Revert, Board!Served, Served
<1> QED  BY <1>1, <1>4, <1>5, <1>6 DEF Moves

\* Every step of a handler is one of the board's, or changes nothing there.
LEMMA BoardStep ==
  ASSUME Shape, BoardInv, [Next]_vars
  PROVE  [Board!Next]_(Board!vars)
<1> DEFINE Goal == Board!Next \/ Board!vars' = Board!vars
<1>0. status \in [Releases -> Statuses] BY DEF Shape, TypeOK
<1>1. ASSUME NEW r \in Releases, CreateRelease(r) PROVE Goal
  BY <1>1 DEF CreateRelease, Board!Next, Board!Create, Board!Created
<1>2. ASSUME NEW h \in Handlers, FinalizeCommits(h) PROVE Goal
  <2>1. call[h].rel \in Releases BY <1>2, ReleaseOk
  <2>2. status[call[h].rel] = "draft" BY <1>2 DEF FinalizeCommits, BoardInv, Exclusive
  <2>3. Board!Publish(call[h].rel)
    BY <1>2, <2>2 DEF FinalizeCommits, MarkPublished, Board!Publish
  <2> QED  BY <2>1, <2>3 DEF Board!Next
<1>3. ASSUME NEW h \in Handlers, PublishCommits(h) PROVE Goal
  <2>1. call[h].rel \in Releases BY <1>3, ReleaseOk
  <2>2. call[h].rel \in Direct BY <1>3 DEF PublishCommits, BoardInv, Exclusive
  <2>3. status[call[h].rel] # "absent" BY <2>1 DEF BoardInv, NamesExist, Exists
  <2>4. status[call[h].rel] = "draft" \/ Board!Released(call[h].rel)
    BY <1>0, <2>1, <2>3 DEF Statuses, Board!Released
  <2>5. Board!Publish(call[h].rel)
    BY <1>3, <2>2, <2>4 DEF PublishCommits, MarkPublished, Board!Publish
  <2> QED  BY <2>1, <2>5 DEF Board!Next
<1>4. ASSUME NEW h \in Handlers, YankCommits(h) PROVE Goal
  <2> DEFINE r == call[h].rel
  <2>1. r \in Releases BY <1>4, ReleaseOk
  <2>2. Released(r) BY <1>4 DEF YankCommits, BoardInv, YankFresh
  <2>3. CASE status[r] = "published"
    <3>1. Board!Yank(r) BY <1>4, <2>3 DEF YankCommits, Board!Yank
    <3> QED  BY <2>1, <3>1 DEF Board!Next
  <2>4. CASE status[r] = "yanked"
    <3>1. status' = status BY <1>0, <1>4, <2>1, <2>4 DEF YankCommits
    <3> QED  BY <1>4, <3>1 DEF YankCommits, Board!vars
  <2> QED  BY <2>2, <2>3, <2>4 DEF Released
<1>5. ASSUME NEW h \in Handlers, MoveCommits(h) PROVE Goal
  BY <1>5, MoveIsBoards DEF Board!Next
<1>6. ASSUME UNCHANGED <<status, pointer, history, announced, movesTold>> PROVE Goal
  BY <1>6 DEF Board!vars
<1>7. ASSUME NEW h \in Handlers,
             Reads(h) \/ RevertReadsHistory(h) \/ MoveReadsPointer(h) \/ MoveConflicts(h) \/ Dropped(h)
      PROVE  Goal
  BY <1>6, <1>7 DEF Reads, FinalizeLocks, PublishReads, YankReads, PromoteReads, RollbackReads,
     RevertReadsPointer, RevertReadsHistory, MoveReadsPointer, MoveConflicts, Dropped
<1>8. ASSUME NEW r \in Releases, UploadArtifact(r) PROVE Goal
  BY <1>6, <1>8 DEF UploadArtifact
<1>9. ASSUME UNCHANGED vars PROVE Goal BY <1>6, <1>9 DEF vars
<1> HIDE DEF Goal
<1>10. Goal
  BY <1>1, <1>2, <1>3, <1>4, <1>5, <1>7, <1>8, <1>9 DEF Next, ReleaseNext, ChannelNext, Reads
<1> QED  BY <1>10 DEF Goal

\* The release endpoints implement ReleaseBoard: whatever handlers overlap, and
\* wherever they are dropped, the tables go through operations done at once.
THEOREM HandlersKeepBoard == Spec => BoardIsKept
<1>1. Init => Board!Init
  BY DEF Init, Board!Init
<1>2. Shape /\ BoardInv /\ [Next]_vars => [Board!Next]_(Board!vars)
  BY BoardStep
<1> QED  BY <1>1, <1>2, ShapeAlways, BoardInvAlways, PTL DEF Spec, BoardIsKept, Board!Spec

----------------------------------------------------------------------------
(* Without two handlers at work on one release.                            *)

\* No two handlers are at work on the same release.
OneCallPerRelease ==
  \A g, h \in Handlers : call[g].rel \in Releases /\ call[g].rel = call[h].rel => g = h

\* The test a handler made of its release still holds when it commits.
TestsHold ==
  \A h \in Handlers :
    /\ call[h].op = "publish" => status[call[h].rel] = "draft"
    /\ call[h].op = "promote" => status[call[h].rel] = "published"

\* Only a handler at work on a release changes it once it is there.
LEMMA StatusIsWritten ==
  ASSUME Shape, [Next]_vars, NEW q \in Releases
  PROVE  \/ status[q] \in {"absent", status'[q]} /\ announced'[q] = announced[q]
         \/ \E h \in Handlers :
              /\ call[h].rel = q /\ End(h)
              /\ \/ call[h].op \in {"finalize", "publish"} /\ announced'[q] = announced[q] + 1
                 \/ status'[q] = "yanked" /\ announced'[q] = announced[q]
<1> DEFINE Goal ==
         \/ status[q] \in {"absent", status'[q]} /\ announced'[q] = announced[q]
         \/ \E h \in Handlers :
              /\ call[h].rel = q /\ End(h)
              /\ \/ call[h].op \in {"finalize", "publish"} /\ announced'[q] = announced[q] + 1
                 \/ status'[q] = "yanked" /\ announced'[q] = announced[q]
<1>0. status \in [Releases -> Statuses] /\ announced \in [Releases -> Nat]
  BY DEF Shape, TypeOK
<1>1. ASSUME NEW r \in Releases, CreateRelease(r) PROVE Goal
  BY <1>0, <1>1 DEF CreateRelease
<1>2. ASSUME NEW h \in Handlers, FinalizeCommits(h) PROVE Goal
  BY <1>0, <1>2, ReleaseOk DEF FinalizeCommits, MarkPublished
<1>3. ASSUME NEW h \in Handlers, PublishCommits(h) PROVE Goal
  BY <1>0, <1>3, ReleaseOk DEF PublishCommits, MarkPublished
<1>4. ASSUME NEW h \in Handlers, YankCommits(h) PROVE Goal
  BY <1>0, <1>4, ReleaseOk DEF YankCommits
<1>5. ASSUME UNCHANGED <<status, announced>> PROVE Goal
  BY <1>5
<1>6. ASSUME NEW h \in Handlers,
             \/ Reads(h) \/ RevertReadsHistory(h) \/ MoveReadsPointer(h)
             \/ MoveCommits(h) \/ MoveConflicts(h) \/ Dropped(h)
      PROVE  UNCHANGED <<status, announced>>
  BY <1>6 DEF Reads, FinalizeLocks, PublishReads, YankReads, PromoteReads, RollbackReads,
     RevertReadsPointer, RevertReadsHistory, MoveReadsPointer, MoveCommits, MoveConflicts, Dropped
<1>7. ASSUME NEW r \in Releases, UploadArtifact(r) PROVE UNCHANGED <<status, announced>>
  BY <1>7 DEF UploadArtifact
<1>8. ASSUME UNCHANGED vars PROVE UNCHANGED <<status, announced>>
  BY <1>8 DEF vars
<1> HIDE DEF Goal
<1>9. Goal
  BY <1>1, <1>2, <1>3, <1>4, <1>5, <1>6, <1>7, <1>8 DEF Next, ReleaseNext, ChannelNext, Reads
<1> QED  BY <1>9 DEF Goal

\* Nobody else comes between a handler's test and its commit.
LEMMA TestsHoldStep ==
  ASSUME Shape, OneCallPerRelease, TestsHold, [Next]_vars
  PROVE  TestsHold'
<1>1. ASSUME NEW h \in Handlers, call[h].op \in {"publish", "promote"}, call[h].rel \in Releases,
             call'[h].op = call[h].op, call'[h].rel = call[h].rel
      PROVE  status'[call[h].rel] = status[call[h].rel]
  <2>1. status[call[h].rel] # "absent" BY <1>1 DEF TestsHold
  <2>2. ASSUME NEW g \in Handlers, call[g].rel = call[h].rel, End(g) PROVE FALSE
    <3>1. g = h BY <1>1, <2>2 DEF OneCallPerRelease
    <3> QED  BY <1>1, <2>2, <3>1 DEF End, Idle, Shape, TypeOK
  <2> QED  BY <1>1, <2>1, <2>2, StatusIsWritten
<1>2. ASSUME NEW h \in Handlers, call'[h].op \in {"publish", "promote"},
             call'[h].op = call[h].op, call'[h].rel = call[h].rel
      PROVE  /\ call'[h].op = "publish" => status'[call'[h].rel] = "draft"
             /\ call'[h].op = "promote" => status'[call'[h].rel] = "published"
  <2>1. call[h].rel \in Releases BY <1>2 DEF Shape, CallOk
  <2> QED  BY <1>1, <1>2, <2>1 DEF TestsHold
<1>3. ASSUME NEW h \in Handlers, call'[h].op \in {"publish", "promote"}
      PROVE  /\ call'[h].op = "publish" => status'[call'[h].rel] = "draft"
             /\ call'[h].op = "promote" => status'[call'[h].rel] = "published"
  <2>1. CASE Reads(h)
    BY <1>3, <2>1, ReadsCall DEF PublishReads, PromoteReads
  <2>2. CASE call'[h] = Idle
    BY <1>3, <2>2 DEF Idle
  <2>3. CASE call'[h] = call[h]
    BY <1>2, <1>3, <2>3
  <2>4. CASE RevertReadsHistory(h) \/ MoveReadsPointer(h)
    BY <1>2, <1>3, <2>2, <2>4, ContinuesCall
  <2> QED  BY <2>1, <2>2, <2>3, <2>4, CallFrame
<1> QED  BY <1>3 DEF TestsHold

LEMMA TestsHoldAlways == Spec /\ []OneCallPerRelease => []TestsHold
<1>1. Init => TestsHold BY DEF Init, TestsHold, Idle
<1>2. Shape /\ OneCallPerRelease /\ TestsHold /\ [Next]_vars => TestsHold'
  BY TestsHoldStep
<1> QED  BY <1>1, <1>2, ShapeAlways, PTL DEF Spec

\* As long as no two handlers are at work on one release, a yanked release stays
\* yanked, by whatever endpoint it is published.
THEOREM YankedIsFinalAlone == Spec /\ []OneCallPerRelease => YankedIsFinal
<1> DEFINE Final == \A r \in Releases : StaysYanked(r)
<1>1. ASSUME Shape, Exclusive, TestsHold, [Next]_vars PROVE [Final]_vars
  <2>1. ASSUME NEW q \in Releases, status[q] = "yanked" PROVE status'[q] = "yanked"
    <3>1. ASSUME NEW h \in Handlers, call[h].op \in {"finalize", "publish"}, call[h].rel = q
          PROVE  FALSE
      BY <1>1, <2>1, <3>1 DEF Exclusive, TestsHold
    <3> QED  BY <1>1, <2>1, <3>1, StatusIsWritten
  <2> QED  BY <2>1 DEF StaysYanked
<1> QED  BY <1>1, ShapeAlways, ExclusiveAlways, TestsHoldAlways, PTL DEF Spec, YankedIsFinal

\* As long as no two handlers are at work on one release, every release is
\* announced at most once.
THEOREM AnnouncedOnceAlone ==
  Spec /\ []OneCallPerRelease => [](\A r \in Releases : announced[r] <= 1)
<1> DEFINE Once == \A r \in Releases : announced[r] <= 1
<1>1. Init => Once BY DEF Init
<1>2. ASSUME Shape, Exclusive, TestsHold, EventsMatchState, Once, [Next]_vars PROVE Once'
  <2>1. ASSUME NEW q \in Releases PROVE announced'[q] <= 1
    <3>1. ASSUME NEW h \in Handlers, call[h].op \in {"finalize", "publish"}, call[h].rel = q
          PROVE  announced[q] = 0
      BY <1>2, <3>1 DEF Exclusive, TestsHold, EventsMatchState
    <3>2. announced[q] <= 1 BY <1>2
    <3> QED  BY <1>2, <3>1, <3>2, StatusIsWritten
  <2> QED  BY <2>1
<1> QED  BY <1>1, <1>2, ShapeAlways, ExclusiveAlways, TestsHoldAlways, EventsAreExact, PTL DEF Spec

\* As long as no two handlers are at work on one release, what is promoted is
\* published when the channel is moved to it.
THEOREM PromotesPublishedAlone == Spec /\ []OneCallPerRelease => PromotesPublished
<1> DEFINE Good == \A c \in Channels :
             history'[c] # history[c] /\ Last(history'[c]).op = "promote" =>
               status[Last(history'[c]).rel] = "published"
<1>1. ASSUME Shape, TestsHold, [Next]_vars PROVE [Good]_vars
  <2>1. ASSUME NEW c \in Channels, history'[c] # history[c], Last(history'[c]).op = "promote"
        PROVE  status[Last(history'[c]).rel] = "published"
    <3>1. PICK h \in Handlers :
            /\ Len(history[c]) \in Nat /\ DOMAIN history'[c] = 1..(Len(history[c]) + 1)
            /\ history'[c][Len(history[c]) + 1] = [rel |-> call[h].rel, op |-> call[h].op]
            /\ MoveCommits(h)
      BY <1>1, <2>1, HistoryGrows
    <3>2. history'[c] \in Seq([rel : Releases, op : Moves])
      BY <1>1, ShapeStep DEF Shape, TypeOK
    <3>3. Last(history'[c]) = [rel |-> call[h].rel, op |-> call[h].op]
      BY <3>1, <3>2 DEF Last
    <3> QED  BY <1>1, <2>1, <3>3 DEF TestsHold
  <2> QED  BY <2>1
<1> QED  BY <1>1, ShapeAlways, TestsHoldAlways, PTL DEF Spec, PromotesPublished
=============================================================================
