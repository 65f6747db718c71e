--------------------------- MODULE UpdateEngineProofs ---------------------------
(***************************************************************************)
(* Proofs about UpdateEngine over either adapter, for any number of        *)
(* releases and of overlapping calls: its types, that it is never wedged,  *)
(* that the device never goes back, that it implements EngineContract, and *)
(* what an app that makes one call at a time can rely on.                  *)
(* A step changes one call; what a call may remember (Good) is proved of   *)
(* that call, and the others are as they were.                             *)
(***************************************************************************)
EXTENDS UpdateEngine, TLAPS

\* A complete artifact is of a release newer than the one installed.
Fresh(f) == f.whole => f.of > installed

NewerOrNone(v) == v = Nothing \/ v > installed

\* What a call in flight remembers: a release is looked up among the dismissals,
\* postponed or downloaded only if it is newer, and not looked up if it is forced.
Good(c) ==
  /\ c \in Calls
  /\ c.at \in {"dismissal", "postponing"} \cup Fetches => c.rel # Nothing /\ c.rel > installed
  /\ c.at = "dismissal" => c.rel \notin Forced
  /\ Fresh(c.handle.update)
  /\ c.at = "written" => Reconciles
  /\ c.at = "installing" => c.handle # NoHandle /\ c.handle.rel # Nothing

CallsAreGood == call \in [Slots -> Calls] /\ \A k \in Slots : Good(call[k])

\* The releases and handles of this process are newer than the app that runs.
StoreIsFresh ==
  /\ NewerOrNone(release) /\ NewerOrNone(pending)
  /\ Fresh(handle.update)
  /\ handle # NoHandle => handle.rel # Nothing

\* In this process an artifact was found or fetched, so the file that the Android
\* installer would open, if it is complete, is newer than the app.
InHand == handle # NoHandle \/ handed \/ \E k \in Slots : call[k].at = "installing"

FileIsFresh == Reconciles /\ InHand => Fresh(file)

IInv == TypeOK /\ CallsAreGood /\ StoreIsFresh /\ FileIsFresh /\ NeverWedged

\* The part of TypeOK that no call is about.
Types ==
  /\ platform \in Platforms /\ app \in Apps
  /\ status \in {"idle", "checking", "up-to-date", "available", "force-required",
                 "downloading", "ready", "error"}
  /\ release \in VersionOrNone
  /\ handle \in Handles
  /\ pending \in VersionOrNone /\ handed \in BOOLEAN
  /\ throttled \in BOOLEAN /\ dismissed \subseteq Versions
  /\ file \in Files /\ record \in VersionOrNone /\ installed \in VersionOrNone

----------------------------------------------------------------------------
(* Constants and records.                                                  *)

LEMMA NothingIsAVersion ==
  /\ Nothing \in VersionOrNone /\ Nothing = 0 /\ VersionOrNone \subseteq Nat
  /\ \A v \in VersionOrNone : v # Nothing => v \in Versions
BY UpdateEngineAssumption DEF Nothing, VersionOrNone, Versions

LEMMA NothingIsFresh ==
  /\ NoFile \in Files /\ NoFile.whole = FALSE /\ NoFile.of = Nothing
  /\ NoHandle \in Handles /\ NoHandle.update = NoFile /\ NoHandle.rel = Nothing
BY NothingIsAVersion DEF NoFile, NoHandle, Files, Handles

LEMMA FreeIsGood == Good(Free) /\ Free.at = "free"
BY NothingIsAVersion, NothingIsFresh DEF Free, Good, Calls, Fresh, Fetches, Checks

----------------------------------------------------------------------------
(* A step that changes the call in slot k.                                 *)

Moves(k, c) == call' = [call EXCEPT ![k] = c]

SameApp == UNCHANGED <<platform, app, installed>>

LEMMA CallMoves ==
  ASSUME CallsAreGood, SameApp, NEW k \in Slots, NEW c, Good(c), Moves(k, c)
  PROVE  /\ CallsAreGood'
         /\ call'[k] = c /\ \A j \in Slots : j # k => call'[j] = call[j]
<1>1. c \in Calls BY DEF Good
<1>2. /\ call' \in [Slots -> Calls]
      /\ call'[k] = c /\ \A j \in Slots : j # k => call'[j] = call[j]
  BY <1>1 DEF CallsAreGood, Moves
<1>3. \A j \in Slots : Good(call'[j]) BY <1>2 DEF CallsAreGood
<1>4. \A j \in Slots : Good(call[j])' BY <1>3 DEF SameApp, Good, Fresh, Reconciles
<1> QED BY <1>2, <1>4 DEF CallsAreGood

LEMMA AwaitsMoves ==
  ASSUME CallsAreGood, SameApp, NEW k \in Slots,
         NEW at \in {"throttle", "postponing"} \cup Checks, NEW v \in VersionOrNone, Awaits(k, at, v),
         at \in {"dismissal", "postponing"} => v # Nothing /\ v > installed,
         at = "dismissal" => v \notin Forced
  PROVE  /\ CallsAreGood'
         /\ call'[k].at = at /\ \A j \in Slots : j # k => call'[j] = call[j]
<1> DEFINE c == [Free EXCEPT !.at = at, !.rel = v]
<1>1. Good(c) /\ c.at = at
  BY NothingIsAVersion, NothingIsFresh, UpdateEngineAssumption
     DEF Free, Good, Calls, Fresh, Fetches, Checks
<1>2. Moves(k, c) BY DEF Awaits, Moves
<1> QED BY <1>1, <1>2, CallMoves

LEMMA EndsMoves ==
  ASSUME CallsAreGood, SameApp, NEW k \in Slots, Ends(k)
  PROVE  /\ CallsAreGood'
         /\ call'[k].at = "free" /\ \A j \in Slots : j # k => call'[j] = call[j]
BY FreeIsGood, CallMoves DEF Ends, Moves

\* A step of one call wedges nothing if it leaves the two busy states, enters one
\* with its own call, or keeps both the state and the kind of call.
LEMMA StaysUnwedged ==
  ASSUME NeverWedged, NEW k \in Slots, \A j \in Slots : j # k => call'[j] = call[j],
         \/ status' \notin {"checking", "downloading"}
         \/ status' = "checking" /\ call'[k].at \in Checks
         \/ status' = "downloading" /\ call'[k].at \in Fetches
         \/ /\ status' = status
            /\ call[k].at \in Checks => call'[k].at \in Checks
            /\ call[k].at \in Fetches => call'[k].at \in Fetches
  PROVE  NeverWedged'
BY DEF NeverWedged

\* The file stays fresh while it is not touched and nothing new comes in hand.
LEMMA FileStaysFresh ==
  ASSUME FileIsFresh, SameApp, NEW k \in Slots, \A j \in Slots : j # k => call'[j] = call[j],
         \/ Fresh(file)'
         \/ /\ file' = file
            /\ handle' # NoHandle => handle # NoHandle
            /\ handed' => InHand
            /\ call'[k].at = "installing" => InHand
  PROVE  FileIsFresh'
<1>1. CASE Fresh(file)' BY <1>1 DEF FileIsFresh
<1>2. CASE /\ file' = file
           /\ handle' # NoHandle => handle # NoHandle
           /\ handed' => InHand
           /\ call'[k].at = "installing" => InHand
  <2>1. ASSUME InHand' PROVE InHand BY <1>2, <2>1 DEF InHand
  <2> QED BY <1>2, <2>1 DEF FileIsFresh, Fresh, Reconciles, SameApp
<1> QED BY <1>1, <1>2

----------------------------------------------------------------------------
(* check.                                                                  *)

\* A step of a call that leaves handle and disk alone.
LEMMA CheckStep ==
  ASSUME IInv, SameApp, CallsAreGood', NEW k \in Slots,
         \A j \in Slots : j # k => call'[j] = call[j], call'[k].at # "installing",
         UNCHANGED <<handle, handed, disk>>,
         status' \in {status, "checking", "up-to-date", "error"},
         release' \in VersionOrNone, NewerOrNone(release)', pending' \in VersionOrNone, NewerOrNone(pending)',
         throttled' \in BOOLEAN, dismissed' \subseteq Versions,
         \/ status' \notin {"checking", "downloading"}
         \/ status' = "checking" /\ call'[k].at \in Checks
         \/ /\ status' = status
            /\ call[k].at \in Checks => call'[k].at \in Checks
            /\ call[k].at \notin Fetches
  PROVE  IInv'
<1>1. NeverWedged' BY StaysUnwedged DEF IInv
<1>2. FileIsFresh' BY FileStaysFresh DEF IInv, InHand, disk
<1>3. Types' BY DEF IInv, TypeOK, Types, SameApp, disk
<1>4. StoreIsFresh' BY DEF IInv, StoreIsFresh, SameApp, Fresh
<1> QED BY <1>1, <1>2, <1>3, <1>4 DEF IInv, TypeOK, Types, CallsAreGood

\* What reconciling can leave behind.
LEMMA ReconcileLeaves ==
  ASSUME IInv, SameApp, NEW k \in Slots, NEW v \in VersionOrNone, IsNewer(v) \/ v = Nothing,
         NEW found, Reconcile(k, v, found)
  PROVE  /\ handle' \in Handles /\ file' \in Files /\ record' \in VersionOrNone
         /\ Fresh(handle.update)' /\ (handle' # NoHandle => handle'.rel # Nothing)
         /\ \/ Fresh(file)'
            \/ file' = file /\ (handle' # NoHandle => handle # NoHandle)
<1> USE NothingIsAVersion, NothingIsFresh
<1>0. record \in VersionOrNone /\ file \in Files /\ handle \in Handles BY DEF IInv, TypeOK
<1>1. CASE ~Reconciles
  BY <1>0, <1>1 DEF Reconcile, IInv, StoreIsFresh, disk, SameApp, Fresh
<1>2. CASE Reconciles /\ Matches(k, v) /\ handle' = [NoHandle EXCEPT !.rel = v] /\ UNCHANGED disk
  <2>1. v # Nothing /\ v > installed /\ file = [of |-> v, whole |-> TRUE]
    BY <1>2 DEF Matches, IsNewer
  <2>2. handle' \in Handles /\ handle'.update = NoFile /\ handle'.rel = v BY <1>2 DEF Handles
  <2> QED BY <1>0, <1>2, <2>1, <2>2 DEF disk, SameApp, Fresh
<1>3. CASE handle' = NoHandle /\ file' \in {file, NoFile} /\ record' \in {record, Nothing}
  BY <1>0, <1>3 DEF Fresh, SameApp
<1> QED BY <1>1, <1>2, <1>3 DEF Reconcile

LEMMA CheckEndsReconciled ==
  ASSUME IInv, SameApp, NEW k \in Slots, NEW v \in VersionOrNone, NEW found,
         Reconcile(k, v, found), IsNewer(v) \/ v = Nothing, release' = v, Ends(k),
         status' \in {"ready", "force-required", "available", "up-to-date"},
         UNCHANGED <<pending, handed, throttled, dismissed, installed>>
  PROVE  IInv'
<1>1. /\ CallsAreGood'
      /\ call'[k].at = "free" /\ \A j \in Slots : j # k => call'[j] = call[j]
  BY EndsMoves DEF IInv
<1>2. NeverWedged' BY <1>1, StaysUnwedged DEF IInv
<1>3. /\ handle' \in Handles /\ file' \in Files /\ record' \in VersionOrNone
      /\ Fresh(handle.update)' /\ (handle' # NoHandle => handle'.rel # Nothing)
      /\ \/ Fresh(file)'
         \/ file' = file /\ (handle' # NoHandle => handle # NoHandle)
  BY ReconcileLeaves
<1>4. FileIsFresh' BY <1>1, <1>3, FileStaysFresh DEF IInv, InHand
<1>5. Types' BY <1>3 DEF IInv, TypeOK, Types, SameApp
<1>6. StoreIsFresh' BY <1>3 DEF IInv, StoreIsFresh, NewerOrNone, IsNewer, SameApp
<1> QED BY <1>1, <1>2, <1>4, <1>5, <1>6 DEF IInv, TypeOK, Types, CallsAreGood

\* One step per action of the check.
LEMMA CheckKeeps ==
  ASSUME IInv, SameApp, NEW k \in Slots, CheckNext(k)
  PROVE  IInv'
<1> USE NothingIsAVersion
<1>0. /\ CallsAreGood /\ Good(call[k]) /\ call[k] \in Calls /\ Types
      /\ NewerOrNone(release) /\ NewerOrNone(pending)
  BY DEF IInv, StoreIsFresh, CallsAreGood, Good, TypeOK, Types
<1>1. CASE CheckForced(k)
  <2>1. Awaits(k, "asking", Nothing) /\ "asking" \in Checks BY <1>1 DEF CheckForced, Checks
  <2>2. CallsAreGood' /\ call'[k].at = "asking" /\ \A j \in Slots : j # k => call'[j] = call[j]
    BY <1>0, <2>1, AwaitsMoves
  <2> QED BY <1>0, <1>1, <2>1, <2>2, CheckStep DEF CheckForced, persisted, Types, NewerOrNone, SameApp
<1>2. CASE Check(k)
  <2>1. Awaits(k, "throttle", Nothing) BY <1>2 DEF Check
  <2>2. CallsAreGood' /\ call'[k].at = "throttle" /\ \A j \in Slots : j # k => call'[j] = call[j]
    BY <1>0, <2>1, AwaitsMoves
  <2>3. status \notin {"checking", "downloading"} BY <1>2 DEF Check, Busy
  <2> QED BY <1>0, <1>2, <2>2, <2>3, CheckStep DEF Check, engine, persisted, Types, NewerOrNone, SameApp
<1>3. CASE CheckThrottled(k) \/ CheckUnread(k)
  <2>1. call[k].at = "throttle" /\ Ends(k) BY <1>3 DEF CheckThrottled, CheckUnread
  <2>2. CallsAreGood' /\ call'[k].at = "free" /\ \A j \in Slots : j # k => call'[j] = call[j]
    BY <1>0, <2>1, EndsMoves
  <2>3. call[k].at \notin Checks \cup Fetches BY <2>1 DEF Checks, Fetches
  <2> QED BY <1>0, <1>3, <2>2, <2>3, CheckStep
     DEF CheckThrottled, CheckUnread, engine, persisted, Types, NewerOrNone, SameApp
<1>4. CASE CheckProceeds(k)
  <2>1. Awaits(k, "asking", Nothing) /\ "asking" \in Checks BY <1>4 DEF CheckProceeds, Checks
  <2>2. CallsAreGood' /\ call'[k].at = "asking" /\ \A j \in Slots : j # k => call'[j] = call[j]
    BY <1>0, <2>1, AwaitsMoves
  <2> QED BY <1>0, <1>4, <2>1, <2>2, CheckStep DEF CheckProceeds, persisted, Types, NewerOrNone, SameApp
<1>5. ASSUME NEW v \in Answers, CheckAnswers(k, v) PROVE IInv'
  <2>1. /\ v \in VersionOrNone /\ Awaits(k, "saving", v) /\ "saving" \in Checks
        /\ call[k].at \in Checks /\ call[k].at \notin Fetches
    BY <1>5 DEF CheckAnswers, Answers, Versions, VersionOrNone, Checks, Fetches
  <2>2. CallsAreGood' /\ call'[k].at = "saving" /\ \A j \in Slots : j # k => call'[j] = call[j]
    BY <1>0, <2>1, AwaitsMoves
  <2>3. pending' \in VersionOrNone /\ NewerOrNone(pending)'
    BY <1>0, <1>5, <2>1 DEF CheckAnswers, Answers, NewerOrNone, SameApp, Types
  <2> QED BY <1>0, <1>5, <2>1, <2>2, <2>3, CheckStep
     DEF CheckAnswers, engine, persisted, Types, NewerOrNone, SameApp
<1>6. CASE CheckFails(k)
  <2>1. CallsAreGood' /\ call'[k].at = "free" /\ \A j \in Slots : j # k => call'[j] = call[j]
    BY <1>0, <1>6, EndsMoves DEF CheckFails
  <2> QED BY <1>0, <1>6, <2>1, CheckStep DEF CheckFails, persisted, Types, NewerOrNone, SameApp
<1>7. CASE CheckSaves(k)
  <2> DEFINE v == call[k].rel
             at == IF IsNewer(v) /\ v \notin Forced THEN "dismissal" ELSE "reconciling"
  <2>1. /\ v \in VersionOrNone /\ Awaits(k, at, v) /\ at \in Checks
        /\ call[k].at \in Checks /\ call[k].at \notin Fetches
    BY <1>0, <1>7 DEF CheckSaves, Calls, Checks, Fetches
  <2>2. CallsAreGood' /\ call'[k].at = at /\ \A j \in Slots : j # k => call'[j] = call[j]
    BY <1>0, <2>1, AwaitsMoves DEF IsNewer
  <2>3. at # "installing" /\ throttled' = TRUE
        /\ UNCHANGED <<engine, pending, handed, dismissed, disk, installed>>
    BY <1>7 DEF CheckSaves
  <2> HIDE DEF at
  <2> QED BY <1>0, <2>1, <2>2, <2>3, CheckStep DEF engine, Types, NewerOrNone, SameApp
<1>8. CASE CheckDismissal(k)
  <2> DEFINE v == call[k].rel
  <2>0. /\ v \in VersionOrNone /\ v # Nothing /\ v > installed
        /\ call[k].at \in Checks /\ call[k].at \notin Fetches
    BY <1>0, <1>8 DEF CheckDismissal, Calls, Good, Checks, Fetches
  <2>1. CASE status' = "up-to-date" /\ release' = v /\ Ends(k)
    <3>1. CallsAreGood' /\ call'[k].at = "free" /\ \A j \in Slots : j # k => call'[j] = call[j]
      BY <1>0, <2>1, EndsMoves
    <3> QED BY <1>0, <1>8, <2>0, <2>1, <3>1, CheckStep
       DEF CheckDismissal, persisted, Types, NewerOrNone, SameApp
  <2>2. CASE Awaits(k, "reconciling", v) /\ UNCHANGED <<status, release>>
    <3>1. "reconciling" \in Checks BY DEF Checks
    <3>2. CallsAreGood' /\ call'[k].at = "reconciling" /\ \A j \in Slots : j # k => call'[j] = call[j]
      BY <1>0, <2>0, <2>2, <3>1, AwaitsMoves
    <3> QED BY <1>0, <1>8, <2>0, <2>2, <3>1, <3>2, CheckStep
       DEF CheckDismissal, persisted, Types, NewerOrNone, SameApp
  <2> QED BY <1>8, <2>1, <2>2 DEF CheckDismissal
<1>9. CASE ReconcileReads(k)
  <2> DEFINE c == [call[k] EXCEPT !.at = "reconciled", !.seen = record]
  <2>1. Moves(k, c) /\ Good(c) /\ c.at = "reconciled" /\ c.at \in Checks
        /\ call[k].at \in Checks /\ call[k].at \notin Fetches
    BY <1>0, <1>9 DEF ReconcileReads, Moves, Good, Calls, Checks, Fetches, Types, CallsAreGood
  <2>2. CallsAreGood' /\ call'[k] = c /\ \A j \in Slots : j # k => call'[j] = call[j]
    BY <1>0, <2>1, CallMoves
  <2> HIDE DEF c
  <2> QED BY <1>0, <1>9, <2>1, <2>2, CheckStep
     DEF ReconcileReads, engine, persisted, Types, NewerOrNone, SameApp
<1>10. ASSUME NEW found, CheckOffers(k, found) PROVE IInv'
  <2> DEFINE v == call[k].rel
  <2>1. v \in VersionOrNone /\ IsNewer(v) BY <1>0, <1>10 DEF CheckOffers, Calls
  <2> QED BY <1>10, <2>1, CheckEndsReconciled DEF CheckOffers
<1>11. ASSUME NEW found, CheckUpToDate(k, found) PROVE IInv'
  BY <1>11, CheckEndsReconciled DEF CheckUpToDate
<1> QED BY <1>1, <1>2, <1>3, <1>4, <1>5, <1>6, <1>7, <1>8, <1>9, <1>10, <1>11 DEF CheckNext

----------------------------------------------------------------------------
(* download and install.                                                   *)

\* The next source starts over, or the last one fails; neither leaves an older APK.
LEMMA FallingBackKeeps ==
  ASSUME IInv, SameApp, NEW k \in Slots, call[k].at \in Fetches,
         NEW left \in {file, NoFile, [of |-> call[k].rel, whole |-> FALSE]}, FallsBack(k, left),
         record' \in {record, Nothing},
         UNCHANGED <<release, handle, pending, handed, throttled, dismissed, installed>>
  PROVE  IInv'
<1> USE NothingIsAVersion, NothingIsFresh
<1>0. /\ CallsAreGood /\ Good(call[k]) /\ call[k] \in Calls /\ Types /\ StoreIsFresh /\ FileIsFresh
      /\ NeverWedged
  BY DEF IInv, CallsAreGood, Good, TypeOK, Types
<1>1. /\ CallsAreGood' /\ \A j \in Slots : j # k => call'[j] = call[j]
      /\ call'[k].at # "installing"
      /\ \/ status' = status /\ call'[k].at \in Fetches /\ file' = NoFile
         \/ status' = "error" /\ file' = left
  <2>1. CASE Reconciles /\ Moves(k, [call[k] EXCEPT !.at = "downloading"]) /\ file' = NoFile
             /\ UNCHANGED status
    <3> DEFINE c == [call[k] EXCEPT !.at = "downloading"]
    <3>1. Good(c) /\ c.at = "downloading" /\ c.at \in Fetches
      BY <1>0 DEF Good, Calls, Checks, Fetches
    <3> QED BY <1>0, <2>1, <3>1, CallMoves
  <2>2. CASE status' = "error" /\ file' = left /\ Ends(k)
    BY <1>0, <2>2, EndsMoves
  <2> QED BY <1>0, <2>1, <2>2 DEF FallsBack, Moves, CallsAreGood
<1>2. call[k].at \notin Checks BY DEF Fetches, Checks
<1>3. NeverWedged' BY <1>0, <1>1, <1>2, StaysUnwedged
<1>4. file' \in Files /\ (Fresh(file)' \/ file' = file)
  <2> DEFINE cut == [of |-> call[k].rel, whole |-> FALSE]
  <2>1. file \in Files /\ NoFile \in Files /\ cut \in Files BY <1>0 DEF Files, Types, Calls
  <2>2. cut.whole = FALSE OBVIOUS
  <2> HIDE DEF cut
  <2>3. CASE file' = file BY <2>1, <2>3
  <2>4. CASE file' = NoFile BY <2>1, <2>4 DEF Fresh
  <2>5. CASE file' = cut BY <2>1, <2>2, <2>5 DEF Fresh
  <2> QED BY <1>1, <2>3, <2>4, <2>5 DEF cut
<1>5. FileIsFresh' BY <1>0, <1>1, <1>4, FileStaysFresh DEF InHand
<1>6. Types' /\ StoreIsFresh'
  BY <1>0, <1>1, <1>4 DEF Types, StoreIsFresh, NewerOrNone, Fresh, SameApp
<1> QED BY <1>1, <1>3, <1>5, <1>6 DEF IInv, TypeOK, Types, CallsAreGood

LEMMA ArtifactKeeps ==
  ASSUME IInv, SameApp, NEW k \in Slots, ArtifactNext(k), ~Relaunches(k)
  PROVE  IInv'
<1> USE NothingIsAVersion, NothingIsFresh
<1>0. /\ CallsAreGood /\ Good(call[k]) /\ call[k] \in Calls /\ Types /\ StoreIsFresh /\ FileIsFresh
      /\ NeverWedged /\ NewerOrNone(release) /\ NewerOrNone(pending)
  BY DEF IInv, StoreIsFresh, CallsAreGood, Good, TypeOK, Types
<1>00. ASSUME CallsAreGood', Types', StoreIsFresh', FileIsFresh', NeverWedged' PROVE IInv'
  BY <1>00 DEF IInv, TypeOK, Types, CallsAreGood
<1>1. CASE Download(k)
  <2> DEFINE c == [Free EXCEPT !.at = "downloading", !.rel = release, !.handle.update.of = pending]
  <2>a. /\ release \in VersionOrNone /\ release # Nothing /\ release > installed
        /\ pending \in VersionOrNone
    BY <1>0, <1>1 DEF Download, Offered, Types, NewerOrNone
  <2>b. c \in Calls
    BY <2>a DEF Free, NoHandle, NoFile, Calls, Checks, Fetches, Handles, Files
  <2>c. c.at = "downloading" /\ c.rel = release /\ c.handle.update.whole = FALSE
    BY DEF Free, NoHandle, NoFile
  <2>1. Moves(k, c) /\ c.at = "downloading" /\ c.at \in Fetches /\ Good(c)
    BY <1>1, <2>a, <2>b, <2>c DEF Download, Starts, Moves, Good, Fetches, Fresh
  <2>2. CallsAreGood' /\ call'[k] = c /\ \A j \in Slots : j # k => call'[j] = call[j]
    BY <1>0, <2>1, CallMoves
  <2> HIDE DEF c
  <2>3. NeverWedged' BY <1>0, <1>1, <2>1, <2>2, StaysUnwedged DEF Download
  <2>4. FileIsFresh' BY <1>0, <1>1, <2>1, <2>2, FileStaysFresh DEF Download, Starts, Fresh, InHand
  <2>5. Types' /\ StoreIsFresh'
    BY <1>0, <1>1 DEF Download, Starts, Types, StoreIsFresh, NewerOrNone, Fresh, SameApp
  <2> QED BY <1>00, <2>2, <2>3, <2>4, <2>5
<1>2. CASE TauriDownloads(k)
  <2>1. CallsAreGood' /\ call'[k].at = "free" /\ \A j \in Slots : j # k => call'[j] = call[j]
    BY <1>0, <1>2, EndsMoves DEF TauriDownloads, BecomesReady
  <2>2. NeverWedged' BY <1>0, <1>2, <2>1, StaysUnwedged DEF TauriDownloads, BecomesReady
  <2>3. handle' = Downloaded(k) /\ ~Reconciles /\ ~Reconciles'
    BY <1>2 DEF TauriDownloads, BecomesReady, Reconciles, SameApp
  <2>4. FileIsFresh' BY <2>3 DEF FileIsFresh
  <2>5. /\ call[k].rel \in VersionOrNone /\ call[k].rel # Nothing
        /\ call[k].handle.update.of # Nothing
    BY <1>0, <1>2 DEF TauriDownloads, Good, Calls, Fetches
  <2>6. handle' = [rel |-> call[k].rel,
                   update |-> [of |-> pending, whole |-> pending = call[k].handle.update.of]]
    BY <2>3 DEF Downloaded
  <2>7. handle' \in Handles /\ handle'.rel # Nothing /\ Fresh(handle.update)'
    BY <1>0, <2>5, <2>6 DEF Handles, Files, Types, NewerOrNone, Fresh, SameApp
  <2>8. Types' /\ StoreIsFresh'
    BY <1>0, <1>2, <2>7
       DEF TauriDownloads, BecomesReady, persisted, disk, Types, StoreIsFresh, NewerOrNone, SameApp
  <2> QED BY <1>00, <2>1, <2>2, <2>4, <2>8
<1>3. ASSUME NEW complete \in BOOLEAN, DownloadWrites(k, complete) PROVE IInv'
  <2> DEFINE c == [call[k] EXCEPT !.at = "written"]
  <2>1. /\ Moves(k, c) /\ c.at = "written" /\ c.at \in Fetches /\ call[k].at \in Fetches
        /\ call[k].at \notin Checks /\ Good(c)
    BY <1>0, <1>3 DEF DownloadWrites, Moves, Good, Calls, Checks, Fetches, CallsAreGood
  <2>2. CallsAreGood' /\ call'[k] = c /\ \A j \in Slots : j # k => call'[j] = call[j]
    BY <1>0, <2>1, CallMoves
  <2>3. call[k].rel \in VersionOrNone /\ call[k].rel > installed
    BY <1>0, <2>1 DEF Good, Calls
  <2> HIDE DEF c
  <2>4. NeverWedged' BY <1>0, <1>3, <2>1, <2>2, StaysUnwedged DEF DownloadWrites, engine
  <2>5. file' = [of |-> call[k].rel, whole |-> complete] /\ file' \in Files /\ Fresh(file)'
    BY <1>3, <2>3 DEF DownloadWrites, Files, Fresh, SameApp
  <2>6. FileIsFresh' BY <2>5 DEF FileIsFresh
  <2>7. Types' /\ StoreIsFresh'
    BY <1>0, <1>3, <2>5 DEF DownloadWrites, engine, Types, StoreIsFresh, NewerOrNone, Fresh, SameApp
  <2> QED BY <1>00, <2>2, <2>4, <2>6, <2>7
<1>4. CASE DownloadAccepted(k)
  <2>1. CallsAreGood' /\ call'[k].at = "free" /\ \A j \in Slots : j # k => call'[j] = call[j]
    BY <1>0, <1>4, EndsMoves DEF DownloadAccepted, BecomesReady
  <2>2. NeverWedged' BY <1>0, <1>4, <2>1, StaysUnwedged DEF DownloadAccepted, BecomesReady
  <2>3. call[k].rel \in VersionOrNone /\ call[k].rel # Nothing /\ call[k].rel > installed
    BY <1>0, <1>4 DEF DownloadAccepted, Good, Calls, Fetches
  <2>4. FileIsFresh'
    BY <1>4, <2>3 DEF DownloadAccepted, IsTheApk, FileIsFresh, Fresh, SameApp
  <2>5. handle' = [rel |-> call[k].rel,
                   update |-> IF Reconciles THEN NoFile
                              ELSE [of |-> pending, whole |-> pending = call[k].handle.update.of]]
    BY <1>4 DEF DownloadAccepted, BecomesReady, Downloaded
  <2>6. Reconciles => handle' \in Handles /\ handle'.rel # Nothing /\ Fresh(handle.update)'
    BY <2>3, <2>5 DEF Handles, Fresh
  <2>7. Reconciles BY <1>0, <1>4 DEF DownloadAccepted, Good
  <2>8. Types' /\ StoreIsFresh'
    BY <1>0, <1>4, <2>3, <2>6, <2>7
       DEF DownloadAccepted, BecomesReady, Types, StoreIsFresh, NewerOrNone, SameApp
  <2> QED BY <1>00, <2>1, <2>2, <2>4, <2>8
<1>5. CASE DownloadRefused(k)
  <2>1. FallsBack(k, NoFile) /\ call[k].at = "written" /\ record' = Nothing
        /\ UNCHANGED <<release, handle, pending, handed, throttled, dismissed, installed>>
    BY <1>5 DEF DownloadRefused
  <2> QED BY <2>1, FallingBackKeeps DEF Fetches
<1>6. CASE DownloadFails(k)
  <2>0. call[k].rel \in VersionOrNone BY <1>0 DEF Calls
  <2>1. PICK left \in {file, NoFile, [of |-> call[k].rel, whole |-> FALSE]} : FallsBack(k, left)
    BY <1>6 DEF DownloadFails
  <2>2. call[k].at \in Fetches /\ record' = record
        /\ UNCHANGED <<release, handle, pending, handed, throttled, dismissed, installed>>
    BY <1>6 DEF DownloadFails, Fetches
  <2> QED BY <2>1, <2>2, FallingBackKeeps
<1>7. CASE Install(k)
  <2> DEFINE c == [Free EXCEPT !.at = "installing", !.handle = handle]
  <2>a. c.at = "installing" /\ c.handle = handle BY DEF Free
  <2>b. c \in Calls BY <1>0 DEF Free, Calls, Types
  <2>c. handle # NoHandle /\ handle.rel # Nothing /\ Fresh(handle.update)
    BY <1>0, <1>7 DEF Install, StoreIsFresh
  <2>1. Moves(k, c) /\ Good(c) /\ call[k].at = "free"
    BY <1>7, <2>a, <2>b, <2>c, FreeIsGood DEF Install, MayCall, Moves, Good, Fetches
  <2>2. CallsAreGood' /\ call'[k] = c /\ \A j \in Slots : j # k => call'[j] = call[j]
    BY <1>0, <2>1, CallMoves
  <2> HIDE DEF c
  <2>3. NeverWedged' BY <1>0, <1>7, <2>1, <2>2, StaysUnwedged DEF Install, engine, Checks, Fetches
  <2>4. FileIsFresh' BY <1>0, <1>7, <2>2, FileStaysFresh DEF Install, engine, persisted, disk, InHand
  <2>5. Types' /\ StoreIsFresh'
    BY <1>0, <1>7 DEF Install, engine, persisted, disk, Types, StoreIsFresh, NewerOrNone, Fresh, SameApp
  <2> QED BY <1>00, <2>2, <2>3, <2>4, <2>5
<1>8. CASE InstallReturns(k) \/ InstallFails(k)
  <2>1. Ends(k) /\ call[k].at = "installing" /\ handed' \in BOOLEAN /\ status' \in {status, "error"}
        /\ UNCHANGED <<release, handle, pending, persisted>>
    BY <1>0, <1>8 DEF InstallReturns, InstallFails, engine, Types
  <2>2. CallsAreGood' /\ call'[k].at = "free" /\ \A j \in Slots : j # k => call'[j] = call[j]
    BY <1>0, <2>1, EndsMoves
  <2>3. NeverWedged' BY <1>0, <2>1, <2>2, StaysUnwedged DEF Checks, Fetches
  <2>4. FileIsFresh' BY <1>0, <2>1, <2>2, FileStaysFresh DEF persisted, disk, InHand
  <2>5. Types' /\ StoreIsFresh'
    BY <1>0, <2>1 DEF persisted, disk, Types, StoreIsFresh, NewerOrNone, Fresh, SameApp
  <2> QED BY <1>00, <2>2, <2>3, <2>4, <2>5
<1> QED BY <1>1, <1>2, <1>3, <1>4, <1>5, <1>6, <1>7, <1>8 DEF ArtifactNext

----------------------------------------------------------------------------
(* The process and the rest.                                               *)

\* Nothing of a process outlives it but what is persisted.
LEMMA NewProcessIsClean ==
  ASSUME IInv, NewProcess, UNCHANGED <<platform, app, throttled, dismissed, disk>>,
         installed' \in VersionOrNone
  PROVE  IInv'
<1> USE NothingIsAVersion, NothingIsFresh
<1>1. Good(Free)' BY DEF Good, Free, Calls, Fresh, Fetches, Checks
<1>2. CallsAreGood'
  <2>1. Free \in Calls BY FreeIsGood DEF Good
  <2> QED BY <1>1, <2>1 DEF NewProcess, CallsAreGood
<1>3. \A k \in Slots : call'[k].at = "free" BY FreeIsGood DEF NewProcess
<1>4. StoreIsFresh' /\ FileIsFresh' /\ NeverWedged'
  BY <1>3 DEF NewProcess, StoreIsFresh, NewerOrNone, Fresh, FileIsFresh, InHand, NeverWedged
<1>5. Types' BY DEF NewProcess, IInv, TypeOK, Types, disk
<1> QED BY <1>2, <1>4, <1>5 DEF IInv, TypeOK, Types, CallsAreGood

\* What the platform takes over is newer.
LEMMA TakesOverNewer ==
  ASSUME IInv, NEW h \in Handles, Fresh(h.update), Reconciles => Fresh(file), TakenOver(h)
  PROVE  installed' \in VersionOrNone /\ installed' > installed
<1>1. Handed(h) \in Files /\ Fresh(Handed(h)) BY DEF Handed, Handles, IInv, TypeOK
<1> QED BY <1>1 DEF TakenOver, Fresh, Files

LEMMA TakeoverKeeps ==
  ASSUME IInv, UNCHANGED <<platform, app>>,
         (\E k \in Slots : Relaunches(k)) \/ Confirmed
  PROVE  IInv' /\ installed' > installed
<1>1. ASSUME NEW k \in Slots, Relaunches(k) PROVE IInv' /\ installed' > installed
  <2> DEFINE h == call[k].handle
  <2>1. h \in Handles /\ Fresh(h.update) /\ ~Reconciles /\ TakenOver(h)
    BY <1>1 DEF IInv, CallsAreGood, Good, Calls, Relaunches
  <2>2. installed' \in VersionOrNone /\ installed' > installed BY <2>1, TakesOverNewer
  <2> QED BY <2>1, <2>2, NewProcessIsClean DEF TakenOver
<1>2. ASSUME Confirmed PROVE IInv' /\ installed' > installed
  <2>1. handle \in Handles /\ Fresh(handle.update) /\ (Reconciles => Fresh(file)) /\ TakenOver(handle)
    BY <1>2 DEF IInv, TypeOK, StoreIsFresh, FileIsFresh, InHand, Confirmed
  <2>2. installed' \in VersionOrNone /\ installed' > installed BY <2>1, TakesOverNewer
  <2> QED BY <2>1, <2>2, NewProcessIsClean DEF TakenOver
<1> QED BY <1>1, <1>2

\* The steps that leave the calls alone.
LEMMA SynchronousKeeps ==
  ASSUME IInv, SameApp, UNCHANGED <<call, handle, pending, handed>>,
         status' \notin {"checking", "downloading"} \/ status' = status,
         release' = release, record' = record, file' \in {file, NoFile},
         dismissed' \subseteq Versions, throttled' \in BOOLEAN, Types'
  PROVE  IInv'
<1>1. CallsAreGood' BY DEF IInv, CallsAreGood, Good, SameApp, Fresh, Reconciles
<1>2. NeverWedged' BY DEF IInv, NeverWedged
<1>3. FileIsFresh' BY NothingIsFresh DEF IInv, FileIsFresh, InHand, SameApp, Reconciles, Fresh
<1>4. StoreIsFresh' BY DEF IInv, StoreIsFresh, SameApp, Fresh, NewerOrNone
<1> QED BY <1>1, <1>2, <1>3, <1>4 DEF IInv, TypeOK, Types, CallsAreGood

LEMMA RetryKeeps ==
  ASSUME IInv, SameApp, NEW k \in Slots, Retry(k)
  PROVE  IInv'
<1> USE NothingIsAVersion, NothingIsFresh
<1>1. CallsAreGood' /\ call'[k].at = "asking" /\ \A j \in Slots : j # k => call'[j] = call[j]
  <2>1. Awaits(k, "asking", Nothing) /\ "asking" \in Checks BY DEF Retry, Checks
  <2> QED BY <2>1, AwaitsMoves DEF IInv
<1>2. NeverWedged' BY <1>1, StaysUnwedged DEF IInv, Retry, Checks
<1>3. FileIsFresh' BY <1>1, FileStaysFresh DEF IInv, Retry, persisted, disk, InHand
<1>4. Types' BY DEF IInv, TypeOK, Types, Retry, persisted, disk, SameApp
<1>5. StoreIsFresh' BY DEF IInv, StoreIsFresh, Retry, NewerOrNone, Fresh, SameApp
<1> QED BY <1>1, <1>2, <1>3, <1>4, <1>5 DEF IInv, TypeOK, Types, CallsAreGood

\* postpone changes the dismissals at most.
LEMMA PostponeKeeps ==
  ASSUME IInv, SameApp, NEW k \in Slots, PostponeNext(k)
  PROVE  IInv'
<1> USE NothingIsAVersion
<1>0. /\ CallsAreGood /\ Good(call[k]) /\ call[k] \in Calls /\ Types
      /\ NewerOrNone(release) /\ NewerOrNone(pending)
  BY DEF IInv, StoreIsFresh, CallsAreGood, Good, TypeOK, Types
<1>1. CASE Postpone(k)
  <2>1. Awaits(k, "postponing", release) /\ release \in VersionOrNone /\ release # Nothing
    BY <1>0, <1>1 DEF Postpone, Offered, Types
  <2>2. release > installed BY <1>0, <2>1 DEF NewerOrNone
  <2>3. CallsAreGood' /\ call'[k].at = "postponing" /\ \A j \in Slots : j # k => call'[j] = call[j]
    BY <1>0, <2>1, <2>2, AwaitsMoves
  <2>4. call[k].at \notin Checks \cup Fetches
    BY <1>1, FreeIsGood DEF Postpone, MayCall, Checks, Fetches
  <2> QED BY <1>0, <1>1, <2>3, <2>4, CheckStep DEF Postpone, engine, persisted, Types, NewerOrNone, SameApp
<1>2. CASE PostponeWrites(k) \/ PostponeFails(k)
  <2>1. call[k].at = "postponing" /\ Ends(k) BY <1>2 DEF PostponeWrites, PostponeFails
  <2>2. CallsAreGood' /\ call'[k].at = "free" /\ \A j \in Slots : j # k => call'[j] = call[j]
    BY <1>0, <2>1, EndsMoves
  <2>3. call[k].at \notin Checks \cup Fetches BY <2>1 DEF Checks, Fetches
  <2>4. call[k].rel \in Versions BY <1>0, <2>1 DEF Good, Calls
  <2>5. dismissed' \subseteq Versions
    BY <1>0, <1>2, <2>4 DEF PostponeWrites, PostponeFails, persisted, Types
  <2> QED BY <1>0, <1>2, <2>2, <2>3, <2>5, CheckStep
     DEF PostponeWrites, PostponeFails, engine, persisted, Types, NewerOrNone, SameApp
<1> QED BY <1>1, <1>2 DEF PostponeNext

LEMMA StepKeeps == IInv /\ [Next]_vars => IInv'
<1> SUFFICES ASSUME IInv, [Next]_vars PROVE IInv' OBVIOUS
<1> USE NothingIsAVersion, NothingIsFresh
<1>0. Types BY DEF IInv, TypeOK, Types
<1>1. ASSUME NEW k \in Slots, CheckNext(k), UNCHANGED <<platform, app>> PROVE IInv'
  <2>1. installed' = installed
    BY <1>1 DEF CheckNext, CheckForced, Check, CheckThrottled, CheckUnread, CheckProceeds, CheckAnswers,
       CheckFails, CheckSaves, CheckDismissal, ReconcileReads, CheckOffers, CheckUpToDate, persisted
  <2> QED BY <1>1, <2>1, CheckKeeps DEF SameApp
<1>2. ASSUME NEW k \in Slots, ArtifactNext(k), UNCHANGED <<platform, app>> PROVE IInv'
  <2>1. CASE Relaunches(k) BY <1>2, <2>1, TakeoverKeeps
  <2>2. CASE ~Relaunches(k)
    <3>1. installed' = installed
      BY <1>2, <2>2 DEF ArtifactNext, Download, TauriDownloads, DownloadWrites, DownloadAccepted,
         DownloadRefused, DownloadFails, Install, InstallReturns, InstallFails, persisted
    <3> QED BY <1>2, <2>2, <3>1, ArtifactKeeps DEF SameApp
  <2> QED BY <2>1, <2>2
<1>3. ASSUME NEW k \in Slots, Retry(k), UNCHANGED <<platform, app>> PROVE IInv'
  BY <1>3, RetryKeeps DEF Retry, persisted, SameApp
<1>4. ASSUME Confirmed, UNCHANGED <<platform, app>> PROVE IInv' BY <1>4, TakeoverKeeps
<1>5. ASSUME CacheCleared, UNCHANGED <<platform, app>> PROVE IInv'
  BY <1>0, <1>5, SynchronousKeeps DEF CacheCleared, engine, SameApp, Types
<1>6. ASSUME NEW k \in Slots, PostponeNext(k), UNCHANGED <<platform, app>> PROVE IInv'
  BY <1>6, PostponeKeeps DEF PostponeNext, Postpone, PostponeWrites, PostponeFails, persisted, SameApp
<1>7. ASSUME AcknowledgeError, UNCHANGED <<platform, app>> PROVE IInv'
  <2>1. status' \in {"ready", "idle", "force-required", "available"} BY <1>7 DEF AcknowledgeError
  <2> QED BY <1>0, <1>7, <2>1, SynchronousKeeps DEF AcknowledgeError, persisted, disk, SameApp, Types
<1>8. ASSUME ThrottleExpires, UNCHANGED <<platform, app>> PROVE IInv'
  BY <1>0, <1>8, SynchronousKeeps DEF ThrottleExpires, engine, disk, SameApp, Types
<1>9. ASSUME NEW v \in dismissed, DismissalExpires(v), UNCHANGED <<platform, app>> PROVE IInv'
  BY <1>0, <1>9, SynchronousKeeps DEF DismissalExpires, engine, disk, SameApp, Types
<1>10. ASSUME Restart, UNCHANGED <<platform, app>> PROVE IInv'
  BY <1>0, <1>10, NewProcessIsClean DEF Restart, persisted, Types
<1>11. ASSUME UNCHANGED vars PROVE IInv'
  BY <1>0, <1>11, SynchronousKeeps DEF vars, engine, persisted, disk, SameApp, Types
<1> QED BY <1>1, <1>2, <1>3, <1>4, <1>5, <1>6, <1>7, <1>8, <1>9, <1>10, <1>11 DEF Next

LEMMA InitIsGood == Init => IInv
<1> SUFFICES ASSUME Init PROVE IInv OBVIOUS
<1> USE NothingIsAVersion, NothingIsFresh
<1>1. CallsAreGood /\ \A k \in Slots : call[k].at = "free"
  BY FreeIsGood DEF Init, CallsAreGood, Good
<1>2. Types BY DEF Init, Types
<1>3. StoreIsFresh /\ NeverWedged BY DEF Init, StoreIsFresh, NewerOrNone, Fresh, NeverWedged
<1>4. FileIsFresh BY DEF Init, FileIsFresh, Fresh
<1> QED BY <1>1, <1>2, <1>3, <1>4 DEF IInv, TypeOK, Types, CallsAreGood

\* The inductive invariant: what the calls in flight, the store and the disk hold
\* agrees, whatever overlaps and wherever the process is killed.
THEOREM EngineAgrees == Spec => []IInv
BY InitIsGood, StepKeeps, PTL DEF Spec

\* Type correctness of the engine, its adapter and what they persist.
THEOREM TypeCorrect == Spec => []TypeOK
<1>1. IInv => TypeOK BY DEF IInv
<1> QED BY <1>1, EngineAgrees, PTL

\* checking and downloading are states that a call in flight will leave.
THEOREM NeverIsWedged == Spec => []NeverWedged
<1>1. IInv => NeverWedged BY DEF IInv
<1> QED BY <1>1, EngineAgrees, PTL

\* No step of the platform takes the device back.
THEOREM DeviceNeverGoesBack == Spec => InstallsForward
<1> DEFINE Forward == installed' # installed => installed' > installed
<1>1. IInv /\ [Next]_vars => [Forward]_vars
  <2> SUFFICES ASSUME IInv, [Next]_vars, installed' # installed PROVE installed' > installed OBVIOUS
  <2>1. ASSUME NEW k \in Slots, CheckNext(k) PROVE installed' = installed
    BY <2>1 DEF CheckNext, CheckForced, Check, CheckThrottled, CheckUnread, CheckProceeds, CheckAnswers,
       CheckFails, CheckSaves, CheckDismissal, ReconcileReads, CheckOffers, CheckUpToDate, persisted
  <2>2. ASSUME NEW k \in Slots, ArtifactNext(k), ~Relaunches(k) PROVE installed' = installed
    BY <2>2 DEF ArtifactNext, Download, TauriDownloads, DownloadWrites, DownloadAccepted,
       DownloadRefused, DownloadFails, Install, InstallReturns, InstallFails, persisted
  <2>3. ASSUME NEW k \in Slots, Retry(k) PROVE installed' = installed BY <2>3 DEF Retry, persisted
  <2>4. ASSUME \/ CacheCleared \/ AcknowledgeError \/ ThrottleExpires
               \/ \E k \in Slots : PostponeNext(k)
               \/ \E v \in dismissed : DismissalExpires(v)
               \/ Restart \/ UNCHANGED vars
        PROVE installed' = installed
    BY <2>4 DEF CacheCleared, PostponeNext, Postpone, PostponeWrites, PostponeFails, AcknowledgeError,
       ThrottleExpires, DismissalExpires, Restart, vars, persisted
  <2>5. ASSUME Confirmed \/ \E k \in Slots : Relaunches(k), UNCHANGED <<platform, app>>
        PROVE installed' > installed
    BY <2>5, TakeoverKeeps
  <2> QED BY <2>1, <2>2, <2>3, <2>4, <2>5 DEF Next
<1> QED BY <1>1, EngineAgrees, PTL DEF Spec, InstallsForward

----------------------------------------------------------------------------
(* The promise.                                                            *)

\* What the contract sees of a call.
Shown(c) == [at  |-> KindOf(c.at),
             rel |-> CASE c.at \in Fetches \cup {"postponing"} -> c.rel
                       [] c.at = "installing" -> c.handle.rel
                       [] OTHER -> Nothing]

shown == [k \in Slots |-> Shown(call[k])]

LEMMA KindsOfCalls ==
  /\ \A c : c.at \in Checks => Shown(c) = [at |-> "check", rel |-> Nothing]
  /\ \A c : c.at \in Fetches => Shown(c) = [at |-> "download", rel |-> c.rel]
  /\ \A c : c.at = "postponing" => Shown(c) = [at |-> "postpone", rel |-> c.rel]
  /\ \A c : c.at = "installing" => Shown(c) = [at |-> "install", rel |-> c.handle.rel]
  /\ \A c : c.at \in {"free", "throttle"} => Shown(c) = [at |-> c.at, rel |-> Nothing]
BY DEF Shown, KindOf, Checks, Fetches

LEMMA ShownMoves ==
  ASSUME call \in [Slots -> Calls], NEW k \in Slots, NEW c, Moves(k, c)
  PROVE  shown' = [shown EXCEPT ![k] = Shown(c)] /\ shown[k] = Shown(call[k])
<1>1. DOMAIN call = Slots BY DEF Moves
<1>2. call'[k] = c /\ \A j \in Slots \ {k} : call'[j] = call[j] BY <1>1 DEF Moves
<1> QED BY <1>2 DEF shown, Shown

LEMMA PromiseBegins ==
  ASSUME NEW k \in Slots, NEW at, NEW rel, shown' = [shown EXCEPT ![k] = [at |-> at, rel |-> rel]]
  PROVE  Promise!Begins(k, at, rel)
BY DEF Promise!Begins, shown, Shown

LEMMA PromiseReturns ==
  ASSUME call \in [Slots -> Calls], NEW k \in Slots, Ends(k)
  PROVE  Promise!Returns(k)
<1>1. Moves(k, Free) /\ Free.at = "free" BY FreeIsGood DEF Ends, Moves
<1>2. shown' = [shown EXCEPT ![k] = [at |-> "free", rel |-> Nothing]] BY <1>1, ShownMoves, KindsOfCalls
<1> QED BY <1>2 DEF Promise!Returns, Promise!Idle, Promise!Nothing, Nothing, shown, Shown

\* Steps between two awaits of one method are not seen.
LEMMA PromiseStutters ==
  ASSUME shown' = shown, UNCHANGED <<status, release, dismissed>>, handle'.rel = handle.rel
  PROVE  UNCHANGED Promise!promised
BY DEF Promise!promised, shown, Shown

LEMMA SameShown ==
  ASSUME call \in [Slots -> Calls], NEW k \in Slots, NEW c, Moves(k, c), Shown(c) = Shown(call[k])
  PROVE  shown' = shown
BY ShownMoves DEF shown

LEMMA AwaitsIsShown ==
  ASSUME call \in [Slots -> Calls], NEW k \in Slots, NEW at, NEW rel, Awaits(k, at, rel)
  PROVE  /\ at = "throttle" => Promise!Begins(k, "throttle", Promise!Nothing)
         /\ at \in Checks => shown' = [shown EXCEPT ![k] = [at |-> "check", rel |-> Nothing]]
<1> DEFINE c == [Free EXCEPT !.at = at, !.rel = rel]
<1>1. Moves(k, c) /\ c.at = at BY DEF Awaits, Moves, Free
<1>2. shown' = [shown EXCEPT ![k] = Shown(c)] BY <1>1, ShownMoves
<1> HIDE DEF c
<1>3. CASE at = "throttle"
  <2>1. Shown(c) = [at |-> "throttle", rel |-> Nothing] BY <1>1, <1>3, KindsOfCalls
  <2>2. at \notin Checks BY <1>3 DEF Checks
  <2> QED BY <1>2, <2>1, <2>2, PromiseBegins DEF Promise!Nothing, Nothing
<1>4. CASE at \in Checks
  <2>1. Shown(c) = [at |-> "check", rel |-> Nothing] BY <1>1, <1>4, KindsOfCalls
  <2>2. at # "throttle" BY <1>4 DEF Checks
  <2> QED BY <1>2, <2>1, <2>2
<1> QED BY <1>3, <1>4

\* A call that the contract sees as a check, a throttled one or none.
LEMMA CallIsShown ==
  ASSUME NEW k \in Slots
  PROVE  /\ call[k].at \in Checks => shown[k] = [at |-> "check", rel |-> Nothing]
         /\ call[k].at \in Fetches => shown[k] = [at |-> "download", rel |-> call[k].rel]
         /\ call[k].at = "postponing" => shown[k] = [at |-> "postpone", rel |-> call[k].rel]
         /\ call[k].at = "installing" => shown[k] = [at |-> "install", rel |-> call[k].handle.rel]
         /\ call[k].at = "throttle" => shown[k] = [at |-> "throttle", rel |-> Nothing]
         /\ call[k] = Free => shown[k] = Promise!Idle
         /\ shown[k].at = KindOf(call[k].at)
<1>1. shown[k] = Shown(call[k]) BY DEF shown
<1>2. shown[k].at = KindOf(call[k].at) BY <1>1 DEF Shown
<1> QED BY <1>1, <1>2, KindsOfCalls, FreeIsGood DEF Promise!Idle, Promise!Nothing, Nothing

PromiseStep == [Promise!ContractNext]_(Promise!promised)

\* A step of a check between two awaits is not seen.
LEMMA CheckGoesOn ==
  ASSUME call \in [Slots -> Calls], NEW k \in Slots, call[k].at \in Checks,
         NEW at \in Checks, NEW rel, Awaits(k, at, rel), UNCHANGED <<engine, dismissed>>
  PROVE  PromiseStep
<1>1. shown' = [shown EXCEPT ![k] = shown[k]] BY AwaitsIsShown, CallIsShown
<1>2. shown' = shown BY <1>1 DEF shown
<1> QED BY <1>2, PromiseStutters DEF PromiseStep, engine

\* Each step of a check is one of the contract's check, or is not seen.
LEMMA CheckIsPromised ==
  ASSUME IInv, NEW k \in Slots, CheckNext(k)
  PROVE  PromiseStep
<1> USE NothingIsAVersion
<1>0. /\ call \in [Slots -> Calls] /\ call[k] \in Calls /\ Good(call[k]) /\ Types
  BY DEF IInv, CallsAreGood, Good, TypeOK, Types
<1>a. \A at, rel : Promise!Begins(k, at, rel) <=> shown' = [shown EXCEPT ![k] = [at |-> at, rel |-> rel]]
  BY DEF Promise!Begins, shown, Shown
<1>b. ASSUME Promise!ForcedCheck(k) \/ Promise!QuietCheck(k) \/ Promise!Resumes(k) PROVE PromiseStep
  BY <1>b DEF PromiseStep, Promise!ContractNext
<1>1. CASE CheckForced(k)
  <2>1. "asking" \in Checks /\ Awaits(k, "asking", Nothing) BY <1>1 DEF CheckForced, Checks
  <2>2. Promise!Begins(k, "check", Promise!Nothing)
    BY <1>0, <2>1, AwaitsIsShown, PromiseBegins DEF Promise!Nothing, Nothing
  <2>3. shown[k] = Promise!Idle BY <1>1, CallIsShown DEF CheckForced, MayCall
  <2>4. Promise!ForcedCheck(k)
    BY <1>1, <2>2, <2>3
       DEF CheckForced, Busy, persisted, Promise!ForcedCheck, Promise!Accepts, shown, Shown
  <2> QED BY <1>b, <2>4
<1>2. CASE Check(k)
  <2>1. Promise!Begins(k, "throttle", Promise!Nothing) BY <1>0, <1>2, AwaitsIsShown DEF Check
  <2>2. shown[k] = Promise!Idle BY <1>2, CallIsShown DEF Check, MayCall
  <2>3. Promise!QuietCheck(k)
    BY <1>2, <2>1, <2>2
       DEF Check, Busy, engine, persisted, Promise!QuietCheck, Promise!Accepts, shown, Shown
  <2> QED BY <1>b, <2>3
<1>3. CASE CheckThrottled(k) \/ CheckUnread(k)
  <2>1. Promise!Returns(k) BY <1>0, <1>3, PromiseReturns DEF CheckThrottled, CheckUnread
  <2>2. shown[k].at = "throttle" BY <1>3, CallIsShown DEF KindOf, Checks, Fetches, CheckThrottled, CheckUnread
  <2>3. Promise!QuietCheckEnds(k)
    BY <1>3, <2>1, <2>2
       DEF CheckThrottled, CheckUnread, engine, persisted, Promise!QuietCheckEnds, shown, Shown
  <2> QED BY <1>b, <2>3 DEF Promise!Resumes
<1>4. CASE CheckProceeds(k)
  <2>1. "asking" \in Checks /\ Awaits(k, "asking", Nothing) BY <1>4 DEF CheckProceeds, Checks
  <2>2. Promise!Begins(k, "check", Promise!Nothing)
    BY <1>0, <2>1, AwaitsIsShown, PromiseBegins DEF Promise!Nothing, Nothing
  <2>3. shown[k].at = "throttle" BY <1>4, CallIsShown DEF KindOf, Checks, Fetches, CheckProceeds
  <2>4. Promise!QuietCheckProceeds(k)
    BY <1>4, <2>2, <2>3 DEF CheckProceeds, persisted, Promise!QuietCheckProceeds, shown, Shown
  <2> QED BY <1>b, <2>4 DEF Promise!Resumes
<1>5. ASSUME NEW v \in Answers, CheckAnswers(k, v) PROVE PromiseStep
  BY <1>0, <1>5, CheckGoesOn DEF CheckAnswers, Checks, persisted
<1>6. CASE CheckFails(k)
  <2>1. Promise!Returns(k) BY <1>0, <1>6, PromiseReturns DEF CheckFails
  <2>2. shown[k].at = "check" BY <1>6, CallIsShown DEF KindOf, Fetches, CheckFails, Checks
  <2>3. Promise!Rejects(k)
    BY <1>6, <2>1, <2>2 DEF CheckFails, persisted, Promise!Rejects, shown, Shown
  <2> QED BY <1>b, <2>3 DEF Promise!Resumes
<1>7. CASE CheckSaves(k)
  BY <1>0, <1>7, CheckGoesOn DEF CheckSaves, Checks
<1>8. CASE CheckDismissal(k)
  <2> DEFINE v == call[k].rel
  <2>1. CASE v \in dismissed
    <3>1. Promise!Returns(k) BY <1>0, <1>8, <2>1, PromiseReturns DEF CheckDismissal
    <3>2. shown[k].at = "check" BY <1>8, CallIsShown DEF KindOf, Fetches, CheckDismissal, Checks
    <3>3. status' = "up-to-date" /\ release' = v /\ v \in dismissed \ Forced
          /\ UNCHANGED <<handle, dismissed>>
      BY <1>0, <1>8, <2>1 DEF CheckDismissal, persisted, Good
    <3>4. Promise!CheckSucceeds(k)
      BY <3>1, <3>2, <3>3 DEF Promise!CheckSucceeds, Promise!FindsDismissed, shown, Shown
    <3> QED BY <1>b, <3>4 DEF Promise!Resumes
  <2>2. CASE v \notin dismissed
    BY <1>0, <1>8, <2>2, CheckGoesOn DEF CheckDismissal, Checks, persisted, engine
  <2> QED BY <2>1, <2>2
<1>9. CASE ReconcileReads(k)
  <2> DEFINE c == [call[k] EXCEPT !.at = "reconciled", !.seen = record]
  <2>1. Moves(k, c) /\ c.at = "reconciled" /\ c.at \in Checks /\ call[k].at \in Checks
    BY <1>0, <1>9 DEF ReconcileReads, Moves, Calls, Checks
  <2> HIDE DEF c
  <2>2. shown' = shown BY <1>0, <2>1, KindsOfCalls, SameShown
  <2> QED BY <1>9, <2>2, PromiseStutters DEF PromiseStep, ReconcileReads, engine, persisted
<1>10. ASSUME NEW found \in {"hit", "missed", "threw"}, CheckOffers(k, found) PROVE PromiseStep
  <2> DEFINE v == call[k].rel
  <2>1. Promise!Returns(k) BY <1>0, <1>10, PromiseReturns DEF CheckOffers
  <2>2. shown[k].at = "check" BY <1>10, CallIsShown DEF KindOf, Fetches, CheckOffers, Reconciled, Checks
  <2>3. v \in Versions /\ release' = v /\ dismissed' = dismissed
    BY <1>0, <1>10 DEF CheckOffers, IsNewer, Calls
  <2>4. \/ status' = "ready" /\ handle'.rel = v
        \/ /\ status' = IF v \in Forced THEN "force-required" ELSE "available"
           /\ handle'.rel \in {handle.rel, Nothing}
    BY <1>10, NothingIsFresh DEF CheckOffers, Reconcile, NoHandle
  <2>5. Promise!CheckSucceeds(k)
    BY <2>1, <2>2, <2>3, <2>4
       DEF Promise!CheckSucceeds, Promise!Offers, Promise!Versions, Versions, Promise!Nothing, Nothing, shown,
           Shown
  <2> QED BY <1>b, <2>5 DEF Promise!Resumes
<1>11. ASSUME NEW found \in {"hit", "missed", "threw"}, CheckUpToDate(k, found) PROVE PromiseStep
  <2>1. Promise!Returns(k) BY <1>0, <1>11, PromiseReturns DEF CheckUpToDate
  <2>2. shown[k].at = "check" BY <1>11, CallIsShown DEF KindOf, Fetches, CheckUpToDate, Reconciled, Checks
  <2>3. handle'.rel \in {handle.rel, Nothing}
    BY <1>11, NothingIsFresh DEF CheckUpToDate, Reconcile, Matches
  <2>4. Promise!CheckSucceeds(k)
    BY <1>11, <2>1, <2>2, <2>3
       DEF CheckUpToDate, Promise!CheckSucceeds, Promise!FindsNothing, Promise!Nothing, Nothing, shown, Shown
  <2> QED BY <1>b, <2>4 DEF Promise!Resumes
<1> QED BY <1>1, <1>2, <1>3, <1>4, <1>5, <1>6, <1>7, <1>8, <1>9, <1>10, <1>11 DEF CheckNext

LEMMA EndsAsPromised ==
  ASSUME IInv, NEW k \in Slots, call[k].at \in {"installing"} \cup Fetches, Ends(k),
         status' = "error", UNCHANGED <<release, handle, dismissed>>
  PROVE  PromiseStep
<1>1. Promise!Returns(k) BY PromiseReturns DEF IInv, TypeOK
<1>2. shown[k].at \in {"download", "install"} BY CallIsShown DEF KindOf, Checks, Fetches
<1>3. Promise!Rejects(k) BY <1>1, <1>2 DEF Promise!Rejects, shown, Shown
<1> QED BY <1>3 DEF PromiseStep, Promise!ContractNext, Promise!Resumes

LEMMA FallsBackAsPromised ==
  ASSUME IInv, NEW k \in Slots, call[k].at \in Fetches, NEW left, FallsBack(k, left),
         UNCHANGED <<release, handle, dismissed>>
  PROVE  PromiseStep
<1>1. CASE status' = "error" /\ Ends(k) BY <1>1, EndsAsPromised
<1>2. CASE Moves(k, [call[k] EXCEPT !.at = "downloading"]) /\ UNCHANGED status
  <2> DEFINE c == [call[k] EXCEPT !.at = "downloading"]
  <2>1. call \in [Slots -> Calls] /\ call[k] \in Calls BY DEF IInv, TypeOK
  <2>2. c.at \in Fetches /\ c.rel = call[k].rel /\ Moves(k, c) BY <1>2, <2>1 DEF Calls, Fetches
  <2> HIDE DEF c
  <2>3. shown' = shown BY <2>1, <2>2, KindsOfCalls, SameShown
  <2> QED BY <1>2, <2>3, PromiseStutters DEF PromiseStep
<1> QED BY <1>1, <1>2 DEF FallsBack, Moves

\* Steps on the disk are not seen; the others are the contract's.
LEMMA ArtifactIsPromised ==
  ASSUME IInv, NEW k \in Slots, ArtifactNext(k), ~Relaunches(k)
  PROVE  PromiseStep
<1> USE NothingIsAVersion
<1>0. /\ call \in [Slots -> Calls] /\ call[k] \in Calls /\ Good(call[k]) /\ Types /\ StoreIsFresh
  BY DEF IInv, CallsAreGood, Good, TypeOK, Types
<1>1. CASE Download(k)
  <2> DEFINE c == [Free EXCEPT !.at = "downloading", !.rel = release, !.handle.update.of = pending]
  <2>1. Moves(k, c) /\ c.at \in Fetches /\ c.rel = release
    <3>1. c.at = "downloading" /\ c.rel = release BY DEF Free
    <3>2. Moves(k, c) BY <1>1 DEF Download, Starts, Moves
    <3> QED BY <3>1, <3>2 DEF Fetches
  <2> HIDE DEF c
  <2>2. Promise!Begins(k, "download", release)
    <3>1. Shown(c) = [at |-> "download", rel |-> release] BY <2>1, KindsOfCalls
    <3>2. shown' = [shown EXCEPT ![k] = Shown(c)] BY <1>0, <2>1, ShownMoves
    <3>3. shown' = [shown EXCEPT ![k] = [at |-> "download", rel |-> release]] BY <3>1, <3>2
    <3> QED BY <3>3 DEF Promise!Begins, shown, Shown
  <2>3. shown[k] = Promise!Idle BY <1>1, CallIsShown DEF Download, MayCall
  <2>4. Promise!BeginsDownload(k)
    BY <1>1, <2>2, <2>3
       DEF Download, Offered, Promise!BeginsDownload, Promise!OnOffer, Promise!Nothing, Nothing, shown, Shown
  <2> QED BY <2>4 DEF PromiseStep, Promise!ContractNext
<1>2. CASE TauriDownloads(k) \/ DownloadAccepted(k)
  <2>1. /\ call[k].at \in Fetches /\ Ends(k) /\ handle' = Downloaded(k) /\ status' = "ready"
        /\ UNCHANGED <<release, dismissed>>
    BY <1>2 DEF TauriDownloads, DownloadAccepted, BecomesReady, persisted, Fetches
  <2>2. Promise!Returns(k) BY <1>0, <2>1, PromiseReturns
  <2>3. shown[k] = [at |-> "download", rel |-> call[k].rel] BY <2>1, CallIsShown
  <2>4. handle'.rel = call[k].rel BY <2>1 DEF Downloaded
  <2>5. shown[k].at = "download" /\ shown[k].rel = call[k].rel BY <2>3
  <2>6. Promise!FinishesDownload(k)
    BY <2>1, <2>2, <2>4, <2>5 DEF Promise!FinishesDownload, shown, Shown
  <2> QED BY <2>6 DEF PromiseStep, Promise!ContractNext, Promise!Resumes
<1>3. ASSUME NEW complete \in BOOLEAN, DownloadWrites(k, complete) PROVE PromiseStep
  <2> DEFINE c == [call[k] EXCEPT !.at = "written"]
  <2>1. Moves(k, c) /\ c.at \in Fetches /\ call[k].at \in Fetches /\ c.rel = call[k].rel
    BY <1>0, <1>3 DEF DownloadWrites, Moves, Calls, Fetches
  <2> HIDE DEF c
  <2>2. shown' = shown BY <1>0, <2>1, KindsOfCalls, SameShown
  <2> QED BY <1>3, <2>2, PromiseStutters DEF PromiseStep, DownloadWrites, engine
<1>4. CASE DownloadRefused(k)
  BY <1>4, FallsBackAsPromised DEF DownloadRefused, Fetches
<1>5. CASE DownloadFails(k)
  <2>1. PICK left : FallsBack(k, left) BY <1>5 DEF DownloadFails
  <2> QED BY <1>5, <2>1, FallsBackAsPromised DEF DownloadFails, Fetches
<1>6. CASE Install(k)
  <2> DEFINE c == [Free EXCEPT !.at = "installing", !.handle = handle]
  <2>1. Moves(k, c) /\ c.at = "installing" /\ c.handle.rel = handle.rel
    <3>1. c.at = "installing" /\ c.handle = handle BY DEF Free
    <3>2. Moves(k, c) BY <1>6 DEF Install, Moves
    <3> QED BY <3>1, <3>2
  <2> HIDE DEF c
  <2>2. Promise!Begins(k, "install", handle.rel)
    <3>1. Shown(c) = [at |-> "install", rel |-> handle.rel] BY <2>1, KindsOfCalls
    <3>2. shown' = [shown EXCEPT ![k] = Shown(c)] BY <1>0, <2>1, ShownMoves
    <3>3. shown' = [shown EXCEPT ![k] = [at |-> "install", rel |-> handle.rel]] BY <3>1, <3>2
    <3> QED BY <3>3 DEF Promise!Begins, shown, Shown
  <2>3. shown[k] = Promise!Idle BY <1>6, CallIsShown DEF Install, MayCall
  <2>4. status = "ready" /\ handle.rel # Nothing /\ UNCHANGED <<status, release, handle, dismissed>>
    BY <1>0, <1>6 DEF Install, StoreIsFresh, engine, persisted
  <2>5. Promise!BeginsInstall(k)
    BY <2>2, <2>3, <2>4 DEF Promise!BeginsInstall, Promise!Nothing, Nothing, shown, Shown
  <2> QED BY <2>5 DEF PromiseStep, Promise!ContractNext
<1>7. CASE InstallReturns(k)
  <2>1. Promise!Returns(k) BY <1>0, <1>7, PromiseReturns DEF InstallReturns
  <2>2. shown[k].at = "install" BY <1>7, CallIsShown DEF InstallReturns, KindOf, Checks, Fetches
  <2>3. Promise!FinishesInstall(k)
    BY <1>7, <2>1, <2>2 DEF InstallReturns, engine, persisted, Promise!FinishesInstall, shown, Shown
  <2> QED BY <2>3 DEF PromiseStep, Promise!ContractNext, Promise!Resumes
<1>8. CASE InstallFails(k) BY <1>8, EndsAsPromised DEF InstallFails, persisted
<1> QED BY <1>1, <1>2, <1>3, <1>4, <1>5, <1>6, <1>7, <1>8 DEF ArtifactNext

\* A new process is the contract's restart.
LEMMA NewProcessIsPromised == NewProcess /\ UNCHANGED dismissed => PromiseStep
<1> SUFFICES ASSUME NewProcess, UNCHANGED dismissed PROVE PromiseStep OBVIOUS
<1>1. \A k \in Slots : Shown(call'[k]) = Promise!Idle
  BY FreeIsGood, KindsOfCalls DEF NewProcess, Promise!Idle, Promise!Nothing, Nothing
<1>2. shown' = [k \in Slots |-> Promise!Idle] BY <1>1 DEF shown, Shown
<1>3. Promise!StartsAgain
  BY <1>2, NothingIsFresh DEF NewProcess, Promise!StartsAgain, Promise!Nothing, Nothing, shown, Shown
<1> QED BY <1>3 DEF PromiseStep, Promise!ContractNext

\* postpone begins and ends as promised, whether or not its write succeeds.
LEMMA PostponeIsPromised ==
  ASSUME IInv, NEW k \in Slots, PostponeNext(k)
  PROVE  PromiseStep
<1>0. call \in [Slots -> Calls] BY DEF IInv, TypeOK
<1>1. CASE Postpone(k)
  <2> DEFINE c == [Free EXCEPT !.at = "postponing", !.rel = release]
  <2>1. Moves(k, c) /\ c.at = "postponing" /\ c.rel = release
    BY <1>1 DEF Postpone, Awaits, Moves, Free
  <2> HIDE DEF c
  <2>2. Promise!Begins(k, "postpone", release)
    <3>1. Shown(c) = [at |-> "postpone", rel |-> release] BY <2>1, KindsOfCalls
    <3>2. shown' = [shown EXCEPT ![k] = Shown(c)] BY <1>0, <2>1, ShownMoves
    <3>3. shown' = [shown EXCEPT ![k] = [at |-> "postpone", rel |-> release]] BY <3>1, <3>2
    <3> QED BY <3>3 DEF Promise!Begins, shown, Shown
  <2>3. shown[k] = Promise!Idle BY <1>1, CallIsShown DEF Postpone, MayCall
  <2>4. Promise!Postpones(k)
    BY <1>1, <2>2, <2>3
       DEF Postpone, Offered, engine, persisted, Promise!Postpones, Promise!OnOffer, Promise!Nothing,
           Nothing, shown, Shown
  <2> QED BY <2>4 DEF PromiseStep, Promise!ContractNext
<1>2. CASE PostponeWrites(k) \/ PostponeFails(k)
  <2>1. call[k].at = "postponing" /\ Ends(k) BY <1>2 DEF PostponeWrites, PostponeFails
  <2>2. Promise!Returns(k) BY <1>0, <2>1, PromiseReturns
  <2>3. shown[k] = [at |-> "postpone", rel |-> call[k].rel] BY <2>1, CallIsShown
  <2>4. /\ dismissed' \in {dismissed, dismissed \cup {shown[k].rel}}
        /\ UNCHANGED <<status, release, handle>>
    BY <1>2, <2>3 DEF PostponeWrites, PostponeFails, engine, persisted
  <2>5. Promise!FinishesPostpone(k)
    BY <2>2, <2>3, <2>4 DEF Promise!FinishesPostpone, shown, Shown
  <2> QED BY <2>5 DEF PromiseStep, Promise!ContractNext, Promise!Resumes
<1> QED BY <1>1, <1>2 DEF PostponeNext

\* Every step is one of the contract, or is not seen.
LEMMA StepIsPromised == IInv /\ [Next]_vars => PromiseStep
<1> SUFFICES ASSUME IInv, [Next]_vars PROVE PromiseStep OBVIOUS
<1> USE NothingIsAVersion, NothingIsFresh
<1>0. call \in [Slots -> Calls] /\ StoreIsFresh BY DEF IInv, TypeOK
<1>s. call' = call => shown' = shown BY DEF shown
<1>1. ASSUME NEW k \in Slots, CheckNext(k) PROVE PromiseStep BY <1>1, CheckIsPromised
<1>2. ASSUME NEW k \in Slots, ArtifactNext(k) PROVE PromiseStep
  <2>1. CASE Relaunches(k) BY <2>1, NewProcessIsPromised DEF Relaunches, TakenOver
  <2> QED BY <1>2, <2>1, ArtifactIsPromised
<1>3. ASSUME NEW k \in Slots, Retry(k) PROVE PromiseStep
  <2>1. "asking" \in Checks /\ Awaits(k, "asking", Nothing) BY <1>3 DEF Retry, Checks
  <2>2. Promise!Begins(k, "check", Promise!Nothing)
    BY <1>0, <2>1, AwaitsIsShown, PromiseBegins DEF Promise!Nothing, Nothing
  <2>3. shown[k] = Promise!Idle BY <1>3, CallIsShown DEF Retry, MayCall
  <2>4. Promise!StartsOver(k)
    BY <1>3, <2>2, <2>3 DEF Retry, persisted, Promise!StartsOver, Promise!Nothing, Nothing, shown, Shown
  <2> QED BY <2>4 DEF PromiseStep, Promise!ContractNext
<1>4. ASSUME Confirmed \/ Restart PROVE PromiseStep
  BY <1>4, NewProcessIsPromised DEF Confirmed, TakenOver, Restart, persisted
<1>5. ASSUME CacheCleared \/ ThrottleExpires \/ UNCHANGED vars PROVE PromiseStep
  BY <1>5, <1>s, PromiseStutters DEF CacheCleared, ThrottleExpires, vars, engine, persisted, PromiseStep
<1>6. ASSUME NEW k \in Slots, PostponeNext(k) PROVE PromiseStep BY <1>6, PostponeIsPromised
<1>7. ASSUME AcknowledgeError PROVE PromiseStep
  <2>1. handle # NoHandle <=> handle.rel # Nothing BY <1>0 DEF StoreIsFresh
  <2>2. Promise!ClearsError
    BY <1>7, <1>s, <2>1
       DEF AcknowledgeError, persisted, Promise!ClearsError, Promise!Nothing, Nothing, shown, Shown
  <2> QED BY <2>2 DEF PromiseStep, Promise!ContractNext
<1>8. ASSUME NEW v \in dismissed, DismissalExpires(v) PROVE PromiseStep
  <2>1. Promise!DismissalEnds
    BY <1>8, <1>s DEF DismissalExpires, engine, Promise!DismissalEnds, shown, Shown
  <2> QED BY <2>1 DEF PromiseStep, Promise!ContractNext
<1> QED BY <1>1, <1>2, <1>3, <1>4, <1>5, <1>6, <1>7, <1>8 DEF Next

LEMMA InitIsPromised == Init => Promise!ContractInit
<1> SUFFICES ASSUME Init PROVE Promise!ContractInit OBVIOUS
<1>1. \A k \in Slots : Shown(call[k]) = Promise!Idle
  BY FreeIsGood, KindsOfCalls DEF Init, Promise!Idle, Promise!Nothing, Nothing
<1>2. shown = [k \in Slots |-> Promise!Idle] BY <1>1 DEF shown
<1> QED BY <1>2, NothingIsFresh DEF Init, Promise!ContractInit, Promise!Nothing, Nothing, shown, Shown

\* The engine over either adapter keeps its contract with the screens, with any
\* number of overlapping calls and wherever the process is killed.
THEOREM EngineKeepsContract == Spec => ContractIsKept
<1>1. IInv /\ [Next]_vars => [Promise!ContractNext]_(Promise!promised)
  BY StepIsPromised DEF PromiseStep
<1> QED BY <1>1, InitIsPromised, EngineAgrees, PTL DEF Spec, ContractIsKept, Promise!Contract
----------------------------------------------------------------------------
(* The calm app: one call at a time, and no acknowledgeError.              *)

\* What the one call of a calm app may rely on: the status is its own; what it
\* downloads is what is shown and, on Tauri, the Update object in hand; what it
\* is about to offer has not been dismissed meanwhile.
CalmCall(c) ==
  /\ c.at \in Checks => status = "checking"
  /\ c.at \in Fetches => status = "downloading" /\ c.rel = release
  /\ ~Reconciles /\ c.at \in Fetches => c.handle.update.of = pending /\ pending = release
  /\ ~Reconciles /\ c.at \in Checks \ {"asking"} => c.rel = pending
  /\ c.at \in {"reconciling", "reconciled"} /\ IsNewer(c.rel) => c.rel \in Forced \/ c.rel \notin dismissed

OneCall == \A j, k \in Slots : j # k => call[j].at = "free" \/ call[k].at = "free"

\* What is on offer is what the Tauri adapter would download.
OfferMatches == ~Reconciles /\ status \in {"available", "force-required"} => pending = release

CalmInv == OneCall /\ (\A k \in Slots : CalmCall(call[k])) /\ OfferMatches /\ ReadyMatchesHandle

\* The others are idle, when a call of a calm app moves on or a new one begins.
Alone(k) == \A j \in Slots : j # k => call[j].at = "free"

LEMMA CalmIsAlone ==
  ASSUME Calm, CalmInv, NEW k \in Slots, MayCall(k) \/ call[k].at # "free"
  PROVE  Alone(k)
BY FreeIsGood DEF Calm, CalmInv, OneCall, MayCall, Alone

LEMMA FreeIsCalm == ASSUME NEW c, c.at \in {"free", "throttle", "installing", "postponing"} PROVE CalmCall(c)
BY DEF CalmCall, Checks, Fetches

LEMMA CalmMoves ==
  ASSUME IInv, NEW k \in Slots, Alone(k), NEW c, Moves(k, c)
  PROVE  call'[k] = c /\ \A j \in Slots : j # k => call'[j] = call[j] /\ call'[j].at = "free"
BY DEF IInv, TypeOK, Moves, Alone

LEMMA CalmStep ==
  ASSUME NEW k \in Slots, \A j \in Slots : j # k => call'[j].at = "free",
         CalmCall(call[k])', OfferMatches', ReadyMatchesHandle'
  PROVE  CalmInv'
<1>1. ASSUME NEW j \in Slots PROVE CalmCall(call[j])'
  BY <1>1 DEF CalmCall, Checks, Fetches
<1>2. OneCall' BY DEF OneCall
<1> QED BY <1>1, <1>2 DEF CalmInv

\* A step of a check keeps the status that it shows, or leaves it for one in
\* which nothing is on offer or ready.
LEMMA CalmCheckKeeps ==
  ASSUME IInv, SameApp, Calm, CalmInv, NEW k \in Slots, CheckNext(k)
  PROVE  CalmInv'
<1> USE NothingIsAVersion, NothingIsFresh
<1>0. /\ call \in [Slots -> Calls] /\ call[k] \in Calls /\ Good(call[k]) /\ CalmCall(call[k])
      /\ OfferMatches /\ ReadyMatchesHandle /\ installed \in VersionOrNone
  BY DEF IInv, TypeOK, CallsAreGood, CalmInv
<1>f. Free.at = "free" /\ Free.rel = Nothing BY DEF Free
<1>a. Alone(k)
  BY CalmIsAlone
     DEF CheckNext, CheckForced, Check, CheckThrottled, CheckUnread, CheckProceeds, CheckAnswers,
         CheckFails, CheckSaves, CheckDismissal, ReconcileReads, CheckOffers, CheckUpToDate,
         Reconciled
<1>b. ASSUME NEW at, NEW v, Awaits(k, at, v)
      PROVE  /\ call'[k].at = at /\ call'[k].rel = v
             /\ \A j \in Slots : j # k => call'[j].at = "free"
  <2> DEFINE c == [Free EXCEPT !.at = at, !.rel = v]
  <2>1. c.at = at /\ c.rel = v BY DEF Free
  <2>2. Moves(k, c) BY <1>b DEF Awaits, Moves
  <2> HIDE DEF c
  <2> QED BY <1>a, <2>1, <2>2, CalmMoves
<1>c. ASSUME Ends(k)
      PROVE  call'[k].at = "free" /\ \A j \in Slots : j # k => call'[j].at = "free"
  BY <1>a, <1>c, <1>f, CalmMoves DEF Ends, Moves
<1>1. CASE CheckForced(k) \/ CheckProceeds(k)
  <2>1. status' = "checking" /\ Awaits(k, "asking", Nothing)
    BY <1>1 DEF CheckForced, CheckProceeds
  <2>2. call'[k].at = "asking" /\ \A j \in Slots : j # k => call'[j].at = "free" BY <1>b, <2>1
  <2>3. CalmCall(call[k])' BY <2>1, <2>2 DEF CalmCall, Checks, Fetches
  <2> QED BY <2>1, <2>2, <2>3, CalmStep DEF OfferMatches, ReadyMatchesHandle
<1>2. CASE Check(k) \/ CheckThrottled(k) \/ CheckUnread(k)
  <2>1. UNCHANGED <<engine, pending, handed, persisted>>
    BY <1>2 DEF Check, CheckThrottled, CheckUnread
  <2>2. /\ call'[k].at \in {"throttle", "free"}
        /\ \A j \in Slots : j # k => call'[j].at = "free"
    BY <1>2, <1>b, <1>c DEF Check, CheckThrottled, CheckUnread
  <2>3. CalmCall(call[k])' BY <2>2 DEF CalmCall, Checks, Fetches
  <2>4. OfferMatches' /\ ReadyMatchesHandle'
    BY <1>0, <2>1
       DEF OfferMatches, ReadyMatchesHandle, Handed, Reconciles, SameApp, engine, persisted, disk
  <2> QED BY <2>2, <2>3, <2>4, CalmStep
<1>3. ASSUME NEW v \in Answers, CheckAnswers(k, v) PROVE CalmInv'
  <2>1. status = "checking" /\ status' = status /\ pending' = IF Reconciles THEN pending ELSE v
    BY <1>0, <1>3 DEF CheckAnswers, CalmCall, Checks, engine
  <2>2. /\ call'[k].at = "saving" /\ call'[k].rel = v
        /\ \A j \in Slots : j # k => call'[j].at = "free"
    BY <1>3, <1>b DEF CheckAnswers
  <2>3. CalmCall(call[k])'
    BY <2>1, <2>2 DEF CalmCall, Checks, Fetches, Reconciles, SameApp
  <2> QED BY <2>1, <2>2, <2>3, CalmStep DEF OfferMatches, ReadyMatchesHandle
<1>4. CASE CheckFails(k)
  <2>1. status' = "error" /\ Ends(k) BY <1>4 DEF CheckFails
  <2>2. CalmCall(call[k])' BY <1>c, <2>1 DEF CalmCall, Checks, Fetches
  <2> QED BY <1>c, <2>1, <2>2, CalmStep DEF OfferMatches, ReadyMatchesHandle
<1>5. CASE CheckSaves(k)
  <2> DEFINE v == call[k].rel
             at == IF IsNewer(v) /\ v \notin Forced THEN "dismissal" ELSE "reconciling"
  <2>1. /\ status = "checking" /\ status' = status /\ UNCHANGED <<pending, dismissed>>
        /\ ~Reconciles => v = pending
    BY <1>0, <1>5 DEF CheckSaves, CalmCall, Checks, engine
  <2>2. /\ call'[k].at = at /\ call'[k].rel = v
        /\ \A j \in Slots : j # k => call'[j].at = "free"
    BY <1>5, <1>b DEF CheckSaves
  <2>3. CalmCall(call[k])'
    BY <2>1, <2>2 DEF CalmCall, Checks, Fetches, Reconciles, SameApp, IsNewer
  <2> QED BY <2>1, <2>2, <2>3, CalmStep DEF OfferMatches, ReadyMatchesHandle
<1>6. CASE CheckDismissal(k)
  <2> DEFINE v == call[k].rel
  <2>1. CASE v \in dismissed
    <3>1. status' = "up-to-date" /\ Ends(k) BY <1>6, <2>1 DEF CheckDismissal
    <3>2. CalmCall(call[k])' BY <1>c, <3>1 DEF CalmCall, Checks, Fetches
    <3> QED BY <1>c, <3>1, <3>2, CalmStep DEF OfferMatches, ReadyMatchesHandle
  <2>2. CASE v \notin dismissed
    <3>1. /\ status = "checking" /\ status' = status /\ UNCHANGED <<pending, dismissed>>
          /\ Awaits(k, "reconciling", v)
          /\ ~Reconciles => v = pending
      BY <1>0, <1>6, <2>2 DEF CheckDismissal, CalmCall, Checks, persisted
    <3>2. /\ call'[k].at = "reconciling" /\ call'[k].rel = v
          /\ \A j \in Slots : j # k => call'[j].at = "free"
      BY <3>1, <1>b
    <3>3. CalmCall(call[k])'
      BY <2>2, <3>1, <3>2 DEF CalmCall, Checks, Fetches, Reconciles, SameApp
    <3> QED BY <3>1, <3>2, <3>3, CalmStep DEF OfferMatches, ReadyMatchesHandle
  <2> QED BY <2>1, <2>2
<1>7. CASE ReconcileReads(k)
  <2> DEFINE c == [call[k] EXCEPT !.at = "reconciled", !.seen = record]
  <2>1. Moves(k, c) /\ c.at = "reconciled" /\ c.rel = call[k].rel
    BY <1>0, <1>7 DEF ReconcileReads, Moves, Calls
  <2> HIDE DEF c
  <2>2. /\ call'[k].at = "reconciled" /\ call'[k].rel = call[k].rel
        /\ \A j \in Slots : j # k => call'[j].at = "free"
    BY <1>a, <2>1, CalmMoves
  <2>3. status = "checking" /\ status' = status /\ Reconciles /\ UNCHANGED dismissed
    BY <1>0, <1>7 DEF ReconcileReads, CalmCall, Checks, engine, persisted
  <2>4. CalmCall(call[k])'
    BY <1>0, <1>7, <2>2, <2>3
       DEF ReconcileReads, CalmCall, Checks, Fetches, Reconciles, SameApp, IsNewer
  <2> QED BY <2>2, <2>3, <2>4, CalmStep DEF OfferMatches, ReadyMatchesHandle
<1>8. ASSUME NEW found \in {"hit", "missed", "threw"}, CheckOffers(k, found) PROVE CalmInv'
  <2> DEFINE v == call[k].rel
  <2>1. Ends(k) /\ release' = v /\ pending' = pending /\ Reconcile(k, v, found)
    BY <1>8 DEF CheckOffers
  <2>2. CalmCall(call[k])' BY <1>c, <2>1 DEF CalmCall, Checks, Fetches
  <2>3. OfferMatches'
    BY <1>0, <1>8, <2>1 DEF CheckOffers, Reconciled, OfferMatches, CalmCall, Checks, Reconciles, SameApp
  <2>4. ReadyMatchesHandle'
    <3>1. SUFFICES ASSUME status' = "ready" PROVE ReadyMatchesHandle' BY DEF ReadyMatchesHandle
    <3>2. found = "hit" BY <1>8, <3>1 DEF CheckOffers
    <3>3. /\ Reconciles /\ Matches(k, v) /\ file' = file
          /\ handle' = [NoHandle EXCEPT !.rel = v]
      BY <2>1, <3>2 DEF Reconcile, disk
    <3>4. handle'.rel = v /\ file' = [of |-> v, whole |-> TRUE] BY <3>3 DEF Matches, NoHandle
    <3> QED BY <2>1, <3>3, <3>4 DEF ReadyMatchesHandle, Handed, Reconciles, SameApp
  <2> QED BY <1>c, <2>1, <2>2, <2>3, <2>4, CalmStep
<1>9. ASSUME NEW found \in {"hit", "missed", "threw"}, CheckUpToDate(k, found) PROVE CalmInv'
  <2>1. status' = "up-to-date" /\ Ends(k) BY <1>9 DEF CheckUpToDate
  <2>2. CalmCall(call[k])' BY <1>c, <2>1 DEF CalmCall, Checks, Fetches
  <2> QED BY <1>c, <2>1, <2>2, CalmStep DEF OfferMatches, ReadyMatchesHandle
<1> QED BY <1>1, <1>2, <1>3, <1>4, <1>5, <1>6, <1>7, <1>8, <1>9 DEF CheckNext

\* A download becomes ready with what it was started for.
LEMMA CalmArtifactKeeps ==
  ASSUME IInv, SameApp, Calm, CalmInv, NEW k \in Slots, ArtifactNext(k), ~Relaunches(k)
  PROVE  CalmInv'
<1> USE NothingIsAVersion, NothingIsFresh
<1>0. /\ call \in [Slots -> Calls] /\ call[k] \in Calls /\ Good(call[k]) /\ CalmCall(call[k])
      /\ OfferMatches /\ ReadyMatchesHandle /\ file \in Files
  BY DEF IInv, TypeOK, CallsAreGood, CalmInv
<1>f. Free.at = "free" BY DEF Free
<1>a. Alone(k)
  BY CalmIsAlone
     DEF ArtifactNext, Download, TauriDownloads, DownloadWrites, DownloadAccepted, DownloadRefused,
         DownloadFails, Install, InstallReturns, InstallFails
<1>c. ASSUME Ends(k)
      PROVE  call'[k].at = "free" /\ \A j \in Slots : j # k => call'[j].at = "free"
  BY <1>a, <1>c, <1>f, CalmMoves DEF Ends, Moves
<1>d. ASSUME Ends(k), status' = "error" PROVE CalmInv'
  <2>1. CalmCall(call[k])' BY <1>c, <1>d DEF CalmCall, Checks, Fetches
  <2> QED BY <1>c, <1>d, <2>1, CalmStep DEF OfferMatches, ReadyMatchesHandle
<1>e. ASSUME NEW at \in Fetches, call[k].at \in Fetches, Moves(k, [call[k] EXCEPT !.at = at]),
             Reconciles, UNCHANGED <<status, release>>
      PROVE  CalmInv'
  <2> DEFINE c == [call[k] EXCEPT !.at = at]
  <2>1. c.at = at /\ c.rel = call[k].rel /\ Moves(k, c) BY <1>0, <1>e DEF Calls
  <2> HIDE DEF c
  <2>2. /\ call'[k].at = at /\ call'[k].rel = call[k].rel
        /\ \A j \in Slots : j # k => call'[j].at = "free"
    BY <1>a, <2>1, CalmMoves
  <2>3. status' = "downloading" /\ call[k].rel = release' BY <1>0, <1>e DEF CalmCall
  <2>4. CalmCall(call[k])'
    BY <1>e, <2>2, <2>3 DEF CalmCall, Checks, Fetches, Reconciles, SameApp
  <2> QED BY <2>2, <2>3, <2>4, CalmStep DEF OfferMatches, ReadyMatchesHandle
<1>1. CASE Download(k)
  <2> DEFINE c == [Free EXCEPT !.at = "downloading", !.rel = release, !.handle.update.of = pending]
  <2>1. Moves(k, c) BY <1>1 DEF Download, Starts, Moves
  <2>2. c.at = "downloading" /\ c.rel = release /\ c.handle.update.of = pending
    BY DEF Free, NoHandle, NoFile
  <2> HIDE DEF c
  <2>3. call'[k] = c /\ \A j \in Slots : j # k => call'[j].at = "free"
    BY <1>a, <2>1, CalmMoves
  <2>4. status' = "downloading" /\ UNCHANGED <<release, pending>> /\ (~Reconciles => pending = release)
    BY <1>0, <1>1 DEF Download, Offered, OfferMatches
  <2>5. CalmCall(call[k])'
    BY <2>2, <2>3, <2>4 DEF CalmCall, Checks, Fetches, Reconciles, SameApp
  <2> QED BY <2>3, <2>4, <2>5, CalmStep DEF OfferMatches, ReadyMatchesHandle
<1>2. CASE TauriDownloads(k) \/ DownloadAccepted(k)
  <2>1. /\ Ends(k) /\ handle' = Downloaded(k) /\ status' = "ready" /\ release' = release
        /\ call[k].at \in Fetches
        /\ file' = file
        /\ Reconciles => file = [of |-> call[k].rel, whole |-> TRUE]
    BY <1>0, <1>2
       DEF TauriDownloads, DownloadAccepted, IsTheApk, BecomesReady, persisted, disk, Fetches, Good
  <2>2. CalmCall(call[k])' BY <1>c, <2>1 DEF CalmCall, Checks, Fetches
  <2>3. handle'.rel = release /\ (~Reconciles => handle'.update = [of |-> release, whole |-> TRUE])
    BY <1>0, <2>1 DEF Downloaded, CalmCall
  <2>4. ReadyMatchesHandle'
    BY <1>0, <2>1, <2>3 DEF ReadyMatchesHandle, Handed, Reconciles, SameApp, CalmCall
  <2>5. OfferMatches' BY <2>1 DEF OfferMatches
  <2> QED BY <1>c, <2>1, <2>2, <2>4, <2>5, CalmStep
<1>3. ASSUME NEW complete \in BOOLEAN, DownloadWrites(k, complete) PROVE CalmInv'
  BY <1>3, <1>e DEF DownloadWrites, Moves, Fetches, engine
<1>4. ASSUME NEW left, FallsBack(k, left), call[k].at \in Fetches, UNCHANGED release PROVE CalmInv'
  BY <1>4, <1>d, <1>e DEF FallsBack, Moves, Fetches
<1>5. CASE DownloadRefused(k) BY <1>4, <1>5 DEF DownloadRefused, Fetches
<1>6. CASE DownloadFails(k)
  <2>1. PICK left : FallsBack(k, left) BY <1>6 DEF DownloadFails
  <2> QED BY <1>4, <1>6, <2>1 DEF DownloadFails, Fetches
<1>7. CASE Install(k) \/ InstallReturns(k)
  <2>1. UNCHANGED <<engine, pending, persisted>> BY <1>7 DEF Install, InstallReturns
  <2>2. /\ call'[k].at \in {"installing", "free"}
        /\ \A j \in Slots : j # k => call'[j].at = "free"
    <3> DEFINE c == [Free EXCEPT !.at = "installing", !.handle = handle]
    <3>1. c.at = "installing" BY DEF Free
    <3>2. Moves(k, c) \/ Ends(k) BY <1>7 DEF Install, InstallReturns, Moves
    <3> HIDE DEF c
    <3> QED BY <1>a, <1>c, <3>1, <3>2, CalmMoves
  <2>3. CalmCall(call[k])' BY <2>2 DEF CalmCall, Checks, Fetches
  <2>4. OfferMatches' /\ ReadyMatchesHandle'
    BY <1>0, <2>1
       DEF OfferMatches, ReadyMatchesHandle, Handed, Reconciles, SameApp, engine, persisted, disk
  <2> QED BY <2>2, <2>3, <2>4, CalmStep
<1>8. CASE InstallFails(k) BY <1>8, <1>d DEF InstallFails
<1> QED BY <1>1, <1>2, <1>3, <1>5, <1>6, <1>7, <1>8 DEF ArtifactNext

LEMMA NewProcessIsCalm == NewProcess /\ IInv' => CalmInv'
<1> SUFFICES ASSUME NewProcess, IInv' PROVE CalmInv' OBVIOUS
<1>1. \A k \in Slots : call'[k].at = "free" BY FreeIsGood DEF NewProcess
<1>2. \A k \in Slots : CalmCall(call[k])' BY <1>1 DEF CalmCall, Checks, Fetches
<1> QED BY <1>1, <1>2 DEF CalmInv, OneCall, OfferMatches, ReadyMatchesHandle, NewProcess

\* Every step of a calm app.
LEMMA CalmKeeps == IInv /\ IInv' /\ Calm /\ CalmInv /\ [Next]_vars => CalmInv'
<1> SUFFICES ASSUME IInv, IInv', Calm, CalmInv, [Next]_vars PROVE CalmInv' OBVIOUS
<1> USE NothingIsAVersion, NothingIsFresh
<1>0. /\ call \in [Slots -> Calls] /\ OfferMatches /\ ReadyMatchesHandle
      /\ \A j \in Slots : CalmCall(call[j])
  BY DEF IInv, TypeOK, CalmInv
\* The calls are as they were, and so is what they rely on.
<1>s. ASSUME UNCHANGED <<platform, engine, call, pending, installed>>, dismissed' \subseteq dismissed,
             file' \in {file, NoFile}
      PROVE  CalmInv'
  <2>1. \A j \in Slots : CalmCall(call[j])'
    BY <1>0, <1>s DEF CalmCall, engine, Reconciles, IsNewer
  <2>2. OfferMatches' /\ OneCall' BY <1>0, <1>s DEF OfferMatches, OneCall, CalmInv, engine, Reconciles
  <2>3. ReadyMatchesHandle' BY <1>0, <1>s DEF ReadyMatchesHandle, Handed, engine, Reconciles
  <2> QED BY <2>1, <2>2, <2>3 DEF CalmInv
<1>1. ASSUME NEW k \in Slots, CheckNext(k), SameApp PROVE CalmInv' BY <1>1, CalmCheckKeeps
<1>2. ASSUME NEW k \in Slots, ArtifactNext(k), UNCHANGED <<platform, app>> PROVE CalmInv'
  <2>1. CASE Relaunches(k) BY <2>1, NewProcessIsCalm DEF Relaunches, TakenOver
  <2>2. CASE ~Relaunches(k)
    <3>1. SameApp
      BY <1>2, <2>2
         DEF SameApp, ArtifactNext, Download, TauriDownloads, DownloadWrites, DownloadAccepted,
             DownloadRefused, DownloadFails, Install, InstallReturns, InstallFails, persisted
    <3> QED BY <1>2, <2>2, <3>1, CalmArtifactKeeps
  <2> QED BY <2>1, <2>2
<1>3. ASSUME NEW k \in Slots, Retry(k) PROVE CalmInv'
  <2>1. status' = "checking" /\ Awaits(k, "asking", Nothing) /\ Alone(k)
    BY <1>3, CalmIsAlone DEF Retry
  <2> DEFINE c == [Free EXCEPT !.at = "asking", !.rel = Nothing]
  <2>2. c.at = "asking" /\ Moves(k, c) BY <2>1 DEF Free, Awaits, Moves
  <2> HIDE DEF c
  <2>3. call'[k].at = "asking" /\ \A j \in Slots : j # k => call'[j].at = "free"
    BY <2>1, <2>2, CalmMoves
  <2>4. CalmCall(call[k])' BY <2>1, <2>3 DEF CalmCall, Checks, Fetches
  <2> QED BY <2>1, <2>3, <2>4, CalmStep DEF OfferMatches, ReadyMatchesHandle
<1>4. CASE Confirmed \/ Restart
  BY <1>4, NewProcessIsCalm DEF Confirmed, TakenOver, Restart
<1>5. ASSUME CacheCleared \/ ThrottleExpires \/ (\E v \in dismissed : DismissalExpires(v)),
             UNCHANGED <<platform, app>>
      PROVE  CalmInv'
  BY <1>5, <1>s DEF CacheCleared, ThrottleExpires, DismissalExpires, engine, disk
<1>6. ASSUME UNCHANGED vars PROVE CalmInv'
  BY <1>6, <1>s DEF vars, persisted, disk
\* No check is in flight beside postpone, so none is about to offer what it dismisses.
<1>7. ASSUME NEW k \in Slots, PostponeNext(k), UNCHANGED <<platform, app>> PROVE CalmInv'
  <2>1. Alone(k) /\ UNCHANGED <<engine, pending, disk, installed>>
    BY <1>7, CalmIsAlone DEF PostponeNext, Postpone, PostponeWrites, PostponeFails, persisted
  <2>2. PICK c : Moves(k, c) /\ c.at \in {"free", "postponing"}
    <3>1. [Free EXCEPT !.at = "postponing", !.rel = release].at = "postponing" BY DEF Free
    <3> QED BY <1>7, <3>1, FreeIsGood
       DEF PostponeNext, Postpone, PostponeWrites, PostponeFails, Awaits, Ends, Moves
  <2>3. call'[k] = c /\ \A j \in Slots : j # k => call'[j].at = "free" BY <2>1, <2>2, CalmMoves
  <2>4. CalmCall(call[k])' BY <2>2, <2>3 DEF CalmCall, Checks, Fetches
  <2>5. OfferMatches' BY <1>0, <1>7, <2>1 DEF OfferMatches, engine, Reconciles
  <2>6. ReadyMatchesHandle'
    BY <1>0, <1>7, <2>1 DEF ReadyMatchesHandle, Handed, engine, disk, Reconciles
  <2> QED BY <2>3, <2>4, <2>5, <2>6, CalmStep
<1>8. ~AcknowledgeError BY DEF Calm, AcknowledgeError
<1>9. ASSUME NEW k \in Slots, CheckNext(k), UNCHANGED <<platform, app>> PROVE SameApp
  BY <1>9
     DEF SameApp, CheckNext, CheckForced, Check, CheckThrottled, CheckUnread, CheckProceeds,
         CheckAnswers, CheckFails, CheckSaves, CheckDismissal, ReconcileReads, CheckOffers,
         CheckUpToDate, persisted
<1> QED BY <1>1, <1>2, <1>3, <1>4, <1>5, <1>6, <1>7, <1>8, <1>9 DEF Next

LEMMA InitIsCalm == Init => CalmInv
<1> SUFFICES ASSUME Init PROVE CalmInv OBVIOUS
<1>1. \A k \in Slots : call[k].at = "free" BY FreeIsGood DEF Init
<1> QED BY <1>1 DEF Init, CalmInv, CalmCall, OneCall, OfferMatches, ReadyMatchesHandle, Checks, Fetches

LEMMA CalmAgrees == Spec => [](Calm => CalmInv)
<1>1. Init => (Calm => CalmInv) BY InitIsCalm
<1>2. IInv /\ IInv' /\ (Calm => CalmInv) /\ [Next]_vars => (Calm => CalmInv)'
  <2>1. [Next]_vars => app' = app BY DEF Next, vars
  <2> QED BY <2>1, CalmKeeps DEF Calm
<1> QED BY <1>1, <1>2, EngineAgrees, PTL DEF Spec

\* In an app that makes one call at a time and never acknowledges an error,
\* ready means that install hands over the release shown, over either adapter
\* and wherever the process is killed: engine.ts's download and reconcileArtifact.
THEOREM CalmAppsInstallWhatTheyShow == Spec => []CalmAppInstallsWhatItShows
<1>1. (Calm => CalmInv) => CalmAppInstallsWhatItShows BY DEF CalmInv, CalmAppInstallsWhatItShows
<1> QED BY <1>1, CalmAgrees, PTL

\* The only step of a calm app that puts a release on offer is the end of a check,
\* and what a check is about to offer is not dismissed.
LEMMA OffersAreNew ==
  IInv /\ (Calm => CalmInv) /\ [Next]_vars
    => [Calm /\ status # "available" /\ status' = "available" => release' \notin dismissed]_vars
<1> SUFFICES ASSUME IInv, Calm => CalmInv, Next, Calm, status # "available", status' = "available"
             PROVE  release' \notin dismissed
  BY DEF vars
<1>1. PICK k \in Slots : \E found \in {"hit", "missed", "threw"} : CheckOffers(k, found)
  BY DEF Next, CheckNext, ArtifactNext, CheckForced, Check, CheckThrottled, CheckUnread,
         CheckProceeds, CheckAnswers, CheckFails, CheckSaves, CheckDismissal, ReconcileReads,
         CheckUpToDate, Download, TauriDownloads, BecomesReady, DownloadWrites, DownloadAccepted,
         DownloadRefused, DownloadFails, FallsBack, Install, InstallReturns, InstallFails, Relaunches,
         Retry, Confirmed, TakenOver, NewProcess, CacheCleared, PostponeNext, Postpone, PostponeWrites,
         PostponeFails, AcknowledgeError, Calm, ThrottleExpires, DismissalExpires, Restart, engine
<1>2. /\ call[k].at \in {"reconciling", "reconciled"} /\ IsNewer(call[k].rel)
      /\ release' = call[k].rel /\ call[k].rel \notin Forced
  BY <1>1 DEF CheckOffers, Reconciled
<1> QED BY <1>2 DEF CalmInv, CalmCall

\* A calm app does not offer a postponed release again before its dismissal has
\* expired: postpone, and the order of the dismissal and the answer in check.
THEOREM PostponedIsQuiet == Spec => PostponedStaysQuiet
BY OffersAreNew, CalmAgrees, EngineAgrees, PTL DEF Spec, PostponedStaysQuiet
----------------------------------------------------------------------------
(* The guard of check and download: what it takes to get past it.          *)

\* A call that the guard keeps others from overlapping with.
Working(k) == call[k].at \in Checks \cup Fetches

\* A check whose throttle was being read goes on under another's check or download.
ProceedsUnderCall == \E j, k \in Slots : j # k /\ Working(j) /\ CheckProceeds(k)

\* An install fails, and shows an error, under another's check or download.
FailsUnderCall == \E j, k \in Slots : j # k /\ Working(j) /\ InstallFails(k)

\* The status is that of the call that works, which is what the guard tests.
StatusTells ==
  \A k \in Slots : /\ call[k].at \in Checks => status = "checking"
                   /\ call[k].at \in Fetches => status = "downloading"

GuardInv == OneAtATime /\ StatusTells

\* A step of one call that leaves the status and goes on with the same kind of
\* work, or ends it; or one under which no other call works.
LEMMA GuardStep ==
  ASSUME TypeOK, GuardInv, NEW k \in Slots, NEW c, Moves(k, c),
         \/ /\ status' = status
            /\ c.at \in Checks => call[k].at \in Checks
            /\ c.at \in Fetches => call[k].at \in Fetches
         \/ /\ \A j \in Slots : j # k => ~Working(j)
            /\ c.at \in Checks => status' = "checking"
            /\ c.at \in Fetches => status' = "downloading"
  PROVE  GuardInv'
<1>1. call'[k] = c /\ \A j \in Slots : j # k => call'[j] = call[j] BY DEF Moves, TypeOK
<1> QED BY <1>1 DEF GuardInv, OneAtATime, StatusTells, Working, Checks, Fetches

\* While a call works no other does.
LEMMA NobodyElse ==
  ASSUME GuardInv, NEW k \in Slots
  PROVE  /\ Working(k) => \A j \in Slots : j # k => ~Working(j)
         /\ ~Busy => \A j \in Slots : ~Working(j)
BY DEF GuardInv, OneAtATime, StatusTells, Working, Busy

LEMMA GuardedCheck ==
  ASSUME TypeOK, GuardInv, ~ProceedsUnderCall, NEW k \in Slots, CheckNext(k)
  PROVE  GuardInv'
<1> USE NobodyElse, FreeIsGood DEF Moves, Awaits, Working, Checks, Fetches
<1>0. k \in DOMAIN call BY DEF TypeOK
<1>1. CASE CheckForced(k)
  <2>1. Free.at = "free" /\ [Free EXCEPT !.at = "asking", !.rel = Nothing].at = "asking" BY DEF Free
  <2> QED BY <1>1, <2>1, GuardStep DEF CheckForced
<1>2. CASE Check(k)
  <2>1. [Free EXCEPT !.at = "throttle", !.rel = Nothing].at = "throttle" BY DEF Free
  <2> QED BY <1>2, <2>1, GuardStep DEF Check, engine
<1>3. CASE CheckThrottled(k) \/ CheckUnread(k)
  BY <1>3, GuardStep DEF CheckThrottled, CheckUnread, Ends, engine
<1>4. CASE CheckProceeds(k)
  <2>1. [Free EXCEPT !.at = "asking", !.rel = Nothing].at = "asking" BY DEF Free
  <2>2. \A j \in Slots : j # k => ~Working(j) BY <1>4 DEF ProceedsUnderCall
  <2> QED BY <1>4, <2>1, <2>2, GuardStep DEF CheckProceeds
<1>5. ASSUME NEW v \in Answers, CheckAnswers(k, v) PROVE GuardInv'
  <2>1. [Free EXCEPT !.at = "saving", !.rel = v].at = "saving" BY DEF Free
  <2> QED BY <1>5, <2>1, GuardStep DEF CheckAnswers, engine
<1>6. CASE CheckFails(k) BY <1>6, GuardStep DEF CheckFails, Ends
<1>7. CASE CheckSaves(k)
  <2>1. PICK at \in {"dismissal", "reconciling"} : Awaits(k, at, call[k].rel) BY <1>7 DEF CheckSaves
  <2>2. [Free EXCEPT !.at = at, !.rel = call[k].rel].at = at BY DEF Free
  <2> QED BY <1>7, <2>1, <2>2, GuardStep DEF CheckSaves, engine
<1>8. CASE CheckDismissal(k)
  <2>1. CASE Ends(k) BY <1>8, <2>1, GuardStep DEF CheckDismissal, Ends
  <2>2. CASE Awaits(k, "reconciling", call[k].rel) /\ UNCHANGED status
    <3>1. [Free EXCEPT !.at = "reconciling", !.rel = call[k].rel].at = "reconciling" BY DEF Free
    <3> QED BY <1>8, <2>2, <3>1, GuardStep DEF CheckDismissal
  <2> QED BY <1>8, <2>1, <2>2 DEF CheckDismissal
<1>9. CASE ReconcileReads(k)
  <2> DEFINE c == [call[k] EXCEPT !.at = "reconciled", !.seen = record]
  <2>1. Moves(k, c) /\ c.at = "reconciled" BY <1>0, <1>9 DEF ReconcileReads, TypeOK, Calls
  <2> QED BY <1>9, <2>1, GuardStep DEF ReconcileReads, engine
<1>10. ASSUME NEW found, CheckOffers(k, found) \/ CheckUpToDate(k, found) PROVE GuardInv'
  <2>1. Working(k) /\ Moves(k, Free) BY <1>10 DEF CheckOffers, CheckUpToDate, Reconciled, Ends
  <2> QED BY <2>1, GuardStep
<1> QED BY <1>1, <1>2, <1>3, <1>4, <1>5, <1>6, <1>7, <1>8, <1>9, <1>10 DEF CheckNext

LEMMA GuardedArtifact ==
  ASSUME TypeOK, GuardInv, ~FailsUnderCall, NEW k \in Slots, ArtifactNext(k), ~Relaunches(k)
  PROVE  GuardInv'
<1> USE NobodyElse, FreeIsGood DEF Moves, Working, Checks, Fetches
<1>0. k \in DOMAIN call /\ call[k] \in Calls BY DEF TypeOK
<1>1. CASE Download(k)
  <2> DEFINE c == [Free EXCEPT !.at = "downloading", !.rel = release, !.handle.update.of = pending]
  <2>1. Moves(k, c) /\ c.at = "downloading" BY <1>1 DEF Download, Starts, Free
  <2>2. ~Busy BY <1>1 DEF Download, Offered, Busy
  <2> QED BY <1>1, <2>1, <2>2, GuardStep DEF Download
<1>2. CASE TauriDownloads(k) \/ DownloadAccepted(k)
  <2>1. Working(k) /\ Moves(k, Free) BY <1>2 DEF TauriDownloads, DownloadAccepted, BecomesReady, Ends
  <2> QED BY <2>1, GuardStep
<1>3. ASSUME NEW complete, DownloadWrites(k, complete) PROVE GuardInv'
  <2> DEFINE c == [call[k] EXCEPT !.at = "written"]
  <2>1. Moves(k, c) /\ c.at = "written" BY <1>0, <1>3 DEF DownloadWrites, Calls
  <2> QED BY <1>3, <2>1, GuardStep DEF DownloadWrites, engine
<1>4. CASE DownloadRefused(k) \/ DownloadFails(k)
  <2>1. PICK left : FallsBack(k, left) BY <1>4 DEF DownloadRefused, DownloadFails
  <2>2. call[k].at \in Fetches BY <1>4 DEF DownloadRefused, DownloadFails
  <2>3. CASE Ends(k) BY <2>2, <2>3, GuardStep DEF Ends
  <2>4. CASE call' = [call EXCEPT ![k].at = "downloading"] /\ UNCHANGED status
    <3> DEFINE c == [call[k] EXCEPT !.at = "downloading"]
    <3>1. Moves(k, c) /\ c.at = "downloading" BY <1>0, <2>4 DEF Calls
    <3> QED BY <2>2, <2>4, <3>1, GuardStep
  <2> QED BY <2>1, <2>3, <2>4 DEF FallsBack
<1>5. CASE Install(k)
  <2> DEFINE c == [Free EXCEPT !.at = "installing", !.handle = handle]
  <2>1. Moves(k, c) /\ c.at = "installing" BY <1>5 DEF Install, Free
  <2> QED BY <1>5, <2>1, GuardStep DEF Install, engine
<1>6. CASE InstallReturns(k) BY <1>6, GuardStep DEF InstallReturns, Ends, engine
<1>7. CASE InstallFails(k)
  <2>1. \A j \in Slots : j # k => ~Working(j) BY <1>7 DEF FailsUnderCall
  <2> QED BY <1>7, <2>1, GuardStep DEF InstallFails, Ends
<1> QED BY <1>1, <1>2, <1>3, <1>4, <1>5, <1>6, <1>7 DEF ArtifactNext

LEMMA NewProcessIsGuarded == NewProcess => GuardInv'
BY FreeIsGood DEF NewProcess, GuardInv, OneAtATime, StatusTells, Checks, Fetches

LEMMA GuardKeeps ==
  IInv /\ GuardInv /\ [Next]_vars /\ [~ProceedsUnderCall /\ ~FailsUnderCall]_vars => GuardInv'
<1> SUFFICES ASSUME IInv, GuardInv, [Next]_vars, [~ProceedsUnderCall /\ ~FailsUnderCall]_vars
             PROVE  GuardInv'
  OBVIOUS
<1>0. TypeOK BY DEF IInv
<1>1. ASSUME UNCHANGED <<status, call>> PROVE GuardInv'
  BY <1>1 DEF GuardInv, OneAtATime, StatusTells
<1>2. CASE UNCHANGED vars BY <1>1, <1>2 DEF vars, engine
<1>3. ASSUME Next, ~ProceedsUnderCall, ~FailsUnderCall PROVE GuardInv'
  <2>1. ASSUME NEW k \in Slots, CheckNext(k) PROVE GuardInv' BY <1>0, <1>3, <2>1, GuardedCheck
  <2>2. ASSUME NEW k \in Slots, ArtifactNext(k), ~Relaunches(k) PROVE GuardInv'
    BY <1>0, <1>3, <2>2, GuardedArtifact
  <2>3. ASSUME NEW k \in Slots, Relaunches(k) PROVE GuardInv'
    BY <2>3, NewProcessIsGuarded DEF Relaunches, TakenOver
  <2>4. ASSUME NEW k \in Slots, Retry(k) PROVE GuardInv'
    <3> DEFINE c == [Free EXCEPT !.at = "asking", !.rel = Nothing]
    <3>1. Moves(k, c) /\ c.at = "asking" BY <2>4 DEF Retry, Awaits, Moves, Free
    <3>2. ~Busy BY <2>4 DEF Retry, Busy
    <3> QED BY <1>0, <2>4, <3>1, <3>2, NobodyElse, GuardStep DEF Retry, Checks, Fetches
  <2>5. CASE Confirmed \/ Restart
    BY <2>5, NewProcessIsGuarded DEF Confirmed, TakenOver, Restart
  <2>6. CASE AcknowledgeError
    <3>1. UNCHANGED call /\ ~Busy BY <2>6 DEF AcknowledgeError, Busy
    <3>2. \A k \in Slots : ~Working(k) BY <3>1, NobodyElse
    <3> QED BY <3>1, <3>2 DEF GuardInv, OneAtATime, StatusTells, Working
  <2>7. CASE CacheCleared \/ ThrottleExpires \/ \E v \in dismissed : DismissalExpires(v)
    BY <1>1, <2>7 DEF CacheCleared, ThrottleExpires, DismissalExpires, engine
  <2>8. ASSUME NEW k \in Slots, PostponeNext(k) PROVE GuardInv'
    <3>1. PICK c : Moves(k, c) /\ c.at \in {"free", "postponing"}
      <4>1. [Free EXCEPT !.at = "postponing", !.rel = release].at = "postponing" BY DEF Free
      <4> QED BY <2>8, <4>1, FreeIsGood
         DEF PostponeNext, Postpone, PostponeWrites, PostponeFails, Awaits, Ends, Moves
    <3>2. UNCHANGED <<status, release>> /\ call[k].at \notin Checks \cup Fetches
      BY <2>8, FreeIsGood
         DEF PostponeNext, Postpone, PostponeWrites, PostponeFails, MayCall, engine, Checks, Fetches
    <3> QED BY <1>0, <1>3, <3>1, <3>2, GuardStep DEF Checks, Fetches, Working
  <2> QED BY <1>3, <2>1, <2>2, <2>3, <2>4, <2>5, <2>6, <2>7, <2>8 DEF Next
<1> QED BY <1>2, <1>3

\* The guard of engine.ts keeps checks and downloads from overlapping, with any
\* number of calls, but for two ways past it: the await for last_checked_at between
\* the guard and the state it sets, and an install that fails meanwhile and whose
\* error replaces the state that the guard would test.
THEOREM TwoWaysPastTheGuard ==
  Spec /\ [][~ProceedsUnderCall /\ ~FailsUnderCall]_vars => []OneAtATime
<1>1. Init => GuardInv BY FreeIsGood DEF Init, GuardInv, OneAtATime, StatusTells, Checks, Fetches
<1>2. GuardInv => OneAtATime BY DEF GuardInv
<1> QED BY <1>1, <1>2, GuardKeeps, EngineAgrees, PTL DEF Spec
=============================================================================
