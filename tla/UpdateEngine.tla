---------------------------- MODULE UpdateEngine ----------------------------
(***************************************************************************)
(* The client side of an update: the eight-state engine of the SDK         *)
(* (packages/sdk/src/engine.ts) over one of its two adapters, the Tauri    *)
(* one, which keeps the plugin's Update object between check and download, *)
(* and the React Native one, which keeps the downloaded APK on disk and    *)
(* reconciles it with the candidate.                                       *)
(*                                                                         *)
(* The engine is single-threaded: everything between two awaits is one     *)
(* step. Any number of its async methods may be in flight at once; each    *)
(* occupies a slot and remembers there what it will use after its await.   *)
(***************************************************************************)
EXTENDS Naturals

CONSTANTS
  MaxVersion,      \* releases are 1..MaxVersion, newer is larger
  Forced,          \* the releases the server marks upgrade_type = force
  Slots,           \* async calls in flight at once
  Platforms,       \* the adapters under study, of tauri and rn
  Apps             \* how the apps under study call the engine

ASSUME UpdateEngineAssumption ==
  /\ MaxVersion \in Nat /\ Forced \subseteq 1..MaxVersion
  /\ Platforms \subseteq {"tauri", "rn"}
  /\ Apps \subseteq [overlaps : BOOLEAN, acknowledges : BOOLEAN]

VARIABLES
  platform,        \* the adapter that this app was built with
  app,             \* whether it lets calls overlap, and calls acknowledgeError
  \* The engine: its store and the handle it keeps beside it.
  status, release, handle,
  call,            \* the async method in each slot
  pending,         \* the Tauri adapter's Update object
  handed,          \* the Android installer is open on the path
  \* What survives the process.
  throttled,       \* last_checked_at is less than the recheck interval old
  dismissed,       \* the releases with a dismissal that has not expired
  file, record,    \* the APK at the RN downloader's one path; the release it is recorded as
  installed

engine    == <<status, release, handle>>
disk      == <<file, record>>
persisted == <<throttled, dismissed, disk, installed>>
vars      == <<platform, app, engine, call, pending, handed, persisted>>

\* Only the RN adapter implements reconcile.
Reconciles == platform = "rn"

Versions == 1..MaxVersion
Nothing  == 0          \* null: no release, no update, no file

\* The bytes of a release, complete or not.
NoFile   == [of |-> Nothing, whole |-> FALSE]
\* A Tauri handle carries the Update object it installs, an RN one a path.
NoHandle == [rel |-> Nothing, update |-> NoFile]
Free     == [at |-> "free", rel |-> Nothing, seen |-> Nothing, handle |-> NoHandle]

Init ==
  /\ platform \in Platforms /\ app \in Apps
  /\ status = "idle" /\ release = Nothing /\ handle = NoHandle
  /\ call = [k \in Slots |-> Free]
  /\ pending = Nothing /\ handed = FALSE
  /\ throttled = FALSE /\ dismissed = {}
  /\ file = NoFile /\ record = Nothing /\ installed = 0

Awaits(k, at, rel) == call' = [call EXCEPT ![k] = [Free EXCEPT !.at = at, !.rel = rel]]
Ends(k)            == call' = [call EXCEPT ![k] = Free]

\* A new call takes a slot; an app that does not let calls overlap waits.
MayCall(k) == call[k] = Free /\ (app.overlaps \/ \A other \in Slots : call[other] = Free)

----------------------------------------------------------------------------
(* check.                                                                  *)

Busy == status \in {"checking", "downloading"}

\* check(true): from the guard to the request without an await.
CheckForced(k) ==
  /\ MayCall(k) /\ ~Busy
  /\ status' = "checking"
  /\ Awaits(k, "asking", Nothing)
  /\ UNCHANGED <<release, handle, pending, handed, persisted>>

\* check(): the guard, then an await for last_checked_at.
Check(k) ==
  /\ MayCall(k) /\ ~Busy
  /\ Awaits(k, "throttle", Nothing)
  /\ UNCHANGED <<engine, pending, handed, persisted>>

CheckThrottled(k) ==
  /\ call[k].at = "throttle" /\ throttled
  /\ Ends(k)
  /\ UNCHANGED <<engine, pending, handed, persisted>>

\* The storage rejects before the try: the promise does, and nothing changes.
CheckUnread(k) ==
  /\ call[k].at = "throttle"
  /\ Ends(k)
  /\ UNCHANGED <<engine, pending, handed, persisted>>

CheckProceeds(k) ==
  /\ call[k].at = "throttle" /\ ~throttled
  /\ status' = "checking"
  /\ Awaits(k, "asking", Nothing)
  /\ UNCHANGED <<release, handle, pending, handed, persisted>>

\* The plugin answers with newer releases only; the RN endpoint is asked with
\* the installed version, and compare decides.
Answers == {Nothing} \cup {v \in Versions : Reconciles \/ v > installed}

CheckAnswers(k, v) ==
  /\ call[k].at = "asking" /\ v \in Answers
  /\ pending' = IF Reconciles THEN pending ELSE v
  /\ Awaits(k, "saving", v)
  /\ UNCHANGED <<engine, handed, persisted>>

\* adapter.check or the storage rejects.
CheckFails(k) ==
  /\ call[k].at \in {"asking", "saving", "dismissal"}
  /\ status' = "error"
  /\ Ends(k)
  /\ UNCHANGED <<release, handle, pending, handed, persisted>>

\* Mutant: any answer counts as an update.
AnyAnswerIsNewer(v) == v # Nothing

\* adapter.compare.
IsNewer(v) == v # Nothing /\ v > installed

CheckSaves(k) ==
  LET v == call[k].rel
  IN /\ call[k].at = "saving"
     /\ throttled' = TRUE
     /\ Awaits(k, IF IsNewer(v) /\ v \notin Forced THEN "dismissal" ELSE "reconciling", v)
     /\ UNCHANGED <<engine, pending, handed, dismissed, disk, installed>>

\* Mutant: a dismissed release leaves the state alone.
DismissedReturns(k) ==
  LET v == call[k].rel
  IN /\ call[k].at = "dismissal"
     /\ IF v \in dismissed THEN Ends(k) ELSE Awaits(k, "reconciling", v)
     /\ UNCHANGED <<engine, pending, handed, persisted>>

\* Mutant: the dismissal is looked up and forgotten.
DismissedIsOffered(k) ==
  /\ call[k].at = "dismissal"
  /\ Awaits(k, "reconciling", call[k].rel)
  /\ UNCHANGED <<engine, pending, handed, persisted>>

\* A dismissed release is not offered, and its artifact is kept.
CheckDismissal(k) ==
  LET v == call[k].rel
  IN /\ call[k].at = "dismissal"
     /\ IF v \in dismissed
        THEN status' = "up-to-date" /\ release' = v /\ Ends(k)
        ELSE Awaits(k, "reconciling", v) /\ UNCHANGED <<status, release>>
     /\ UNCHANGED <<handle, pending, handed, persisted>>

\* RN: the record is read, and the rest of reconcile goes by what it said.
ReconcileReads(k) ==
  /\ Reconciles /\ call[k].at = "reconciling"
  /\ call' = [call EXCEPT ![k].at = "reconciled", ![k].seen = record]
  /\ UNCHANGED <<engine, pending, handed, persisted>>

Reconciled(k) == call[k].at = IF Reconciles THEN "reconciled" ELSE "reconciling"

\* Mutant: whatever APK lies on disk is taken for the candidate.
MatchesAnyRecord(k, v) == v # Nothing /\ call[k].seen # Nothing /\ file.whole

\* The record names the candidate, and the file passes its size and magic checks.
Matches(k, v) == v # Nothing /\ call[k].seen = v /\ file = [of |-> v, whole |-> TRUE]

\* reconcileArtifact for the candidate v: the artifact is taken over, or it
\* goes. Without reconcile neither handle nor disk is touched.
Reconcile(k, v, found) ==
  IF ~Reconciles THEN found = "missed" /\ UNCHANGED <<handle, disk>>
  ELSE \/ /\ found = "hit" /\ Matches(k, v)
          /\ handle' = [NoHandle EXCEPT !.rel = v]
          /\ UNCHANGED disk
       \/ /\ found = "missed" /\ ~Matches(k, v)
          /\ handle' = NoHandle /\ file' = NoFile
          /\ record' = IF call[k].seen = Nothing THEN record ELSE Nothing
       \/ /\ found = "threw"
          /\ handle' = NoHandle /\ file' \in {file, NoFile}
          /\ UNCHANGED record

CheckOffers(k, found) ==
  LET v == call[k].rel
  IN /\ Reconciled(k) /\ IsNewer(v)
     /\ Reconcile(k, v, found)
     /\ status' = IF found = "hit" THEN "ready"
                  ELSE IF v \in Forced THEN "force-required" ELSE "available"
     /\ release' = v
     /\ Ends(k)
     /\ UNCHANGED <<pending, handed, throttled, dismissed, installed>>

CheckUpToDate(k, found) ==
  /\ Reconciled(k) /\ ~IsNewer(call[k].rel)
  /\ Reconcile(k, Nothing, found)
  /\ status' = "up-to-date" /\ release' = Nothing
  /\ Ends(k)
  /\ UNCHANGED <<pending, handed, throttled, dismissed, installed>>

----------------------------------------------------------------------------
(* download.                                                               *)

Offered == release # Nothing /\ status \in {"available", "force-required"}

\* The RN downloader first removes whatever lies at its path; the Tauri
\* adapter starts the Update object it holds.
Starts(k) ==
  /\ call' = [call EXCEPT ![k] = [Free EXCEPT !.at = "downloading", !.rel = release,
                                             !.handle.update.of = pending]]
  /\ file' = IF Reconciles THEN NoFile ELSE file
  /\ UNCHANGED record

Download(k) ==
  /\ MayCall(k) /\ Offered
  /\ status' = "downloading"
  /\ Starts(k)
  /\ UNCHANGED <<release, handle, pending, handed, throttled, dismissed, installed>>

\* Mutant: a handle the engine already holds is kept.
KeepsHandle(k) ==
  IF handle # NoHandle THEN handle
  ELSE [rel |-> call[k].rel, update |-> [of |-> pending, whole |-> ~Reconciles]]

\* The Tauri adapter reads its Update object again after the download.
Downloaded(k) ==
  [rel    |-> call[k].rel,
   update |-> IF Reconciles THEN NoFile
              ELSE [of |-> pending, whole |-> pending = call[k].handle.update.of]]

BecomesReady(k) ==
  /\ handle' = Downloaded(k)
  /\ status' = "ready"
  /\ Ends(k)

TauriDownloads(k) ==
  /\ ~Reconciles /\ call[k].at = "downloading" /\ call[k].handle.update.of # Nothing
  /\ BecomesReady(k)
  /\ UNCHANGED <<release, pending, handed, persisted>>

\* RN: the transfer resolves, whether or not all of the bytes came.
DownloadWrites(k, complete) ==
  /\ Reconciles /\ call[k].at = "downloading"
  /\ file' = [of |-> call[k].rel, whole |-> complete]
  /\ call' = [call EXCEPT ![k].at = "written"]
  /\ UNCHANGED <<engine, pending, handed, throttled, dismissed, record, installed>>

\* assertApkDownload: status, size and magic of what is now at the path.
IsTheApk(k) == file = [of |-> call[k].rel, whole |-> TRUE]

\* The checks and the write of the record, which awaits the storage, are one
\* step. Whatever clears or overwrites the file between them leaves a record
\* without its file, as it does after them; who reads the record checks the file.
DownloadAccepted(k) ==
  /\ call[k].at = "written" /\ IsTheApk(k)
  /\ record' = call[k].rel
  /\ BecomesReady(k)
  /\ UNCHANGED <<release, pending, handed, throttled, dismissed, file, installed>>

\* The next source starts over; the last one ends in error and leaves a file.
FallsBack(k, left) ==
  \/ /\ Reconciles
     /\ call' = [call EXCEPT ![k].at = "downloading"] /\ file' = NoFile
     /\ UNCHANGED status
  \/ status' = "error" /\ file' = left /\ Ends(k)

\* A file that fails the checks is discarded with its record.
DownloadRefused(k) ==
  /\ call[k].at = "written" /\ ~IsTheApk(k)
  /\ record' = Nothing
  /\ FallsBack(k, NoFile)
  /\ UNCHANGED <<release, handle, pending, handed, throttled, dismissed, installed>>

\* The transfer, or the storage after it, rejects.
DownloadFails(k) ==
  /\ call[k].at \in {"downloading", "written"}
  /\ \/ FallsBack(k, file)
     \/ /\ Reconciles /\ call[k].at = "downloading"
        /\ FallsBack(k, [of |-> call[k].rel, whole |-> FALSE])
  /\ UNCHANGED <<release, handle, pending, handed, throttled, dismissed, record, installed>>

----------------------------------------------------------------------------
(* install.                                                                *)

\* What the platform gets to install: the path is read when it does.
Handed(h) == IF Reconciles THEN file ELSE h.update

Install(k) ==
  /\ MayCall(k) /\ status = "ready" /\ handle # NoHandle
  /\ call' = [call EXCEPT ![k] = [Free EXCEPT !.at = "installing", !.handle = handle]]
  /\ UNCHANGED <<engine, pending, handed, persisted>>

\* The RN promise resolves when the intent is sent (or blocked); the installer
\* it opened may be confirmed at any later time.
InstallReturns(k) ==
  /\ Reconciles /\ call[k].at = "installing"
  /\ \E sent \in BOOLEAN : handed' = (handed \/ sent)
  /\ Ends(k)
  /\ UNCHANGED <<engine, pending, persisted>>

InstallFails(k) ==
  /\ call[k].at = "installing"
  /\ status' = "error"
  /\ Ends(k)
  /\ UNCHANGED <<release, handle, pending, handed, persisted>>

\* A new process: only what is persisted remains.
NewProcess ==
  /\ status' = "idle" /\ release' = Nothing /\ handle' = NoHandle
  /\ call' = [k \in Slots |-> Free]
  /\ pending' = Nothing /\ handed' = FALSE

\* The platform replaces the app. What is not whole does not install.
TakenOver(h) ==
  /\ Handed(h).whole
  /\ installed' = Handed(h).of
  /\ NewProcess
  /\ UNCHANGED <<throttled, dismissed, disk>>

Relaunches(k) == ~Reconciles /\ call[k].at = "installing" /\ TakenOver(call[k].handle)
Confirmed     == handed /\ TakenOver(handle)

Restart ==
  /\ NewProcess
  /\ UNCHANGED persisted

\* The system clears the cache directory; the record stays.
CacheCleared ==
  /\ file # NoFile
  /\ file' = NoFile
  /\ UNCHANGED <<engine, call, pending, handed, throttled, dismissed, record, installed>>

----------------------------------------------------------------------------
(* The remaining methods, called when the SDK's README says they may be.   *)

\* postpone tests the state, then awaits the write of the dismissal, which is
\* for the release it saw, whatever is shown by then.
Postpone(k) ==
  /\ MayCall(k) /\ Offered
  /\ Awaits(k, "postponing", release)
  /\ UNCHANGED <<engine, pending, handed, persisted>>

PostponeWrites(k) ==
  /\ call[k].at = "postponing"
  /\ dismissed' = dismissed \cup {call[k].rel}
  /\ Ends(k)
  /\ UNCHANGED <<engine, pending, handed, throttled, disk, installed>>

\* The storage rejects: the promise does, and nothing changes.
PostponeFails(k) ==
  /\ call[k].at = "postponing"
  /\ Ends(k)
  /\ UNCHANGED <<engine, pending, handed, persisted>>

\* retry drops the handle, then runs check(true) up to its first await.
Retry(k) ==
  /\ MayCall(k) /\ status = "error"
  /\ handle' = NoHandle
  /\ status' = "checking"
  /\ Awaits(k, "asking", Nothing)
  /\ UNCHANGED <<release, pending, handed, persisted>>

AcknowledgeError ==
  /\ app.acknowledges /\ status = "error"
  /\ status' = IF handle # NoHandle THEN "ready"
               ELSE IF release = Nothing THEN "idle"
               ELSE IF release \in Forced THEN "force-required" ELSE "available"
  /\ UNCHANGED <<release, handle, call, pending, handed, persisted>>

\* The recheck interval or a dismissal runs out.
ThrottleExpires ==
  /\ throttled
  /\ throttled' = FALSE
  /\ UNCHANGED <<engine, call, pending, handed, dismissed, disk, installed>>

DismissalExpires(v) ==
  /\ v \in dismissed
  /\ dismissed' = dismissed \ {v}
  /\ UNCHANGED <<engine, call, pending, handed, throttled, disk, installed>>

----------------------------------------------------------------------------

CheckNext(k) ==
  \/ CheckForced(k)
  \/ Check(k) \/ CheckThrottled(k) \/ CheckUnread(k) \/ CheckProceeds(k)
  \/ \E v \in Answers : CheckAnswers(k, v)
  \/ CheckFails(k) \/ CheckSaves(k) \/ CheckDismissal(k) \/ ReconcileReads(k)
  \/ \E found \in {"hit", "missed", "threw"} : CheckOffers(k, found) \/ CheckUpToDate(k, found)

ArtifactNext(k) ==
  \/ Download(k) \/ TauriDownloads(k)
  \/ \E complete \in BOOLEAN : DownloadWrites(k, complete)
  \/ DownloadAccepted(k) \/ DownloadRefused(k) \/ DownloadFails(k)
  \/ Install(k) \/ InstallReturns(k) \/ InstallFails(k) \/ Relaunches(k)

PostponeNext(k) == Postpone(k) \/ PostponeWrites(k) \/ PostponeFails(k)

Next ==
  /\ \/ \E k \in Slots : CheckNext(k) \/ ArtifactNext(k) \/ PostponeNext(k) \/ Retry(k)
     \/ Confirmed \/ CacheCleared
     \/ AcknowledgeError
     \/ ThrottleExpires
     \/ \E v \in dismissed : DismissalExpires(v)
     \/ Restart
  /\ UNCHANGED <<platform, app>>

Spec == Init /\ [][Next]_vars

----------------------------------------------------------------------------
(* Properties.                                                             *)

VersionOrNone == 0..MaxVersion
Files   == [of : VersionOrNone, whole : BOOLEAN]
Handles == [rel : VersionOrNone, update : Files]
Checks  == {"asking", "saving", "dismissal", "reconciling", "reconciled"}
Fetches == {"downloading", "written"}
Calls   == [at : {"free", "throttle", "installing", "postponing"} \cup Checks \cup Fetches,
            rel : VersionOrNone, seen : VersionOrNone, handle : Handles]

\* The type invariant of the engine, its adapter and what they persist.
TypeOK ==
  /\ platform \in Platforms /\ app \in Apps
  /\ status \in {"idle", "checking", "up-to-date", "available", "force-required",
                 "downloading", "ready", "error"}
  /\ release \in VersionOrNone
  /\ handle \in Handles
  /\ call \in [Slots -> Calls]
  /\ pending \in VersionOrNone /\ handed \in BOOLEAN
  /\ throttled \in BOOLEAN /\ dismissed \subseteq Versions
  /\ file \in Files /\ record \in VersionOrNone /\ installed \in VersionOrNone

\* The engine is never stuck: while it shows checking or downloading, when it
\* refuses every other call, some call is in flight that will move it on.
NeverWedged ==
  /\ status = "checking" => \E k \in Slots : call[k].at \in Checks
  /\ status = "downloading" => \E k \in Slots : call[k].at \in Fetches

\* An install never takes the device back to an older release, or to the one
\* it already runs, whichever checks and downloads overlapped.
InstallsForward == [][installed' # installed => installed' > installed]_vars

\* ready means that the release shown has been downloaded, and that what
\* install hands over is all of that release; an APK the system cleared away
\* is the one thing that may be missing.
ReadyMatchesHandle ==
  status = "ready" =>
    /\ handle.rel = release
    /\ \/ Handed(handle) = [of |-> release, whole |-> TRUE]
       \/ Reconciles /\ file = NoFile

\* One call at a time, and no acknowledgeError: as the shipped screens mostly do.
Calm == ~app.overlaps /\ ~app.acknowledges

\* In a calm app ready always means so, whatever fails and restarts between.
CalmAppInstallsWhatItShows == Calm => ReadyMatchesHandle

\* In a calm app a release that was postponed stays quiet until its dismissal
\* expires: no step other than the dismissal's own moment brings it back.
PostponedStaysQuiet ==
  [][Calm /\ status # "available" /\ status' = "available" => release' \notin dismissed]_vars

\* check guards itself against concurrency: one check or download at a time.
OneAtATime ==
  \A k1, k2 \in Slots : call[k1].at \in Checks \cup Fetches
                     /\ call[k2].at \in Checks \cup Fetches => k1 = k2
----------------------------------------------------------------------------
(* The promise.                                                            *)

KindOf(at) == CASE at \in Checks -> "check"
                [] at \in Fetches -> "download"
                [] at = "installing" -> "install"
                [] at = "postponing" -> "postpone"
                [] OTHER -> at

Promise == INSTANCE EngineContract WITH
  held <- handle.rel,
  call <- [k \in Slots |-> [at  |-> KindOf(call[k].at),
                            rel |-> CASE call[k].at \in Fetches \cup {"postponing"} -> call[k].rel
                                      [] call[k].at = "installing" -> call[k].handle.rel
                                      [] OTHER -> Nothing]]

\* Every step of the engine and its adapter, with any number of calls in
\* flight, is one that the screens were promised, or none they see.
ContractIsKept == Promise!Contract
=============================================================================
