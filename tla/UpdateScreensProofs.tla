-------------------------- MODULE UpdateScreensProofs --------------------------
(***************************************************************************)
(* Proofs about UpdateScreens, for any number of releases and of calls in  *)
(* flight. The screens move the engine only by steps of its contract, so   *)
(* what concerns the engine's variables is proved of the contract once.    *)
(***************************************************************************)
EXTENDS UpdateScreens, TLAPS

Statuses == {"idle", "checking", "up-to-date", "available", "force-required",
             "downloading", "ready", "error"}

EngineTypes ==
  /\ status \in Statuses
  /\ release \in 0..MaxVersion /\ held \in 0..MaxVersion
  /\ call \in [Slots -> [at : Kinds, rel : 0..MaxVersion]]
  /\ dismissed \subseteq Versions

\* A download is of a release, so that its end leaves an artifact; so is a postpone.
DownloadsSomething == \A k \in Slots : call[k].at \in {"download", "postpone"} => call[k].rel # Nothing

EngineInv == EngineTypes /\ DownloadsSomething /\ NoDeadEnd

ScreenTypes ==
  /\ native \in BOOLEAN /\ up \in BOOLEAN /\ active \in BOOLEAN /\ notified \in BOOLEAN
  /\ attempted \in 0..MaxVersion
  /\ refused \subseteq Slots /\ prompt \in BOOLEAN

IInv == EngineInv /\ ScreenTypes /\ ReadyIsTried /\ InstallsInForeground

----------------------------------------------------------------------------
(* The contract.                                                           *)

\* The engine starts well.
LEMMA ContractStarts == ContractInit => EngineInv
BY ContractAssumption
DEF ContractInit, EngineInv, EngineTypes, DownloadsSomething, NoDeadEnd, Idle, Kinds, Nothing,
    Versions, Statuses

\* The beginning of a call in a slot that was free takes nobody's place.
LEMMA CallBegins ==
  ASSUME EngineInv, NEW k \in Slots, NEW at \in Kinds, NEW rel \in 0..MaxVersion,
         call[k].at \in {"free", "throttle"}, Begins(k, at, rel),
         at \in {"download", "postpone"} => rel # Nothing
  PROVE  /\ call' \in [Slots -> [at : Kinds, rel : 0..MaxVersion]]
         /\ DownloadsSomething'
         /\ call'[k].at = at
         /\ \A kind \in {"check", "download"} :
              (\E j \in Slots : call[j].at = kind) => \E j \in Slots : call'[j].at = kind
BY DEF EngineInv, EngineTypes, DownloadsSomething, Begins

\* So does the end of one that is neither a check nor a download.
LEMMA CallReturns ==
  ASSUME EngineInv, NEW k \in Slots, Returns(k)
  PROVE  /\ call' \in [Slots -> [at : Kinds, rel : 0..MaxVersion]]
         /\ DownloadsSomething'
         /\ call[k].at \notin {"check", "download"} =>
              \A kind \in {"check", "download"} :
                (\E j \in Slots : call[j].at = kind) => \E j \in Slots : call'[j].at = kind
<1>1. 0 \in 0..MaxVersion /\ "free" \in Kinds BY ContractAssumption DEF Kinds
<1> QED BY <1>1 DEF EngineInv, EngineTypes, DownloadsSomething, Returns, Idle, Nothing

\* Every step that the contract allows keeps EngineInv.
LEMMA ContractKeeps == EngineInv /\ [ContractNext]_promised => EngineInv'
<1> SUFFICES ASSUME EngineInv, [ContractNext]_promised PROVE EngineInv' OBVIOUS
<1> USE ContractAssumption
<1>0. 0 \in 0..MaxVersion /\ Versions \subseteq 0..MaxVersion /\ Nothing = 0 BY DEF Versions, Nothing
<1>1. ASSUME NEW k \in Slots, ForcedCheck(k) PROVE EngineInv'
  BY <1>0, <1>1, CallBegins DEF ForcedCheck, EngineInv, EngineTypes, NoDeadEnd, Idle, Kinds, Statuses
<1>2. ASSUME NEW k \in Slots, QuietCheck(k) PROVE EngineInv'
  BY <1>0, <1>2, CallBegins DEF QuietCheck, EngineInv, EngineTypes, NoDeadEnd, Idle, Kinds, Statuses
<1>3. ASSUME NEW k \in Slots, QuietCheckEnds(k) PROVE EngineInv'
  BY <1>3, CallReturns DEF QuietCheckEnds, EngineInv, EngineTypes, NoDeadEnd
<1>4. ASSUME NEW k \in Slots, QuietCheckProceeds(k) PROVE EngineInv'
  BY <1>0, <1>4, CallBegins DEF QuietCheckProceeds, EngineInv, EngineTypes, NoDeadEnd, Kinds, Statuses
<1>5. ASSUME NEW k \in Slots, CheckSucceeds(k) PROVE EngineInv'
  <2>1. /\ call' \in [Slots -> [at : Kinds, rel : 0..MaxVersion]]
        /\ DownloadsSomething' /\ dismissed' = dismissed
    BY <1>5, CallReturns DEF CheckSucceeds
  <2>2. CASE FindsNothing
    BY <1>0, <2>1, <2>2 DEF FindsNothing, EngineInv, EngineTypes, NoDeadEnd, Statuses
  <2>3. CASE FindsDismissed
    BY <1>0, <2>1, <2>3 DEF FindsDismissed, EngineInv, EngineTypes, NoDeadEnd, Statuses
  <2>4. CASE Offers
    <3>1. release' \in 0..MaxVersion /\ release' # Nothing BY <2>4 DEF Offers, Versions, Nothing
    <3> QED BY <1>0, <2>1, <2>4, <3>1 DEF Offers, EngineInv, EngineTypes, NoDeadEnd, Statuses
  <2> QED BY <1>5, <2>2, <2>3, <2>4 DEF CheckSucceeds
<1>6. ASSUME NEW k \in Slots, Rejects(k) PROVE EngineInv'
  BY <1>6, CallReturns DEF Rejects, EngineInv, EngineTypes, NoDeadEnd, Statuses
<1>7. ASSUME NEW k \in Slots, BeginsDownload(k) PROVE EngineInv'
  <2>1. "download" \in Kinds /\ release \in 0..MaxVersion /\ release # Nothing
    BY <1>7 DEF BeginsDownload, OnOffer, Kinds, EngineInv, EngineTypes
  <2>2. call[k].at \in {"free", "throttle"} /\ Begins(k, "download", release)
    BY <1>7 DEF BeginsDownload, Idle
  <2>3. /\ call' \in [Slots -> [at : Kinds, rel : 0..MaxVersion]]
        /\ DownloadsSomething' /\ call'[k].at = "download"
    BY <2>1, <2>2, CallBegins
  <2> QED BY <1>7, <2>3 DEF BeginsDownload, EngineInv, EngineTypes, NoDeadEnd, Statuses
<1>8. ASSUME NEW k \in Slots, FinishesDownload(k) PROVE EngineInv'
  <2>1. call[k].rel \in 0..MaxVersion /\ call[k].rel # Nothing
    BY <1>8 DEF FinishesDownload, EngineInv, EngineTypes, DownloadsSomething
  <2> QED BY <1>8, <2>1, CallReturns DEF FinishesDownload, EngineInv, EngineTypes, NoDeadEnd, Statuses
<1>9. ASSUME NEW k \in Slots, BeginsInstall(k) PROVE EngineInv'
  <2>1. "install" \in Kinds /\ held \in 0..MaxVersion
    BY DEF Kinds, EngineInv, EngineTypes
  <2>2. call[k].at \in {"free", "throttle"} /\ Begins(k, "install", held)
    BY <1>9 DEF BeginsInstall, Idle
  <2>3. /\ call' \in [Slots -> [at : Kinds, rel : 0..MaxVersion]]
        /\ DownloadsSomething'
    BY <2>1, <2>2, CallBegins
  <2> QED BY <1>9, <2>3 DEF BeginsInstall, EngineInv, EngineTypes, NoDeadEnd
<1>10. ASSUME NEW k \in Slots, FinishesInstall(k) PROVE EngineInv'
  BY <1>10, CallReturns DEF FinishesInstall, EngineInv, EngineTypes, NoDeadEnd
<1>11. ASSUME NEW k \in Slots, StartsOver(k) PROVE EngineInv'
  BY <1>0, <1>11, CallBegins DEF StartsOver, EngineInv, EngineTypes, NoDeadEnd, Idle, Kinds, Statuses
<1>12. CASE ClearsError
  BY <1>12 DEF ClearsError, EngineInv, EngineTypes, DownloadsSomething, NoDeadEnd, Statuses
<1>13. ASSUME NEW k \in Slots, Postpones(k) PROVE EngineInv'
  <2>1. "postpone" \in Kinds /\ release \in 0..MaxVersion /\ release # Nothing
    BY <1>13 DEF Postpones, OnOffer, Kinds, EngineInv, EngineTypes
  <2>2. call[k].at \in {"free", "throttle"} /\ Begins(k, "postpone", release)
    BY <1>13 DEF Postpones, Idle
  <2>3. /\ call' \in [Slots -> [at : Kinds, rel : 0..MaxVersion]]
        /\ DownloadsSomething'
        /\ \A kind \in {"check", "download"} :
             (\E j \in Slots : call[j].at = kind) => \E j \in Slots : call'[j].at = kind
    BY <2>1, <2>2, CallBegins
  <2> QED BY <1>13, <2>3 DEF Postpones, EngineInv, EngineTypes, NoDeadEnd
<1>14. CASE DismissalEnds
  BY <1>14 DEF DismissalEnds, EngineInv, EngineTypes, DownloadsSomething, NoDeadEnd
<1>15. CASE StartsAgain
  BY <1>0, <1>15 DEF StartsAgain, EngineInv, EngineTypes, DownloadsSomething, NoDeadEnd, Idle, Kinds, Statuses
<1>16. ASSUME NEW k \in Slots, FinishesPostpone(k) PROVE EngineInv'
  <2>1. call[k].rel \in Versions
    BY <1>0, <1>16 DEF FinishesPostpone, EngineInv, EngineTypes, DownloadsSomething, Versions
  <2>2. dismissed' \subseteq Versions BY <1>16, <2>1 DEF FinishesPostpone, EngineInv, EngineTypes
  <2> QED BY <1>16, <2>2, CallReturns DEF FinishesPostpone, EngineInv, EngineTypes, NoDeadEnd
<1>17. CASE UNCHANGED promised
  BY <1>17 DEF promised, EngineInv, EngineTypes, DownloadsSomething, NoDeadEnd
<1> QED BY <1>1, <1>2, <1>3, <1>4, <1>5, <1>6, <1>7, <1>8, <1>9, <1>10, <1>11, <1>12, <1>13, <1>14,
           <1>15, <1>16, <1>17 DEF ContractNext, Resumes

\* No Dead End is a matter of the contract alone: it holds of every engine that
\* keeps it, whatever its screens do.
THEOREM ContractHasNoDeadEnd == Contract => []NoDeadEnd
<1>1. EngineInv => NoDeadEnd BY DEF EngineInv
<1> QED BY <1>1, ContractStarts, ContractKeeps, PTL DEF Contract

----------------------------------------------------------------------------
(* The screens.                                                            *)

\* The engine's part of a turn is a step of its contract.
LEMMA TurnsKeepContract == [Next]_vars => [ContractNext]_promised
<1> SUFFICES ASSUME [Next]_vars PROVE [ContractNext]_promised OBVIOUS
<1> USE DEF ContractNext, Resumes
<1>1. ASSUME NEW k \in Slots, CallsInstall(k) PROVE [ContractNext]_promised
  BY <1>1 DEF CallsInstall
<1>2. ASSUME NEW k \in Slots, MaybeInstall(k) PROVE [ContractNext]_promised
  BY <1>1, <1>2 DEF MaybeInstall
<1>3. ASSUME NEW k \in Slots, MainButton(k) PROVE [ContractNext]_promised
  BY <1>1, <1>3 DEF MainButton
<1>4. ASSUME NEW k \in Slots, UserNext(k) PROVE [ContractNext]_promised
  BY <1>3, <1>4 DEF UserNext, DialogButton, ProgressButton, SettingsButton, RetryButton
<1>5. ASSUME NEW k \in Slots, EngineNext(k) PROVE [ContractNext]_promised
  BY <1>5 DEF EngineNext, ThrottleEnds, PostponeEnds, EngineSets, EngineRejects, InstallReturns
<1>6. ASSUME NEW k \in Slots, Assembled(k) \/ ReturnsToForeground(k) PROVE [ContractNext]_promised
  BY <1>6 DEF Assembled, ReturnsToForeground, FocusRechecks
<1>7. ASSUME LeavesForeground \/ (\E k \in Slots : PromptCloses(k)) \/ Starts \/ DismissalEnds
      PROVE  [ContractNext]_promised
  BY <1>7 DEF LeavesForeground, PromptCloses, Starts
<1>8. ASSUME UNCHANGED vars PROVE [ContractNext]_promised BY <1>8 DEF vars
<1> QED BY <1>2, <1>4, <1>5, <1>6, <1>7, <1>8 DEF Next, TurnNext

\* Starting a call or an install changes neither the status nor the release.
LEMMA CallsInstallKeepsStore ==
  ASSUME NEW k \in Slots, CallsInstall(k), InstallsInForeground, native => active
  PROVE  UNCHANGED <<status, release, refused>>
BY DEF CallsInstall, BeginsInstall, InstallsInForeground, promised

Screens == ScreenTypes /\ ReadyIsTried /\ InstallsInForeground

\* A turn that sets the store leaves the rest to the listener.
LEMMA SettingIsNoticed ==
  ASSUME IInv, Sets, refused' = refused
  PROVE  Screens'
BY DEF IInv, Screens, Sets, PromptFollows, ScreenTypes, ReadyIsTried, InstallsInForeground

\* A turn that sets nothing misses nothing.
LEMMA NothingIsMissed ==
  ASSUME IInv, ~notified, UNCHANGED <<status, release, native, up, active, notified, attempted, refused>>,
         prompt' \in BOOLEAN
  PROVE  Screens'
BY DEF IInv, Screens, ScreenTypes, ReadyIsTried, InstallsInForeground

LEMMA MainButtonKeeps ==
  ASSUME IInv, ~notified, NEW k \in Slots, active, MainButton(k)
  PROVE  Screens'
<1>1. CASE /\ CallsInstall(k)
           /\ UNCHANGED <<native, up, active, notified, attempted, prompt>>
  <2>1. UNCHANGED <<status, release, refused>> BY <1>1, CallsInstallKeepsStore DEF IInv
  <2> QED BY <1>1, <2>1, NothingIsMissed DEF IInv, ScreenTypes
<1>2. CASE Sets /\ refused' = refused BY <1>2, SettingIsNoticed
<1> QED BY <1>1, <1>2 DEF MainButton

\* Every turn keeps what IInv says of the screens.
LEMMA TurnsKeepScreens == IInv /\ [Next]_vars => Screens'
<1> SUFFICES ASSUME IInv, [Next]_vars PROVE Screens' OBVIOUS
<1>1. ASSUME NEW k \in Slots, MaybeInstall(k) PROVE Screens'
  <2>1. CASE MayInstall
    <3>1. attempted' = release /\ UNCHANGED <<status, release, refused>>
      BY <1>1, <2>1, CallsInstallKeepsStore DEF MaybeInstall, MayInstall, IInv
    <3> QED BY <1>1, <2>1, <3>1 DEF MaybeInstall, Screens, IInv, EngineInv, EngineTypes, ScreenTypes,
              ReadyIsTried, InstallsInForeground
  <2>2. CASE ~MayInstall
    BY <1>1, <2>2 DEF MaybeInstall, MayInstall, Screens, IInv, ScreenTypes, ReadyIsTried,
       InstallsInForeground, promised
  <2> QED BY <2>1, <2>2
<1>2. ASSUME NEW k \in Slots, ~notified, UserNext(k) PROVE Screens'
  <2>1. ASSUME DialogButton(k) \/ ProgressButton(k) PROVE Screens'
    BY <1>2, <2>1, MainButtonKeeps DEF DialogButton, ProgressButton
  <2>2. ASSUME SettingsButton(k) PROVE Screens'
    BY <1>2, <2>2, MainButtonKeeps, SettingIsNoticed DEF SettingsButton, SettingsShown
  <2>3. ASSUME RetryButton(k) PROVE Screens' BY <2>3, SettingIsNoticed DEF RetryButton
  <2> QED BY <1>2, <2>1, <2>2, <2>3 DEF UserNext
<1>3. ASSUME NEW k \in Slots, ~notified, EngineNext(k) PROVE Screens'
  <2>1. ASSUME ThrottleEnds(k) PROVE Screens'
    BY <1>3, <2>1, NothingIsMissed DEF ThrottleEnds, QuietCheckEnds, SetsNothing, screens, IInv, ScreenTypes
  <2>2. ASSUME EngineSets(k) PROVE Screens' BY <2>2, SettingIsNoticed DEF EngineSets
  <2>3. ASSUME EngineRejects(k) PROVE Screens' BY <2>3, SettingIsNoticed DEF EngineRejects
  <2>4. ASSUME InstallReturns(k) PROVE Screens'
    BY <2>4 DEF InstallReturns, FinishesInstall, IInv, Screens, ScreenTypes, ReadyIsTried, InstallsInForeground
  <2>5. ASSUME PostponeEnds(k) PROVE Screens'
    BY <1>3, <2>5, NothingIsMissed DEF PostponeEnds, FinishesPostpone, SetsNothing, screens, IInv, ScreenTypes
  <2> QED BY <1>3, <2>1, <2>2, <2>3, <2>4, <2>5 DEF EngineNext
<1>4. ASSUME NEW k \in Slots, ~notified, Assembled(k) PROVE Screens'
  BY <1>4 DEF Assembled, IInv, Screens, ScreenTypes, ReadyIsTried, InstallsInForeground
<1>5. ASSUME NEW k \in Slots, ~notified, ReturnsToForeground(k) PROVE Screens'
  <2>1. UNCHANGED <<status, release>> BY <1>5 DEF ReturnsToForeground, FocusRechecks, QuietCheck, promised
  <2> QED BY <1>5, <2>1 DEF ReturnsToForeground, IInv, Screens, ScreenTypes, ReadyIsTried, InstallsInForeground
<1>6. ASSUME ~notified, LeavesForeground PROVE Screens'
  BY <1>6 DEF LeavesForeground, IInv, Screens, ScreenTypes, ReadyIsTried, InstallsInForeground, promised
<1>7. ASSUME NEW k \in Slots, ~notified, PromptCloses(k) PROVE Screens'
  <2>1. UNCHANGED <<status, release>> BY <1>7 DEF PromptCloses, Postpones, promised
  <2> QED BY <1>7, <2>1, NothingIsMissed DEF PromptCloses
<1>8. ASSUME Starts PROVE Screens'
  <2>1. attempted' \in 0..MaxVersion BY <1>8, ContractAssumption DEF Starts, Nothing
  <2>2. ScreenTypes' BY <1>8, <2>1 DEF Starts, IInv, ScreenTypes
  <2>3. ReadyIsTried' /\ InstallsInForeground' BY <1>8 DEF Starts, ReadyIsTried, InstallsInForeground
  <2> QED BY <2>2, <2>3 DEF Screens
<1>9. ASSUME ~notified, DismissalEnds, UNCHANGED screens PROVE Screens'
  BY <1>9, NothingIsMissed DEF DismissalEnds, screens, IInv, ScreenTypes
<1>10. ASSUME UNCHANGED vars PROVE Screens'
  BY <1>10 DEF vars, screens, promised, IInv, Screens, ScreenTypes, ReadyIsTried, InstallsInForeground
<1> QED BY <1>1, <1>2, <1>3, <1>4, <1>5, <1>6, <1>7, <1>8, <1>9, <1>10 DEF Next, TurnNext

THEOREM ScreensAgree == Spec => []IInv
<1>1. Init => IInv
  <2> SUFFICES ASSUME Init PROVE IInv OBVIOUS
  <2>1. attempted \in 0..MaxVersion BY ContractAssumption DEF Init, Nothing
  <2>2. ScreenTypes BY <2>1 DEF Init, ScreenTypes
  <2>3. ReadyIsTried /\ InstallsInForeground BY DEF Init, ReadyIsTried, InstallsInForeground
  <2> QED BY ContractStarts, <2>2, <2>3 DEF Init, IInv
<1>2. IInv /\ [Next]_vars => IInv'
  BY ContractKeeps, TurnsKeepContract, TurnsKeepScreens DEF IInv, Screens
<1> QED BY <1>1, <1>2, PTL DEF Spec

\* Type correctness of the screens and the engine under them.
THEOREM TypeCorrect == Spec => []TypeOK
<1>1. IInv => TypeOK BY DEF IInv, EngineInv, EngineTypes, ScreenTypes, TypeOK, Statuses
<1> QED BY <1>1, ScreensAgree, PTL

\* However the engine, the provider's mount and the foreground interleave, the
\* provider's automatic install is never missed.
THEOREM ReadyIsNeverMissed == Spec => []ReadyIsTried
<1>1. IInv => ReadyIsTried BY DEF IInv
<1> QED BY <1>1, ScreensAgree, PTL

\* The buttons of the screens always lead somewhere.
THEOREM ScreensHaveNoDeadEnd == Spec => []NoDeadEnd
<1>1. IInv => NoDeadEnd BY DEF IInv, EngineInv
<1> QED BY <1>1, ScreensAgree, PTL

\* No install is asked for in the background.
THEOREM InstallsAreSeen == Spec => []InstallsInForeground
<1>1. IInv => InstallsInForeground BY DEF IInv
<1> QED BY <1>1, ScreensAgree, PTL
=============================================================================
