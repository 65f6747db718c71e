---------------------------- MODULE UpdateScreens ----------------------------
(***************************************************************************)
(* The update screens of the two registries, over the engine's promise:    *)
(* the provider that assembles the engine, rechecks on focus and installs  *)
(* once by itself; the optional prompt, the forced dialog and the settings *)
(* section whose buttons call the engine; and the page that opens the      *)
(* prompt, as the documentation wires it.                                  *)
(*                                                                         *)
(* A turn of the event loop is one step, except that the provider's        *)
(* listener, which runs inside the turn that set the engine's state, is a  *)
(* step of its own before anything else happens (notified).                *)
(***************************************************************************)
EXTENDS EngineContract

VARIABLES
  native,          \* React Native, or the Tauri web view
  up,              \* the provider has its engine
  active,          \* the app is in the foreground, its window focused
  notified,        \* the provider's listener is about to run
  attempted,       \* the release whose automatic install is spent
  refused,         \* the installs that the installer's foreground gate turned down
  prompt           \* the page's promptOpen

screens == <<native, up, active, notified, attempted, refused, prompt>>
vars    == <<promised, screens>>

Init ==
  /\ ContractInit
  /\ native \in BOOLEAN
  /\ up = FALSE /\ active = TRUE /\ notified = FALSE
  /\ attempted = Nothing /\ refused = {} /\ prompt = FALSE

\* A call that starts leaves a slot to the provider's own install.
Spare(k) == \E other \in Slots \ {k} : call[other] = Idle

\* The page opens the prompt when the status turns available.
PromptFollows == prompt' = (prompt \/ (status # "available" /\ status' = "available"))

\* A set of the engine's store runs the provider's listener in the same turn.
Sets ==
  /\ notified' = up
  /\ PromptFollows
  /\ UNCHANGED <<native, up, active, attempted>>

\* Nothing of the store changes in this turn.
SetsNothing == UNCHANGED screens

----------------------------------------------------------------------------
(* The provider.                                                           *)

\* The engine is there: the first check, and the listener's first run.
Assembled(k) ==
  /\ ~up /\ up' = TRUE
  /\ QuietCheck(k)
  /\ notified' = TRUE
  /\ UNCHANGED <<native, active, attempted, refused, prompt>>

LeavesForeground ==
  /\ active /\ active' = FALSE
  /\ UNCHANGED <<promised, native, up, notified, attempted, refused, prompt>>

\* check() when the window or the app is back in front.
FocusRechecks(k) == IF up /\ Accepts THEN Spare(k) /\ QuietCheck(k) ELSE UNCHANGED promised

\* Mutant: no listener of AppState but the one that rechecks.
ReturnsUnnoticed(k) ==
  /\ ~active /\ active' = TRUE
  /\ FocusRechecks(k)
  /\ UNCHANGED <<native, up, notified, attempted, refused, prompt>>

\* On React Native the provider's listener runs too.
ReturnsToForeground(k) ==
  /\ ~active /\ active' = TRUE
  /\ FocusRechecks(k)
  /\ notified' = (up /\ native)
  /\ UNCHANGED <<native, up, attempted, refused, prompt>>

\* install(), up to its await; the gate of the Android installer is passed or
\* not in the same turn. Without a handle install returns at once.
CallsInstall(k) ==
  IF held = Nothing THEN UNCHANGED <<promised, refused>>
  ELSE /\ BeginsInstall(k)
       /\ refused' = IF native /\ ~active THEN refused \cup {k} ELSE refused

\* Mutant: the listener does not look at AppState.
MayInstallAnywhere ==
  /\ status = "ready" /\ release # Nothing
  /\ attempted # release

\* In the foreground (React Native), ready, and not tried for this release yet.
MayInstall ==
  /\ native => active
  /\ status = "ready" /\ release # Nothing
  /\ attempted # release

MaybeInstall(k) ==
  /\ notified /\ notified' = FALSE
  /\ IF MayInstall
     THEN attempted' = release /\ CallsInstall(k)
     ELSE UNCHANGED <<promised, attempted, refused>>
  /\ UNCHANGED <<native, up, active, prompt>>

----------------------------------------------------------------------------
(* The engine goes on by itself.                                           *)

ThrottleEnds(k) == QuietCheckEnds(k) /\ SetsNothing
PostponeEnds(k) == FinishesPostpone(k) /\ SetsNothing

EngineSets(k) ==
  /\ QuietCheckProceeds(k) \/ CheckSucceeds(k) \/ FinishesDownload(k)
  /\ Sets /\ UNCHANGED refused

\* An install that was refused does not throw.
EngineRejects(k) ==
  /\ k \notin refused
  /\ Rejects(k)
  /\ Sets /\ UNCHANGED refused

\* The intent is sent after another await; what the system makes of it, nobody
\* here is told.
InstallReturns(k) ==
  /\ FinishesInstall(k)
  /\ notified' = up
  /\ refused' = refused \ {k}
  /\ UNCHANGED <<native, up, active, attempted, prompt>>

\* The app is replaced, killed or left, and started again.
Starts ==
  /\ StartsAgain
  /\ up' = FALSE /\ active' = TRUE /\ notified' = FALSE
  /\ attempted' = Nothing /\ refused' = {} /\ prompt' = FALSE
  /\ UNCHANGED native

----------------------------------------------------------------------------
(* What the user sees and can press.                                       *)

IsForced == release \in Forced
IsBusy   == status \in {"downloading", "ready"}
ForceVisible    == IsForced /\ (status = "force-required" \/ IsBusy)
ProgressVisible == ~IsForced /\ IsBusy /\ ~prompt

\* The main button of a dialog: install when ready, else download, which does
\* nothing unless a release is on offer.
MainButton(k) ==
  /\ status # "downloading"
  /\ Spare(k)
  /\ \/ /\ status = "ready" /\ CallsInstall(k)
        /\ UNCHANGED <<native, up, active, notified, attempted, prompt>>
     \/ BeginsDownload(k) /\ Sets /\ UNCHANGED refused

DialogButton(k) == up /\ active /\ (ForceVisible \/ prompt) /\ MainButton(k)

ProgressButton(k) == up /\ active /\ ProgressVisible /\ status = "ready" /\ MainButton(k)

\* The prompt is closed, by Later or in any other way: postpone is called
\* unless there is progress to hide, and acts only on a release on offer.
PromptCloses(k) ==
  /\ up /\ active /\ prompt
  /\ prompt' = FALSE
  /\ IF ~IsBusy /\ OnOffer THEN Spare(k) /\ Postpones(k) ELSE UNCHANGED promised
  /\ UNCHANGED <<native, up, active, notified, attempted, refused>>

\* The settings section, when no dialog lies over it.
SettingsShown == up /\ active /\ ~prompt /\ ~ForceVisible /\ ~ProgressVisible

UpdateActionKind ==
  CASE status = "checking" -> "checking"
    [] status \in {"available", "force-required"} -> "download"
    [] status = "downloading" -> "downloading"
    [] status = "ready" -> "install"
    [] OTHER -> "check"

SettingsButton(k) ==
  /\ SettingsShown /\ Spare(k)
  /\ \/ UpdateActionKind = "check" /\ ForcedCheck(k) /\ Sets /\ UNCHANGED refused
     \/ UpdateActionKind \in {"download", "install"} /\ MainButton(k)

RetryButton(k) ==
  /\ SettingsShown /\ Spare(k)
  /\ StartsOver(k) /\ Sets /\ UNCHANGED refused

----------------------------------------------------------------------------

UserNext(k) ==
  \/ DialogButton(k) \/ ProgressButton(k) \/ SettingsButton(k) \/ RetryButton(k)

EngineNext(k) ==
  \/ ThrottleEnds(k) \/ PostponeEnds(k) \/ EngineSets(k) \/ EngineRejects(k) \/ InstallReturns(k)

TurnNext ==
  \/ \E k \in Slots : \/ Assembled(k) \/ ReturnsToForeground(k)
                      \/ EngineNext(k) \/ UserNext(k) \/ PromptCloses(k)
  \/ LeavesForeground \/ Starts
  \/ DismissalEnds /\ UNCHANGED screens

Next ==
  \/ \E k \in Slots : MaybeInstall(k)
  \/ ~notified /\ TurnNext

Spec == Init /\ [][Next]_vars

----------------------------------------------------------------------------
(* Properties.                                                             *)

Kinds == {"free", "throttle", "check", "download", "install", "postpone"}

\* The type invariant of the screens and the engine under them.
TypeOK ==
  /\ status \in {"idle", "checking", "up-to-date", "available", "force-required",
                 "downloading", "ready", "error"}
  /\ release \in 0..MaxVersion /\ held \in 0..MaxVersion
  /\ call \in [Slots -> [at : Kinds, rel : 0..MaxVersion]]
  /\ dismissed \subseteq Versions
  /\ native \in BOOLEAN /\ up \in BOOLEAN /\ active \in BOOLEAN /\ notified \in BOOLEAN
  /\ attempted \in 0..MaxVersion
  /\ refused \subseteq Slots /\ prompt \in BOOLEAN

\* No ready is missed: whichever came last, the artifact, the engine or the
\* return to the foreground, when the turn is over the provider has had its
\* one automatic try at the release that is ready.
ReadyIsTried ==
  up /\ ~notified /\ status = "ready" /\ release # Nothing /\ (native => active)
  => attempted = release

\* "No Dead End", whichever calls overlapped: the button of a release that is
\* ready or on offer acts, and where the buttons are disabled some call is in
\* flight that will enable them again.
NoDeadEnd ==
  /\ status = "ready" => held # Nothing
  /\ status \in {"available", "force-required"} => release # Nothing
  /\ status = "checking" => \E k \in Slots : call[k].at = "check"
  /\ status = "downloading" => \E k \in Slots : call[k].at = "download"

\* Neither the provider nor a button asks for an install while the app is in
\* the background: the gate of the Android installer is never what stops it.
InstallsInForeground == refused = {}

\* Every way of closing the prompt, except over a download or a finished one,
\* has postpone on its way to write a dismissal of the release it showed.
ClosingIsRemembered ==
  [][prompt /\ ~prompt' /\ up' /\ ~IsBusy /\ release # Nothing
     => \E k \in Slots : call'[k] = [at |-> "postpone", rel |-> release]]_vars
=============================================================================
