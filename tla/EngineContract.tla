---------------------------- MODULE EngineContract ----------------------------
(***************************************************************************)
(* What the update engine promises to the screens that are built on it:    *)
(* the eight states, the release shown, whether there is an artifact to    *)
(* install, and the dismissals. How a check finds its answer, where an     *)
(* artifact lies and what the platform does with it is not part of the     *)
(* promise. UpdateEngine implements this module (ContractIsKept there), and *)
(* UpdateScreens is built on it.                                           *)
(***************************************************************************)
EXTENDS Naturals

CONSTANTS
  MaxVersion,      \* releases are 1..MaxVersion
  Forced,          \* those with upgrade_type = force
  Slots            \* async calls in flight at once

ASSUME ContractAssumption == MaxVersion \in Nat /\ Forced \subseteq 1..MaxVersion

VARIABLES
  status, release, \* the engine's store
  held,            \* the release whose artifact the engine's handle stands for
  call,            \* the async method in each slot, and the release it is about
  dismissed        \* the releases with a dismissal that has not expired

promised == <<status, release, held, call, dismissed>>

Versions == 1..MaxVersion
Nothing  == 0
Idle     == [at |-> "free", rel |-> Nothing]

ContractInit ==
  /\ status = "idle" /\ release = Nothing /\ held = Nothing
  /\ call = [k \in Slots |-> Idle]
  /\ dismissed = {}

Begins(k, at, rel) == call' = [call EXCEPT ![k] = [at |-> at, rel |-> rel]]
Returns(k)         == call' = [call EXCEPT ![k] = Idle]

Accepts == status \notin {"checking", "downloading"}
OnOffer == release # Nothing /\ status \in {"available", "force-required"}

----------------------------------------------------------------------------

\* check(true).
ForcedCheck(k) ==
  /\ Accepts
  /\ status' = "checking" /\ UNCHANGED <<release, held, dismissed>>
  /\ call[k] = Idle /\ Begins(k, "check", Nothing)

\* check(), up to its await for last_checked_at.
QuietCheck(k) ==
  /\ Accepts /\ call[k] = Idle
  /\ UNCHANGED <<status, release, held, dismissed>>
  /\ Begins(k, "throttle", Nothing)

QuietCheckEnds(k) ==
  /\ call[k].at = "throttle"
  /\ UNCHANGED <<status, release, held, dismissed>> /\ Returns(k)

\* Whatever the state has become meanwhile.
QuietCheckProceeds(k) ==
  /\ status' = "checking" /\ UNCHANGED <<release, held, dismissed>>
  /\ call[k].at = "throttle" /\ Begins(k, "check", Nothing)

\* A check ends with nothing newer, with a release that is dismissed, or with
\* an offer; an offer whose artifact is there already is ready.
FindsNothing ==
  status' = "up-to-date" /\ release' = Nothing /\ held' \in {held, Nothing}
FindsDismissed ==
  status' = "up-to-date" /\ release' \in dismissed \ Forced /\ held' = held
\* The dismissal may be newer than the check's look at it.
Offers ==
  /\ release' \in Versions
  /\ \/ status' = "ready" /\ held' = release'
     \/ /\ status' = IF release' \in Forced THEN "force-required" ELSE "available"
        /\ held' \in {held, Nothing}

CheckSucceeds(k) ==
  /\ FindsNothing \/ FindsDismissed \/ Offers
  /\ UNCHANGED dismissed
  /\ call[k].at = "check" /\ Returns(k)

\* The promise of any method may reject, an install's included.
Rejects(k) ==
  /\ status' = "error" /\ UNCHANGED <<release, held, dismissed>>
  /\ call[k].at \in {"check", "download", "install"} /\ Returns(k)

BeginsDownload(k) ==
  /\ OnOffer
  /\ status' = "downloading" /\ UNCHANGED <<release, held, dismissed>>
  /\ call[k] = Idle /\ Begins(k, "download", release)

\* Mutant: the handle is given up when the download ends.
FinishesEmpty(k) ==
  /\ status' = "ready" /\ UNCHANGED <<release, dismissed>>
  /\ call[k].at = "download" /\ Returns(k)
  /\ held' = Nothing

FinishesDownload(k) ==
  /\ status' = "ready" /\ UNCHANGED <<release, dismissed>>
  /\ call[k].at = "download" /\ Returns(k)
  /\ held' = call[k].rel

\* The handle is kept, and ready is not left.
BeginsInstall(k) ==
  /\ status = "ready" /\ held # Nothing
  /\ UNCHANGED <<status, release, held, dismissed>>
  /\ call[k] = Idle /\ Begins(k, "install", held)

FinishesInstall(k) ==
  /\ call[k].at = "install"
  /\ UNCHANGED <<status, release, held, dismissed>> /\ Returns(k)

StartsOver(k) ==
  /\ status = "error"
  /\ status' = "checking" /\ held' = Nothing /\ UNCHANGED <<release, dismissed>>
  /\ call[k] = Idle /\ Begins(k, "check", Nothing)

ClearsError ==
  /\ status = "error"
  /\ status' = IF held # Nothing THEN "ready"
               ELSE IF release = Nothing THEN "idle"
               ELSE IF release \in Forced THEN "force-required" ELSE "available"
  /\ UNCHANGED <<release, held, dismissed, call>>

Postpones(k) ==
  /\ OnOffer /\ call[k] = Idle
  /\ UNCHANGED <<status, release, held, dismissed>>
  /\ Begins(k, "postpone", release)

\* The dismissal is written, or is lost with its storage.
FinishesPostpone(k) ==
  /\ call[k].at = "postpone" /\ Returns(k)
  /\ dismissed' \in {dismissed, dismissed \cup {call[k].rel}}
  /\ UNCHANGED <<status, release, held>>

DismissalEnds ==
  /\ \E v \in dismissed : dismissed' = dismissed \ {v}
  /\ UNCHANGED <<status, release, held, call>>

\* The process ends, for whatever reason, and the app starts again.
StartsAgain ==
  /\ status' = "idle" /\ release' = Nothing /\ held' = Nothing
  /\ call' = [k \in Slots |-> Idle]
  /\ UNCHANGED dismissed

Resumes(k) ==
  \/ QuietCheckEnds(k) \/ QuietCheckProceeds(k)
  \/ CheckSucceeds(k) \/ Rejects(k)
  \/ FinishesDownload(k) \/ FinishesInstall(k) \/ FinishesPostpone(k)

ContractNext ==
  \/ \E k \in Slots : \/ ForcedCheck(k) \/ QuietCheck(k)
                      \/ BeginsDownload(k) \/ BeginsInstall(k) \/ Postpones(k)
                      \/ StartsOver(k)
                      \/ Resumes(k)
  \/ ClearsError \/ DismissalEnds \/ StartsAgain

Contract == ContractInit /\ [][ContractNext]_promised
=============================================================================
