# SwarmHive: specifications, model checks and proofs

SwarmHive distributes updates of desktop and mobile applications. A server (Rust, axum,
sea-orm over PostgreSQL) keeps applications, releases, channels and accounts; a CLI and CI
jobs publish to it; an SDK embedded in Tauri and React Native applications asks it for
updates and installs them. This directory holds TLA+ modules of the parts of the program
whose correctness depends on the order in which things happen, the TLC configurations
that check them, and the proofs of the theorems about them.

Paths below are those of the repository. `server` stands for
`crates/swarmhive-server/src`, `entity` for `crates/swarmhive-entity/src`.

Contents: 1 the system; 2 the modules; 3 the runs; 4 fairness; 5 the proofs;
6 disagreements between text and code; 7 what is not modelled; 8 the plan; 9 how to run.

## 1. The system

Every server component is a set of HTTP handlers over tables. Nothing is kept in memory
between requests except the mirror cache and the provider slots, so components interact
through rows: a handler that reads a row, awaits, and writes it may interleave with any
other handler at that await. PostgreSQL runs at READ COMMITTED. A handler's future is
dropped when the client disconnects, and an open transaction rolls back.

### Notification pipeline (partly modelled)
- Code: `server/notify/{emit,worker,channel}.rs`, `server/routes/notifications.rs`.
- State: the tables `notification_outbox`, `notification_delivery`,
  `notification_delivery_attempt`, `notification_subscription`, `webhook_endpoint`; the
  worker's snapshots in memory.
- Operations: `emit` (in the transaction of the change it tells of), the worker's
  `expand_outbox_batch`, `deliver_due_batch`, `deliver_one`, `update_endpoint_health`;
  the operators' `redeliver` and the changes to endpoints and subscriptions.
- Interactions: releases emit into the outbox; the worker is a single task that polls;
  operators write the same rows as the worker.
- Hard: a tick that stops between any two awaits; a result written from a stale snapshot;
  at-least-once sending against exact bookkeeping; auto-disable of an endpoint that an
  operator edits meanwhile.
- Correct means: each event is fanned out once and to everybody it was owed to; each
  delivery is settled within its retry budget; the history is exact; nothing waits for
  ever.

### Releases and channels (partly modelled)
- Code: `server/routes/releases.rs`, and the artifact side of `server/routes/uploads.rs`.
- State: `release.status`, `artifact`, `channel_release` (the pointer),
  `channel_release_history`, and the events put into the outbox.
- Operations: create, `finalize_publish` (the row locked), `publish_release` (not locked),
  yank, promote, rollback with and without a version.
- Interactions: the pointer decides what the update check offers; each change emits.
- Hard: all handlers but finalize read outside the transaction they write in; CI jobs
  finalize one release at once; the first moves of a channel race for one primary key.
- Correct means: pointer, history and events agree; a release is announced once; yanked
  is final; a rollback stays within what its channel has served.

### SDK update engine, Tauri adapter (modelled), React Native adapter (partly)
- Code: `packages/sdk/src/engine.ts`, `ports.ts`, `compare.ts`, `check-update-android.ts`;
  `packages/registry-web/registry/tauri/lib/tauri-adapter.ts`;
  `packages/registry-rn/registry/rn/lib/{rn-adapter,expo-downloader,expo-installer}.ts`.
- State: the engine's eight statuses, its candidate release and its download handle; the
  Tauri plugin's Update object; the APK file and its record on disk; in storage
  `last_checked_at` and the dismissals.
- Operations: `check`, `download`, `install`, `postpone`, `retry`, `acknowledgeError`.
- Interactions: the engine awaits the adapter, which awaits the network, the storage, the
  plugin or the platform's installer; the user and the platform act at any await.
- Hard: overlapping calls; the process killed between file and record; a handle that
  outlives its release; a dismissal read later than the answer it silences.
- Correct means: the engine never refuses calls for ever; ready means the release shown
  is the one that would be installed; the device never goes back; postponed stays quiet.

### Update screens (modelled)
- Code: `packages/registry-rn/registry/rn/{components,lib}`,
  `packages/registry-web/registry/tauri/{components,lib}`; the page that mounts them, from
  `skills/swarmhive-update-ui/references/web-tauri.md`.
- State: the provider's engine, its last automatic install and its listener; the page's
  `promptOpen`; whether the app is in the foreground.
- Operations: assembly and the first check, the recheck on focus, the automatic install, the
  buttons of the prompt, the forced and the progress dialog and of the settings section.
- Interactions: they see the engine only through its store and its methods; a listener runs
  inside the turn that set the store, everything else in a later one.
- Hard: ready and the foreground arrive in either order; a button belongs to the status of
  the last rendering; a prompt stays mounted while the engine moves on.
- Correct means: every ready release is tried once the app is in the foreground; the user
  always has a button that does something; nothing is installed from the background.

### Device login and the CLI (partly modelled)
- Code: `server/routes/device.rs`, `server/services/token.rs`,
  `crates/swarmhive-cli/src/commands/login.rs`.
- State: `device_authorization` rows, the tokens minted from them.
- Operations: `device_code`, `device_token` (the poll), approve, deny, expiry, cleanup.
- Hard: polls race for one approval; a decision is a read and a later blind write; the
  claim and the token are two statements; slow_down must not starve the client.
- Correct means: one token for one approval; denied and completed are final; an approved
  grant is claimed, as long as its CLI polls.

### Accounts: lifecycle, tokens, setup, policy, OAuth registration (partly modelled)
- Code: `server/routes/{setup,invite,register,verify_email,users,password_reset,account,oauth}.rs`,
  `server/routes/registration_policy.rs`, `server/services/account_token.rs`.
- State: `user` (status, verification, role), `user_credentials`, linked identities,
  `account_token`, the one `registration_policy` row.
- Operations: setup of the first owner; invite and resend; registration by email or by
  OAuth; the three links that arrive by mail; approve, reject, disable, enable; set a
  password, link and unlink an identity.
- Interactions: every link is a token that one handler issues, perhaps much later than the
  check that allowed it, and another one consumes.
- Hard: links are verified outside the transaction that consumes them; two issues leave two
  live; member administration tests a status and writes by id; `verify_email` runs three
  statements without a transaction.
- Correct means: an invitation is accepted once; approval cannot be passed by; a reset goes
  to a verified address; the owner and every user can go on signing in.

### Update check and download routing (partly modelled)
- Code: `server/routes/{updates,download,github_source}.rs`, `server/services/mirror.rs`,
  `upsert_artifact` in `server/routes/uploads/service.rs`.
- State: the artifact's row, the GitHub source's row, and the mirror cache, the one table
  that lives in the server's memory.
- Operations: the check, the public catalog and the download entry; uploads and
  registrations of mirrors; edits of the source; the probe of GitHub and its cached answer.
- Interactions: three handlers resolve the same sources, each from its own reads and in its
  own code; GitHub changes without telling.
- Hard: an answer is cached per artifact while the artifact changes; the map is cleared
  while a probe is out; a partial upsert may detach a digest from its bytes; requests read
  three rows one after the other.
- Correct means: only a verified mirror is exposed; what the check lists is what a download
  does; drafts and drift are noticed once the cache has aged. Verified is by digest where GitHub
  tells one and by length where it does not, which is less than the specification says
  (section 6).

### Components that are not modelled
| component | state | hard behaviour | correctness |
|---|---|---|---|
| Upload sessions and storage (`routes/uploads*`, `storage/`) | upload sessions, objects | presigned PUTs after publication; sessions of another release | what is served is what was verified |
| Apps and channels administration (`routes/apps.rs`) | the default channel | two transactions clear and set the default | one default |
| Sessions, passwords, permissions (`auth/`, `routes/auth.rs`) | session rows, lockout counters | save by upsert after revocation; read-increment-write | a revoked session stays revoked |
| OAuth flow (`auth/oauth/`, the flow part of `routes/oauth.rs`) | flow state in the session | replay | one identity, one user |
| Mail (`mail/`, `routes/mail.rs`) | provider rows | plain CRUD and I/O | none beyond CRUD |
| Telemetry (`routes/{events,telemetry}.rs`, `services/telemetry.rs`) | raw and daily rows | a rollup in one SQL transaction | SQL aggregation |
| Audit, seed | a log; idempotent inserts | none | none beyond CRUD |
| Admin SPA, migrations, API types, documentation | client caches; schema; types; text | none that the server does not have | none of their own |

The hazards of each component, with the line where each bites and the properties that
would catch it, are listed in `PROJECT.json`.

## 2. The modules

| module | models | checked by | proved in |
|---|---|---|---|
| `DeliveryPromise` | what the notification pipeline promises, with no table in sight | `Notifications_promise.cfg` | `PromiseProofs` |
| `Notifications` | outbox, worker, operators; implements `DeliveryPromise` | `MCNotifications` | `NotificationsProofs`, `PromiseProofs` |
| `ReleaseBoard` | what the release endpoints promise, each as one operation | `ReleaseTrain_moves.cfg` | `ReleaseTrainProofs` |
| `ReleaseTrain` | releases, finalize and publish, channel pointers; implements `ReleaseBoard` | `MCReleaseTrain` | `ReleaseTrainProofs` |
| `EngineContract` | what the engine promises to the screens | `UpdateEngine_calls.cfg` | `UpdateEngineProofs`, `UpdateScreensProofs` |
| `UpdateEngine` | engine and both adapters; implements `EngineContract` | `MCUpdateEngine` | `UpdateEngineProofs` |
| `UpdateScreens` | provider, dialogs and settings, built on `EngineContract` | `MCUpdateScreens` | `UpdateScreensProofs` |
| `DeviceLogin` | the device grant and its requests | `MCDeviceLogin` | `DeviceLoginProofs` |
| `Accounts` | users, one-time tokens, registration policy | `MCAccounts` | `AccountsProofs` |
| `Downloads` | an artifact's sources, the mirror cache, check and download | `MCDownloads` | `DownloadsProofs` |

All follow one rule: *a step ends where the code awaits*. Three steps hold more than one await,
because no step of another that falls between them changes what can be observed, as a comment
says at each: `UpdateEngine!DownloadAccepted` (the checks of the file, the write of its record),
`Accounts!VerifyConsumes` (the token, the row, the policy) and `Accounts!RegisterViaOauth` (the
policy, the insert). What a handler read before an
await is kept in a variable of the model (`job`, `call`, `poll`, `tab`, `request`) until the step
that uses it. Where the code holds a transaction, the writes of the transaction become
visible in one step, its commit. An operator named after a function of the source models
that function; a suffix (`Reads`, `Commits`, `Claims`, `Mints`) names the stretch between
two awaits. Definitions marked *Mutant* are wrong on purpose: each replaces the definition
after it to show that a property notices, and no specification uses them.

**Notifications.** Tables are sequences and functions of the same names; a row id is a
position, because outbox and deliveries are only appended and are read in `created_at`
order. `pc` is the await the worker is at:

| `pc` | at | next steps |
|---|---|---|
| idle | top of `run_once` | `ExpandOutboxBatch` |
| expand | in the expansion's transaction | `FanoutOutboxRow`, `ExpandCommit` |
| claim | before the claiming query | `DeliverDueBatch` |
| deliver | next snapshot of the batch | `Take` |
| send | the request is under way | `Deliver`, `DeliveryRequestRefused`, `DeliveryRequestDbError` |
| persist | result in memory | `Persist` |
| commit | result staged | `CommitResult` |

`Abort`, `CommitConflict` and `TickFails` stop a tick where it is: the open transaction is
gone, the tables remain. Time is a Boolean `due` for the backoff and three ages for
`failing_since`. `BatchSize` and `MaxAttempts` are the code's constants (50 and 5).

**DeliveryPromise** has three variables: where an event is, what was promised to each
subscription, and which deliveries some receiver accepted. `Notifications` implements it:
an outbox row is `waiting` until it is dispatched; a delivery row that is pending or
failed is `queued`; the uncommitted part of an expansion is invisible.

**ReleaseTrain.** `call[h]` is a handler in flight: what it does, to what, and what it has
read. `FinalizeLocks` takes the row lock that `lock_exclusive` takes; while it is held,
whatever updates the row or inserts a row that refers to it waits (`Locked`). `publish`
reads and commits in two steps and takes no lock before its update. A move reads the
pointer, then updates it or inserts it; two inserts conflict on the primary key.
`Direct` is the set of releases for which callers use the older publish endpoint besides
finalize.

**ReleaseBoard** knows no handler, read or lock: a request that succeeds is one operation on a
release or on a channel, done at once. `ReleaseTrain` implements it (`BoardIsKept`) with the
tables as they are and the channel events as `told`: the commit of a handler is the operation,
every read and every lock before it is a stutter. Its guards say what of a handler's tests is
still true when it writes; `Direct` is where that is less than the handler tested.

**UpdateEngine.** Releases are numbers, newer is larger. `platform` is chosen once;
everything between two awaits of the single-threaded engine is one step; each call in
flight has a slot. Answers of the network, failures of the storage and the platform's
decisions are choices. `handed`, `installed` and `Restart` stand for the platform outside
the process. Assumed: releases differ in size and the size is always told, so that the
downloader's comparison by size and version identifies a release; the iOS branch, where the
shipped downloader throws `ApkDownloadNotSupportedOnIosError` at once, is left out; a Tauri
relaunch that fails after the installation is not modelled. `postpone` is a call like the
others: it tests the status, and its dismissal is written, or is not, in a later step.

**EngineContract** is the engine without its adapter: the eight statuses, the release shown,
the release whose artifact is held, the dismissals, and per slot which method is in flight.
`UpdateEngine` implements it with any number of overlapping calls (`ContractIsKept`): the four
awaits of a check are one `check`, the steps on disk are stutters, a restart is `StartsAgain`;
a `postpone` may end with or without its dismissal.

**UpdateScreens** extends the contract instead of the engine, so that what is shown of the
screens holds with any adapter that keeps it. Its actions conjoin a step of the contract with
what the screens do in that turn: `Sets` runs the page's effect and wakes the provider's
listener (`notified`), which `MaybeInstall` runs before anything else happens. The two
registries are one module: `native` chooses between them where they differ.

**DeviceLogin.** `status` and `life` are the row, `polled` the time since the last poll
that counted; `poll` and `tab` hold what a request has read. User codes are distinct. `polling`
holds the grants whose CLI is in its loop: `poll_for_token` leaves it with an answer, on a
transport error (`login.rs:110`) and on a body it cannot decode (`:119`), so a dropped poll takes
its grant out (`Dropped`), and `LeavesLoop` is every other end, a killed CLI included.

**Accounts.** `user` joins the row with its credentials and identities, `token` is the table
in the order of issue, `call` a request in flight. A transaction is one step; `verify_email`,
which has none, is three. A user is an id with an email of its own, so whoever registers again
after a rejection is another user. Of the roles only the owner's is told apart, because only
it manages members: a change of role is no step, and `replace_user_role`, which serialises
owners, is left out with it. Sessions are left out: every request loads its user's status
again. `accepts`, `vouched` and `strict` are history. `Dropped` ends a request where
it is, and `halted` remembers whom it leaves provisioned between the statements of
`verify_email`.

**Downloads.** One release and one artifact, which may have an object in the storage and a
mirror on GitHub. `slots[g]` is the artifact's cache entry in the g-th map: clearing the map
leaves those who hold a slot with the old one. `request[q]` is a handler with what it has
read. An update check and a row of the catalog decide alike and are one kind, `offer`; the
catalog also asks whether a backend is active, which is taken to be so once an object exists,
and a download finds out otherwise in `BackendFails`. Release and row are read in one step:
only `Yank` writes the status and it writes nothing else, so the order of the two reads makes
no difference. An asset without a digest is compared by size, as the probe does; `seen` is the
history of what the probes saw, so that what was compared and what was not stay apart. Left out
because they are functions of one request: the Tauri check (which lists no sources), the
choice among artifacts, the version gates, the rollout bucket, which server and SDK compute by
the same formula. An object's key is resolved on whichever backend is active, not on the one
in the row (`services/storage.rs:36`); backends are not told apart.

## 3. The runs

Eight runs pass, four end in a counterexample that section 6 explains. Bounds are CONSTANTS
of the modules; `MaxEvents`, `MaxManual`, `MaxMoves`, `MaxFaults`, `MaxVersion`, `MaxTokens`,
`MaxChanges` and `MaxEvictions` are the only ones that cap something the program does not.

| run (`.cfg`) | instance | shows |
|---|---|---|
| `Notifications_fanout` | 1 event, a webhook and an email subscription, batch 2, 2 attempts, 2 faults; 383k states | `FanoutOnce`, `NoEventLost`, `HistoryIsExact`, `TypeOK` |
| `Notifications_promise` | 1 delivery, 2 manual redeliveries, 2 faults; 70k states, fair | `PromiseIsKept` (the refinement), `SettledStaysSettled`, `BudgetRespected`, `FailingStreakIsUnbroken`, `EventsAreDispatched`, `DeliveriesSettle` |
| `ReleaseTrain_moves` | 2 releases, one of them published by either endpoint, 1 channel, 3 moves, 2 handlers of any kind; 436k states | `BoardIsKept` (the refinement), `PointerIsLastMove`, `EventsMatchState`, `OnlyRollbackPinsDrafts`, `RevertsToServedRelease`, `AnnouncedOnce`, `FinalizedStaysYanked` |
| `UpdateEngine_calls` | both adapters, 2 overlapping calls, 2 releases, one forced; and an app that calls one at a time; 852k states | `NeverWedged`, `InstallsForward`, `ContractIsKept` (the refinement), `CalmAppInstallsWhatItShows`, `PostponedStaysQuiet` |
| `UpdateScreens_turns` | both registries, 3 calls in flight, 2 releases, one forced; 97k states | `ReadyIsTried`, `NoDeadEnd`, `InstallsInForeground` |
| `DeviceLogin_polls` | 2 grants, 2 polls, 1 browser, interval 2, 1 fault; 276k states, fair | `OneTokenPerGrant`, `LossesAreDrops`, `TerminalIsFinal`, `ApprovedIsClaimed` |
| `Accounts_lives` | 2 users, 2 requests, 2 tokens, 2 policies; 927k states | `InviteAcceptedOnce`, `ApprovalIsNotSkipped`, `ResetNeedsVerified`, `OwnerStays`, `OnlyDropsLeaveBehind` |
| `Downloads_sources` | 2 requests, 3 contents, 2 of them of one length, 1 asset, 2 changes or faults, 1 clearing of the cache; 648k states, fair | `MirrorWasVerified`, `HashWasVerified`, `LinksLead`, `ProbesAreBounded`, `DraftWindowEnds`, `VisibleDriftStopsExposure` |
| `Notifications_redelivery` | 1 delivery, no fault | counterexample to `RedeliveryIsHonoured` |
| `ReleaseTrain_revived` | 1 release, 2 handlers, publish in use | counterexample to `YankedIsFinal` |
| `UpdateEngine_stale` | Tauri, 1 call, 2 releases, `acknowledgeError` in use | counterexample to `ReadyMatchesHandle` |
| `DeviceLogin_race` | 1 grant, 1 poll, 2 browsers | counterexample to `TerminalIsFinal` |

Why these bounds are enough for the interesting cases:
- Two attempts hold a first failure, a retry and an exhausted budget. One fault can stop
  an expansion or lose a result; the second can hit its repetition. Two subscriptions
  are what it takes to confuse or skip one of them; a batch of two makes the second snapshot
  old before it is used. Two manual redeliveries let the second hit the attempt that the first
  one caused. Liveness is checked with one delivery only: two that contend for a batch of one
  are beyond TLC's time here, and starvation of one by the other stays with the reader (the
  claim is ordered by `created_at`).
- Every race of the release train is between two handlers. Three moves hold "served,
  left, returned to", which a rollback needs. Releases are not interchangeable, because one
  of them is in `Direct`; handlers are, and are a symmetry set.
- Two calls overlap; a third would have to get past the same two guards. Two releases
  let a newer one appear during a download and let a postponed one be overtaken.
- Screens: a call of the provider, one of a button and one in reserve, so that no action
  waits for a slot.
- Two users are an owner and everybody else, or two would-be owners; every race of accounts is
  between two requests. Two tokens are an old and a new link, or links of two purposes. The
  policies are the strict one and the one without its two gates: a change between a registration
  and its verification combines them. The proofs are for any policies.
- Two requests race for a slot, or one waits for the other's probe. Two changes are what it
  takes to upload over a mirror and register another, or to publish a draft and withdraw it.
  Two contents of one length are told apart by nothing but a digest; the third, which only
  GitHub serves, is of another length. One clearing of the map makes two slots of one artifact.
- The device grant needs two polls to race for a claim, and a second grant for the cleanup
  that deletes the first. Interval 2 separates "too soon" from "just in time".

Deadlock is checked in every run: none of these systems may stop.

A type invariant is checked in the first run of the pipeline only; those of the other modules
are proved (section 5), and the runs spend their time on what else there is to say.

Each property is paired in `PROJECT.json` with a mutant, a plausible bug in the code
that makes TLC refute the property under the same configuration.

## 4. Fairness

- `Notifications!Fairness`: weak fairness of the worker and of the passing of the backoff.
  `spawn_tasks` calls `run_once` in a loop for as long as the server lives; a tick that
  fails is logged and the loop goes on. Nobody is obliged to emit, to edit, to redeliver
  or to make the database fail, so liveness holds only because faults are finitely many.
- `DeviceLogin!Fairness`: requests in flight are carried out, time passes, and a CLI polls as long
  as it is in its loop. Nothing keeps it there: it leaves on the first transport error, and
  `ApprovedIsClaimed` says of an approved grant that it does not wait for ever while its CLI
  polls: it is claimed, it expires, or the CLI goes. Polling is strongly fair because slots only
  bound the model: on the server a poll of one grant does not wait for those of another.
- `Downloads!Fairness`: cached answers age, and a handler in flight is carried on by the
  runtime, whatever it waits for (the probe has a timeout). Nobody has to ask, to upload or to
  repair a mirror, and a slot's lock is not assumed to be fair: `DraftWindowEnds` assumes that
  downloads keep being asked for and refused, and concludes that one is redirected.
- `ReleaseTrain`, `Accounts`, `UpdateScreens` and `UpdateEngine` have no fairness: nobody is obliged to publish or to register, and the
  engine's and the screens' progress is stated as safety (`NeverWedged`: whenever the engine refuses calls,
  a call is in flight that will move it on; `NoDeadEnd`, `ReadyIsTried`), because the awaits it depends on are the
  platform's.

## 5. The proofs

TLAPS checks them for every value of the constants that meets the named assumption of each
module (`NotificationsAssumption` and so on): any number of subscriptions, endpoints, events and
faults, any batch size and retry budget; of releases, channels, handlers and moves; of
overlapping calls and releases of the engine, and of calls of the screens; of grants, polls and
faults; of users, requests, tokens and policies; of downloads, contents, assets, changes and
evictions.

**NotificationsProofs.** TypeOK is not inductive: the worker appends a result to the
delivery its snapshot names, so the proof needs that this delivery exists. `WorkerInv` adds
- `Sizes`: the tables that grow together have the same length;
- `Claims`: every snapshot, in the batch or in hand, is of an existing delivery, agrees
  with it in the attempt counter, and that delivery is pending or failed. Operators may
  rewrite the row meanwhile, but never those columns to anything else.

`WorkerAgrees` (`Spec => []WorkerInv`) has one lemma per action. From it follow
- `TypeCorrect`;
- `SettledIsSettled`: only the worker's result and `redeliver` write a delivery, and a
  result is written only to a delivery that is not settled;
- `FanoutIsOnce`, with `FanoutInv`: the open expansion works on pending events only, no
  delivery of a pending event exists, and what is staged has one row per pair;
- `HistoryExact` and `BudgetKept`, by a per-row invariant that adds to both that a pending
  delivery has budget left, its own or a redelivery's.

Three statements that the code does not keep (section 6) are proved of the behaviours without
the one step that breaks them, which shows that it is the only one:
`RedeliveryAtRestIsHonoured`, when nobody redelivers what the worker has in hand
(`RedeliversInHand`); `SubscriptionsAreAnchored`, when no endpoint is deleted between the check and
the insert of a subscription to it (`DeletesUnderCreation`); `StopsAreTold`, when no operator
disables an endpoint to which an attempt is in hand (`DisablesInHand`). Each hypothesis is an action
formula, `[][~A]_vars`; every other fault and interleaving remains.

**PromiseProofs** carries on from `WorkerInv`.
- `EventsAreKept` rests on `AudienceInv`: whoever was in the audience of an event when it was
  committed is still subscribed or has been deleted, and an event that the open expansion
  counts as done has a row staged for all of them. A library theorem on injections of finite
  sets shows that a loop over a sequence of the subscriptions leaves none out.
- `StreakIsUnbroken` rests on `StreakInv`: an endpoint that is not live has no streak, and only
  the worker begins one, so a row that its transaction read without a streak has none when the
  transaction writes it (`ReadAgrees`).
- `PipelineKeepsPromise` is the safety half of the refinement, `Spec => Promise!Spec`. Under
  `PromiseInv` (the outbox fits its bound, accepted rows exist, a success in hand was accepted)
  emit is the abstract Publish, the commit of an expansion FanOut, a delivered request Accept,
  a committed result Settle and a redelivery Reopen, or else a stutter; no other step is seen.
  The fairness of `DeliveryPromise`, the other half of `PromiseIsKept`, is TLC's.

**ReleaseTrainProofs.** `Shape` adds to TypeOK what a handler in flight has at each step
(`CallOk`: a handler that writes a release or moves a channel has one to write, a channel to
move). From it follow
- `TypeCorrect`, and `PointerFollowsHistory`, which is inductive with it;
- `EventsAreExact`, with `YankFresh`: a yank in flight is of a release that has left draft,
  and nothing ever takes a release back to draft;
- `RevertsStayServed` and `DraftsArePinnedByName`, with `Channelled`: a promote in flight is
  of a release that has left draft, a rollback without a version that has chosen is to a
  release its channel served. Both stay true under concurrent moves because a release never
  returns to draft and a history only grows;
- `FinalizeAnnouncesOnce` and `YankedStaysYanked`, of the releases outside `Direct`, because the
  code does not keep them of those published by the other endpoint: see section 6. `Exclusive` says that what
  finalize holds locked is a draft, and that no two handlers hold the same release;
- `HandlersKeepBoard`, the refinement of `ReleaseBoard`: `BoardInv` collects what of a handler's reads
  survives until it writes, and each commit is shown to be the operation of the same name;
- what the code keeps only while no two handlers are at work on one release (`OneCallPerRelease`, a
  hypothesis on the behaviour; any number may work on different releases):
  `YankedIsFinalAlone`, `AnnouncedOnceAlone` and `PromotesPublishedAlone`, whichever endpoint publishes.

**DeviceLoginProofs.** `TypeCorrect` holds of every instance. `MintsOnce` and
`AnswersAreFinal` assume `[]OneDecision` (no two browser requests about one grant at a time),
because the code does not keep them without it: see section 6. The inductive invariant says that
a grant that is not completed has neither a token nor a poll about to make one, that the
poll which claimed a grant is the only one and has not minted yet, and that a decision in
flight rests on a row still pending. The claim and the token are two statements:
`OnlyDropsLose` shows that there are never more completed grants without a token, or a poll that is
about to mint it, than requests were dropped: a dropped poll adds its grant to `Lost`, and no other
step adds any; so without a drop completed means minted (`UndroppedIsMinted`).

**UpdateEngineProofs.** A step changes one call, so the invariant is about what one call may
remember (`Good`: a release that is looked up among the dismissals, postponed or downloaded is newer
than the app) and about the rest of the engine: `StoreIsFresh` (what is shown, pending or held is newer)
and `FileIsFresh` (once something is in hand in this process, a complete file on disk is newer;
a file left by an earlier process may be old, but nothing leads to it). With these and TypeOK,
`NeverWedged` is inductive (`EngineAgrees`). From it follow
- `TypeCorrect`, `NeverIsWedged`, and `DeviceNeverGoesBack`, with any number of overlapping calls;
- `EngineKeepsContract`, the refinement of `EngineContract`: `shown` is the mapping of the calls;
  the steps of a check between its first and last await, and the steps on disk, are stutters;
- `CalmAppsInstallWhatTheyShow` and `PostponedIsQuiet`, by `CalmInv`: of an app that makes one
  call at a time and acknowledges no error, the status belongs to that call; what it downloads
  is what is shown and what the Tauri adapter holds; and a release that a check is about to
  offer is not dismissed, because `postpone` was not in flight beside the check;
- `TwoWaysPastTheGuard`: checks and downloads do not overlap, with any number of calls, but for the
  throttled check that proceeds under another call, and for an install that fails under one and
  replaces the status that the guard tests. Without either, the status is that of the one call
  that works (`GuardInv`), which is what every guard reads; TLC finds an overlap with either alone.

**UpdateScreensProofs.** `EngineInv` is proved of the contract alone (`ContractHasNoDeadEnd`), so it
holds of every engine that keeps it, and each turn of the screens keeps the contract. On top come
`TypeCorrect`, `ReadyIsNeverMissed`, `ScreensHaveNoDeadEnd` and `InstallsAreSeen`: the listener of
the turn that set ready, or the return to the foreground, has tried the release.

**AccountsProofs.** Each action is shown to be a `RowStep`, a `TokenStep` and a `CallStep`, which say
what becomes of a user, of the tokens and of the requests. The invariant has six parts, each kept
on the strength of the first: `Shape` (types, and the owner stays); who accepted an invitation has a
password, which stops a second time; whoever is there without an invitation has a way in; a live
reset token, or a request about to issue one, belongs to a verified address; `OnlyDropsLeaveBehind`
itself; and `ApprovalInv`,
which says of every user, request and live invitation why it cannot lead to an active user
nobody vouched for. Theorems: `TypeCorrect`, `OwnersStay`, `InvitationsAcceptedOnce`,
`ResetsNeedVerified`, `ApprovalsAreNotSkipped`, and `WaysInAreKept` (`KeepsAWayIn`, which is proved and
in no run). Of the three statements of `verify_email`, `DropsAloneLeaveBehind` shows that whoever is
verified and still waits for the next status either has a request that will move them on or lost
one to a drop (`BehindKept`: the second half needs that a request which verifies does so for a user
who still waits); `UndroppedMoveOn` is the case without drops. `OneSetupOneOwner` and
`OneIssueOneToken` are what the code keeps while setups, or the issues of one user's tokens of
one purpose, come one at a time. `LivesGoForward`: nothing touches a deleted user or takes an owner
down, and nobody becomes absent or provisioned again.

**DownloadsProofs.** A live entry of the cache, in the current map or in one that was cleared, is
backed by a probe that saw, at the entry's url, a public asset of which GitHub told nothing that
speaks against the entry's digest (`EntriesAreBacked`), and what a request has concluded fits the
rows it read (`Good`). Theorems: `TypeCorrect`, `MirrorsWereVerified`, `HashesWereVerified`, and
`LinksAreSound`, by cases on what the request could know of object, source and mirror.
The specification's stronger words, that the digest of what is exposed was compared, are
`ToldDigestsWereVerified`, and `ToldDriftIsVisible` reduces its scenario of drift to the property
that the run checks: both for as long as GitHub tells the digest of every asset (`GitHubTells`).
`ProbesAreSingleFlight` shows that the lock of a slot admits one probe, so that there are never more
probes in flight than the map was cleared, and one; `OneProbeUntilFull` is the spec's own statement,
for as long as the map has not been cleared.

Only model-checked: liveness, that is `EventsAreDispatched`, `DeliveriesSettle`, the fairness half of
`PromiseIsKept`, `ApprovedIsClaimed`, `DraftWindowEnds` and `VisibleDriftStopsExposure`. Liveness under fairness
and ENABLED are out of the prover's reach, as is
induction over data (what a fold or a recursive function computes for every input); no
module uses a RECURSIVE operator, so that all of them stay open to proof.

## 6. Disagreements between text and code

Kept as runs, each with the shortest counterexample TLC finds:

- **A redelivery can be lost** (`Notifications_redelivery`). `openspec/specs/notifications/spec.md:80`:
  the server re-enqueues the delivery for sending. The worker writes its result by row id
  from the snapshot (`server/notify/worker.rs:358`), over a redelivery asked for during the send.
- **A yanked release can be published again** (`ReleaseTrain_revived`).
  `server/routes/releases.rs:452`: "cannot publish a yanked release". The status tested is
  that of a row read before the transaction. The same race announces a release twice, which
  `releases.rs:95` rules out for finalize: of releases that only finalize publishes,
  `AnnouncedOnce` and `FinalizedStaysYanked` hold (`ReleaseTrain_moves`).
- **Ready can show a release that was not downloaded** (`UpdateEngine_stale`).
  `packages/sdk/README.md:100`: `acknowledgeError` returns to the prior visible state. It
  returns to ready whenever a handle is held (`engine.ts:196`), also an older release's.
- **Denied and completed are not final** (`DeviceLogin_race`).
  `entity/device_authorization.rs:29,32` call them final. Approve and deny update by id.

Stated in the modules, false of the code, and in no run, most of them because they have the
shape of one above. Where the last column names a theorem, it says when the statement is true
after all: what breaks it is then that and nothing else. (Of the runs above, the same holds of
`RedeliveryIsHonoured`, `YankedIsFinal` and `TerminalIsFinal`, by `RedeliveryAtRestIsHonoured`,
`YankedIsFinalAlone` and `AnswersAreFinal`.)

| statement | text | code | true when |
|---|---|---|---|
| `Notifications!DisabledAndFailingMeansAuto` | `routes/notifications.rs:297`: disabled with `failing_since` only comes from the worker | an attempt in flight starts a streak on an endpoint just disabled, `worker.rs:438` | nobody disables an endpoint with an attempt in hand: `StopsAreTold` |
| `Notifications!NoDanglingSubscription` | `routes/notifications.rs:310`: subscriptions are removed with their endpoint | a subscription checked before and inserted after the deletion stays, `:142` | no deletion between check and insert: `SubscriptionsAreAnchored` |
| `ReleaseTrain!PromotesPublished` | `releases.rs:598`: only a published release can be promoted | the release may be yanked between the test and the move, `:596` | one handler per release: `PromotesPublishedAlone` |
| `UpdateEngine!OneAtATime` | `engine.ts:103`: the guard prevents concurrency | an await between guard and status lets a second call in, `:106` | not that, and no install fails under another call: `TwoWaysPastTheGuard` |
| `UpdateEngine!PostponedStaysQuiet` with `acknowledgeError` | `packages/sdk/README.md:98`: the same version stays quiet | after a failed check `acknowledgeError` offers a postponed release, `engine.ts:202`; the property is stated, and holds, of an app that never calls it | the app makes one call at a time and never acknowledges: `PostponedIsQuiet` |
| `DeviceLogin!CompletedMeansMinted` | `entity/device_authorization.rs:32`: completed means that the token exists | a request dropped between claim and insert leaves none, `routes/device.rs:285` | no request is dropped: `UndroppedIsMinted` |
| `UpdateScreens!ClosingIsRemembered` | `packages/registry-rn/registry/rn/components/prompt-update-dialog.tsx:58`: closing the prompt in any way records a postpone | the prompt stays open while a recheck runs, and `postpone` returns early then, `engine.ts:180` | |
| `Accounts!VerifiedMovesOn` | `openspec/changes/add-registration-policy-and-self-register/specs/registration-policy/spec.md:74`: a registrant who verifies moves on | three statements without a transaction: a request dropped after the first leaves the user verified and provisioned, `verify_email.rs:250` | no verification is dropped: `UndroppedMoveOn` |
| `Accounts!OneActiveToken` | `entity/account_token.rs:14`, `services/account_token.rs:137`: one active token per purpose | two `issue_replacing` at once each invalidate what they see and insert one | issues of a user's tokens of one purpose come one at a time: `OneIssueOneToken` |
| `Accounts!AtMostOneOwner` | `routes/setup.rs:123`: the count closes the race of two setups | the count is outside the transaction that inserts, `:127` | setups come one at a time: `OneSetupOneOwner` |
| `Downloads!DigestWasVerified` | `openspec/specs/github-release-source/spec.md:75`: a mirror is exposed only after its digest was verified | where GitHub tells no digest the probe compares the length, `mirror.rs:297` | GitHub tells every digest: `ToldDigestsWereVerified` |
| `Downloads!DriftStopsExposure` | `github-release-source/spec.md:84`: a replaced asset stops being exposed; `routes/uploads/service.rs:204`: and so does the mirror of superseded bytes | other bytes of the same length pass for the artifact, `mirror.rs:297` | GitHub tells every digest: `ToldDriftIsVisible` |
| `Downloads!ReuploadClearsMirror` | `github-release-source/spec.md:42,56`: a re-upload without a mirror clears `mirror_url` | `upsert_artifact` keeps it on purpose, `routes/uploads/service.rs:202,266`; reading is to find it out, with the gap above | |
| `Downloads!OneProbe` | `openspec/specs/github-release-source/spec.md:93`: one probe in flight per artifact | the bound clears the map, and the next request makes a second slot, `mirror.rs:221` | the map was never cleared: `OneProbeUntilFull` |

## 7. What is not modelled, and why

Inside the modelled components: signatures, IM formats, templates and the test send
(formatting and I/O); rotation of webhook secrets (planned); notes, rollout percentage and
deletion of releases (single-row edits, and cascades of an administrator); listing and
revoking tokens; progress reporting and telemetry of the engine; the iOS branch of the
React Native adapter; the Tauri check, the choice among artifacts, the version gates and the
rollout bucket of the update check (functions of one request); roles, sessions and the
change of a password in the accounts. What each module takes for granted is said in section 2.

The components of the last table of section 1 are planned (upload sessions, channels,
sessions) or hold no state that several steps could bring into disagreement: mail, telemetry,
audit and seed are single statements or transactions; the OAuth flow keeps its state in one
browser's session (what it does to users is in `Accounts`); the admin SPA shows what the server
answers; most of the repository's TypeScript is generated from the API schema, view code or
documentation, with no state machine of its own.

## 8. The plan

What is left, most important first. Each module gets an MC module, a passing run and its
mutants.

1. **Sessions**: revocation against save-by-upsert, lockout counters; composed with `Accounts`.
2. **Uploads**, composed with `ReleaseTrain` and `Downloads`: what a published release serves is
   what was verified, although presigned uploads outlive the session that made them.
   **Channels**: one default.
3. **WebhookSecret**: the grace period under concurrent rotations.
4. Larger instances of `Notifications_promise` (two deliveries that contend for a batch of one),
   once liveness on them fits the time of a run.

## 9. How to run

In this directory: `tlc -config <run>.cfg MC<Module>.tla` for a run, for instance
`tlc -config ReleaseTrain_moves.cfg MCReleaseTrain.tla`; `tlapm <Module>.tla` for the proofs,
with `NotificationsProofs`, `PromiseProofs`, `ReleaseTrainProofs`, `UpdateEngineProofs`,
`UpdateScreensProofs`, `DeviceLoginProofs`, `AccountsProofs` or `DownloadsProofs`.
