---------------------------- MODULE ReleaseTrain ----------------------------
(***************************************************************************)
(* The release train of one application (routes/releases.rs, with the      *)
(* artifact side of routes/uploads.rs): releases go from draft to          *)
(* published to yanked, and channels are pointers moved by promote and     *)
(* rollback with an append-only history.                                   *)
(*                                                                         *)
(* Every handler reads before it writes: its reads and its commit are      *)
(* steps of their own, and what it read is kept in its call meanwhile.     *)
(* finalize alone reads under a lock on the release row, which everything  *)
(* that writes the row, or a row that refers to it, waits for.             *)
(***************************************************************************)
EXTENDS Naturals, Sequences, SequencesExt

CONSTANTS
  Releases, Channels,
  None,               \* no release: the pointer of a channel never promoted
  Handlers,           \* request handlers in flight at once
  Direct,             \* the releases that callers may publish by the publish endpoint too
  MaxMoves            \* bound on pointer moves of one channel

ASSUME ReleaseTrainAssumption ==
  /\ None \notin Releases
  /\ Direct \subseteq Releases /\ MaxMoves \in Nat

VARIABLES
  status,      \* release.status
  artifacts,   \* the releases that have at least one artifact
  pointer,     \* channel_release
  history,     \* channel_release_history, in (created_at, id) order
  announced,   \* ReleasePublished rows in notification_outbox, by release
  movesTold,   \* ChannelPromoted and ChannelRolledBack rows, by channel
  call         \* what each handler in flight has read

vars == <<status, artifacts, pointer, history, announced, movesTold, call>>

\* revert is a rollback that names no version; the table stores both as rollback.
Moves == {"promote", "rollback", "revert"}

\* step: where the handler is; rel, chan: what it works on; found: the release
\* it read the channel to be at.
Idle == [op |-> "none", step |-> "idle", rel |-> None, chan |-> None, found |-> None]

Init ==
  /\ status = [r \in Releases |-> "absent"]
  /\ artifacts = {}
  /\ pointer = [c \in Channels |-> None]
  /\ history = [c \in Channels |-> <<>>]
  /\ announced = [r \in Releases |-> 0]
  /\ movesTold = [c \in Channels |-> 0]
  /\ call = [h \in Handlers |-> Idle]

Begin(h, new) == call[h] = Idle /\ call' = [call EXCEPT ![h] = new]
End(h)        == call' = [call EXCEPT ![h] = Idle]

\* SELECT ... FOR UPDATE: an UPDATE of the row waits, and so does an INSERT
\* with a foreign key to it.
Locked(r) == \E h \in Handlers : call[h].op = "finalize" /\ call[h].rel = r

----------------------------------------------------------------------------
(* Releases.                                                               *)

\* The unique index on (app_id, version) lets one creation through.
CreateRelease(r) ==
  /\ status[r] = "absent"
  /\ status' = [status EXCEPT ![r] = "draft"]
  /\ UNCHANGED <<artifacts, pointer, history, announced, movesTold, call>>

\* complete and register upsert artifacts whatever the release's status.
UploadArtifact(r) ==
  /\ status[r] # "absent" /\ ~Locked(r)
  /\ artifacts' = artifacts \cup {r}
  /\ UNCHANGED <<status, pointer, history, announced, movesTold, call>>

\* mark_published with emit, in the caller's transaction.
MarkPublished(r) ==
  /\ status' = [status EXCEPT ![r] = "published"]
  /\ announced' = [announced EXCEPT ![r] = @ + 1]

\* Mutant: the row is read without the lock.
FinalizeReadsOnly(h, r) ==
  /\ status[r] = "draft" /\ r \in artifacts
  /\ Begin(h, [Idle EXCEPT !.op = "finalize", !.step = "read", !.rel = r])
  /\ UNCHANGED <<status, artifacts, pointer, history, announced, movesTold>>

\* Mutant: finalize is idempotent on a published release only.
FinalizesYanked(h, r) ==
  /\ ~Locked(r)
  /\ status[r] \in {"draft", "yanked"} /\ r \in artifacts
  /\ Begin(h, [Idle EXCEPT !.op = "finalize", !.step = "read", !.rel = r])
  /\ UNCHANGED <<status, artifacts, pointer, history, announced, movesTold>>

\* finalize_publish, for the finalize endpoint and for complete(publish=true).
\* Any other status ends it with nothing written.
FinalizeLocks(h, r) ==
  /\ ~Locked(r)
  /\ status[r] = "draft" /\ r \in artifacts
  /\ Begin(h, [Idle EXCEPT !.op = "finalize", !.step = "read", !.rel = r])
  /\ UNCHANGED <<status, artifacts, pointer, history, announced, movesTold>>

FinalizeCommits(h) ==
  /\ call[h].op = "finalize"
  /\ MarkPublished(call[h].rel)
  /\ End(h)
  /\ UNCHANGED <<artifacts, pointer, history, movesTold>>

PublishReads(h, r) ==
  /\ r \in Direct
  /\ status[r] = "draft"
  /\ Begin(h, [Idle EXCEPT !.op = "publish", !.step = "read", !.rel = r])
  /\ UNCHANGED <<status, artifacts, pointer, history, announced, movesTold>>

\* Mutant: the event is left to a transaction of its own, which never comes.
PublishesQuietly(h) ==
  /\ call[h].op = "publish" /\ ~Locked(call[h].rel)
  /\ status' = [status EXCEPT ![call[h].rel] = "published"]
  /\ End(h)
  /\ UNCHANGED <<artifacts, pointer, history, announced, movesTold>>

\* mark_published tests the status that was read and updates the row by id.
PublishCommits(h) ==
  /\ call[h].op = "publish" /\ ~Locked(call[h].rel)
  /\ MarkPublished(call[h].rel)
  /\ End(h)
  /\ UNCHANGED <<artifacts, pointer, history, movesTold>>

\* Mutant: any release can be yanked.
YanksDrafts(h, r) ==
  /\ status[r] # "absent"
  /\ Begin(h, [Idle EXCEPT !.op = "yank", !.step = "read", !.rel = r])
  /\ UNCHANGED <<status, artifacts, pointer, history, announced, movesTold>>

YankReads(h, r) ==
  /\ status[r] = "published"
  /\ Begin(h, [Idle EXCEPT !.op = "yank", !.step = "read", !.rel = r])
  /\ UNCHANGED <<status, artifacts, pointer, history, announced, movesTold>>

YankCommits(h) ==
  /\ call[h].op = "yank" /\ ~Locked(call[h].rel)
  /\ status' = [status EXCEPT ![call[h].rel] = "yanked"]
  /\ End(h)
  /\ UNCHANGED <<artifacts, pointer, history, announced, movesTold>>

----------------------------------------------------------------------------
(* Channel pointers.                                                       *)

CanMove(c) == Len(history[c]) < MaxMoves

\* Mutant: any release can be promoted.
PromotesAnything(h, c, r) ==
  /\ status[r] # "absent"
  /\ Begin(h, [op |-> "promote", step |-> "chosen", rel |-> r, chan |-> c, found |-> None])
  /\ UNCHANGED <<status, artifacts, pointer, history, announced, movesTold>>

PromoteReads(h, c, r) ==
  /\ status[r] = "published"
  /\ Begin(h, [op |-> "promote", step |-> "chosen", rel |-> r, chan |-> c, found |-> None])
  /\ UNCHANGED <<status, artifacts, pointer, history, announced, movesTold>>

\* A rollback to a named version does not look at the status of that release.
RollbackReads(h, c, r) ==
  /\ status[r] # "absent"
  /\ Begin(h, [op |-> "rollback", step |-> "chosen", rel |-> r, chan |-> c, found |-> None])
  /\ UNCHANGED <<status, artifacts, pointer, history, announced, movesTold>>

RevertReadsPointer(h, c) ==
  /\ pointer[c] # None
  /\ Begin(h, [op |-> "revert", step |-> "read", rel |-> None, chan |-> c, found |-> pointer[c]])
  /\ UNCHANGED <<status, artifacts, pointer, history, announced, movesTold>>

IsLastOther(c, current, i) ==
  /\ history[c][i].rel # current
  /\ \A j \in DOMAIN history[c] : j > i => history[c][j].rel = current

\* Mutant: it goes back to another published release, served here or not.
EarlierPublished(c, current) ==
  {r \in Releases \ {current} : Len(history[c]) > 1 /\ status[r] = "published"}

\* The latest move to another release, if there is one: ORDER BY .. LIMIT 1.
Earlier(c, current) ==
  {history[c][i].rel : i \in {i \in DOMAIN history[c] : IsLastOther(c, current, i)}}

RevertReadsHistory(h) ==
  /\ call[h].op = "revert" /\ call[h].step = "read"
  /\ \/ /\ Earlier(call[h].chan, call[h].found) = {}   \* nothing_to_rollback
        /\ End(h)
     \/ \E r \in Earlier(call[h].chan, call[h].found) :
          call' = [call EXCEPT ![h].step = "chosen", ![h].rel = r]
  /\ UNCHANGED <<status, artifacts, pointer, history, announced, movesTold>>

\* apply_pointer_move looks the pointer up before it updates or inserts it.
MoveReadsPointer(h) ==
  /\ call[h].step = "chosen"
  /\ call' = [call EXCEPT ![h].step = "moving", ![h].found = pointer[call[h].chan]]
  /\ UNCHANGED <<status, artifacts, pointer, history, announced, movesTold>>

Inserts(h)       == call[h].found = None
PointerExists(h) == pointer[call[h].chan] # None

\* The row of the pointer is locked before the history row takes its time
\* stamp, so that the history is in the order of the commits.
MoveCommits(h) ==
  LET c == call[h].chan r == call[h].rel
  IN /\ call[h].step = "moving" /\ CanMove(c) /\ ~Locked(r)
     /\ Inserts(h) => ~PointerExists(h)
     /\ pointer' = [pointer EXCEPT ![c] = r]
     /\ history' = [history EXCEPT ![c] = Append(@, [rel |-> r, op |-> call[h].op])]
     /\ movesTold' = [movesTold EXCEPT ![c] = @ + 1]
     /\ End(h)
     /\ UNCHANGED <<status, artifacts, announced>>

\* Mutant: INSERT ... ON CONFLICT DO NOTHING, and the history row all the same.
InsertIsSkipped(h) ==
  LET c == call[h].chan
  IN /\ call[h].step = "moving" /\ CanMove(c)
     /\ Inserts(h) /\ PointerExists(h)
     /\ history' = [history EXCEPT ![c] = Append(@, [rel |-> call[h].rel, op |-> call[h].op])]
     /\ movesTold' = [movesTold EXCEPT ![c] = @ + 1]
     /\ End(h)
     /\ UNCHANGED <<status, artifacts, pointer, announced>>

\* Two first moves of a channel: the second insert hits the primary key.
MoveConflicts(h) ==
  /\ call[h].step = "moving"
  /\ Inserts(h) /\ PointerExists(h)
  /\ End(h)
  /\ UNCHANGED <<status, artifacts, pointer, history, announced, movesTold>>

\* The client disconnects or the server stops: the handler's future is dropped
\* and an open transaction rolls back.
Dropped(h) ==
  /\ call[h] # Idle
  /\ End(h)
  /\ UNCHANGED <<status, artifacts, pointer, history, announced, movesTold>>

----------------------------------------------------------------------------

ReleaseNext ==
  \/ \E r \in Releases : CreateRelease(r) \/ UploadArtifact(r)
  \/ \E h \in Handlers :
       \/ \E r \in Releases : FinalizeLocks(h, r) \/ PublishReads(h, r) \/ YankReads(h, r)
       \/ FinalizeCommits(h)
       \/ PublishCommits(h)
       \/ YankCommits(h)

ChannelNext ==
  \E h \in Handlers :
    \/ \E c \in Channels :
         \/ \E r \in Releases : PromoteReads(h, c, r) \/ RollbackReads(h, c, r)
         \/ RevertReadsPointer(h, c)
    \/ RevertReadsHistory(h)
    \/ MoveReadsPointer(h)
    \/ MoveCommits(h)
    \/ MoveConflicts(h)

Next ==
  \/ ReleaseNext
  \/ ChannelNext
  \/ \E h \in Handlers : Dropped(h)

Spec == Init /\ [][Next]_vars

----------------------------------------------------------------------------
(* Properties.                                                             *)

Statuses == {"absent", "draft", "published", "yanked"}
Calls == [op : {"none", "finalize", "publish", "yank"} \cup Moves,
          step : {"idle", "read", "chosen", "moving"},
          rel : Releases \cup {None}, chan : Channels \cup {None},
          found : Releases \cup {None}]

\* The type invariant of the tables and of the handlers in flight.
TypeOK ==
  /\ status \in [Releases -> Statuses]
  /\ artifacts \subseteq Releases
  /\ pointer \in [Channels -> Releases \cup {None}]
  /\ history \in [Channels -> Seq([rel : Releases, op : Moves])]
  /\ announced \in [Releases -> Nat]
  /\ movesTold \in [Channels -> Nat]
  /\ call \in [Handlers -> Calls]

\* The history is the source of truth of what a channel served: its last row is
\* the pointer, however concurrent promotes and rollbacks interleave.
PointerIsLastMove ==
  \A c \in Channels :
    pointer[c] = IF history[c] = <<>> THEN None ELSE Last(history[c]).rel

\* An event is in the outbox if and only if its transaction committed: no draft
\* was announced, nothing was published silently, every move was told.
EventsMatchState ==
  /\ \A r \in Releases : announced[r] = 0 <=> status[r] \in {"absent", "draft"}
  /\ \A c \in Channels : movesTold[c] = Len(history[c])

\* A rollback without a version never takes a channel to a release it has not
\* served, whatever is promoted between the handler's two reads and its commit.
RevertsToServedRelease ==
  \A c \in Channels : \A i \in DOMAIN history[c] :
    history[c][i].op = "revert" => \E j \in 1..(i - 1) : history[c][j].rel = history[c][i].rel

\* A channel points at a draft only if a rollback named that version once.
OnlyRollbackPinsDrafts ==
  \A c \in Channels : pointer[c] # None /\ status[pointer[c]] = "draft" =>
    \E i \in DOMAIN history[c] : history[c][i] = [rel |-> pointer[c], op |-> "rollback"]

\* The lock of finalize prevents a double publish and a double notification:
\* a release that several callers finalize at once is announced once, as long
\* as nobody publishes it by the other endpoint.
AnnouncedOnce == \A r \in Releases \ Direct : announced[r] <= 1

StaysYanked(r) == status[r] = "yanked" => status'[r] = "yanked"

\* A yanked release stays yanked, where it is published by finalize only.
FinalizedStaysYanked == [][\A r \in Releases \ Direct : StaysYanked(r)]_vars

\* Although every handler reads in one transaction, or in none, and writes in
\* another, what it does is one operation of ReleaseBoard, carried out at its
\* commit under that operation's conditions; all other steps change nothing there.
Board == INSTANCE ReleaseBoard WITH told <- movesTold

BoardIsKept == Board!Spec

\* A yanked release stays yanked: "cannot publish a yanked release".
YankedIsFinal == [][\A r \in Releases : StaysYanked(r)]_vars

\* "only a published release can be promoted".
PromotesPublished ==
  [][\A c \in Channels : history'[c] # history[c] /\ Last(history'[c]).op = "promote" =>
       status[Last(history'[c]).rel] = "published"]_vars
=============================================================================
