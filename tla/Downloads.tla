------------------------------ MODULE Downloads ------------------------------
(***************************************************************************)
(* Where the bytes of a published release come from: the update check of   *)
(* the Android clients (routes/updates.rs), the public catalog and the     *)
(* download entry (routes/download.rs), over one artifact that may have an *)
(* object in the storage and a mirror on GitHub (routes/uploads.rs).       *)
(*                                                                         *)
(* A mirror is shown only after a probe found it public and with the        *)
(* artifact's digest, or with its length when GitHub tells no digest; the   *)
(* answer is kept for a while in a cache whose slots are locked one by one  *)
(* (services/mirror.rs). A request reads the release, the artifact and the  *)
(* source configuration one after the other and may wait for a slot or for  *)
(* GitHub: all of it changes meanwhile.                                     *)
(***************************************************************************)
EXTENDS Integers, Sequences, FiniteSets

CONSTANTS
  Requests,           \* requests in flight at once
  Bytes,              \* contents of a file; a digest stands for its content
  Size,               \* the length of each
  Published,          \* those of them the artifact may have been published with
  Uploads,            \* those of them it may be uploaded or registered with later
  Urls,               \* GitHub release assets
  None,               \* no mirror; an asset that is not public
  MaxChanges,         \* bound on changes by operators and on faults
  MaxEvictions        \* bound on how often the cache is cleared for being full

ASSUME DownloadsAssumption ==
  /\ Published \subseteq Bytes /\ Uploads \subseteq Bytes
  /\ None \notin Bytes \cup Urls \cup {"oss", "github"}
  /\ Size \in [Bytes -> Nat]
  /\ MaxChanges \in Nat /\ MaxEvictions \in Nat

VARIABLES
  status,      \* release.status of the release the channel points at
  row,         \* its artifact
  asset,       \* what GitHub serves at each url, and whether it tells its digest
  source,      \* github_source; no row counts as enabled and not preferred
  slots,       \* MirrorCache.slots: the artifact's entry, by generation of the map
  generation,  \* how often the map was cleared
  request,     \* the requests in flight and what they have read
  changes,     \* changes and faults so far
  uploaded,    \* history: the contents that complete verified in the storage
  seen         \* history: url and asset of every probe that found one

program == <<status, row, asset, source, slots, generation, changes>>
vars == <<program, request, uploaded, seen>>

Kinds   == {"offer", "download"}
Sources == {"oss", "github"}

NotPublic == [bytes |-> None, digest |-> TRUE]
Assets    == [bytes : Bytes, digest : BOOLEAN] \cup {NotPublic}

NoEntry == [url |-> None, sha |-> None, live |-> FALSE, fresh |-> FALSE]
NoRow   == [object |-> FALSE, sha |-> None, mirror |-> None]

\* An offer is an update check or a row of the catalog, which read and decide the
\* same. asked: ?source=. row: the artifact as read. order: the sources still to
\* be tried. slot: the generation of the slot it took. github: what is_mirror_live
\* answered. sources: those of the response; the first is that of the bare link,
\* which mirror_urls leaves out.
Idle == [step |-> "idle", kind |-> "offer", asked |-> None, row |-> NoRow, order |-> <<>>,
         slot |-> 0, github |-> FALSE, sources |-> <<>>]

\* finalize asks for an artifact: one was uploaded, or registered with a mirror,
\* whose GitHub release may still be a draft.
Init ==
  /\ status = "published"
  /\ \E b \in Published :
       /\ row \in {[object |-> TRUE, sha |-> b, mirror |-> None]}
                    \cup [object : {FALSE}, sha : {b}, mirror : Urls]
       /\ uploaded = IF row.object THEN {b} ELSE {}
       /\ asset \in [Urls -> {NotPublic, [bytes |-> b, digest |-> TRUE]}]
  /\ source \in [enabled : {TRUE}, prefers : BOOLEAN]
  /\ slots = [g \in 0..MaxEvictions |-> NoEntry]
  /\ generation = 0
  /\ request = [q \in Requests |-> Idle]
  /\ changes = 0
  /\ seen = {}

----------------------------------------------------------------------------
(* Operators, GitHub and time.                                             *)

Changes == changes < MaxChanges /\ changes' = changes + 1

\* upsert_artifact with an object: it decides what the bytes are, and keeps the
\* mirror unless it brings one.
CompleteUpload(b, url) ==
  /\ Changes
  /\ row' = [object |-> TRUE, sha |-> b, mirror |-> IF url = None THEN row.mirror ELSE url]
  /\ uploaded' = uploaded \cup {b}
  /\ UNCHANGED <<status, asset, source, slots, generation, request, seen>>

\* Mutant: what is registered describes the bytes, also of an uploaded object.
RegisterDescribes(b, url) ==
  /\ Changes
  /\ row' = [row EXCEPT !.mirror = url, !.sha = b]
  /\ UNCHANGED <<status, asset, source, slots, generation, request, uploaded, seen>>

\* upsert_artifact without an object only attaches the mirror, whatever digest
\* b the caller tells.
RegisterArtifact(b, url) ==
  /\ Changes
  /\ row' = [row EXCEPT !.mirror = url]
  /\ UNCHANGED <<status, asset, source, slots, generation, request, uploaded, seen>>

\* put_source sets what it is given and keeps the rest; delete_source.
EditSource ==
  /\ Changes
  /\ source' \in [enabled : BOOLEAN, prefers : BOOLEAN]
  /\ UNCHANGED <<status, row, asset, slots, generation, request, uploaded, seen>>

Yank ==
  /\ Changes
  /\ status = "published"
  /\ status' = "yanked"
  /\ UNCHANGED <<row, asset, source, slots, generation, request, uploaded, seen>>

\* A GitHub release is published, its asset replaced or removed.
AssetChanges(u, a) ==
  /\ Changes
  /\ asset' = [asset EXCEPT ![u] = a]
  /\ UNCHANGED <<status, row, source, slots, generation, request, uploaded, seen>>

\* VERIFY_TTL has passed since the entry was written.
Expire(g) ==
  /\ slots[g].fresh
  /\ slots' = [slots EXCEPT ![g].fresh = FALSE]
  /\ UNCHANGED <<status, row, asset, source, generation, request, changes, uploaded, seen>>

Held(g) == \E q \in Requests : request[q].step \in {"slot", "probe"} /\ request[q].slot = g

\* A request for another artifact finds MAX_SLOTS slots and clears the map:
\* whoever holds a slot goes on with that one.
Evict ==
  /\ Changes
  /\ generation < MaxEvictions
  /\ generation' = generation + 1
  /\ slots' = [slots EXCEPT ![generation] = IF Held(generation) THEN @ ELSE NoEntry]
  /\ UNCHANGED <<status, row, asset, source, request, uploaded, seen>>

----------------------------------------------------------------------------
(* Requests.                                                               *)

Becomes(q, r) ==
  /\ request' = [request EXCEPT ![q] = r]
  /\ UNCHANGED <<program, uploaded, seen>>

\* An explicit ?source= comes before the preference, and that before the default.
SourceOrder(asked, prefers, oss, github) ==
  IF asked = "github" \/ (asked = None /\ prefers) THEN github \o oss ELSE oss \o github

If(condition, s) == IF condition THEN <<s>> ELSE <<>>

\* In the order in which they are tried, without those that the rows rule out.
Candidates(art, src, asked) ==
  SourceOrder(asked, src.prefers,
              If(art.object, "oss"), If(art.mirror # None /\ src.enabled, "github"))

Lists(order, s) == \E i \in DOMAIN order : order[i] = s

\* What remains of the candidates when GitHub's is live, or is not.
Usable(order, live) == IF live THEN order ELSE If(Lists(order, "oss"), "oss")

\* Mutant: the sources of an offer are listed in the default order.
AnswersInDefaultOrder(r, github) ==
  LET usable == Usable(Candidates(r.row, [enabled |-> TRUE, prefers |-> FALSE], None), github)
  IN IF Usable(r.order, github) = <<>> THEN Idle
     ELSE [r EXCEPT !.step = "answered", !.slot = 0, !.github = github, !.sources = usable]

\* Without any usable source there is no update, and the catalog leaves it out.
Answer(r, github) ==
  LET usable == Usable(r.order, github)
  IN IF usable = <<>> THEN Idle
     ELSE [r EXCEPT !.step = "answered", !.slot = 0, !.github = github, !.sources = usable]

\* resolve_and_redirect: the next candidate, and 409 after the last one. The slot
\* is taken out of the map before its lock is waited for.
TryNext(r) ==
  IF r.order = <<>> THEN [r EXCEPT !.step = "answered", !.slot = 0]
  ELSE IF Head(r.order) = "oss" THEN [r EXCEPT !.step = "backend", !.slot = 0]
  ELSE [r EXCEPT !.step = "slot", !.slot = generation]

Redirect(r, s) ==
  [r EXCEPT !.step = "answered", !.slot = 0, !.order = <<>>, !.github = (s = "github"), !.sources = <<s>>]

\* is_mirror_live has answered.
GoOn(r, live) ==
  IF r.kind # "download" THEN Answer(r, live)
  ELSE IF live THEN Redirect(r, "github")
  ELSE TryNext([r EXCEPT !.order = Tail(@)])

\* The release and its artifact are read in one step: nothing but Yank writes
\* the status, and Yank writes nothing else. An offer is only made of what is
\* published, a download of what is not yanked.
ReadsRow(q, kind, asked) ==
  /\ request[q] = Idle
  /\ status = "published"
  /\ Becomes(q, [Idle EXCEPT !.step = "source", !.kind = kind, !.asked = asked, !.row = row])

\* 404, and no update.
Gone(q) == request[q] = Idle /\ status = "yanked" /\ UNCHANGED vars

ReadsSource(q) ==
  LET r == [request[q] EXCEPT !.order = Candidates(request[q].row, source, request[q].asked),
                              !.asked = None]
  IN /\ request[q].step = "source"
     /\ Becomes(q, IF r.kind = "download" THEN TryNext(r)
                   ELSE IF Lists(r.order, "github")
                        THEN [r EXCEPT !.step = "slot", !.slot = generation]
                        ELSE Answer(r, FALSE))

BackendAnswers(q) ==
  /\ request[q].step = "backend"
  /\ Becomes(q, Redirect(request[q], "oss"))

\* The handle is not loaded, or signing fails: the next candidate is tried.
BackendFails(q) ==
  /\ request[q].step = "backend"
  /\ Changes
  /\ request' = [request EXCEPT ![q] = TryNext([request[q] EXCEPT !.order = Tail(@)])]
  /\ UNCHANGED <<status, row, asset, source, slots, generation, uploaded, seen>>

Locked(g) == \E q \in Requests : request[q].step = "probe" /\ request[q].slot = g

\* Mutants: the fingerprint is not compared; a negative entry does not expire; a
\* positive one does not.
HitsAny(entry, art) == entry.fresh
NegativeStays(entry, art) ==
  (entry.fresh \/ ~entry.live) /\ entry.url = art.mirror /\ entry.sha = art.sha
PositiveStays(entry, art) ==
  (entry.fresh \/ entry.live) /\ entry.url = art.mirror /\ entry.sha = art.sha

\* The entry is not older than VERIFY_TTL and has the artifact's fingerprint.
Hits(entry, art) == entry.fresh /\ entry.url = art.mirror /\ entry.sha = art.sha

\* Mutant: the lock of the slot is let go for the probe.
TakesUnlocked(q) ==
  LET r == request[q] entry == slots[r.slot]
  IN /\ r.step = "slot"
     /\ Becomes(q, IF Hits(entry, r.row) THEN GoOn(r, entry.live) ELSE [r EXCEPT !.step = "probe"])

\* With the lock of the slot: an entry that hits is the answer, and with none
\* the lock is kept for the probe.
TakesSlot(q) ==
  LET r == request[q] entry == slots[r.slot]
  IN /\ r.step = "slot" /\ ~Locked(r.slot)
     /\ Becomes(q, IF Hits(entry, r.row) THEN GoOn(r, entry.live) ELSE [r EXCEPT !.step = "probe"])

\* The probe's answer is stored and used.
Stores(q, live) ==
  LET r == request[q]
  IN /\ slots' = [slots EXCEPT ![r.slot] =
                    [url |-> r.row.mirror, sha |-> r.row.sha, live |-> live, fresh |-> TRUE]]
     /\ request' = [request EXCEPT ![q] = GoOn(r, live)]

\* A mirror must be public and have the digest of the artifact, or its size when
\* GitHub tells no digest.
Matches(a, sha) ==
  /\ a.bytes # None
  /\ IF a.digest THEN a.bytes = sha ELSE Size[a.bytes] = Size[sha]

ProbeAnswers(q) ==
  LET r == request[q]
  IN /\ r.step = "probe"
     /\ Stores(q, Matches(asset[r.row.mirror], r.row.sha))
     /\ seen' = IF asset[r.row.mirror] = NotPublic THEN seen
                ELSE seen \cup {<<r.row.mirror, asset[r.row.mirror]>>}
     /\ UNCHANGED <<status, row, asset, source, generation, changes, uploaded>>

\* Rate limit, timeout, an answer that does not parse: not live.
ProbeFails(q) ==
  /\ request[q].step = "probe"
  /\ Changes
  /\ Stores(q, FALSE)
  /\ UNCHANGED <<status, row, asset, source, generation, uploaded, seen>>

\* The response is sent; or the client has gone and the handler is dropped, with
\* the lock it holds.
Ends(q) == request[q].step = "answered" /\ Becomes(q, Idle)
Dropped(q) == request[q].step \notin {"idle", "answered"} /\ Becomes(q, Idle)

----------------------------------------------------------------------------

Progress(q) ==
  ReadsSource(q) \/ BackendAnswers(q) \/ TakesSlot(q) \/ ProbeAnswers(q) \/ Ends(q)

RequestNext(q) ==
  \/ ReadsRow(q, "offer", None)
  \/ \E a \in Sources \cup {None} : ReadsRow(q, "download", a)
  \/ Gone(q) \/ Progress(q)
  \/ BackendFails(q) \/ ProbeFails(q) \/ Dropped(q)

Operators ==
  \/ \E b \in Uploads : \/ \E u \in Urls \cup {None} : CompleteUpload(b, u)
                        \/ \E u \in Urls : RegisterArtifact(b, u)
  \/ EditSource \/ Yank

Environment ==
  \/ \E u \in Urls, a \in Assets : AssetChanges(u, a)
  \/ \E g \in 0..MaxEvictions : Expire(g)
  \/ Evict

Next == Operators \/ Environment \/ \E q \in Requests : RequestNext(q)

\* Time passes, and handlers in flight are carried on by the runtime; nobody has
\* to ask.
Fairness ==
  /\ \A g \in 0..MaxEvictions : WF_vars(Expire(g))
  /\ \A q \in Requests : WF_vars(Progress(q))

Spec == Init /\ [][Next]_vars /\ Fairness

----------------------------------------------------------------------------
(* Properties.                                                             *)

Rows    == [object : BOOLEAN, sha : Bytes, mirror : Urls \cup {None}]
Entries == [url : Urls \cup {None}, sha : Bytes \cup {None}, live : BOOLEAN, fresh : BOOLEAN]
Steps   == {"idle", "source", "backend", "slot", "probe", "answered"}
Calls   == [step : Steps, kind : Kinds, asked : Sources \cup {None}, row : Rows \cup {NoRow},
            order : Seq(Sources), slot : 0..MaxEvictions, github : BOOLEAN, sources : Seq(Sources)]

\* The type invariant: only what has a mirror is ever probed.
TypeOK ==
  /\ status \in {"published", "yanked"}
  /\ row \in Rows
  /\ asset \in [Urls -> Assets]
  /\ source \in [enabled : BOOLEAN, prefers : BOOLEAN]
  /\ slots \in [0..MaxEvictions -> Entries]
  /\ generation \in 0..MaxEvictions
  /\ request \in [Requests -> Calls]
  /\ \A q \in Requests : request[q].step \in {"slot", "probe"} => request[q].row.mirror # None
  /\ changes \in Nat
  /\ uploaded \subseteq Bytes
  /\ seen \subseteq Urls \X (Assets \ {NotPublic})

Exposes(q) == request[q].step = "answered" /\ request[q].github

\* Nothing that GitHub tells of asset a speaks against the digest b: the digest,
\* when there is one, and the length.
Describes(a, b) == Size[a.bytes] = Size[b] /\ (a.digest => a.bytes = b)

\* With entries of other digests in the cache, uploads during a probe and a map
\* cleared under it, no mirror is exposed unless a probe found a public asset at
\* that url and nothing that GitHub told of it spoke against the digest shown
\* beside it. Without a digest that is no more than the length.
MirrorWasVerified ==
  \A q \in Requests : Exposes(q) =>
    \E a \in Assets : <<request[q].row.mirror, a>> \in seen /\ Describes(a, request[q].row.sha)

\* Before a mirror is exposed, "the server SHALL verify that the asset is
\* anonymously reachable AND that its digest matches": more than the code does.
DigestWasVerified ==
  \A q \in Requests : Exposes(q) =>
    <<request[q].row.mirror, [bytes |-> request[q].row.sha, digest |-> TRUE]>> \in seen

\* Uploads are the authority on the bytes: the digest beside an object is always
\* one that was verified in the storage, whatever is registered over it.
HashWasVerified == row.object => row.sha \in uploaded

\* What a request would be redirected to now, without waiting for GitHub.
Leads(asked) ==
  LET usable == Usable(Candidates(row, source, asked),
                       Hits(slots[generation], row) /\ slots[generation].live)
  IN IF usable = <<>> THEN None ELSE Head(usable)

\* Nothing the answer rests on has changed since it was read.
UpToDate(q) ==
  LET r == request[q] entry == slots[generation]
  IN /\ r.step = "answered" /\ status = "published"
     /\ r.row = row /\ r.order = Candidates(row, source, None)
     /\ Lists(r.order, "github") => Hits(entry, row) /\ entry.live = r.github

\* Check, catalog and download agree: the bare link of an offer leads somewhere,
\* and not to one of its mirrors; that of a catalog row leads to the source it
\* lists first; and every link with a source leads to that source.
LinksLead ==
  \A q \in Requests : UpToDate(q) /\ request[q].kind = "offer" =>
    LET listed == request[q].sources
    IN /\ Leads(None) = Head(listed)
       /\ \A i \in DOMAIN listed : Leads(listed[i]) = listed[i] /\ (i > 1 => listed[i] # Leads(None))

\* What GitHub serves now, as far as it tells.
MirrorDescribes ==
  row.mirror # None /\ asset[row.mirror] # NotPublic /\ Describes(asset[row.mirror], row.sha)

\* "Once the release is promoted to public, the source is exposed": the answer
\* that a draft got is not kept, and every later request for the mirror is sent to it.
DraftWindowEnds ==
  LET Redirected(q, to) == request[q].kind = "download" /\ request[q].step = "answered"
                           /\ request[q].sources = to
  IN (<>[](MirrorDescribes /\ source.enabled) /\ []<>(\E q \in Requests : Redirected(q, <<>>)))
       => []<>(\E q \in Requests : Redirected(q, <<"github">>))

\* A mirror that GitHub no longer has, or of which it tells another digest, or
\* without a digest another length, stops being exposed for good, whether the
\* asset was replaced or the artifact uploaded anew.
VisibleDriftStopsExposure == <>[]~MirrorDescribes => <>[](\A q \in Requests : ~Exposes(q))

MirrorHasBytes == row.mirror # None /\ asset[row.mirror].bytes = row.sha

\* "Digest drift stops exposure": a mirror whose "asset has been replaced with
\* different bytes [...] is no longer exposed", also when GitHub tells no digest:
\* more than the code does.
DriftStopsExposure == <>[]~MirrorHasBytes => <>[](\A q \in Requests : ~Exposes(q))

\* What a re-upload without a mirror leaves of the old one: "the stored mirror_url
\* is cleared", says the specification; upsert_artifact keeps it.
ReuploadClearsMirror == [][\A b \in Bytes : CompleteUpload(b, None) => row'.mirror = None]_vars

Probing == {q \in Requests : request[q].step = "probe"}

\* "At most one outbound probe is in flight per artifact."
OneProbe == Cardinality(Probing) <= 1

\* Single flight as far as the code keeps it: each time the map is cleared under a
\* probe adds one probe at most, however many requests come at once.
ProbesAreBounded == Cardinality(Probing) <= generation + 1
=============================================================================
