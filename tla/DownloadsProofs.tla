--------------------------- MODULE DownloadsProofs ---------------------------
(***************************************************************************)
(* Proofs about Downloads, for any number of requests, contents and GitHub *)
(* assets, of changes and of evictions. Most steps belong to one request:  *)
(* what it has read is Good before the step and after it, and the cache    *)
(* learns something only from a probe.                                     *)
(***************************************************************************)
EXTENDS Downloads, FiniteSetTheorems, SequenceTheorems, TLAPS

\* Of the assets that probes saw, one at that url does not speak against the digest.
Backed(url, sha, v) == \E a \in Assets : <<url, a>> \in v /\ Describes(a, sha)

\* What a request has read, when the probes saw what is in v: it goes to GitHub
\* only for a mirror, tries a candidate only while there is one, and says that
\* a mirror is live only in an answer, and when a probe backs it.
Good(r, v) ==
  /\ r \in Calls
  /\ r.step \in {"slot", "probe"} => r.row.mirror # None
  /\ Lists(r.order, "github") => r.row.mirror # None
  /\ r.step = "backend" => r.kind = "download"
  /\ r.kind = "download" /\ r.step \in {"backend", "slot", "probe"} => r.order # <<>>
  /\ r.github => r.step = "answered" /\ Backed(r.row.mirror, r.row.sha, v)
  /\ r.step = "answered" /\ r.kind # "download" =>
       r.sources = Usable(r.order, r.github) /\ r.sources # <<>>

\* A live entry, of whatever generation and age, is backed by a probe.
EntriesAreBacked ==
  \A g \in 0..MaxEvictions : slots[g].live => Backed(slots[g].url, slots[g].sha, seen)

IInv ==
  /\ TypeOK
  /\ \A q \in Requests : Good(request[q], seen)
  /\ EntriesAreBacked

----------------------------------------------------------------------------
(* The operators on a request.                                             *)

LEMMA IdleIsGood == ASSUME NEW v PROVE Good(Idle, v)
<1>1. None \notin Urls /\ 0 \in 0..MaxEvictions BY DownloadsAssumption
<1>2. Idle \in Calls BY <1>1, EmptySeq DEF Idle, NoRow, Calls, Rows, Steps, Kinds, Sources
<1> QED BY <1>2 DEF Good, Idle, Lists

LEMMA IfIsSource ==
  ASSUME NEW condition, NEW s \in Sources
  PROVE  If(condition, s) \in Seq(Sources) /\ If(condition, s) \in {<<>>, <<s>>}
<1>1. <<>> \in Seq(Sources) /\ <<s>> \in Seq(Sources) BY EmptySeq
<1>2. CASE condition BY <1>1, <1>2 DEF If
<1>3. CASE ~condition BY <1>1, <1>3 DEF If
<1> QED BY <1>2, <1>3

\* What becomes of the candidates stays a sequence of sources.
LEMMA CandidatesAreSources ==
  ASSUME NEW art, NEW src, NEW asked
  PROVE  /\ Candidates(art, src, asked) \in Seq(Sources)
         /\ Lists(Candidates(art, src, asked), "github") => art.mirror # None
<1> DEFINE oss == If(art.object, "oss")
           github == If(art.mirror # None /\ src.enabled, "github")
<1>1. oss \in Seq(Sources) /\ oss \in {<<>>, <<"oss">>} BY IfIsSource DEF Sources
<1>2. github \in Seq(Sources) BY IfIsSource DEF Sources
<1>7. art.mirror = None => github = <<>> BY DEF If
<1> HIDE DEF oss, github
<1>3. ~Lists(oss, "github") BY <1>1 DEF Lists
<1>4. Candidates(art, src, asked) \in {oss \o github, github \o oss}
  BY DEF Candidates, SourceOrder, oss, github
<1>5. oss \o github \in Seq(Sources) /\ github \o oss \in Seq(Sources) BY <1>1, <1>2
<1>6. ASSUME art.mirror = None PROVE oss \o github = oss /\ github \o oss = oss
  BY <1>1, <1>6, <1>7
<1> QED BY <1>3, <1>4, <1>5, <1>6

LEMMA UsableAreSources ==
  ASSUME NEW order \in Seq(Sources), NEW live
  PROVE  Usable(order, live) \in Seq(Sources)
<1>1. If(Lists(order, "oss"), "oss") \in Seq(Sources) BY IfIsSource DEF Sources
<1>2. CASE live BY <1>2 DEF Usable
<1>3. CASE ~live BY <1>1, <1>3 DEF Usable
<1> QED BY <1>2, <1>3

LEMMA TryNextGood ==
  ASSUME NEW v, NEW r \in Calls, generation \in 0..MaxEvictions, ~r.github, r.kind = "download",
         Lists(r.order, "github") => r.row.mirror # None
  PROVE  Good(TryNext(r), v)
<1>1. 0 \in 0..MaxEvictions BY DownloadsAssumption
<1>2. CASE r.order = <<>>
  BY <1>1, <1>2 DEF TryNext, Good, Calls, Steps
<1>3. CASE r.order # <<>>
  <2>1. Head(r.order) \in Sources /\ 1 \in DOMAIN r.order /\ Head(r.order) = r.order[1]
    BY <1>3 DEF Calls
  <2>2. CASE Head(r.order) = "oss"
    BY <1>1, <1>3, <2>2 DEF TryNext, Good, Calls, Steps
  <2>3. CASE Head(r.order) = "github"
    <3>1. r.row.mirror # None BY <2>1, <2>3 DEF Lists
    <3> QED BY <1>3, <2>3, <3>1 DEF TryNext, Good, Calls, Steps
  <2> QED BY <2>1, <2>2, <2>3 DEF Sources
<1> QED BY <1>2, <1>3

LEMMA AnswerGood ==
  ASSUME NEW v, NEW r, Good(r, v), NEW live \in BOOLEAN, live => Backed(r.row.mirror, r.row.sha, v)
  PROVE  Good(Answer(r, live), v)
<1>1. Usable(r.order, live) \in Seq(Sources) BY UsableAreSources DEF Good, Calls
<1>2. 0 \in 0..MaxEvictions BY DownloadsAssumption
<1>3. CASE Usable(r.order, live) = <<>> BY <1>3, IdleIsGood DEF Answer
<1>4. CASE Usable(r.order, live) # <<>>
  BY <1>1, <1>2, <1>4 DEF Answer, Good, Calls, Steps
<1> QED BY <1>3, <1>4

LEMMA RedirectGood ==
  ASSUME NEW v, NEW r, Good(r, v), r.kind = "download", NEW s \in Sources, s = "github" => Backed(r.row.mirror, r.row.sha, v)
  PROVE  Good(Redirect(r, s), v)
<1>1. 0 \in 0..MaxEvictions BY DownloadsAssumption
<1>2. <<>> \in Seq(Sources) /\ <<s>> \in Seq(Sources) OBVIOUS
<1> DEFINE t == Redirect(r, s)
<1>3. r \in Calls BY DEF Good
<1>4. /\ t \in Calls /\ t.step = "answered" /\ t.order = <<>> /\ t.row = r.row
      /\ t.github = (s = "github") /\ t.kind = "download"
  BY <1>1, <1>2, <1>3 DEF Redirect, Calls, Steps
<1>5. ~Lists(<<>>, "github") BY DEF Lists
<1> HIDE DEF t
<1>6. Good(t, v) BY <1>4, <1>5 DEF Good
<1> QED BY <1>6 DEF t

\* After a candidate that cannot be used.
LEMMA SkipGood ==
  ASSUME NEW v, NEW r, Good(r, v), generation \in 0..MaxEvictions,
         r.kind = "download", r.step \in {"backend", "slot", "probe"}
  PROVE  Good(TryNext([r EXCEPT !.order = Tail(@)]), v)
<1> DEFINE t == [r EXCEPT !.order = Tail(@)]
<1>1. r.order \in Seq(Sources) /\ r.order # <<>> BY DEF Good, Calls
<1>2. Tail(r.order) \in Seq(Sources) BY <1>1
<1>3. t \in Calls /\ ~t.github BY <1>2 DEF Good, Calls
<1>4. Lists(t.order, "github") => Lists(r.order, "github")
  <2> SUFFICES ASSUME Lists(Tail(r.order), "github") PROVE Lists(r.order, "github")
    BY DEF Good, Calls
  <2>1. PICK i \in DOMAIN Tail(r.order) : Tail(r.order)[i] = "github" BY DEF Lists
  <2>2. i + 1 \in DOMAIN r.order /\ r.order[i + 1] = "github" BY <1>1, <2>1
  <2> QED BY <2>2 DEF Lists
<1>5. t.row = r.row BY DEF Good, Calls
<1> HIDE DEF t
<1>7. Lists(r.order, "github") => r.row.mirror # None BY DEF Good
<1>8. t.kind = "download" BY DEF t, Good, Calls
<1>6. Good(TryNext(t), v) BY <1>3, <1>4, <1>5, <1>7, <1>8, TryNextGood
<1> QED BY <1>6 DEF t

LEMMA GoOnGood ==
  ASSUME NEW v, NEW r, Good(r, v), generation \in 0..MaxEvictions,
         r.step \in {"slot", "probe"}, NEW live \in BOOLEAN, live => Backed(r.row.mirror, r.row.sha, v)
  PROVE  Good(GoOn(r, live), v)
<1>1. CASE r.kind # "download" BY <1>1, AnswerGood DEF GoOn
<1>2. CASE r.kind = "download" /\ live BY <1>2, RedirectGood DEF GoOn, Sources
<1>3. CASE r.kind = "download" /\ ~live BY <1>3, SkipGood DEF GoOn
<1> QED BY <1>1, <1>2, <1>3

----------------------------------------------------------------------------
(* The steps.                                                              *)

LEMMA MoreSeen ==
  ASSUME NEW r, NEW v, NEW w, v \subseteq w, Good(r, v)
  PROVE  Good(r, w)
BY DEF Good, Backed

\* A step that gives one request another Good state, and no other a different one.
LEMMA OneRequest ==
  ASSUME IInv, NEW q \in Requests, NEW r, Good(r, seen'), seen \subseteq seen',
         request' = [request EXCEPT ![q] = r]
  PROVE  /\ request' \in [Requests -> Calls]
         /\ \A p \in Requests : Good(request'[p], seen')
<1>1. r \in Calls /\ request \in [Requests -> Calls] BY DEF Good, IInv, TypeOK
<1>2. ASSUME NEW p \in Requests PROVE Good(request'[p], seen')
  <2>1. CASE p = q BY <1>1, <2>1
  <2>2. CASE p # q
    <3>1. request'[p] = request[p] /\ Good(request[p], seen) BY <1>1, <2>2 DEF IInv
    <3> QED BY <3>1, MoreSeen
  <2> QED BY <2>1, <2>2
<1> QED BY <1>1, <1>2

\* A request that writes only what it has read.
LEMMA BecomesKept ==
  ASSUME IInv, NEW q \in Requests, NEW r, Good(r, seen), Becomes(q, r)
  PROVE  IInv'
<1>1. request' = [request EXCEPT ![q] = r] /\ UNCHANGED <<program, uploaded, seen>>
  BY DEF Becomes
<1>2. /\ request' \in [Requests -> Calls]
      /\ \A p \in Requests : Good(request'[p], seen')
  BY <1>1, OneRequest
<1>3. TypeOK' BY <1>1, <1>2 DEF IInv, TypeOK, program, Good
<1> QED BY <1>1, <1>2, <1>3 DEF IInv, EntriesAreBacked, program

\* What a probe answers is stored and used.
LEMMA StoresKept ==
  ASSUME IInv, NEW q \in Requests, request[q].step = "probe", NEW live \in BOOLEAN,
         Stores(q, live), seen \subseteq seen', seen' \subseteq Urls \X (Assets \ {NotPublic}),
         live => Backed(request[q].row.mirror, request[q].row.sha, seen'),
         changes' \in Nat, UNCHANGED <<status, row, asset, source, generation, uploaded>>
  PROVE  IInv'
<1> DEFINE r == request[q]
           entry == [url |-> r.row.mirror, sha |-> r.row.sha, live |-> live, fresh |-> TRUE]
<1>1. Good(r, seen) /\ r \in Calls BY DEF IInv, Good
<1>2. Good(GoOn(r, live), seen') BY <1>1, MoreSeen, GoOnGood DEF IInv, TypeOK
<1>3. /\ request' \in [Requests -> Calls]
      /\ \A p \in Requests : Good(request'[p], seen')
  BY <1>2, OneRequest DEF Stores
<1>4. entry \in Entries /\ (entry.live => Backed(entry.url, entry.sha, seen'))
  <2>1. r.row.mirror \in Urls \cup {None} /\ r.row.sha \in Bytes \cup {None}
    BY <1>1 DEF Calls, Rows, NoRow
  <2> QED BY <2>1 DEF Entries
<1>5. slots' = [slots EXCEPT ![r.slot] = entry] BY DEF Stores
<1> HIDE DEF entry
<1>8. \A url, sha : Backed(url, sha, seen) => Backed(url, sha, seen') BY DEF Backed
<1>6. slots' \in [0..MaxEvictions -> Entries] /\ EntriesAreBacked'
  BY <1>4, <1>5, <1>8 DEF IInv, TypeOK, EntriesAreBacked
<1>7. TypeOK' BY <1>3, <1>6 DEF IInv, TypeOK, Good
<1> QED BY <1>3, <1>6, <1>7 DEF IInv

\* Steps that touch neither the requests nor what was seen, and of the cache
\* at most forget.
Forgets ==
  /\ UNCHANGED <<request, seen>>
  /\ slots' \in [0..MaxEvictions -> Entries]
  /\ \A g \in 0..MaxEvictions :
       slots'[g].live => slots[g].live /\ slots'[g].url = slots[g].url /\ slots'[g].sha = slots[g].sha

LEMMA ForgetsKept ==
  ASSUME IInv, Forgets, status' \in {"published", "yanked"}, row' \in Rows,
         asset' \in [Urls -> Assets], source' \in [enabled : BOOLEAN, prefers : BOOLEAN],
         generation' \in 0..MaxEvictions, changes' \in Nat, uploaded' \subseteq Bytes
  PROVE  IInv'
<1>1. TypeOK' BY DEF IInv, TypeOK, Forgets
<1>2. EntriesAreBacked' BY DEF IInv, Forgets, EntriesAreBacked
<1> QED BY <1>1, <1>2 DEF IInv, Forgets

----------------------------------------------------------------------------

LEMMA InitIInv == Init => IInv
<1> SUFFICES ASSUME Init PROVE IInv OBVIOUS
<1>1. NoEntry \in Entries /\ ~NoEntry.live BY DEF NoEntry, Entries
<1>2. slots \in [0..MaxEvictions -> Entries] /\ EntriesAreBacked
  BY <1>1 DEF Init, EntriesAreBacked
<1>3. \A q \in Requests : Good(request[q], seen) BY IdleIsGood DEF Init
<1>4. request \in [Requests -> Calls] BY IdleIsGood DEF Init, Good
<1>5. PICK b \in Published :
        /\ row \in {[object |-> TRUE, sha |-> b, mirror |-> None]}
                     \cup [object : {FALSE}, sha : {b}, mirror : Urls]
        /\ uploaded = IF row.object THEN {b} ELSE {}
        /\ asset \in [Urls -> {NotPublic, [bytes |-> b, digest |-> TRUE]}]
  BY DEF Init
<1>6. b \in Bytes BY <1>5, DownloadsAssumption
<1>71. row \in Rows
  <2>1. CASE row = [object |-> TRUE, sha |-> b, mirror |-> None] BY <1>6, <2>1 DEF Rows
  <2>2. CASE row \in [object : {FALSE}, sha : {b}, mirror : Urls] BY <1>6, <2>2 DEF Rows
  <2> QED BY <1>5, <2>1, <2>2
<1>72. uploaded \subseteq Bytes
  <2>1. CASE row.object BY <1>5, <1>6, <2>1
  <2>2. CASE ~row.object BY <1>5, <2>2
  <2> QED BY <2>1, <2>2
<1>7. row \in Rows /\ uploaded \subseteq Bytes BY <1>71, <1>72
<1>10. asset \in [Urls -> Assets]
  <2>1. {NotPublic, [bytes |-> b, digest |-> TRUE]} \subseteq Assets BY <1>6 DEF Assets
  <2> QED BY <1>5, <2>1
<1>8. generation \in 0..MaxEvictions BY DownloadsAssumption DEF Init
<1>9. TypeOK BY <1>2, <1>3, <1>4, <1>7, <1>8, <1>10 DEF Init, TypeOK, Good
<1> QED BY <1>2, <1>3, <1>9 DEF IInv

LEMMA NextIInv == IInv /\ [Next]_vars => IInv'
<1> SUFFICES ASSUME IInv, [Next]_vars PROVE IInv' OBVIOUS
<1> USE DEF Changes
<1>1. TypeOK BY DEF IInv
<1>2. ASSUME slots' = slots, UNCHANGED <<request, seen>> PROVE Forgets
  BY <1>1, <1>2 DEF Forgets, TypeOK
<1>3. CASE Operators
  <2>1. changes' \in Nat BY <1>1, <1>3 DEF Operators, CompleteUpload, RegisterArtifact, EditSource, Yank, TypeOK
  <2>2. ASSUME NEW b \in Bytes, NEW u \in Urls \cup {None}, CompleteUpload(b, u) PROVE IInv'
    <3>1. row' \in Rows /\ uploaded' \subseteq Bytes
      BY <1>1, <2>2 DEF CompleteUpload, TypeOK, Rows
    <3> QED BY <1>1, <1>2, <2>1, <2>2, <3>1, ForgetsKept DEF CompleteUpload, TypeOK
  <2>3. ASSUME NEW b \in Bytes, NEW u \in Urls, RegisterArtifact(b, u) PROVE IInv'
    <3>1. row' \in Rows BY <1>1, <2>3 DEF RegisterArtifact, TypeOK, Rows
    <3> QED BY <1>1, <1>2, <2>1, <2>3, <3>1, ForgetsKept DEF RegisterArtifact, TypeOK
  <2>4. CASE EditSource BY <1>1, <1>2, <2>1, <2>4, ForgetsKept DEF EditSource, TypeOK
  <2>5. CASE Yank BY <1>1, <1>2, <2>1, <2>5, ForgetsKept DEF Yank, TypeOK
  <2> QED BY <1>3, <2>2, <2>3, <2>4, <2>5, DownloadsAssumption DEF Operators
<1>4. CASE Environment
  <2>1. ASSUME NEW u \in Urls, NEW a \in Assets, AssetChanges(u, a) PROVE IInv'
    <3>1. asset' \in [Urls -> Assets] BY <1>1, <2>1 DEF AssetChanges, TypeOK
    <3> QED BY <1>1, <1>2, <2>1, <3>1, ForgetsKept DEF AssetChanges, TypeOK
  <2>2. ASSUME NEW g \in 0..MaxEvictions, Expire(g) PROVE IInv'
    <3>1. slots[g] \in Entries /\ [slots[g] EXCEPT !.fresh = FALSE] \in Entries
      BY <1>1 DEF TypeOK, Entries
    <3>2. Forgets BY <1>1, <2>2, <3>1 DEF Expire, Forgets, TypeOK, Entries
    <3> QED BY <1>1, <2>2, <3>2, ForgetsKept DEF Expire, TypeOK
  <2>3. CASE Evict
    <3>1. NoEntry \in Entries /\ ~NoEntry.live BY DEF NoEntry, Entries
    <3>2. generation \in 0..MaxEvictions /\ generation' \in 0..MaxEvictions
      BY <1>1, <2>3, DownloadsAssumption DEF Evict, TypeOK
    <3>3. Forgets BY <1>1, <2>3, <3>1, <3>2 DEF Evict, Forgets, TypeOK
    <3> QED BY <1>1, <2>3, <3>2, <3>3, ForgetsKept DEF Evict, TypeOK
  <2> QED BY <1>4, <2>1, <2>2, <2>3 DEF Environment
<1>5. ASSUME NEW q \in Requests, RequestNext(q) PROVE IInv'
  <2> DEFINE r == request[q]
  <2>1. Good(r, seen) /\ r \in Calls BY DEF IInv, Good
  <2>2. ASSUME NEW kind \in Kinds, NEW asked \in Sources \cup {None}, ReadsRow(q, kind, asked)
        PROVE  IInv'
    <3> DEFINE t == [Idle EXCEPT !.step = "source", !.kind = kind, !.asked = asked, !.row = row]
    <3>1. Good(Idle, seen) /\ row \in Rows BY <1>1, IdleIsGood DEF TypeOK
    <3>2. /\ t \in Calls /\ t.step = "source" /\ t.order = <<>> /\ ~t.github
      BY <3>1 DEF Good, Idle, Calls, Steps
    <3> HIDE DEF t
    <3>3. Good(t, seen) BY <3>2 DEF Good, Lists
    <3>4. Becomes(q, t) BY <2>2 DEF ReadsRow, t
    <3> QED BY <3>3, <3>4, BecomesKept
  <2>3. CASE Gone(q) BY <2>3 DEF Gone, vars, program, IInv, TypeOK, EntriesAreBacked
  <2>4. CASE ReadsSource(q)
    <3> DEFINE order == Candidates(r.row, source, r.asked)
               t == [r EXCEPT !.order = order, !.asked = None]
    <3>1. order \in Seq(Sources) /\ (Lists(order, "github") => r.row.mirror # None)
      BY <1>1, <2>1, CandidatesAreSources DEF TypeOK, Calls
    <3> HIDE DEF order
    <3>2. /\ t \in Calls /\ t.order = order /\ t.row = r.row /\ t.kind = r.kind
          /\ t.step = "source" /\ ~t.github
      BY <2>1, <2>4, <3>1 DEF ReadsSource, Good, Calls, order
    <3>3. Good(t, seen) BY <3>1, <3>2 DEF Good
    <3>4. generation \in 0..MaxEvictions BY <1>1 DEF TypeOK
    <3>5. Becomes(q, IF t.kind = "download" THEN TryNext(t)
                     ELSE IF Lists(t.order, "github")
                          THEN [t EXCEPT !.step = "slot", !.slot = generation]
                          ELSE Answer(t, FALSE))
      BY <2>4 DEF ReadsSource, order
    <3> HIDE DEF t
    <3>6. CASE t.kind = "download" BY <3>1, <3>2, <3>4, <3>5, <3>6, TryNextGood, BecomesKept
    <3>7. CASE t.kind # "download" /\ Lists(t.order, "github")
      <4>1. Good([t EXCEPT !.step = "slot", !.slot = generation], seen)
        BY <3>1, <3>2, <3>3, <3>4, <3>7 DEF Good, Calls, Steps
      <4> QED BY <3>5, <3>7, <4>1, BecomesKept
    <3>8. CASE t.kind # "download" /\ ~Lists(t.order, "github")
      <4>1. Good(Answer(t, FALSE), seen) BY <3>3, AnswerGood
      <4> QED BY <3>5, <3>8, <4>1, BecomesKept
    <3> QED BY <3>6, <3>7, <3>8
  <2>5. CASE BackendAnswers(q)
    <3>2. r.kind = "download" BY <2>1, <2>5 DEF BackendAnswers, Good
    <3>1. Good(Redirect(r, "oss"), seen) BY <2>1, <3>2, RedirectGood DEF Sources
    <3> QED BY <2>5, <3>1, BecomesKept DEF BackendAnswers
  <2>6. CASE TakesSlot(q)
    <3> DEFINE entry == slots[r.slot]
    <3>1. r.step = "slot" /\ generation \in 0..MaxEvictions BY <1>1, <2>6 DEF TakesSlot, TypeOK
    <3>2. entry \in Entries /\ (entry.live => Backed(entry.url, entry.sha, seen))
      BY <1>1, <2>1 DEF TypeOK, IInv, EntriesAreBacked, Calls
    <3>3. CASE Hits(entry, r.row)
      <4>1. entry.live \in BOOLEAN /\ (entry.live => Backed(r.row.mirror, r.row.sha, seen))
        BY <3>2, <3>3 DEF Hits, Entries
      <4>2. Good(GoOn(r, entry.live), seen) BY <2>1, <3>1, <4>1, GoOnGood
      <4> QED BY <2>6, <3>3, <4>2, BecomesKept DEF TakesSlot
    <3>4. CASE ~Hits(entry, r.row)
      <4>1. Good([r EXCEPT !.step = "probe"], seen) BY <2>1, <3>1 DEF Good, Calls, Steps
      <4> QED BY <2>6, <3>4, <4>1, BecomesKept DEF TakesSlot
    <3> QED BY <3>3, <3>4
  <2>7. CASE ProbeAnswers(q)
    <3> DEFINE live == Matches(asset[r.row.mirror], r.row.sha)
    <3>1. r.step = "probe" /\ r.row.mirror \in Urls
      BY <2>1, <2>7 DEF ProbeAnswers, Good, Calls, Rows, NoRow
    <3>2. asset[r.row.mirror] \in Assets BY <1>1, <3>1 DEF TypeOK
    <3>3. live \in BOOLEAN BY DEF Matches
    <3>4. live => asset[r.row.mirror] # NotPublic /\ Describes(asset[r.row.mirror], r.row.sha)
      BY DEF Matches, Describes, NotPublic
    <3>5. Stores(q, live) /\ seen' = IF asset[r.row.mirror] = NotPublic THEN seen
                                    ELSE seen \cup {<<r.row.mirror, asset[r.row.mirror]>>}
      BY <2>7 DEF ProbeAnswers
    <3>6. UNCHANGED <<status, row, asset, source, generation, changes, uploaded>>
      BY <2>7 DEF ProbeAnswers
    <3> HIDE DEF live
    <3>7. seen \subseteq seen' /\ (live => Backed(r.row.mirror, r.row.sha, seen'))
      BY <3>2, <3>4, <3>5 DEF Backed
    <3>8. seen' \subseteq Urls \X (Assets \ {NotPublic}) BY <1>1, <3>1, <3>2, <3>5 DEF TypeOK
    <3>9. changes' \in Nat BY <1>1, <3>6 DEF TypeOK
    <3> QED BY <3>1, <3>3, <3>5, <3>6, <3>7, <3>8, <3>9, StoresKept
  <2>8. CASE ProbeFails(q)
    <3>1. r.step = "probe" /\ Stores(q, FALSE) /\ seen' = seen BY <2>8 DEF ProbeFails
    <3>4. changes' \in Nat BY <1>1, <2>8 DEF ProbeFails, TypeOK
    <3>2. seen \subseteq seen' /\ seen' \subseteq Urls \X (Assets \ {NotPublic})
      BY <1>1, <3>1 DEF TypeOK
    <3>3. UNCHANGED <<status, row, asset, source, generation, uploaded>> BY <2>8 DEF ProbeFails
    <3> QED BY <3>1, <3>2, <3>3, <3>4, StoresKept
  <2>9. CASE BackendFails(q)
    <3>1. r.step = "backend" /\ changes' \in Nat /\ seen' = seen
      BY <1>1, <2>9 DEF BackendFails, TypeOK
    <3> DEFINE t == TryNext([r EXCEPT !.order = Tail(@)])
    <3>2. r.kind = "download" BY <2>1, <3>1 DEF Good
    <3>3. Good(t, seen) BY <1>1, <2>1, <3>1, <3>2, SkipGood DEF TypeOK
    <3>4. request' = [request EXCEPT ![q] = t] BY <2>9 DEF BackendFails
    <3> HIDE DEF t
    <3>5. /\ request' \in [Requests -> Calls]
          /\ \A p \in Requests : Good(request'[p], seen')
      BY <3>1, <3>3, <3>4, OneRequest
    <3>6. UNCHANGED <<status, row, asset, source, slots, generation, uploaded, seen>>
      BY <2>9 DEF BackendFails
    <3>7. TypeOK' BY <1>1, <3>1, <3>5, <3>6 DEF TypeOK, Good
    <3> QED BY <3>5, <3>6, <3>7 DEF IInv, EntriesAreBacked
  <2>10. CASE Ends(q) \/ Dropped(q) BY <2>10, IdleIsGood, BecomesKept DEF Ends, Dropped
  <2>11. "offer" \in Kinds /\ "download" \in Kinds BY DEF Kinds
  <2> QED BY <1>5, <2>11, <2>2, <2>3, <2>4, <2>5, <2>6, <2>7, <2>8, <2>9, <2>10
       DEF RequestNext, Progress
<1>6. CASE UNCHANGED vars BY <1>6 DEF vars, program, IInv, TypeOK, EntriesAreBacked
<1> QED BY <1>3, <1>4, <1>5, <1>6 DEF Next
\* The inductive invariant.
LEMMA AlwaysIInv == Spec => []IInv
BY InitIInv, NextIInv, PTL DEF Spec

----------------------------------------------------------------------------
(* Theorems.                                                               *)

\* The tables, the cache and the requests keep their types, and only what has a
\* mirror is probed: Candidates decides that on the row the request has read.
THEOREM TypeCorrect == Spec => []TypeOK
<1>1. IInv => TypeOK BY DEF IInv
<1> QED BY <1>1, AlwaysIInv, PTL

\* is_mirror_live tells of no mirror that it is live unless a probe saw a public
\* asset at the url that was read, with the digest that was read, or with its
\* length when GitHub told none: entries outlive uploads and new mirrors, but
\* answer only for the fingerprint they were written with.
THEOREM MirrorsWereVerified == Spec => []MirrorWasVerified
<1>1. IInv => MirrorWasVerified BY DEF IInv, Good, Backed, MirrorWasVerified, Exposes
<1> QED BY <1>1, AlwaysIInv, PTL

\* GitHub tells the digest of every asset.
GitHubTells == \A u \in Urls : asset[u].digest

\* Where GitHub tells every digest, the digest itself was verified: length alone
\* then never decides.
THEOREM ToldDigestsWereVerified == Spec /\ []GitHubTells => []DigestWasVerified
<1> DEFINE Told == \A s \in seen : s[2].digest
<1>1. Init => Told BY DEF Init
<1>2. TypeOK /\ GitHubTells /\ Told /\ [Next]_vars => Told'
  <2> SUFFICES ASSUME TypeOK, GitHubTells, Told, [Next]_vars PROVE Told' OBVIOUS
  <2>1. ASSUME NEW q \in Requests, ProbeAnswers(q) PROVE Told'
    <3>1. request[q].row.mirror \in Urls BY <2>1 DEF ProbeAnswers, TypeOK, Calls, Rows, NoRow
    <3>2. asset[request[q].row.mirror].digest BY <3>1 DEF GitHubTells
    <3> QED BY <2>1, <3>2 DEF ProbeAnswers
  <2>2. ASSUME ~\E q \in Requests : ProbeAnswers(q) PROVE UNCHANGED seen
    BY <2>2 DEF Next, Operators, CompleteUpload, RegisterArtifact, EditSource, Yank, Environment,
       AssetChanges, Expire, Evict, RequestNext, ReadsRow, Gone, Progress, ReadsSource,
       BackendAnswers, BackendFails, TakesSlot, ProbeFails, Ends, Dropped, Becomes, vars
  <2> QED BY <2>1, <2>2
<1>3. IInv /\ Told => DigestWasVerified
  <2> SUFFICES ASSUME IInv, Told, NEW q \in Requests, Exposes(q)
               PROVE  <<request[q].row.mirror, [bytes |-> request[q].row.sha, digest |-> TRUE]>> \in seen
    BY DEF DigestWasVerified
  <2>1. PICK a \in Assets : <<request[q].row.mirror, a>> \in seen /\ Describes(a, request[q].row.sha)
    BY DEF IInv, Good, Backed, Exposes
  <2>2. a.digest /\ a # NotPublic BY <2>1 DEF IInv, TypeOK
  <2>3. a.bytes = request[q].row.sha BY <2>1, <2>2 DEF Describes
  <2>4. a = [bytes |-> request[q].row.sha, digest |-> TRUE] BY <2>2, <2>3 DEF Assets
  <2> QED BY <2>1, <2>4
<1> QED BY <1>1, <1>2, <1>3, AlwaysIInv, TypeCorrect, PTL DEF Spec

\* Where GitHub tells every digest, an asset of other bytes is a visible drift, so
\* that exposure ends as the specification has it whenever it does as checked.
THEOREM ToldDriftIsVisible == Spec /\ []GitHubTells /\ VisibleDriftStopsExposure => DriftStopsExposure
<1>1. TypeOK /\ GitHubTells /\ ~MirrorHasBytes => ~MirrorDescribes
  <2> SUFFICES ASSUME TypeOK, GitHubTells, MirrorDescribes PROVE MirrorHasBytes OBVIOUS
  <2>1. row.mirror \in Urls BY DEF MirrorDescribes, TypeOK, Rows
  <2>2. asset[row.mirror].digest BY <2>1 DEF GitHubTells
  <2> QED BY <2>2 DEF MirrorDescribes, Describes, MirrorHasBytes
<1> QED BY <1>1, TypeCorrect, PTL DEF VisibleDriftStopsExposure, DriftStopsExposure

\* upsert_artifact takes a digest only with an object that complete has verified:
\* what register_artifact is told never describes an uploaded object.
THEOREM HashesWereVerified == Spec => []HashWasVerified
<1>1. Init => HashWasVerified
  <2> SUFFICES ASSUME Init, row.object PROVE row.sha \in uploaded BY DEF HashWasVerified
  <2>1. PICK b \in Published :
          /\ row \in {[object |-> TRUE, sha |-> b, mirror |-> None]}
                       \cup [object : {FALSE}, sha : {b}, mirror : Urls]
          /\ uploaded = IF row.object THEN {b} ELSE {}
    BY DEF Init
  <2>4. row.object => uploaded = {b}
    <3>1. uploaded = IF row.object THEN {b} ELSE {} BY <2>1
    <3> QED BY <3>1, Zenon
  <2>2. uploaded = {b} BY <2>4, Zenon
  <2>3. row.sha = b
    <3>1. CASE row = [object |-> TRUE, sha |-> b, mirror |-> None] BY <3>1
    <3>2. CASE row \in [object : {FALSE}, sha : {b}, mirror : Urls] BY <3>2
    <3> QED BY <2>1, <3>1, <3>2
  <2> QED BY <2>2, <2>3
<1>2. TypeOK /\ HashWasVerified /\ [Next]_vars => HashWasVerified'
  <2> SUFFICES ASSUME TypeOK, HashWasVerified, [Next]_vars PROVE HashWasVerified' OBVIOUS
  <2>1. ASSUME NEW b \in Bytes, NEW u \in Urls \cup {None}, CompleteUpload(b, u)
        PROVE  HashWasVerified'
    BY <2>1 DEF CompleteUpload, HashWasVerified
  <2>2. ASSUME NEW b \in Bytes, NEW u \in Urls, RegisterArtifact(b, u) PROVE HashWasVerified'
    BY <2>2 DEF RegisterArtifact, HashWasVerified, TypeOK, Rows
  <2>3. CASE UNCHANGED <<row, uploaded>> BY <2>3 DEF HashWasVerified
  <2>4. CASE EditSource \/ Yank \/ Environment
    BY <2>3, <2>4 DEF EditSource, Yank, Environment, AssetChanges, Expire, Evict
  <2>5. ASSUME NEW q \in Requests, RequestNext(q) PROVE HashWasVerified'
    BY <2>3, <2>5 DEF RequestNext, Progress, ReadsRow, Gone, ReadsSource, BackendAnswers,
      TakesSlot, ProbeAnswers, Ends, BackendFails, ProbeFails, Dropped, Becomes, program, vars
  <2> QED BY <2>1, <2>2, <2>3, <2>4, <2>5, DownloadsAssumption DEF Next, Operators, vars, program
<1> QED BY <1>1, <1>2, TypeCorrect, PTL DEF Spec

----------------------------------------------------------------------------
(* Where links lead.                                                       *)

GithubFirst(asked, prefers) == asked = "github" \/ (asked = None /\ prefers)

\* The candidates, one case at a time.
LEMMA CandidatesAre ==
  ASSUME NEW art, NEW src, NEW asked, art.object \in BOOLEAN, src.enabled \in BOOLEAN
  PROVE  LET mirrored == art.mirror # None /\ src.enabled
             c == Candidates(art, src, asked)
         IN /\ ~art.object /\ ~mirrored => c = <<>>
            /\ art.object /\ ~mirrored => c = <<"oss">>
            /\ ~art.object /\ mirrored => c = <<"github">>
            /\ art.object /\ mirrored =>
                 c = IF GithubFirst(asked, src.prefers) THEN <<"github", "oss">> ELSE <<"oss", "github">>
<1> DEFINE mirrored == art.mirror # None /\ src.enabled
           oss == If(art.object, "oss")
           github == If(mirrored, "github")
           c == Candidates(art, src, asked)
<1>1. c = IF GithubFirst(asked, src.prefers) THEN github \o oss ELSE oss \o github
  BY DEF Candidates, SourceOrder, GithubFirst
<1>2. (art.object => oss = <<"oss">>) /\ (~art.object => oss = <<>>) BY DEF If
<1>3. (mirrored => github = <<"github">>) /\ (~mirrored => github = <<>>) BY DEF If
<1>4. ASSUME NEW a, NEW b PROVE
        /\ <<a>> \o <<>> = <<a>> /\ <<>> \o <<a>> = <<a>> /\ <<>> \o <<>> = <<>>
        /\ <<a>> \o <<b>> = <<a, b>>
  <2>1. <<a>> \in Seq({a, b}) /\ <<b>> \in Seq({a, b}) /\ <<a, b>> \in Seq({a, b}) /\ <<>> \in Seq({a, b})
    BY EmptySeq
  <2>2. /\ <<a>> \o <<>> = <<a>> /\ <<>> \o <<a>> = <<a>> /\ <<>> \o <<>> = <<>>
    BY <2>1, ConcatEmptySeq
  <2>3. <<a>> \o <<b>> = <<a, b>>
    <3>1. /\ <<a>> \o <<b>> \in Seq({a, b}) /\ Len(<<a>> \o <<b>>) = 2
          /\ (<<a>> \o <<b>>)[1] = a /\ (<<a>> \o <<b>>)[2] = b
      BY <2>1
    <3>2. Len(<<a, b>>) = 2 /\ <<a, b>>[1] = a /\ <<a, b>>[2] = b OBVIOUS
    <3> DEFINE x == <<a>> \o <<b>>  y == <<a, b>>  S == {a, b}
    <3>3. x \in Seq(S) /\ y \in Seq(S) /\ Len(x) = Len(y) /\ \A i \in 1..Len(x) : x[i] = y[i]
      <4>1. 1..Len(x) = {1, 2} BY <3>1
      <4> QED BY <2>1, <3>1, <3>2, <4>1
    <3> HIDE DEF x, y, S
    <3>4. x = y BY <3>3, SeqEqual
    <3> QED BY <3>4 DEF x, y
  <2> QED BY <2>2, <2>3
<1> HIDE DEF mirrored, oss, github, c
<1>5. ASSUME ~art.object, ~mirrored PROVE c = <<>>
  <2>1. github \o oss = <<>> /\ oss \o github = <<>> BY <1>2, <1>3, <1>4, <1>5
  <2> QED BY <1>1, <1>5, <2>1, Zenon
<1>6. ASSUME art.object, ~mirrored PROVE c = <<"oss">>
  <2>1. github \o oss = <<"oss">> /\ oss \o github = <<"oss">> BY <1>2, <1>3, <1>4, <1>6
  <2> QED BY <1>1, <1>6, <2>1, Zenon
<1>7. ASSUME ~art.object, mirrored PROVE c = <<"github">>
  <2>1. github \o oss = <<"github">> /\ oss \o github = <<"github">> BY <1>2, <1>3, <1>4, <1>7
  <2> QED BY <1>1, <1>7, <2>1, Zenon
<1>8. ASSUME art.object, mirrored
      PROVE  c = IF GithubFirst(asked, src.prefers) THEN <<"github", "oss">> ELSE <<"oss", "github">>
  <2>1. github \o oss = <<"github", "oss">> /\ oss \o github = <<"oss", "github">> BY <1>2, <1>3, <1>4, <1>8
  <2> QED BY <1>1, <1>8, <2>1, Zenon
<1> QED BY <1>5, <1>6, <1>7, <1>8 DEF mirrored, c

LEMMA ListsOf ==
  /\ \A s : ~Lists(<<>>, s)
  /\ \A s, a : Lists(<<a>>, s) <=> s = a
  /\ \A s, a, b : Lists(<<a, b>>, s) <=> s \in {a, b}
<1>1. \A s : ~Lists(<<>>, s) BY DEF Lists
<1>2. ASSUME NEW s, NEW a PROVE Lists(<<a>>, s) <=> s = a
  <2>1. DOMAIN <<a>> = {1} /\ <<a>>[1] = a OBVIOUS
  <2> QED BY <2>1 DEF Lists
<1>3. ASSUME NEW s, NEW a, NEW b PROVE Lists(<<a, b>>, s) <=> s \in {a, b}
  <2>1. DOMAIN <<a, b>> = {1, 2} /\ <<a, b>>[1] = a /\ <<a, b>>[2] = b OBVIOUS
  <2> QED BY <2>1 DEF Lists
<1> QED BY <1>1, <1>2, <1>3
LEMMA UsableOf ==
  /\ \A live \in BOOLEAN : Usable(<<"oss">>, live) = <<"oss">>
  /\ \A order : Usable(order, TRUE) = order
  /\ Usable(<<"github">>, FALSE) = <<>>
  /\ Usable(<<"oss", "github">>, FALSE) = <<"oss">>
  /\ Usable(<<"github", "oss">>, FALSE) = <<"oss">>
<1>1. Lists(<<"oss">>, "oss") /\ ~Lists(<<"github">>, "oss")
      /\ Lists(<<"oss", "github">>, "oss") /\ Lists(<<"github", "oss">>, "oss")
  BY ListsOf
<1> QED BY <1>1 DEF Usable, If

\* An offer that is up to date is sound, case by case.
LEMMA OffersLead ==
  ASSUME IInv, NEW q \in Requests, UpToDate(q), request[q].kind = "offer"
  PROVE  LET listed == request[q].sources
         IN /\ Leads(None) = Head(listed)
            /\ \A i \in DOMAIN listed :
                 Leads(listed[i]) = listed[i] /\ (i > 1 => listed[i] # Leads(None))
<1> DEFINE r == request[q]
           listed == r.sources
           c(asked) == Candidates(row, source, asked)
           hit == Hits(slots[generation], row) /\ slots[generation].live
           mirrored == row.mirror # None /\ source.enabled
           first(asked) == GithubFirst(asked, source.prefers)
           leads(asked) == Leads(asked)
<1>1. /\ r.order = c(None) /\ listed = Usable(c(None), r.github) /\ listed # <<>>
      /\ r.github \in BOOLEAN
  BY DEF UpToDate, IInv, Good, Calls
<1>2. Lists(c(None), "github") => hit = r.github BY <1>1 DEF UpToDate
<1>3. ASSUME NEW asked
      PROVE  /\ ~row.object /\ ~mirrored => c(asked) = <<>>
             /\ row.object /\ ~mirrored => c(asked) = <<"oss">>
             /\ ~row.object /\ mirrored => c(asked) = <<"github">>
             /\ row.object /\ mirrored /\ first(asked) => c(asked) = <<"github", "oss">>
             /\ row.object /\ mirrored /\ ~first(asked) => c(asked) = <<"oss", "github">>
  <2>1. row.object \in BOOLEAN /\ source.enabled \in BOOLEAN BY DEF IInv, TypeOK, Rows
  <2> QED BY <2>1, CandidatesAre
<1>4. ~first("oss") /\ first("github") BY DownloadsAssumption DEF GithubFirst
<1>5. ASSUME NEW asked
      PROVE  leads(asked) = IF Usable(c(asked), hit) = <<>> THEN None ELSE Head(Usable(c(asked), hit))
  BY DEF Leads
<1>6. ASSUME NEW asked, NEW s, Usable(c(asked), hit) = <<s>> PROVE leads(asked) = s
  BY <1>5, <1>6
<1>7. ASSUME NEW asked, NEW s, NEW t, Usable(c(asked), hit) = <<s, t>> PROVE leads(asked) = s
  BY <1>5, <1>7
<1>8. hit \in BOOLEAN BY DEF IInv, TypeOK, Entries, Hits
<1> HIDE DEF r, listed, c, hit, mirrored, first, leads
<1> SUFFICES /\ leads(None) = Head(listed)
             /\ \A i \in DOMAIN listed :
                  leads(listed[i]) = listed[i] /\ (i > 1 => listed[i] # leads(None))
  BY DEF leads, listed, r
<1>9. ASSUME NEW s, listed = <<s>>, leads(None) = s, leads(s) = s
      PROVE  /\ leads(None) = Head(listed)
             /\ \A i \in DOMAIN listed :
                  leads(listed[i]) = listed[i] /\ (i > 1 => listed[i] # leads(None))
  <2>1. Head(listed) = s /\ DOMAIN listed = {1} /\ listed[1] = s BY <1>9
  <2> QED BY <1>9, <2>1
<1>10. ASSUME NEW s, NEW t, listed = <<s, t>>, s # t, leads(None) = s, leads(s) = s, leads(t) = t
       PROVE  /\ leads(None) = Head(listed)
              /\ \A i \in DOMAIN listed :
                   leads(listed[i]) = listed[i] /\ (i > 1 => listed[i] # leads(None))
  <2>1. Head(listed) = s /\ DOMAIN listed = {1, 2} /\ listed[1] = s /\ listed[2] = t BY <1>10
  <2> QED BY <1>10, <2>1
<1>11. CASE row.object /\ ~mirrored
  <2>1. c(None) = <<"oss">> /\ c("oss") = <<"oss">> BY <1>3, <1>11
  <2>2. listed = <<"oss">> /\ Usable(c(None), hit) = <<"oss">> /\ Usable(c("oss"), hit) = <<"oss">>
    BY <1>1, <1>8, <2>1, UsableOf
  <2>3. leads(None) = "oss" /\ leads("oss") = "oss" BY <1>6, <2>2
  <2> QED BY <1>9, <2>2, <2>3
<1>12. CASE ~row.object /\ mirrored
  <2>1. c(None) = <<"github">> /\ c("github") = <<"github">> BY <1>3, <1>12
  <2>2. hit = r.github
    <3>1. Lists(c(None), "github") BY <2>1, ListsOf
    <3> QED BY <1>2, <3>1
  <2>3. hit = TRUE /\ r.github = TRUE
    <3>1. r.github # FALSE BY <1>1, <2>1, UsableOf
    <3> QED BY <1>1, <2>2, <3>1
  <2>4. listed = <<"github">> /\ Usable(c(None), hit) = <<"github">> /\ Usable(c("github"), hit) = <<"github">>
    BY <1>1, <2>1, <2>3, UsableOf
  <2>5. leads(None) = "github" /\ leads("github") = "github" BY <1>6, <2>4
  <2> QED BY <1>9, <2>4, <2>5
<1>13. CASE row.object /\ mirrored
  <2>1. c("oss") = <<"oss", "github">> /\ c("github") = <<"github", "oss">> BY <1>3, <1>4, <1>13
  <2>2. c(None) = <<"oss", "github">> \/ c(None) = <<"github", "oss">> BY <1>3, <1>13
  <2>3. Lists(c(None), "github") BY <2>2, ListsOf
  <2>4. hit = r.github BY <1>2, <2>3
  <2>5. CASE hit = FALSE
    <3>1. listed = <<"oss">> /\ Usable(c(None), hit) = <<"oss">> /\ Usable(c("oss"), hit) = <<"oss">>
      BY <1>1, <2>1, <2>2, <2>4, <2>5, UsableOf
    <3>2. leads(None) = "oss" /\ leads("oss") = "oss" BY <1>6, <3>1
    <3> QED BY <1>9, <3>1, <3>2
  <2>6. CASE hit = TRUE
    <3>1. listed = c(None) /\ \A asked : Usable(c(asked), hit) = c(asked)
      BY <1>1, <2>4, <2>6, UsableOf
    <3>2. leads("oss") = "oss" /\ leads("github") = "github" BY <1>7, <2>1, <3>1
    <3>3. CASE c(None) = <<"oss", "github">>
      <4>1. leads(None) = "oss" BY <1>7, <3>1, <3>3
      <4> QED BY <1>10, <3>1, <3>2, <3>3, <4>1
    <3>4. CASE c(None) = <<"github", "oss">>
      <4>1. leads(None) = "github" BY <1>7, <3>1, <3>4
      <4> QED BY <1>10, <3>1, <3>2, <3>4, <4>1
    <3> QED BY <2>2, <3>3, <3>4
  <2> QED BY <1>8, <2>5, <2>6
<1>14. row.object \/ mirrored
  <2>1. ASSUME ~row.object, ~mirrored PROVE FALSE
    <3>1. c(None) = <<>> BY <1>3, <2>1
    <3>2. Usable(<<>>, r.github) = <<>> BY ListsOf DEF Usable, If
    <3> QED BY <1>1, <3>1, <3>2
  <2> QED BY <2>1
<1> QED BY <1>11, <1>12, <1>13, <1>14

\* The update check lists what /download will do: while nothing it rests on has
\* changed, the bare link leads to the source that was left out of mirror_urls,
\* and every other link to its own.
THEOREM LinksAreSound == Spec => []LinksLead
<1>1. IInv => LinksLead
  <2> SUFFICES ASSUME IInv, NEW q \in Requests, UpToDate(q), request[q].kind = "offer"
               PROVE  LET listed == request[q].sources
                      IN /\ Leads(None) = Head(listed)
                         /\ \A i \in DOMAIN listed :
                              Leads(listed[i]) = listed[i] /\ (i > 1 => listed[i] # Leads(None))
    BY Zenon DEF LinksLead
  <2> QED BY OffersLead, Zenon
<1> QED BY <1>1, AlwaysIInv, PTL

----------------------------------------------------------------------------
(* Single flight.                                                          *)

\* Whoever waits for a slot or holds it got it from the map there was or is, and
\* the lock of a slot is held by one probe at a time.
SlotsExist == \A q \in Requests : request[q].step \in {"slot", "probe"} => request[q].slot <= generation
SingleFlight ==
  \A p, q \in Probing : request[p].slot = request[q].slot => p = q

\* What a request becomes by any step but that to its probe: it does not probe, and
\* a slot it goes for is that of the map.
Fresh(r) == r.step # "probe" /\ (r.step = "slot" => r.slot = generation)

LEMMA TryNextFresh ==
  ASSUME NEW r \in Calls
  PROVE  Fresh(TryNext(r))
BY DEF Fresh, TryNext, Calls

LEMMA AnswerFresh ==
  ASSUME NEW r \in Calls, NEW live
  PROVE  Fresh(Answer(r, live))
BY DEF Fresh, Answer, Calls, Idle

LEMMA RedirectFresh ==
  ASSUME NEW r \in Calls, NEW s
  PROVE  Fresh(Redirect(r, s))
BY DEF Fresh, Redirect, Calls

\* A request that tries its next candidate is one still.
LEMMA SkipFresh ==
  ASSUME NEW r \in Calls, r.order # <<>>
  PROVE  Fresh(TryNext([r EXCEPT !.order = Tail(@)]))
<1>1. r.order \in Seq(Sources) /\ Tail(r.order) \in Seq(Sources) BY DEF Calls
<1>2. [r EXCEPT !.order = Tail(@)] \in Calls BY <1>1 DEF Calls
<1> QED BY <1>2, TryNextFresh

LEMMA GoOnFresh ==
  ASSUME NEW v, NEW r, Good(r, v), r.step \in {"slot", "probe"}, NEW live \in BOOLEAN
  PROVE  Fresh(GoOn(r, live))
<1>1. r \in Calls BY DEF Good
<1>2. CASE r.kind # "download" BY <1>1, <1>2, AnswerFresh DEF GoOn
<1>3. CASE r.kind = "download" /\ live BY <1>1, <1>3, RedirectFresh DEF GoOn
<1>4. CASE r.kind = "download" /\ ~live
  <2>1. r.order # <<>> BY <1>4 DEF Good
  <2> QED BY <1>1, <1>4, <2>1, SkipFresh DEF GoOn
<1> QED BY <1>2, <1>3, <1>4

\* Steps that leave the requests alone, or make one of them Fresh.
LEMMA FreshKept ==
  ASSUME TypeOK, SlotsExist, SingleFlight, generation' \in Nat, generation' >= generation,
         \/ request' = request
         \/ /\ generation' = generation
            /\ \E q \in Requests : \E r : Fresh(r) /\ request' = [request EXCEPT ![q] = r]
  PROVE  SlotsExist' /\ SingleFlight'
<1>1. /\ generation \in Nat
      /\ \A q \in Requests : request[q].slot \in Nat
  BY DEF TypeOK, Calls
<1>2. CASE request' = request
  BY <1>1, <1>2 DEF SlotsExist, SingleFlight, Probing
<1>3. ASSUME generation' = generation, NEW q \in Requests, NEW r, Fresh(r),
             request' = [request EXCEPT ![q] = r]
      PROVE  SlotsExist' /\ SingleFlight'
  <2>1. request'[q] = r /\ \A p \in Requests \ {q} : request'[p] = request[p]
    BY <1>3 DEF TypeOK
  <2>2. SlotsExist' BY <1>1, <1>3, <2>1 DEF SlotsExist, Fresh
  <2>3. SingleFlight' BY <1>3, <2>1 DEF SingleFlight, Probing, Fresh
  <2> QED BY <2>2, <2>3
<1> QED BY <1>2, <1>3

LEMMA FlightStep == IInv /\ SlotsExist /\ SingleFlight /\ [Next]_vars => SlotsExist' /\ SingleFlight'
<1> SUFFICES ASSUME IInv, SlotsExist, SingleFlight, [Next]_vars
             PROVE  SlotsExist' /\ SingleFlight'
  OBVIOUS
<1>1. TypeOK /\ generation \in Nat BY DEF IInv, TypeOK
<1>2. ASSUME request' = request, generation' = generation PROVE SlotsExist' /\ SingleFlight'
  BY <1>1, <1>2, FreshKept
<1>3. CASE Operators
  BY <1>2, <1>3 DEF Operators, CompleteUpload, RegisterArtifact, EditSource, Yank
<1>4. CASE Environment
  <2>1. CASE Evict
    <3>1. generation' \in Nat /\ generation' >= generation /\ request' = request
      BY <1>1, <2>1 DEF Evict
    <3> QED BY <1>1, <3>1, FreshKept
  <2> QED BY <1>2, <1>4, <2>1 DEF Environment, AssetChanges, Expire
<1>5. ASSUME NEW q \in Requests, RequestNext(q) PROVE SlotsExist' /\ SingleFlight'
  <2> DEFINE r == request[q]
  <2>1. Good(r, seen) /\ r \in Calls BY DEF IInv, Good
  <2>2. generation \in 0..MaxEvictions /\ row \in Rows BY <1>1 DEF TypeOK
  <2>3. ASSUME NEW t, Fresh(t), request' = [request EXCEPT ![q] = t], generation' = generation
        PROVE  SlotsExist' /\ SingleFlight'
    <3>1. generation' \in Nat /\ generation' >= generation BY <1>1, <2>3
    <3> QED BY <1>1, <2>3, <3>1, FreshKept
  <2>4. ASSUME NEW t, Fresh(t), Becomes(q, t) PROVE SlotsExist' /\ SingleFlight'
    BY <2>3, <2>4 DEF Becomes, program
  <2>5. ASSUME NEW kind \in Kinds, NEW asked \in Sources \cup {None}, ReadsRow(q, kind, asked)
        PROVE  SlotsExist' /\ SingleFlight'
    <3> DEFINE t == [Idle EXCEPT !.step = "source", !.kind = kind, !.asked = asked, !.row = row]
    <3>1. Fresh(t) BY DEF Fresh, Idle
    <3>2. Becomes(q, t) BY <2>5 DEF ReadsRow
    <3> HIDE DEF t
    <3> QED BY <2>4, <3>1, <3>2
  <2>6. CASE Gone(q) BY <1>2, <2>6 DEF Gone, vars, program
  <2>7. CASE ReadsSource(q)
    <3> DEFINE order == Candidates(r.row, source, r.asked)
               t == [r EXCEPT !.order = order, !.asked = None]
               u == [t EXCEPT !.step = "slot", !.slot = generation]
    <3>1. order \in Seq(Sources)
      BY <1>1, <2>1, CandidatesAreSources DEF TypeOK, Calls
    <3> HIDE DEF order
    <3>2. t \in Calls BY <2>1, <3>1 DEF Calls
    <3>3. u.step = "slot" /\ u.slot = generation BY <3>2 DEF Calls
    <3>4. Becomes(q, IF t.kind = "download" THEN TryNext(t)
                     ELSE IF Lists(t.order, "github") THEN u ELSE Answer(t, FALSE))
      BY <2>7 DEF ReadsSource, order
    <3>5. Fresh(u) BY <3>3 DEF Fresh
    <3> HIDE DEF t, u
    <3>6. Fresh(TryNext(t)) /\ Fresh(Answer(t, FALSE)) BY <3>2, TryNextFresh, AnswerFresh
    <3> QED BY <2>4, <3>4, <3>5, <3>6
  <2>8. CASE BackendAnswers(q)
    <3>1. Fresh(Redirect(r, "oss")) BY <2>1, RedirectFresh
    <3> QED BY <2>4, <2>8, <3>1 DEF BackendAnswers
  <2>9. CASE BackendFails(q)
    <3>1. r.step = "backend" /\ r.order # <<>> BY <2>1, <2>9 DEF BackendFails, Good
    <3>2. Fresh(TryNext([r EXCEPT !.order = Tail(@)])) BY <2>1, <3>1, SkipFresh
    <3> QED BY <2>3, <2>9, <3>2 DEF BackendFails
  <2>10. CASE TakesSlot(q)
    <3> DEFINE entry == slots[r.slot]
    <3>1. r.step = "slot" /\ ~Locked(r.slot) BY <2>10 DEF TakesSlot
    <3>2. CASE Hits(entry, r.row)
      <4>1. entry.live \in BOOLEAN BY <1>1, <2>1 DEF TypeOK, Entries, Calls
      <4>2. Fresh(GoOn(r, entry.live)) BY <2>1, <3>1, <4>1, GoOnFresh
      <4> QED BY <2>4, <2>10, <3>2, <4>2 DEF TakesSlot
    <3>3. CASE ~Hits(entry, r.row)
      <4> DEFINE t == [r EXCEPT !.step = "probe"]
      <4>1. request' = [request EXCEPT ![q] = t] /\ generation' = generation
        BY <2>10, <3>3 DEF TakesSlot, Becomes, program
      <4>2. t.step = "probe" /\ t.slot = r.slot BY <2>1 DEF Calls
      <4> HIDE DEF t
      <4>3. request'[q] = t /\ \A p \in Requests \ {q} : request'[p] = request[p]
        BY <1>1, <4>1 DEF TypeOK
      <4>4. SlotsExist' BY <3>1, <4>1, <4>2, <4>3 DEF SlotsExist
      <4>5. \A p \in Requests : request[p].step = "probe" => request[p].slot # r.slot
        BY <3>1 DEF Locked
      <4>6. SingleFlight' BY <4>2, <4>3, <4>5 DEF SingleFlight, Probing
      <4> QED BY <4>4, <4>6
    <3> QED BY <3>2, <3>3
  <2>11. ASSUME r.step = "probe", NEW live \in BOOLEAN, Stores(q, live), generation' = generation
         PROVE  SlotsExist' /\ SingleFlight'
    <3>1. Fresh(GoOn(r, live)) BY <2>1, <2>11, GoOnFresh
    <3> QED BY <2>3, <2>11, <3>1 DEF Stores
  <2>12. CASE ProbeAnswers(q)
    <3>1. Matches(asset[r.row.mirror], r.row.sha) \in BOOLEAN BY DEF Matches
    <3> QED BY <2>11, <2>12, <3>1 DEF ProbeAnswers
  <2>13. CASE ProbeFails(q) BY <2>11, <2>13 DEF ProbeFails
  <2>14. CASE Ends(q) \/ Dropped(q)
    <3>1. Fresh(Idle) BY DEF Fresh, Idle
    <3> QED BY <2>4, <2>14, <3>1 DEF Ends, Dropped
  <2>15. "offer" \in Kinds /\ "download" \in Kinds BY DEF Kinds
  <2> QED BY <1>5, <2>5, <2>6, <2>7, <2>8, <2>9, <2>10, <2>12, <2>13, <2>14, <2>15
          DEF RequestNext, Progress
<1>6. CASE UNCHANGED vars BY <1>2, <1>6 DEF vars, program
<1> QED BY <1>3, <1>4, <1>5, <1>6 DEF Next

\* The probes in flight hold different slots, of which there have been as many as
\* maps.
LEMMA FlightIsBounded ==
  ASSUME TypeOK, SlotsExist, SingleFlight
  PROVE  IsFiniteSet(Probing) /\ Cardinality(Probing) <= generation + 1
<1>1. generation \in Nat BY DEF TypeOK
<1> DEFINE T == 0..generation
           f == [q \in Probing |-> request[q].slot]
<1>2. IsFiniteSet(T) /\ Cardinality(T) = generation + 1 BY <1>1, FS_Interval
<1>3. \A q \in Probing : request[q].slot \in T BY <1>1 DEF Probing, SlotsExist, TypeOK, Calls
<1>4. f \in Injection(Probing, T)
  BY <1>3 DEF SingleFlight, Injection, IsInjective
<1> HIDE DEF f, T
<1> QED BY <1>2, <1>4, FS_Injection

\* is_mirror_live sends one probe per slot at a time; a second one for the same
\* artifact takes a map that was cleared under the first.
THEOREM ProbesAreSingleFlight == Spec => []ProbesAreBounded
<1>1. Init => SlotsExist /\ SingleFlight BY DEF Init, Idle, SlotsExist, SingleFlight, Probing
<1>2. Spec => [](SlotsExist /\ SingleFlight)
  BY <1>1, FlightStep, AlwaysIInv, PTL DEF Spec
<1>3. TypeOK /\ SlotsExist /\ SingleFlight => ProbesAreBounded
  BY FlightIsBounded DEF ProbesAreBounded
<1> QED BY <1>2, <1>3, TypeCorrect, PTL

\* As long as the cache has never been full there is one probe for the artifact.
COROLLARY OneProbeUntilFull == Spec => [](generation = 0 => OneProbe)
<1>1. ProbesAreBounded => (generation = 0 => OneProbe) BY DEF ProbesAreBounded, OneProbe
<1> QED BY <1>1, ProbesAreSingleFlight, PTL
=============================================================================
