---------------------------- MODULE ReleaseBoard ----------------------------
(***************************************************************************)
(* What the release endpoints promise, with no handler, read or lock in    *)
(* sight: every request that succeeds is one operation, done at once, on a *)
(* release and the outbox or on a channel, its history and the outbox. Of  *)
(* what a handler tested before, the guards keep what is still true when   *)
(* it writes: a promoted release has left draft, but may have been yanked; *)
(* a rollback without a version goes back to what its channel has served.  *)
(***************************************************************************)
EXTENDS Naturals, Sequences

CONSTANTS
  Releases, Channels,
  None,        \* no release
  Direct       \* the releases that may be published over again

VARIABLES
  status,      \* of each release
  announced,   \* how often it was announced
  pointer,     \* the release each channel is at
  history,     \* the moves of each channel
  told         \* how many of them were told

vars == <<status, announced, pointer, history, told>>

Init ==
  /\ status = [r \in Releases |-> "absent"]
  /\ announced = [r \in Releases |-> 0]
  /\ pointer = [c \in Channels |-> None]
  /\ history = [c \in Channels |-> <<>>]
  /\ told = [c \in Channels |-> 0]

Created(r)   == status[r] # "absent"
Released(r)  == status[r] \in {"published", "yanked"}
Served(c, r) == \E i \in DOMAIN history[c] : history[c][i].rel = r

Create(r) ==
  /\ ~Created(r)
  /\ status' = [status EXCEPT ![r] = "draft"]
  /\ UNCHANGED <<announced, pointer, history, told>>

\* A draft is published and announced in one operation; so is, of the releases
\* in Direct, one that was published or yanked before.
Publish(r) ==
  /\ status[r] = "draft" \/ (r \in Direct /\ Released(r))
  /\ status' = [status EXCEPT ![r] = "published"]
  /\ announced' = [announced EXCEPT ![r] = @ + 1]
  /\ UNCHANGED <<pointer, history, told>>

Yank(r) ==
  /\ status[r] = "published"
  /\ status' = [status EXCEPT ![r] = "yanked"]
  /\ UNCHANGED <<announced, pointer, history, told>>

Move(c, r, op) ==
  /\ pointer' = [pointer EXCEPT ![c] = r]
  /\ history' = [history EXCEPT ![c] = Append(@, [rel |-> r, op |-> op])]
  /\ told' = [told EXCEPT ![c] = @ + 1]
  /\ UNCHANGED <<status, announced>>

Promote(c, r)  == Released(r) /\ Move(c, r, "promote")
Rollback(c, r) == Created(r) /\ Move(c, r, "rollback")
Revert(c, r)   == Served(c, r) /\ Move(c, r, "revert")

Next ==
  \/ \E r \in Releases : Create(r) \/ Publish(r) \/ Yank(r)
  \/ \E c \in Channels, r \in Releases : Promote(c, r) \/ Rollback(c, r) \/ Revert(c, r)

Spec == Init /\ [][Next]_vars
=============================================================================
