CONSTANTS
  r1 = r1
  r2 = r2
  stable = stable
  h1 = h1
  h2 = h2
  Releases = {r1, r2}
  Channels = {stable}
  None = None
  Handlers = {h1, h2}
  Direct = {r2}
  MaxMoves = 3
SPECIFICATION Spec
INVARIANTS PointerIsLastMove EventsMatchState OnlyRollbackPinsDrafts AnnouncedOnce RevertsToServedRelease
PROPERTIES FinalizedStaysYanked BoardIsKept
SYMMETRY Symmetric
