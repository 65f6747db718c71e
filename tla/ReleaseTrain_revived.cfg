CONSTANTS
  r1 = r1
  r2 = r2
  stable = stable
  h1 = h1
  h2 = h2
  Releases = {r1}
  Channels = {stable}
  None = None
  Handlers = {h1, h2}
  Direct = {r1}
  MaxMoves = 1
SPECIFICATION Spec
PROPERTIES YankedIsFinal
