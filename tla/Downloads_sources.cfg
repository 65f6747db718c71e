CONSTANTS
  b1 = b1
  b2 = b2
  b3 = b3
  u1 = u1
  q1 = q1
  q2 = q2
  Requests = {q1, q2}
  Bytes = {b1, b2, b3}
  Size <- Lengths
  Published = {b1}
  Uploads = {b1, b2}
  Urls = {u1}
  None = None
  MaxChanges = 2
  MaxEvictions = 1
SPECIFICATION Spec
INVARIANTS MirrorWasVerified HashWasVerified LinksLead ProbesAreBounded
PROPERTIES DraftWindowEnds VisibleDriftStopsExposure
