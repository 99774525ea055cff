\* Two pods, two requests at a time, one restart; a specialist that
\* may publish twice for a request, and computes 2, 2.5 and 8.5 (which doubles
\* of four bits take for 8).
CONSTANTS
  Precision = 4
  BlankNames = {}
  Pods = {p1, p2}
  Handlers = {h1, h2}
  ProposalIds = {c1, c2}
  UnknownId = unknown
  NoPod = no_pod
  Numbers = {4, 5, 17}
  Mistakes = {"OverflowError", "ValueError"}
  Labels = {"q3"}
  Deciders = {"alice"}
  Narrations = {"brace", "quote"}
  Deliveries = {"listed"}
  MaxAsks = 2
  MaxTools = 2
  MaxRestarts = 1
SYMMETRY Interchangeable
SPECIFICATION Spec
CHECK_DEADLOCK FALSE
INVARIANTS
  TypeOK
PROPERTIES
  FollowsLifecycle
  ProposalsBecomeCases
  SameNumberConfirms
  ApprovedIsPublished
