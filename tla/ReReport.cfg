CONSTANTS
  Handlers = {h1}
  ProposalIds = {p1, p2}
  UnknownId = no_such_case
  Payloads = {{a}}
  Scalars = {a}
  NoPayload = nothing
  Deciders = {r1}
  BlankNames = {}
  MaxPerformed = 2
  MaxTexts = 1
  LooseRequests = FALSE
  Fabricates = FALSE
  Faulty = FALSE
SPECIFICATION Spec
INVARIANTS
  ReportedOnceOpenedOnce
