CONSTANTS
  Handlers = {h1, h2}
  ProposalIds = {p1}
  UnknownId = no_such_case
  Payloads = {{a}}
  Scalars = {a}
  NoPayload = nothing
  Deciders = {r1, ""}
  BlankNames = {}
  MaxPerformed = 2
  MaxTexts = 2
  LooseRequests = FALSE
  Fabricates = FALSE
  Faulty = TRUE
SPECIFICATION FairSpec
PROPERTIES
  ApprovedIsExecuted
