CONSTANTS
  Handlers = {h1}
  ProposalIds = {p1}
  UnknownId = no_such_case
  Payloads = {{a}}
  Scalars = {a}
  NoPayload = nothing
  Deciders = {spaces}
  BlankNames = {spaces}
  MaxPerformed = 2
  MaxTexts = 2
  LooseRequests = FALSE
  Fabricates = FALSE
  Faulty = FALSE
SPECIFICATION FairSpec
PROPERTIES
  ApprovedIsExecuted
