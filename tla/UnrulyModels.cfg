CONSTANTS
  Handlers = {h1, h2}
  ProposalIds = {p1}
  UnknownId = no_such_case
  Payloads = {{a}, {a, n}, {n}}
  Scalars = {a}
  NoPayload = nothing
  Deciders = {""}
  BlankNames = {}
  MaxPerformed = 2
  MaxTexts = 1
  LooseRequests = TRUE
  Fabricates = TRUE
  Faulty = TRUE
SPECIFICATION Spec
SYMMETRY Symmetry
INVARIANTS
  DriveIsApproved
  ClosedAsApproved
PROPERTIES
  TerminalIsFinal
