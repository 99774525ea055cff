CONSTANTS
  Handlers = {h1, h2}
  ProposalIds = {p1, p2}
  UnknownId = no_such_case
  Payloads = {{a}, {b}}
  Scalars = {a, b}
  NoPayload = nothing
  Deciders = {r1, spaces}
  BlankNames = {spaces}
  MaxPerformed = 2
  MaxTexts = 2
  LooseRequests = FALSE
  Fabricates = FALSE
  Faulty = TRUE
SPECIFICATION Spec
SYMMETRY Symmetry
INVARIANTS
  IInv
  AnswersStayTrue
  OnlyApprovedIsPublished
  ExecutedWasPublished
PROPERTIES
  DecisionIsFinal
  TurnsAreRecorded
  ClosedStaysQuiet
  ImplementsLifecycle
