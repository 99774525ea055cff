CONSTANTS
  Clients = {c1, c2}
  SaveIds = {s1, s2}
  NoSave = nosave
  NoVersion = none
  MayRefer = {}
  MaxReads = 1
  Versions = {0}
  Operations = {"save", "load_latest"}
  Backends = {"cloud"}
SPECIFICATION Spec
SYMMETRY Symmetry
INVARIANTS
  AcknowledgedIsStored
