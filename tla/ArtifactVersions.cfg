CONSTANTS
  Clients = {c1, c2}
  SaveIds = {s1, s2, s3}
  NoSave = nosave
  NoVersion = none
  MayRefer = {1}
  MaxReads = 1
  Versions = {0}
  Operations = {"save", "load_latest", "load_version", "list_versions", "list_keys", "delete"}
  Backends = {"cloud", "local"}
SPECIFICATION Spec
SYMMETRY Symmetry
INVARIANTS
  IInv
  LoadsAreFresh
  FailuresHaveCause
  DeletedIsGone
PROPERTIES
  SavedIsKept
