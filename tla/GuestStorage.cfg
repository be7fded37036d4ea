\* Two calls that resize, clone and create over two VMIDs, and a client that
\* edits: retries of a resize, and resizes of what is being cloned.
SPECIFICATION Spec
CONSTANTS
  None = None
  Calls = {c1, c2}
  MainID = v1
  SpareID = v2
  VMIDs = {v1, v2}
  Nodes = {"n1"}
  AllowedNodes = {"n1"}
  Names = {"web"}
  Hws = {h1}
  Macs = {}
  Bridges = {}
  Tags = {}
  MaxDisk = 3
  Enabled = {"storage"}
  Actions = {}
  RelSizes = {1}
  InitGuests <- SizedGuests
  ExternalOps = {"grow"}
SYMMETRY CallSymmetry
CONSTRAINT AskedInEarnest
CHECK_DEADLOCK FALSE
INVARIANTS
  GrowthInv
  RetryGrowsOnce
PROPERTIES
  ResizeGrows
  ImplementsContract
