\* Hardware and network updates racing the edits of other clients.
SPECIFICATION Spec
CONSTANTS
  None = None
  Calls = {c1}
  VMIDs = {v1}
  MainID = v1
  SpareID = v1
  Nodes = {"n1"}
  AllowedNodes = {}
  Names = {"web"}
  Hws = {h1, h2}
  Macs = {m1, m2}
  Bridges = {b1, b2}
  Tags = {"t1"}
  MaxDisk = 1
  Enabled = {"config"}
  Actions = {}
  RelSizes = {}
  InitGuests <- ConfigGuests
  ExternalOps = {"reconfigure"}
SYMMETRY ConfigSymmetry
INVARIANTS
  IInv
  EditsHitWhatWasApproved
PROPERTIES
  NetworkKeepsTheRest
  ImplementsContract
