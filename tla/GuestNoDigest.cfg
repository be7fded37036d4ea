\* A confirmed call that takes effect without expected_digest.
SPECIFICATION Spec
CONSTANTS
  None = None
  Calls = {c1}
  VMIDs = {v1}
  MainID = v1
  SpareID = v1
  Nodes = {"n1", "n2"}
  AllowedNodes = {"n1"}
  Names = {"web", "db"}
  Hws = {h1}
  Macs = {}
  Bridges = {}
  Tags = {}
  MaxDisk = 1
  Enabled = {"power", "destroy"}
  Actions = {"start", "stop"}
  RelSizes = {}
  InitGuests <- PlainGuests
  ExternalOps = {"reconfigure", "power", "create", "destroy", "migrate"}
INVARIANTS
  ConfirmedCallsNeedDigest
