\* Every tool, one call, with replies that are lost or never come.
SPECIFICATION FairSpec
CONSTANTS
  None = None
  Calls = {c1}
  VMIDs = {v1, v2}
  MainID = v1
  SpareID = v2
  Nodes = {"n1"}
  AllowedNodes = {"n1"}
  Names = {"web"}
  Hws = {h1}
  Macs = {}
  Bridges = {}
  Tags = {}
  MaxDisk = 1
  Enabled = {"power", "config", "storage", "destroy"}
  Actions = {"stop", "reboot"}
  RelSizes = {0}
  InitGuests <- StorageGuests
  ExternalOps = {"power"}
CHECK_DEADLOCK FALSE
PROPERTIES
  CallsEnd
