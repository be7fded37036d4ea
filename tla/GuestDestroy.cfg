\* Destroy, protection and power calls racing other clients over one VMID.
SPECIFICATION Spec
CONSTANTS
  None = None
  Calls = {c1}
  VMIDs = {v1}
  MainID = v1
  SpareID = v1
  Nodes = {"n1", "n2"}
  AllowedNodes = {"n1"}
  Names = {"web", "db"}
  Hws = {h1}
  Macs = {}
  Bridges = {}
  Tags = {}
  MaxDisk = 1
  Enabled = {"power", "destroy"}
  Actions = {"start", "stop"}
  RelSizes = {}
  InitGuests <- PlainGuests
  ExternalOps = {"reconfigure", "power", "create", "destroy", "migrate"}
INVARIANTS
  TypeOK
  IInv
  BindingInv
  EffectsWereAllowed
  UndisturbedBinding
PROPERTIES
  ImplementsContract
