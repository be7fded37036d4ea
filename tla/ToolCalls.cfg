\* Two calls of any of the tools on a node with a virtual machine and a
\* container that start and stop, and a disk of up to ten bytes.
SPECIFICATION Spec
CONSTANTS
  Calls = {k1, k2}
  k1 = k1
  n1 = n1
  n2 = n2
  v1 = v1
  c1 = c1
  VMs = {v1}
  CTs = {c1}
  Nodes = {n1, n2}
  AllowedNodes = {n1}
  HostOf <- OneHost
  Scenarios <- AllScenarios
  Disks <- OneDisk
  MaxBytes = 10
  Word = 64
  Kilo = 2
  Invalid = Invalid
  None = None
CHECK_DEADLOCK FALSE
INVARIANTS
  CallInv
  EntriesTellWhatHappened
  OneEntryPerCall
  PreviewsAreTruthful
  CommandsWereAllowed
PROPERTIES
  DiskNeverShrinks
