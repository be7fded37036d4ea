------------------------------- MODULE Common --------------------------------
(***************************************************************************)
(* The requests of the guest tools and the helpers of                      *)
(* internal/tools/common.go that decide about them.                        *)
(***************************************************************************)
EXTENDS Proxmox

CONSTANTS
  Enabled,        \* the categories switched on by PVE_ENABLE_*
  AllowedNodes,   \* PVE_ALLOWED_NODES; empty means every node
  Actions,        \* the power actions callers ask for
  RelSizes        \* the N of the "+N" sizes callers ask for

ASSUME ToolsAssumption ==
  /\ Enabled \subseteq {"power", "config", "storage", "destroy"}
  /\ Actions \subseteq PowerActions
  /\ RelSizes \subseteq 0 .. MaxDisk

Tools == {"power", "hardware", "resize", "network", "clone", "create", "destroy", "protection"}

CategoryOf(tool) ==
  CASE tool = "power" -> "power"
    [] tool \in {"hardware", "network"} -> "config"
    [] tool \in {"resize", "clone", "create"} -> "storage"
    [] OTHER -> "destroy"

\* The arguments of a tool call after parsing; a tool ignores the parameters it
\* does not have.  digest is expected_digest, name is expected_name of power and
\* destroy and the name of the guest to make for clone and create.
Reqs == [tool : Tools, kind : Kinds, vmid : VMIDs, node : Nodes,
         confirm : BOOLEAN, digest : Digests \union {None},
         action : PowerActions \union {None}, force : BOOLEAN,
         name : Names \union {None}, hw : Hws \union {None},
         bridge : Bridges \union {None}, tag : Tags \union {None},
         relative : BOOLEAN, size : 0 .. MaxDisk, newid : VMIDs \union {None},
         unprotect : BOOLEAN, protected : BOOLEAN]

\* A call that was never made has no arguments.
ASSUME NoneReqAssumption == None \notin Reqs

-----------------------------------------------------------------------------
\* Whether an operator's deployment admits the call at all.
EnsureAllowed(tool) == CategoryOf(tool) \in Enabled

\* (mutant: the allowlist is not consulted)
ValidateAnyNode(node) == node \in Nodes

ValidateAllowedNode(node) == AllowedNodes = {} \/ node \in AllowedNodes

\* Guards a handler evaluates before its first request.
Admissible(r) ==
  /\ EnsureAllowed(r.tool)
  /\ ValidateAllowedNode(r.node)
  /\ r.tool = "power" /\ r.action = "stop" => r.force
  /\ r.tool = "clone" => r.newid \in VMIDs \ {r.vmid}

\* (mutant: an expected name that is required may be absent)
VerifyOptionalIdentity(expected, liveName, required) == expected = None \/ expected = liveName

VerifyTargetIdentity(expected, liveName, required) ==
  IF expected = None THEN ~required ELSE expected = liveName

\* (mutant: an absent expected_digest is accepted)
VerifyGivenDigest(expected, liveDigest) == liveDigest = None \/ expected \in {None, liveDigest}

\* An empty live digest is accepted whatever the caller expected.
VerifyTargetDigest(expected, liveDigest) == liveDigest = None \/ expected = liveDigest

\* (mutant: the present size is let through)
ValidateNoShrink(currentBytes, relative, size) ==
  relative \/ (size > 0 /\ (currentBytes = 0 \/ size >= currentBytes))

\* A size "+N" is not looked at; "N" must exceed the current size where the
\* configuration records one (currentBytes is 0 where it does not).
ValidateDiskGrowth(currentBytes, relative, size) ==
  relative \/ (size > 0 /\ (currentBytes = 0 \/ size > currentBytes))

ExtractDiskSizeBytes(conf) == IF conf.sized THEN conf.disk ELSE 0

\* (mutant: the interface is built from the parameters alone)
ReplaceNetworkConfig(current, r) == [mac |-> None, bridge |-> r.bridge, tag |-> r.tag]

\* The interface the network tools write back: every key of the interface that
\* was read, replaced by the update where there is one.  A new interface leaves
\* its hardware address to PVE.
MergeNetworkConfig(current, r) ==
  LET base == IF current = None THEN [mac |-> None, bridge |-> None, tag |-> None] ELSE current
  IN  [base EXCEPT !.bridge = IF r.bridge = None THEN @ ELSE r.bridge,
                   !.tag = IF r.tag = None THEN @ ELSE r.tag]

MergedNets == [mac : Macs \union {None}, bridge : Bridges \union {None}, tag : Tags \union {None}]

-----------------------------------------------------------------------------
(* What PVE makes of a configuration write: the configurations that request *)
(* r may leave behind, net being the interface written by a network update. *)
Rewrites(r, conf, net) ==
  CASE r.tool = "hardware" -> {[conf EXCEPT !.hw = r.hw]}
    [] r.tool = "protection" -> {[conf EXCEPT !.prot = r.protected]}
    [] r.tool = "resize" ->
         {new \in {[conf EXCEPT !.disk = IF r.relative THEN @ + r.size ELSE r.size]} : new.disk \in 1 .. MaxDisk}
    [] r.tool = "network" ->
         {[conf EXCEPT !.net = [net EXCEPT !.mac = m]] : m \in IF net.mac = None THEN Macs ELSE {net.mac}}
=============================================================================
