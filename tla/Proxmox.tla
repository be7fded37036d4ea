------------------------------- MODULE Proxmox -------------------------------
(***************************************************************************)
(* The Proxmox VE API as the tools of internal/tools use it.  Nothing here *)
(* is part of the repository: a guest is a record behind the REST paths    *)
(* /nodes/{node}/{kind}/{vmid}, its configuration carries a digest, and a  *)
(* write takes effect atomically, at the moment Proxmox performs it.       *)
(***************************************************************************)
EXTENDS Naturals

CONSTANTS
  VMIDs,      \* virtual machine and container ids
  Nodes,      \* nodes of the cluster
  Names,      \* guest names (QEMU) and hostnames (LXC)
  Hws,        \* hardware profiles: cores, sockets, cpu, memory, balloon, swap
  Macs,       \* hardware addresses of network interfaces
  Bridges,    \* network bridges
  Tags,       \* VLAN tags and the other optional settings of an interface
  MaxDisk,    \* capacity of the storage, in units of disk size
  None        \* an absent value: no guest, an empty JSON field, no parameter

ASSUME MaxDiskAssumption == MaxDisk \in Nat \ {0}

Kinds == {"qemu", "lxc"}

PowerActions == {"start", "stop", "shutdown", "reboot", "suspend", "resume"}

\* An interface net<N> as its configuration string spells it out.
Nets == [mac : Macs, bridge : Bridges, tag : Tags \union {None}]

\* A guest's configuration file: its name, the protection flag, the hardware
\* profile, one disk with its capacity and whether the volume's entry records
\* a size, and one network interface or none.
Confs == [name : Names, prot : BOOLEAN, hw : Hws,
          disk : 1 .. MaxDisk, sized : BOOLEAN, net : Nets \union {None}]

Guests == [node : Nodes, kind : Kinds, status : {"running", "stopped"}, conf : Confs]

\* SHA-1 of the configuration file, taken to be free of collisions: equal
\* digests mean equal files, also when a file returns to an earlier content.
Digest(conf) == [sha1 |-> conf]

Digests == {Digest(conf) : conf \in Confs}

\* An absent value is none of the values it stands in for.
ASSUME NoneAssumption ==
  /\ None \notin VMIDs \union Nodes \union Names \union Hws \union Macs \union Bridges \union Tags
  /\ None \notin Digests \union Guests \union Nets \union Confs

\* The path /nodes/{node}/{kind}/{vmid} leads to guest record g.
Serves(g, node, kind) == g # None /\ g.node = node /\ g.kind = kind

\* A write that carries a digest is refused unless it is the current one.
DigestAdmits(digest, conf) == digest = None \/ digest = Digest(conf)

\* status/{action}: refused unless the guest is in a state it applies to.
PowerAdmits(g, action) == (action \in {"start"}) <=> (g.status = "stopped")

StatusAfter(g, action) ==
  CASE action = "start" -> "running"
    [] action \in {"stop", "shutdown"} -> "stopped"
    [] OTHER -> g.status

\* DELETE: refused while the guest runs or is protected.
DeleteAdmits(g) == g.status = "stopped" /\ ~g.conf.prot

\* Configurations of a guest that PVE builds itself, copying the source's disk:
\* a clone has new hardware addresses and a protection flag of its own.
ClonesOf(conf, name) ==
  {new \in Confs : /\ new.name = IF name = None THEN conf.name ELSE name
                   /\ new.hw = conf.hw /\ new.disk = conf.disk /\ new.sized = conf.sized
                   /\ conf.net = None <=> new.net = None
                   /\ conf.net # None => new.net.bridge = conf.net.bridge /\ new.net.tag = conf.net.tag}
=============================================================================
