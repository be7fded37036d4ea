------------------------------- MODULE MCGuest -------------------------------
(* Values for the constants of the guest tools' runs.                      *)
EXTENDS GuestInvariant, TLC

CONSTANTS MainID, SpareID   \* a VMID with a guest and one for new guests

\* Virtual machines with one small disk and no interface, of either name, flag
\* and status: what destroy, power and protection tell apart.
PlainGuests ==
  {g \in Guests : /\ g.node = "n1" /\ g.kind = "qemu"
                  /\ g.conf.disk = 1 /\ g.conf.sized /\ g.conf.net = None}

\* Running guests of either kind, hardware and interface: what the hardware and
\* network tools tell apart.
ConfigGuests ==
  {g \in Guests : g.status = "running" /\ g.conf.sized /\ ~g.conf.prot}

\* A container with a disk of size one, its size recorded or not, or nothing.
StorageGuests ==
  {g \in Guests : /\ g.node = "n1" /\ g.kind = "lxc" /\ g.status = "running"
                  /\ g.conf.disk = 1 /\ ~g.conf.prot} \union {None}

\* The same, with the size recorded.
SizedGuests == {g \in StorageGuests : g # None => g.conf.sized}

\* Bounds of the run with two calls: they are confirmed, carry a digest where
\* they have the parameter, and resize or clone container v1 or make container v2, which
\* does not exist at the start.  (The runs with one call have the dry runs, the
\* omissions and both kinds.)
AskedInEarnest ==
  /\ guest[MainID] # None
  /\ guest[SpareID] # None => \E c \in Calls : hit[c] # None
  /\ \A c \in Calls : args[c] # None =>
       /\ args[c].confirm /\ args[c].kind = "lxc"
       /\ args[c].tool = "create" <=> args[c].digest = None
       /\ args[c].tool = "clone" => args[c].name = None
       /\ args[c].vmid = IF args[c].tool = "create" THEN SpareID ELSE MainID

CallSymmetry == Permutations(Calls)

\* Profiles, hardware addresses and bridges are compared for equality only.
ConfigSymmetry == Permutations(Hws) \union Permutations(Macs) \union Permutations(Bridges)
=============================================================================
