--------------------------- MODULE GuestProperties ---------------------------
(***************************************************************************)
(* What the guest tools of GuestTools.tla guarantee, and what the          *)
(* documentation says of them that they do not.                            *)
(***************************************************************************)
EXTENDS GuestTools

Contract == INSTANCE GuestContract WITH
  done <- {c \in Calls : hit[c] # None},
  unprotected <- {c \in Calls : unprot[c] = "performed"}

\* The reading, deciding and writing of the handlers, spread over several HTTP
\* exchanges, amounts to the one-step operations of GuestContract: an edit of
\* hardware, disk or network is atomic although it is a read, a merge and a
\* write, because the digest it sends is the digest of what it read.
ImplementsContract == Contract!Spec

\* An edit takes effect on the configuration whose digest the caller passed as
\* expected_digest and on no other, however the calls and the other clients of
\* Proxmox interleave (qemu.go:218-223, 315-324, 452-460 and their lxc.go twins).
EditsHitWhatWasApproved ==
  \A c \in Calls :
    hit[c] # None /\ args[c].tool \in {"hardware", "resize", "network"} =>
      args[c].confirm /\ args[c].digest = Digest(hit[c].conf)

\* A write takes effect only for a call that was confirmed, in an enabled
\* category, on an allowed node where the guest is at that moment, and, for
\* a hard stop, forced - also after a guest has moved or been replaced.
EffectsWereAllowed ==
  \A c \in Calls :
    hit[c] # None =>
      /\ args[c].confirm
      /\ CategoryOf(args[c].tool) \in Enabled
      /\ AllowedNodes = {} \/ hit[c].node \in AllowedNodes
      /\ args[c].tool = "power" /\ args[c].action = "stop" => args[c].force

\* When a resize times out and is retried with the digest that was approved,
\* the disk grows once: the two calls do not both take effect.  (Where nobody
\* destroys guests, the disk's entry records a size, and the size is not +0.)
RetryGrowsOnce ==
  "destroy" \notin Enabled /\ "destroy" \notin ExternalOps =>
    \A c, d \in Calls :
      /\ c # d
      /\ hit[c] # None /\ args[c].tool = "resize" /\ hit[c].conf.sized /\ args[c].size > 0
      /\ hit[d] # None /\ args[d].tool = "resize" /\ hit[d].conf.sized /\ args[d].size > 0
      /\ args[c].vmid = args[d].vmid
      => args[c].digest # args[d].digest

\* A resize whose disk entry records a size never makes the disk smaller and,
\* given as a target capacity, always makes it larger, also when the disk grew
\* between the read that validated it and the write (common.go:414-427).
ResizeGrows ==
  [][\A c \in Calls :
       hit[c] = None /\ hit'[c] # None /\ args[c].tool = "resize" /\ hit'[c].conf.sized =>
         LET new == guest'[args[c].vmid].conf.disk
             old == guest[args[c].vmid].conf.disk
         IN  new >= old /\ (~args[c].relative => new > old)]_vars

\* A network update leaves in place what it does not name, as it stands when
\* the write takes effect: the interface's hardware address, and the bridge and
\* tag that were not passed (common.go:437-469).
NetworkKeepsTheRest ==
  [][\A c \in Calls :
       hit[c] = None /\ hit'[c] # None /\ args[c].tool = "network" /\ hit'[c].conf.net # None =>
         LET new == guest'[args[c].vmid].conf.net
             old == guest[args[c].vmid].conf.net
         IN  /\ new.mac = old.mac
             /\ args[c].bridge = None => new.bridge = old.bridge
             /\ args[c].tag = None => new.tag = old.tag]_vars

\* Where nobody else changes the guest between the approval and the write, a
\* destroy finds the guest that was named and, if its configuration could be
\* read, the approved one, unprotected only on request (qemu.go:652-712); so
\* do a hard stop and a clone, whose writes carry no digest either.
UndisturbedBinding ==
  \A c \in Calls :
    hit[c] # None /\ ~disturbed[c] =>
      /\ args[c].tool = "destroy" \/ (args[c].tool = "power" /\ args[c].action = "stop")
           => args[c].name = hit[c].conf.name
      /\ args[c].tool \in {"destroy", "power", "clone"} /\ seen[c] # None =>
           /\ args[c].digest = Digest(seen[c])
           /\ hit[c].conf = IF args[c].tool = "destroy" THEN [seen[c] EXCEPT !.prot = FALSE] ELSE seen[c]
      /\ args[c].tool = "destroy" /\ seen[c] # None /\ seen[c].prot => args[c].unprotect

\* Every call that is admitted is answered, whatever Proxmox does: no reply is
\* awaited without a time limit (client.go:89-92, common.go:312-343).
CallsEnd == \A c \in Calls : pc[c] # "idle" ~> pc[c] = "done"

-----------------------------------------------------------------------------
(* Said by the documentation, and not so.                                  *)

\* server.go:29: a call without confirm "generates a structured [DRY RUN
\* PREVIEW - USER CONFIRMATION REQUIRED] impact plan without making changes".
DryRunChangesNothing ==
  \A c \in Calls :
    args[c] # None /\ ~args[c].confirm => hit[c] = None /\ unprot[c] # "performed"

\* README.md:250: all guest mutation tools require expected_digest when
\* confirm=true.  (Creating a container mutates no existing guest.)
ConfirmedCallsNeedDigest ==
  \A c \in Calls :
    hit[c] # None /\ args[c].tool # "create" => args[c].digest # None

\* README.md:250: the digest, "matching the live SHA-1 hash of the guest .conf
\* file", prevents "modifications against stale state".  Stated for the calls
\* that passed a digest and read a configuration; destroy's own removal of the
\* protection flag is allowed for.
NoModificationOfStaleState ==
  \A c \in Calls :
    hit[c] # None /\ args[c].digest # None /\ seen[c] # None =>
      \/ args[c].digest = Digest(hit[c].conf)
      \/ args[c].tool = "destroy" /\ hit[c].conf = [seen[c] EXCEPT !.prot = FALSE]
=============================================================================
