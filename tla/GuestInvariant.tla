--------------------------- MODULE GuestInvariant ----------------------------
(***************************************************************************)
(* The inductive invariants of GuestTools.tla.  IInv says of a write in    *)
(* flight what the handler knew when it sent it (GoodWrite); the digest    *)
(* Proxmox compares makes that knowledge hold again when the write takes   *)
(* effect.  On top of it, BindingInv says what a call without such a write *)
(* knows of its guest as long as nobody else changed it, and GrowthInv     *)
(* what is left of a resize for as long as the guest exists.               *)
(***************************************************************************)
EXTENDS GuestProperties

Edits == {"hardware", "resize", "network"}

\* What is known of a write w sent for request r: it was confirmed, and for an
\* edit there is the configuration that was read, approved and decided on.
GoodWrite(r, w) ==
  /\ w \in Writes
  /\ r.confirm
  /\ r.tool \in Edits =>
       \E conf \in Confs :
         /\ r.digest = Digest(conf) /\ w.digest = Digest(conf)
         /\ r.tool = "hardware" => r.hw # None
         /\ r.tool = "resize" => ValidateDiskGrowth(ExtractDiskSizeBytes(conf), r.relative, r.size)
         /\ r.tool = "network" =>
              w.net = MergeNetworkConfig(conf.net, r) /\ w.net.bridge # None

\* Calls in progress have admitted arguments, and only they have state.
ArgsInv ==
  \A c \in Calls :
    /\ pc[c] = "idle" <=> args[c] = None
    /\ args[c] # None => Admissible(args[c])
    /\ args[c] = None => wire[c] = None /\ unprot[c] = "no" /\ hit[c] = None

WireInv ==
  \A c \in Calls : wire[c] # None => GoodWrite(args[c], wire[c]) /\ hit[c] = None

\* Protection is removed by a destroy that was asked to, once it has read the
\* configuration.
UnprotInv ==
  \A c \in Calls :
    unprot[c] # "no" =>
      /\ args[c].tool = "destroy" /\ args[c].unprotect
      /\ pc[c] \in {"unprotect", "sent", "done"}

\* A call that has not sent its write has none in flight and none performed.
SentInv ==
  \A c \in Calls : pc[c] \notin {"sent", "done"} => wire[c] = None /\ hit[c] = None

HitInv ==
  \A c \in Calls :
    hit[c] # None =>
      /\ args[c].confirm /\ hit[c].node = args[c].node
      /\ args[c].tool \in Edits => args[c].digest = Digest(hit[c].conf)

IInv == TypeOK /\ ArgsInv /\ WireInv /\ UnprotInv /\ SentInv /\ HitInv

-----------------------------------------------------------------------------
(* Binding without a digest in the write                                   *)

\* What may have become of a configuration by c's own removal of the protection.
OwnChanges(c, conf) ==
  {conf} \union {new \in {[conf EXCEPT !.prot = FALSE]} : args[c].tool = "destroy"}

\* The guest of call c exists and has the name the caller expects.
Named(c) == Live(c) # None /\ Live(c).conf.name = args[c].name

\* A call that nobody disturbed and whose write has not taken effect: what it
\* read is still what its guest is, and what it decided is still so.
Undisturbed(c) ==
  /\ seen[c] # None => Live(c) # None /\ Live(c).conf \in OwnChanges(c, seen[c])
  /\ args[c].tool = "destroy" /\ (pc[c] \in {"config", "unprotect"} \/ wire[c] # None) => Named(c)
  /\ args[c].tool = "power" /\ args[c].action = "stop" /\ wire[c] # None => Named(c)
  /\ args[c].tool = "destroy" /\ (pc[c] = "unprotect" \/ wire[c] # None) /\ seen[c] # None
       => (seen[c].prot => args[c].unprotect)
  /\ wire[c] # None /\ seen[c] # None => args[c].digest = Digest(seen[c])

\* A call that nobody disturbed and whose write took effect (UndisturbedBinding).
BoundTo(c, g) ==
  /\ args[c].tool = "destroy" \/ (args[c].tool = "power" /\ args[c].action = "stop")
       => args[c].name = g.conf.name
  /\ args[c].tool \in {"destroy", "power", "clone"} /\ seen[c] # None =>
       /\ args[c].digest = Digest(seen[c])
       /\ g.conf = IF args[c].tool = "destroy" THEN [seen[c] EXCEPT !.prot = FALSE] ELSE seen[c]
  /\ args[c].tool = "destroy" /\ seen[c] # None /\ seen[c].prot => args[c].unprotect

Binding(c) ==
  /\ pc[c] \in {"idle", "status", "config", "post"} => seen[c] = None
  /\ ~disturbed[c] /\ args[c] # None /\ args[c].tool \in {"power", "clone", "destroy"} =>
       IF hit[c] = None THEN Undisturbed(c) ELSE BoundTo(c, hit[c])

BindingInv == \A c \in Calls : Binding(c)

-----------------------------------------------------------------------------
(* Growth                                                                  *)

\* Nobody destroys guests.
GuestsLast == "destroy" \notin Enabled /\ "destroy" \notin ExternalOps

\* Call c was a resize that must have made a disk larger.
Grew(c) ==
  hit[c] # None /\ args[c].tool = "resize" /\ hit[c].conf.sized /\ args[c].size > 0

\* The disk is larger than the resize found it, and stays so.
GrowthInv ==
  GuestsLast =>
    \A c \in Calls :
      Grew(c) => Live(c) # None /\ Live(c).conf.sized /\ Live(c).conf.disk > hit[c].conf.disk
=============================================================================
