---------------------------- MODULE GuestContract ----------------------------
(***************************************************************************)
(* What the guest tools promise to whoever approved a call: each call      *)
(* takes effect at most once, in one step, only when confirmed, and an     *)
(* edit of hardware, disk or network is a compare-and-set: it reads,       *)
(* validates and rewrites the configuration whose digest was approved.     *)
(* Power, clone, create, delete and the protection flag promise no more    *)
(* than the path they name; destroy may also drop the protection flag on   *)
(* its own, once, when asked to by unprotect.                              *)
(***************************************************************************)
EXTENDS Common

CONSTANTS Calls, InitGuests

VARIABLES
  guest,         \* what Proxmox holds behind each VMID
  args,          \* the calls that were admitted, with their arguments
  done,          \* the calls that took effect
  unprotected    \* the destroy calls that dropped a protection flag

vars == <<guest, args, done, unprotected>>

Init ==
  /\ guest \in [VMIDs -> InitGuests]
  /\ args = [c \in Calls |-> None]
  /\ done = {} /\ unprotected = {}

Submit(c) ==
  /\ args[c] = None
  /\ args'[c] \in Reqs /\ Admissible(args'[c])
  /\ args' = [args EXCEPT ![c] = args'[c]]
  /\ UNCHANGED <<guest, done, unprotected>>

Pending(c, tools) == args[c] # None /\ args[c].tool \in tools /\ c \notin done

\* Call c takes effect: VMID v becomes g.
Effect(c, v, g) ==
  /\ args[c].confirm
  /\ guest' = [guest EXCEPT ![v] = g]
  /\ done' = done \union {c}
  /\ UNCHANGED <<args, unprotected>>

\* The configurations an edit may turn conf into, all of it decided on conf.
Edited(r, conf) ==
  CASE r.tool = "hardware" /\ r.hw # None -> Rewrites(r, conf, None)
    [] r.tool = "resize" /\ ValidateDiskGrowth(ExtractDiskSizeBytes(conf), r.relative, r.size) ->
         Rewrites(r, conf, None)
    [] r.tool = "network" /\ MergeNetworkConfig(conf.net, r).bridge # None ->
         Rewrites(r, conf, MergeNetworkConfig(conf.net, r))
    [] OTHER -> {}

Edit(c) ==
  LET r == args[c]
      g == guest[r.vmid]
  IN  /\ Pending(c, {"hardware", "resize", "network"})
      /\ Serves(g, r.node, r.kind)
      /\ r.digest = Digest(g.conf)
      /\ \E conf \in Edited(r, g.conf) : Effect(c, r.vmid, [g EXCEPT !.conf = conf])

Protect(c) ==
  LET r == args[c]
      g == guest[r.vmid]
  IN  /\ Pending(c, {"protection"})
      /\ Serves(g, r.node, r.kind)
      /\ Effect(c, r.vmid, [g EXCEPT !.conf.prot = r.protected])

Power(c) ==
  LET r == args[c]
      g == guest[r.vmid]
  IN  /\ Pending(c, {"power"})
      /\ Serves(g, r.node, r.kind)
      /\ Effect(c, r.vmid, [g EXCEPT !.status = StatusAfter(g, r.action)])

Clone(c) ==
  LET r == args[c]
      g == guest[r.vmid]
  IN  /\ Pending(c, {"clone"})
      /\ Serves(g, r.node, r.kind)
      /\ guest[r.newid] = None
      /\ \E conf \in ClonesOf(g.conf, r.name) :
           Effect(c, r.newid, [g EXCEPT !.status = "stopped", !.conf = conf])

Create(c) ==
  /\ Pending(c, {"create"})
  /\ guest[args[c].vmid] = None
  /\ Serves(guest'[args[c].vmid], args[c].node, "lxc")
  /\ Effect(c, args[c].vmid, guest'[args[c].vmid])

Delete(c) ==
  LET r == args[c]
      g == guest[r.vmid]
  IN  /\ Pending(c, {"destroy"})
      /\ Serves(g, r.node, r.kind)
      /\ DeleteAdmits(g)
      /\ Effect(c, r.vmid, None)

Unprotect(c) ==
  LET r == args[c]
      g == guest[r.vmid]
  IN  /\ r # None /\ r.tool = "destroy" /\ r.unprotect /\ c \notin unprotected
      /\ Serves(g, r.node, r.kind)
      /\ guest' = [guest EXCEPT ![r.vmid].conf.prot = FALSE]
      /\ unprotected' = unprotected \union {c}
      /\ UNCHANGED <<args, done>>

\* Another client of Proxmox changes, makes or removes a guest.
Others(v) ==
  /\ guest'[v] \in Guests \union {None}
  /\ guest' = [guest EXCEPT ![v] = guest'[v]]
  /\ UNCHANGED <<args, done, unprotected>>

Next ==
  \/ \E c \in Calls : \/ Submit(c) \/ Edit(c) \/ Protect(c) \/ Power(c) \/ Clone(c)
                      \/ Create(c) \/ Delete(c) \/ Unprotect(c)
  \/ \E v \in VMIDs : Others(v)

Spec == Init /\ [][Next]_vars
=============================================================================
