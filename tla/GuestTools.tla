----------------------------- MODULE GuestTools ------------------------------
(***************************************************************************)
(* The guest tools of internal/tools (qemu.go and lxc.go): concurrent tool *)
(* calls, each a handler that reads Proxmox, decides, and sends at most    *)
(* one write (destroy: at most two), while other clients of Proxmox change *)
(* the same guests.  Every HTTP exchange is a point where the others run.  *)
(* A call is used once; two calls may carry the same arguments (a retry).  *)
(***************************************************************************)
EXTENDS Common, FiniteSets

CONSTANTS
  Calls,         \* identities of tool calls
  InitGuests,    \* what may stand behind a VMID at the start
  ExternalOps    \* what other clients of Proxmox do

ASSUME GuestToolsAssumption ==
  /\ None \notin Calls
  /\ InitGuests \subseteq Guests \union {None}
  /\ ExternalOps \subseteq {"reconfigure", "grow", "power", "create", "destroy", "migrate"}

VARIABLES
  guest,      \* what Proxmox holds behind each VMID
  pc,         \* where the handler of a call stands
  args,       \* its parsed arguments
  seen,       \* the configuration it read and holds, None if it could not
  wire,       \* its write, sent and not yet performed by Proxmox
  unprot,     \* destroy's PUT protection=0: "no", "sent", "performed" or "failed"
  out,        \* the result the caller got
  \* history
  hit,        \* the guest its write found (create: made) when it took effect
  disturbed   \* others changed its guest between its admission and its write

handlerVars == <<pc, args, seen, out>>
pveVars == <<guest, hit, disturbed>>
vars == <<guest, pc, args, seen, wire, unprot, out, hit, disturbed>>

Outs == {"none", "preview", "refused", "failed", "ok"}
PCs == {"idle", "status", "config", "read", "unprotect", "post", "sent", "done"}
Writes == [digest : Digests \union {None}, net : MergedNets \union {None}]

TypeOK ==
  /\ guest \in [VMIDs -> Guests \union {None}]
  /\ pc \in [Calls -> PCs]
  /\ args \in [Calls -> Reqs \union {None}]
  /\ seen \in [Calls -> Confs \union {None}]
  /\ wire \in [Calls -> Writes \union {None}]
  /\ unprot \in [Calls -> {"no", "sent", "performed", "failed"}]
  /\ out \in [Calls -> Outs]
  /\ hit \in [Calls -> Guests \union {None}]
  /\ disturbed \in [Calls -> BOOLEAN]

Init ==
  /\ guest \in [VMIDs -> InitGuests]
  /\ pc = [c \in Calls |-> "idle"]
  /\ args = [c \in Calls |-> None]
  /\ seen = [c \in Calls |-> None]
  /\ wire = [c \in Calls |-> None]
  /\ unprot = [c \in Calls |-> "no"]
  /\ out = [c \in Calls |-> "none"]
  /\ hit = [c \in Calls |-> None]
  /\ disturbed = [c \in Calls |-> FALSE]

-----------------------------------------------------------------------------
(* Admission                                                               *)

\* The arguments of a call: its target, and expected_digest as the caller
\* finds it now in the configuration resource, or nothing.  (A caller with an
\* older digest is a call admitted earlier that is slow to read.)
Target(tool) ==
  {[tool |-> tool, kind |-> k, vmid |-> v, node |-> n, confirm |-> b, digest |-> d,
    action |-> None, force |-> FALSE, name |-> None, hw |-> None, bridge |-> None, tag |-> None,
    relative |-> FALSE, size |-> 0, newid |-> None, unprotect |-> FALSE, protected |-> FALSE] :
     k \in Kinds, v \in VMIDs, n \in Nodes, b \in BOOLEAN,
     d \in {None} \union {Digest(guest[w].conf) : w \in {x \in VMIDs : guest[x] # None}}}

FirstStep(tool) ==
  CASE tool = "create" -> "post"
    [] tool = "destroy" -> "status"
    [] OTHER -> "config"

\* A call passes the guards in front of the handler's first request.  One that
\* does not is answered with an error and leaves no trace.
Admit(c, r) ==
  /\ pc[c] = "idle"
  /\ Admissible(r)
  /\ args' = [args EXCEPT ![c] = r]
  /\ pc' = [pc EXCEPT ![c] = FirstStep(r.tool)]
  /\ UNCHANGED <<seen, wire, unprot, out, pveVars>>

InvokePower(c) ==
  \E r \in Target("power"), a \in Actions, f \in BOOLEAN, n \in Names \union {None} :
    Admit(c, [r EXCEPT !.action = a, !.force = f, !.name = n])

InvokeHardware(c) ==
  \E r \in Target("hardware"), h \in Hws \union {None} : Admit(c, [r EXCEPT !.hw = h])

InvokeNetwork(c) ==
  \E r \in Target("network"), b \in Bridges \union {None}, t \in Tags \union {None} :
    Admit(c, [r EXCEPT !.bridge = b, !.tag = t])

\* To the size "N" or by the size "+N".
InvokeResize(c) ==
  \E r \in Target("resize"), n \in 0 .. MaxDisk :
    \/ n > 0 /\ Admit(c, [r EXCEPT !.size = n])
    \/ n \in RelSizes /\ Admit(c, [r EXCEPT !.relative = TRUE, !.size = n])

InvokeClone(c) ==
  \E r \in Target("clone"), v \in VMIDs, n \in Names \union {None} :
    Admit(c, [r EXCEPT !.newid = v, !.name = n])

\* Only containers are created.
InvokeCreate(c) ==
  \E r \in Target("create"), n \in Names : r.kind = "lxc" /\ Admit(c, [r EXCEPT !.name = n])

InvokeDestroy(c) ==
  \E r \in Target("destroy"), n \in Names \union {None}, u \in BOOLEAN :
    Admit(c, [r EXCEPT !.name = n, !.unprotect = u])

InvokeProtection(c) ==
  \E r \in Target("protection"), p \in BOOLEAN : Admit(c, [r EXCEPT !.protected = p])

Invoke(c) ==
  \/ InvokePower(c) \/ InvokeHardware(c) \/ InvokeNetwork(c) \/ InvokeResize(c)
  \/ InvokeClone(c) \/ InvokeCreate(c) \/ InvokeDestroy(c) \/ InvokeProtection(c)

-----------------------------------------------------------------------------
(* What the handlers are made of                                           *)

Live(c) == guest[args[c].vmid]

\* (mutant: the envelope around the data is not taken off)
WrappedConfigReplies(c) ==
  {None} \union {g \in {Live(c)} : Serves(g, args[c].node, args[c].kind)}

\* Replies of the two GETs: the record, or nothing (no such path, an error
\* status, a timeout, a body that does not decode).
ConfigReplies(c) ==
  {None} \union {g.conf : g \in {h \in {Live(c)} : Serves(h, args[c].node, args[c].kind)}}

StatusReplies(c) ==
  {None} \union {g \in {Live(c)} : Serves(g, args[c].node, args[c].kind)}

LiveDigest(conf) == IF conf = None THEN None ELSE Digest(conf)

\* (mutant: the digest is left out of the form)
NoFormDigest(conf) == None

\* The digest field of a form: set where the configuration read had one.
FormDigest(conf) == LiveDigest(conf)

Answer(c, result) ==
  /\ pc' = [pc EXCEPT ![c] = "done"]
  /\ out' = [out EXCEPT ![c] = result]
  /\ UNCHANGED <<args, wire, unprot, pveVars>>

Send(c, write) ==
  /\ pc' = [pc EXCEPT ![c] = "sent"]
  /\ wire' = [wire EXCEPT ![c] = write]
  /\ UNCHANGED <<args, out, unprot, pveVars>>

\* (mutant: the digest is verified and the confirmation is not)
SendUnconfirmed(c, liveDigest, write) ==
  IF ~VerifyTargetDigest(args[c].digest, liveDigest) THEN Answer(c, "refused") ELSE Send(c, write)

\* The second half of every handler: preview, digest check, write.
ConfirmThenSend(c, liveDigest, write) ==
  IF ~args[c].confirm THEN Answer(c, "preview")
  ELSE IF ~VerifyTargetDigest(args[c].digest, liveDigest) THEN Answer(c, "refused")
  ELSE Send(c, write)

Unguarded == [digest |-> None, net |-> None]

At(c, step, tools) == pc[c] = step /\ args[c].tool \in tools

-----------------------------------------------------------------------------
(* The handlers                                                            *)

\* GET config; a failure leaves the struct empty.
PowerReadConfig(c) ==
  /\ At(c, "config", {"power"})
  /\ \E conf \in ConfigReplies(c) : seen' = [seen EXCEPT ![c] = conf]
  /\ pc' = [pc EXCEPT ![c] = "read"]
  /\ UNCHANGED <<args, out, wire, unprot, pveVars>>

\* GET status, then everything up to POST status/{action}; the form has no digest.
PowerReadStatus(c) ==
  /\ At(c, "read", {"power"})
  /\ \E g \in StatusReplies(c) :
       LET name == IF g # None THEN g.conf.name ELSE IF seen[c] # None THEN seen[c].name ELSE None
       IN  IF VerifyTargetIdentity(args[c].name, name, args[c].action = "stop")
           THEN ConfirmThenSend(c, LiveDigest(seen[c]), Unguarded)
           ELSE Answer(c, "refused")
  /\ UNCHANGED seen

Power(c) == PowerReadConfig(c) \/ PowerReadStatus(c)

\* (mutant: an update without parameters is sent)
UpdateHardwareUnasked(c) ==
  /\ At(c, "config", {"hardware"})
  /\ \E conf \in ConfigReplies(c) :
       IF conf = None THEN Answer(c, "refused")
       ELSE ConfirmThenSend(c, LiveDigest(conf), [digest |-> FormDigest(conf), net |-> None])
  /\ UNCHANGED seen

UpdateHardware(c) ==
  /\ At(c, "config", {"hardware"})
  /\ \E conf \in ConfigReplies(c) :
       IF conf = None \/ args[c].hw = None THEN Answer(c, "refused")
       ELSE ConfirmThenSend(c, LiveDigest(conf), [digest |-> FormDigest(conf), net |-> None])
  /\ UNCHANGED seen

\* (mutant: the form carries no digest)
ResizeDiskUnbound(c) ==
  /\ At(c, "config", {"resize"})
  /\ \E conf \in ConfigReplies(c) :
       IF conf # None /\ ValidateDiskGrowth(ExtractDiskSizeBytes(conf), args[c].relative, args[c].size)
       THEN ConfirmThenSend(c, LiveDigest(conf), Unguarded)
       ELSE Answer(c, "refused")
  /\ UNCHANGED seen

\* (mutant: the size is not validated)
ResizeDiskUnvalidated(c) ==
  /\ At(c, "config", {"resize"})
  /\ \E conf \in ConfigReplies(c) :
       IF conf = None THEN Answer(c, "refused")
       ELSE ConfirmThenSend(c, LiveDigest(conf), [digest |-> FormDigest(conf), net |-> None])
  /\ UNCHANGED seen

ResizeDisk(c) ==
  /\ At(c, "config", {"resize"})
  /\ \E conf \in ConfigReplies(c) :
       IF conf # None /\ ValidateDiskGrowth(ExtractDiskSizeBytes(conf), args[c].relative, args[c].size)
       THEN ConfirmThenSend(c, LiveDigest(conf), [digest |-> FormDigest(conf), net |-> None])
       ELSE Answer(c, "refused")
  /\ UNCHANGED seen

\* The interface is read, merged and written back whole.
UpdateNetwork(c) ==
  /\ At(c, "config", {"network"})
  /\ \E conf \in ConfigReplies(c) :
       IF conf # None /\ MergeNetworkConfig(conf.net, args[c]).bridge # None
       THEN ConfirmThenSend(c, LiveDigest(conf),
              [digest |-> FormDigest(conf), net |-> MergeNetworkConfig(conf.net, args[c])])
       ELSE Answer(c, "refused")
  /\ UNCHANGED seen

\* GET config for the digest alone; a failure leaves it empty.  The form has none.
Clone(c) ==
  /\ At(c, "config", {"clone"})
  /\ \E conf \in ConfigReplies(c) :
       /\ seen' = [seen EXCEPT ![c] = conf]
       /\ ConfirmThenSend(c, LiveDigest(conf), Unguarded)

\* No request precedes the write and there is no digest to verify.
Create(c) ==
  /\ At(c, "post", {"create"})
  /\ ConfirmThenSend(c, None, Unguarded)
  /\ UNCHANGED seen

\* GET config; a failure leaves the map empty, and the form without a digest.
Protection(c) ==
  /\ At(c, "config", {"protection"})
  /\ \E conf \in ConfigReplies(c) :
       /\ seen' = [seen EXCEPT ![c] = conf]
       /\ ConfirmThenSend(c, LiveDigest(conf), [digest |-> FormDigest(conf), net |-> None])

\* GET status: the name must be the expected one and the guest stopped.
DestroyReadStatus(c) ==
  /\ At(c, "status", {"destroy"})
  /\ \E g \in StatusReplies(c) :
       IF g # None /\ VerifyTargetIdentity(args[c].name, g.conf.name, TRUE) /\ g.status = "stopped"
       THEN /\ pc' = [pc EXCEPT ![c] = "config"]
            /\ UNCHANGED <<args, out, wire, unprot, pveVars>>
       ELSE Answer(c, "refused")
  /\ UNCHANGED seen

\* A protected guest needs unprotect, and then PUT protection=0 goes out
\* before the preview and before the digest check.
NeedsUnprotect(conf) == conf # None /\ conf.prot

\* (mutant: protection is removed without being asked to)
DestroyReadConfigUnasked(c) ==
  /\ At(c, "config", {"destroy"})
  /\ \E conf \in ConfigReplies(c) :
       /\ seen' = [seen EXCEPT ![c] = conf]
       /\ IF ~NeedsUnprotect(conf) THEN ConfirmThenSend(c, LiveDigest(conf), Unguarded)
          ELSE /\ pc' = [pc EXCEPT ![c] = "unprotect"]
               /\ unprot' = [unprot EXCEPT ![c] = "sent"]
               /\ UNCHANGED <<args, out, wire, pveVars>>

\* GET config; a failure leaves the map empty.
DestroyReadConfig(c) ==
  /\ At(c, "config", {"destroy"})
  /\ \E conf \in ConfigReplies(c) :
       /\ seen' = [seen EXCEPT ![c] = conf]
       /\ IF ~NeedsUnprotect(conf) THEN ConfirmThenSend(c, LiveDigest(conf), Unguarded)
          ELSE IF ~args[c].unprotect THEN Answer(c, "refused")
          ELSE /\ pc' = [pc EXCEPT ![c] = "unprotect"]
               /\ unprot' = [unprot EXCEPT ![c] = "sent"]
               /\ UNCHANGED <<args, out, wire, pveVars>>

\* The PUT's result is ignored, so also its failure and its timeout.
DestroyUnprotected(c) ==
  /\ At(c, "unprotect", {"destroy"})
  /\ ConfirmThenSend(c, LiveDigest(seen[c]), Unguarded)
  /\ UNCHANGED seen

Destroy(c) == DestroyReadStatus(c) \/ DestroyReadConfig(c) \/ DestroyUnprotected(c)

\* (mutant: the answer is awaited without a time limit)
ReturnAnswered(c) ==
  /\ pc[c] = "sent" /\ (hit[c] # None \/ wire[c] # None)
  /\ Answer(c, "ok")
  /\ UNCHANGED seen

\* The answer to the write: "ok" once Proxmox has performed or queued it (a
\* UPID), an error when it refused, when the exchange broke, or after the
\* client's timeout, and then the write may still be performed.  Clone and
\* create go on to poll the task's status, for 30 s at most.
Return(c) ==
  /\ pc[c] = "sent"
  /\ \/ (hit[c] # None \/ wire[c] # None) /\ Answer(c, "ok")
     \/ Answer(c, "failed")
  /\ UNCHANGED seen

-----------------------------------------------------------------------------
(* The tools of the two kinds of guests, registered one by one.            *)
QemuPower(c)          == pc[c] # "idle" /\ args[c].kind = "qemu" /\ Power(c)
QemuUpdateHardware(c) == pc[c] # "idle" /\ args[c].kind = "qemu" /\ UpdateHardware(c)
QemuResizeDisk(c)     == pc[c] # "idle" /\ args[c].kind = "qemu" /\ ResizeDisk(c)
QemuUpdateNetwork(c)  == pc[c] # "idle" /\ args[c].kind = "qemu" /\ UpdateNetwork(c)
QemuClone(c)          == pc[c] # "idle" /\ args[c].kind = "qemu" /\ Clone(c)
QemuDestroy(c)        == pc[c] # "idle" /\ args[c].kind = "qemu" /\ Destroy(c)
QemuProtection(c)     == pc[c] # "idle" /\ args[c].kind = "qemu" /\ Protection(c)
LxcPower(c)           == pc[c] # "idle" /\ args[c].kind = "lxc" /\ Power(c)
LxcUpdateHardware(c)  == pc[c] # "idle" /\ args[c].kind = "lxc" /\ UpdateHardware(c)
LxcResizeDisk(c)      == pc[c] # "idle" /\ args[c].kind = "lxc" /\ ResizeDisk(c)
LxcUpdateNetwork(c)   == pc[c] # "idle" /\ args[c].kind = "lxc" /\ UpdateNetwork(c)
LxcClone(c)           == pc[c] # "idle" /\ args[c].kind = "lxc" /\ Clone(c)
LxcCreate(c)          == pc[c] # "idle" /\ args[c].kind = "lxc" /\ Create(c)
LxcDestroy(c)         == pc[c] # "idle" /\ args[c].kind = "lxc" /\ Destroy(c)
LxcProtection(c)      == pc[c] # "idle" /\ args[c].kind = "lxc" /\ Protection(c)

Handler(c) ==
  \/ QemuPower(c) \/ QemuUpdateHardware(c) \/ QemuResizeDisk(c) \/ QemuUpdateNetwork(c)
  \/ QemuClone(c) \/ QemuDestroy(c) \/ QemuProtection(c)
  \/ LxcPower(c) \/ LxcUpdateHardware(c) \/ LxcResizeDisk(c) \/ LxcUpdateNetwork(c)
  \/ LxcClone(c) \/ LxcCreate(c) \/ LxcDestroy(c) \/ LxcProtection(c)
  \/ Return(c)

-----------------------------------------------------------------------------
(* Proxmox                                                                 *)

\* Guest v changes by the hand of call c (None: of another client).
Change(v, g, c) ==
  /\ guest' = [guest EXCEPT ![v] = g]
  /\ disturbed' = [d \in Calls |->
       disturbed[d] \/ (d # c /\ pc[d] # "idle" /\ args[d].vmid = v /\ hit[d] = None)]

\* The write of call c finds guest g and turns VMID v into new.
Perform(c, g, v, new) ==
  /\ Change(v, new, c)
  /\ hit' = [hit EXCEPT ![c] = g]
  /\ wire' = [wire EXCEPT ![c] = None]
  /\ UNCHANGED <<handlerVars, unprot>>

\* The write of call c reaches the guest behind its path.
Reaches(c, tools) ==
  /\ wire[c] # None
  /\ args[c].tool \in tools
  /\ Serves(Live(c), args[c].node, args[c].kind)

PerformEdit(c) ==
  /\ Reaches(c, {"hardware", "resize", "network", "protection"})
  /\ DigestAdmits(wire[c].digest, Live(c).conf)
  /\ \E conf \in Rewrites(args[c], Live(c).conf, wire[c].net) :
       Perform(c, Live(c), args[c].vmid, [Live(c) EXCEPT !.conf = conf])

PerformPower(c) ==
  /\ Reaches(c, {"power"})
  /\ PowerAdmits(Live(c), args[c].action)
  /\ Perform(c, Live(c), args[c].vmid, [Live(c) EXCEPT !.status = StatusAfter(Live(c), args[c].action)])

PerformClone(c) ==
  /\ Reaches(c, {"clone"})
  /\ guest[args[c].newid] = None
  /\ \E conf \in ClonesOf(Live(c).conf, args[c].name) :
       Perform(c, Live(c), args[c].newid, [Live(c) EXCEPT !.status = "stopped", !.conf = conf])

\* The form asks for no protection, and PVE records the size of what it allocates.
PerformCreate(c) ==
  /\ wire[c] # None /\ args[c].tool = "create"
  /\ Live(c) = None
  /\ \E g \in Guests :
       /\ Serves(g, args[c].node, "lxc")
       /\ g.conf.name = args[c].name /\ ~g.conf.prot /\ g.conf.sized
       /\ Perform(c, g, args[c].vmid, g)

PerformDelete(c) ==
  /\ Reaches(c, {"destroy"})
  /\ DeleteAdmits(Live(c))
  /\ Perform(c, Live(c), args[c].vmid, None)

\* The write is refused or never arrives.
DropWrite(c) ==
  /\ wire[c] # None
  /\ wire' = [wire EXCEPT ![c] = None]
  /\ UNCHANGED <<handlerVars, unprot, pveVars>>

PerformUnprotect(c) ==
  /\ unprot[c] = "sent"
  /\ Serves(Live(c), args[c].node, args[c].kind)
  /\ Change(args[c].vmid, [Live(c) EXCEPT !.conf.prot = FALSE], c)
  /\ unprot' = [unprot EXCEPT ![c] = "performed"]
  /\ UNCHANGED <<handlerVars, wire, hit>>

DropUnprotect(c) ==
  /\ unprot[c] = "sent"
  /\ unprot' = [unprot EXCEPT ![c] = "failed"]
  /\ UNCHANGED <<handlerVars, wire, pveVars>>

Proxmox(c) ==
  \/ PerformEdit(c) \/ PerformPower(c) \/ PerformClone(c) \/ PerformCreate(c) \/ PerformDelete(c)
  \/ DropWrite(c) \/ PerformUnprotect(c) \/ DropUnprotect(c)

\* Every other client of Proxmox: the web interface, pvesh, backup jobs, HA.
\* Disks are never made smaller.
ExternalConfs(conf) ==
  {k \in Confs : "reconfigure" \in ExternalOps /\ k.disk = conf.disk /\ k.sized = conf.sized}
    \union {[conf EXCEPT !.disk = n] : n \in {m \in 1 .. MaxDisk : "grow" \in ExternalOps /\ m > conf.disk}}

ExternalChanges(v) ==
  IF guest[v] = None
  THEN {g \in InitGuests : g # None /\ "create" \in ExternalOps}
  ELSE {[guest[v] EXCEPT !.conf = conf] : conf \in ExternalConfs(guest[v].conf)}
       \union {[guest[v] EXCEPT !.status = s] : s \in {t \in {"running", "stopped"} : "power" \in ExternalOps}}
       \union {[guest[v] EXCEPT !.node = n] : n \in {m \in Nodes : "migrate" \in ExternalOps}}
       \union {x \in {None} : "destroy" \in ExternalOps}

External(v) ==
  /\ \E g \in ExternalChanges(v) : g # guest[v] /\ Change(v, g, None)
  /\ UNCHANGED <<handlerVars, wire, unprot, hit>>

Next ==
  \/ \E c \in Calls : Invoke(c) \/ Handler(c) \/ Proxmox(c)
  \/ \E v \in VMIDs : External(v)

Spec == Init /\ [][Next]_vars

\* A handler keeps running: each GET and each write ends by a reply or by the
\* http.Client's timeout.  Proxmox and the callers promise nothing.
FairSpec == Spec /\ \A c \in Calls : WF_vars(Handler(c))
=============================================================================
