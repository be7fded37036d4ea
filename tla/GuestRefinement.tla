--------------------------- MODULE GuestRefinement ---------------------------
(***************************************************************************)
(* GuestTools.tla implements GuestContract.tla: what the handlers spread   *)
(* over several HTTP exchanges amounts to one-step operations, for every   *)
(* number of calls, guests, nodes and values.                              *)
(***************************************************************************)
EXTENDS GuestProofs

\* The operators on requests and guests mean the same in both modules.
LEMMA SameRequests ==
  /\ Contract!Reqs = Reqs
  /\ Contract!Guests = Guests
  /\ \A r : Contract!Admissible(r) = Admissible(r)
<1> QED
  BY DEF Contract!Reqs, Reqs, Contract!Tools, Tools, Contract!Kinds, Kinds, Contract!Digests, Digests,
         Contract!Digest, Digest, Contract!Confs, Confs, Contract!Nets, Nets,
         Contract!PowerActions, PowerActions, Contract!Guests, Guests,
         Contract!Admissible, Admissible, Contract!EnsureAllowed, EnsureAllowed,
         Contract!ValidateAllowedNode, ValidateAllowedNode, Contract!CategoryOf, CategoryOf

\* So do what the tools compute and what Proxmox makes of it.
LEMMA SameOperations ==
  /\ \A g, node, kind : Contract!Serves(g, node, kind) = Serves(g, node, kind)
  /\ \A conf : Contract!Digest(conf) = Digest(conf)
  /\ \A g, action : Contract!StatusAfter(g, action) = StatusAfter(g, action)
  /\ \A g : Contract!DeleteAdmits(g) = DeleteAdmits(g)
  /\ \A conf, name : Contract!ClonesOf(conf, name) = ClonesOf(conf, name)
  /\ \A r, conf, net : Contract!Rewrites(r, conf, net) = Rewrites(r, conf, net)
  /\ \A net, r : Contract!MergeNetworkConfig(net, r) = MergeNetworkConfig(net, r)
  /\ \A conf : Contract!ExtractDiskSizeBytes(conf) = ExtractDiskSizeBytes(conf)
  /\ \A b, relative, size : Contract!ValidateDiskGrowth(b, relative, size) = ValidateDiskGrowth(b, relative, size)
<1>1. \A g, node, kind : Contract!Serves(g, node, kind) = Serves(g, node, kind)
  BY DEF Contract!Serves, Serves
<1>2. \A conf : Contract!Digest(conf) = Digest(conf)
  BY DEF Contract!Digest, Digest
<1>3. \A g, action : Contract!StatusAfter(g, action) = StatusAfter(g, action)
  BY DEF Contract!StatusAfter, StatusAfter
<1>4. \A g : Contract!DeleteAdmits(g) = DeleteAdmits(g)
  BY DEF Contract!DeleteAdmits, DeleteAdmits
<1>5. \A conf, name : Contract!ClonesOf(conf, name) = ClonesOf(conf, name)
  BY DEF Contract!ClonesOf, ClonesOf, Contract!Confs, Confs, Contract!Nets, Nets
<1>6. \A r, conf, net : Contract!Rewrites(r, conf, net) = Rewrites(r, conf, net)
  BY DEF Contract!Rewrites, Rewrites
<1>7. \A net, r : Contract!MergeNetworkConfig(net, r) = MergeNetworkConfig(net, r)
  BY DEF Contract!MergeNetworkConfig, MergeNetworkConfig
<1>8. \A conf : Contract!ExtractDiskSizeBytes(conf) = ExtractDiskSizeBytes(conf)
  BY DEF Contract!ExtractDiskSizeBytes, ExtractDiskSizeBytes
<1>9. \A b, relative, size : Contract!ValidateDiskGrowth(b, relative, size) = ValidateDiskGrowth(b, relative, size)
  BY DEF Contract!ValidateDiskGrowth, ValidateDiskGrowth
<1> QED BY <1>1, <1>2, <1>3, <1>4, <1>5, <1>6, <1>7, <1>8, <1>9

-----------------------------------------------------------------------------
(* Each step of the handlers, of Proxmox and of its other clients is a     *)
(* step of the contract or leaves its variables alone.                     *)

\* The variables of the contract.
Promised == <<guest, args, {c \in Calls : hit[c] # None}, {c \in Calls : unprot[c] = "performed"}>>

LEMMA PromisedVars == Contract!vars = Promised
BY DEF Contract!vars, Promised

LEMMA InitPromised == Init => Contract!Init
<1> SUFFICES ASSUME Init PROVE Contract!Init OBVIOUS
<1>1. {c \in Calls : hit[c] # None} = {} /\ {c \in Calls : unprot[c] = "performed"} = {}
  BY DEF Init
<1> QED BY <1>1 DEF Init, Contract!Init

\* An admission is the submission of a call.
LEMMA InvokeSubmits ==
  ASSUME IInv, NEW c \in Calls, Invoke(c)
  PROVE  Contract!Submit(c)
<1>1. PICK r \in Reqs : Admit(c, r) BY InvokeAdmits DEF IInv
<1>2. /\ pc[c] = "idle" /\ Admissible(r) /\ args' = [args EXCEPT ![c] = r]
      /\ UNCHANGED <<guest, unprot, hit>>
  BY <1>1 DEF Admit, pveVars
<1>3. args[c] = None BY <1>2 DEF IInv, ArgsInv
<1>4. args'[c] = r BY <1>2 DEF IInv, TypeOK
<1>5. args'[c] \in Contract!Reqs /\ Contract!Admissible(args'[c])
  BY <1>2, <1>4, SameRequests
<1> QED BY <1>2, <1>3, <1>4, <1>5 DEF Contract!Submit

\* A handler keeps what it does to itself until Proxmox performs it.
LEMMA HandlerPromisesNothing ==
  ASSUME IInv, NEW c \in Calls, Handler(c)
  PROVE  UNCHANGED Promised
<1>1. HandlerEffect(c) BY HandlerStepEffect DEF IInv
<1>2. UNCHANGED <<guest, args, hit>> BY <1>1 DEF HandlerEffect, pveVars
<1>3. \A d \in Calls : (unprot'[d] = "performed") <=> (unprot[d] = "performed")
  <2>1. CASE UNCHANGED unprot BY <2>1
  <2>2. CASE unprot' = [unprot EXCEPT ![c] = "sent"] /\ pc[c] = "config"
    BY <2>2 DEF IInv, UnprotInv, TypeOK
  <2> QED BY <1>1, <2>1, <2>2 DEF HandlerEffect
<1>4. {d \in Calls : unprot'[d] = "performed"} = {d \in Calls : unprot[d] = "performed"}
  BY <1>3
<1> QED BY <1>2, <1>4 DEF Promised

\* What the contract says of the call itself when it takes effect.
TakesEffect(c) ==
  /\ args[c].confirm
  /\ {d \in Calls : hit'[d] # None} = {d \in Calls : hit[d] # None} \union {c}
  /\ UNCHANGED <<args, {d \in Calls : unprot[d] = "performed"}>>

\* A write that takes effect is the one effect of its call.
LEMMA PerformIsEffect ==
  ASSUME IInv, NEW c \in Calls, NEW g \in Guests, NEW v, NEW new, wire[c] # None,
         Perform(c, g, v, new)
  PROVE  TakesEffect(c)
<1>1. /\ guest' = [guest EXCEPT ![v] = new] /\ hit' = [hit EXCEPT ![c] = g]
      /\ UNCHANGED <<args, unprot>>
  BY DEF Perform, Change, handlerVars
<1>2. args[c].confirm BY DEF IInv, WireInv, GoodWrite
<1>3. g # None BY NoneAssumption
<1>4. {d \in Calls : hit'[d] # None} = {d \in Calls : hit[d] # None} \union {c}
  BY <1>1, <1>3 DEF IInv, TypeOK
<1> QED BY <1>1, <1>2, <1>4 DEF TakesEffect

\* The read, the merge and the write of an edit amount to a compare-and-set on
\* the approved digest; a protection change sets the flag.
LEMMA EditIsPromised ==
  ASSUME IInv, NEW c \in Calls, PerformEdit(c)
  PROVE  Contract!Edit(c) \/ Contract!Protect(c)
<1> DEFINE r == args[c]
           w == wire[c]
           g == guest[r.vmid]
<1>1. /\ r \in Reqs /\ r # None /\ r.tool \in {"hardware", "resize", "network", "protection"}
      /\ w # None /\ GoodWrite(r, w) /\ hit[c] = None /\ g \in Guests /\ g.conf \in Confs
      /\ Serves(g, r.node, r.kind)
  BY Reached DEF PerformEdit
<1>2. DigestAdmits(w.digest, g.conf) BY DEF PerformEdit, Live
<1>3. PICK conf \in Rewrites(r, g.conf, w.net) : Perform(c, g, r.vmid, [g EXCEPT !.conf = conf])
  BY DEF PerformEdit, Live
<1>4. TakesEffect(c) /\ guest' = [guest EXCEPT ![r.vmid] = [g EXCEPT !.conf = conf]]
  <2>1. TakesEffect(c) BY <1>1, <1>3, PerformIsEffect
  <2> QED BY <1>3, <2>1 DEF Perform, Change
<1>5. c \notin {d \in Calls : hit[d] # None} BY <1>1
<1> HIDE DEF w, g
<1>6. CASE r.tool \in Edits
  <2>1. /\ r.digest = Digest(g.conf)
        /\ r.tool = "hardware" => r.hw # None
        /\ r.tool = "resize" => ValidateDiskGrowth(ExtractDiskSizeBytes(g.conf), r.relative, r.size)
        /\ r.tool = "network" =>
             w.net = MergeNetworkConfig(g.conf.net, r) /\ w.net.bridge # None
    BY <1>1, <1>2, <1>6, EditFindsWhatWasRead
  <2>2. conf \in Contract!Edited(r, g.conf)
    <3>1. CASE r.tool = "hardware"
      <4>1. Contract!Edited(r, g.conf) = Rewrites(r, g.conf, None)
        BY <2>1, <3>1, SameOperations DEF Contract!Edited
      <4>2. Rewrites(r, g.conf, w.net) = Rewrites(r, g.conf, None)
        BY <3>1 DEF Rewrites
      <4> QED BY <1>3, <4>1, <4>2
    <3>2. CASE r.tool = "resize"
      <4>1. Contract!Edited(r, g.conf) = Rewrites(r, g.conf, None)
        BY <2>1, <3>2, SameOperations DEF Contract!Edited
      <4>2. Rewrites(r, g.conf, w.net) = Rewrites(r, g.conf, None)
        BY <3>2 DEF Rewrites
      <4> QED BY <1>3, <4>1, <4>2
    <3>3. CASE r.tool = "network"
      <4>1. Contract!Edited(r, g.conf) = Rewrites(r, g.conf, w.net)
        BY <2>1, <3>3, SameOperations DEF Contract!Edited
      <4> QED BY <1>3, <4>1
    <3> QED BY <1>6, <3>1, <3>2, <3>3 DEF Edits
  <2>3. Contract!Serves(g, r.node, r.kind) /\ r.digest = Contract!Digest(g.conf)
    BY <1>1, <2>1, SameOperations
  <2>4. Contract!Pending(c, {"hardware", "resize", "network"})
    BY <1>1, <1>5, <1>6 DEF Contract!Pending, Edits
  <2> QED BY <1>4, <2>2, <2>3, <2>4 DEF TakesEffect, Contract!Edit, Contract!Effect, g
<1>7. CASE r.tool = "protection"
  <2>1. conf = [g.conf EXCEPT !.prot = r.protected] BY <1>3, <1>7 DEF Rewrites
  <2>2. [g EXCEPT !.conf = conf] = [g EXCEPT !.conf.prot = r.protected] BY <2>1
  <2>3. Contract!Serves(g, r.node, r.kind) BY <1>1, SameOperations
  <2>4. Contract!Pending(c, {"protection"}) BY <1>1, <1>5, <1>7 DEF Contract!Pending
  <2> QED BY <1>4, <2>2, <2>3, <2>4 DEF TakesEffect, Contract!Protect, Contract!Effect, g
<1> QED BY <1>1, <1>6, <1>7 DEF Edits

\* The other writes are the operations of the same names.
LEMMA OtherWritesArePromised ==
  ASSUME IInv, NEW c \in Calls
  PROVE  /\ PerformPower(c) => Contract!Power(c)
         /\ PerformClone(c) => Contract!Clone(c)
         /\ PerformCreate(c) => Contract!Create(c)
         /\ PerformDelete(c) => Contract!Delete(c)
<1> DEFINE r == args[c]
           g == guest[r.vmid]
<1>1. ASSUME PerformPower(c) PROVE Contract!Power(c)
  <2>1. /\ r # None /\ r.tool = "power" /\ wire[c] # None /\ hit[c] = None
        /\ g \in Guests /\ Serves(g, r.node, r.kind)
    BY <1>1, Reached DEF PerformPower
  <2>2. Perform(c, g, r.vmid, [g EXCEPT !.status = StatusAfter(g, r.action)])
    BY <1>1 DEF PerformPower, Live
  <2>3. TakesEffect(c) BY <2>1, <2>2, PerformIsEffect
  <2>4. Contract!Pending(c, {"power"}) BY <2>1 DEF Contract!Pending
  <2>5. Contract!Serves(g, r.node, r.kind) /\ Contract!StatusAfter(g, r.action) = StatusAfter(g, r.action)
    BY <2>1, SameOperations
  <2>6. guest' = [guest EXCEPT ![r.vmid] = [g EXCEPT !.status = StatusAfter(g, r.action)]]
    BY <2>2 DEF Perform, Change
  <2> QED BY <2>3, <2>4, <2>5, <2>6 DEF TakesEffect, Contract!Power, Contract!Effect
<1>2. ASSUME PerformClone(c) PROVE Contract!Clone(c)
  <2>1. /\ r # None /\ r.tool = "clone" /\ wire[c] # None /\ hit[c] = None
        /\ g \in Guests /\ Serves(g, r.node, r.kind)
    BY <1>2, Reached DEF PerformClone
  <2>2. guest[r.newid] = None BY <1>2 DEF PerformClone
  <2>3. PICK conf \in ClonesOf(g.conf, r.name) :
          Perform(c, g, r.newid, [g EXCEPT !.status = "stopped", !.conf = conf])
    BY <1>2 DEF PerformClone, Live
  <2>4. TakesEffect(c) BY <2>1, <2>3, PerformIsEffect
  <2>5. Contract!Pending(c, {"clone"}) BY <2>1 DEF Contract!Pending
  <2>6. Contract!Serves(g, r.node, r.kind) /\ conf \in Contract!ClonesOf(g.conf, r.name)
    BY <2>1, <2>3, SameOperations
  <2>7. guest' = [guest EXCEPT ![r.newid] = [g EXCEPT !.status = "stopped", !.conf = conf]]
    BY <2>3 DEF Perform, Change
  <2> QED BY <2>2, <2>4, <2>5, <2>6, <2>7 DEF TakesEffect, Contract!Clone, Contract!Effect
<1>3. ASSUME PerformCreate(c) PROVE Contract!Create(c)
  <2>1. /\ wire[c] # None /\ r.tool = "create" /\ g = None
    BY <1>3 DEF PerformCreate, Live
  <2>2. PICK new \in Guests : Serves(new, r.node, "lxc") /\ Perform(c, new, r.vmid, new)
    BY <1>3 DEF PerformCreate
  <2>3. r # None /\ r.vmid \in VMIDs BY <2>1, WireTyped, NoneReqAssumption
  <2>4. TakesEffect(c) /\ hit[c] = None
    BY <2>1, <2>2, PerformIsEffect DEF IInv, WireInv
  <2>5. guest' = [guest EXCEPT ![r.vmid] = new] /\ guest'[r.vmid] = new
    BY <2>2, <2>3 DEF Perform, Change, IInv, TypeOK
  <2>6. Contract!Pending(c, {"create"}) BY <2>1, <2>3, <2>4 DEF Contract!Pending
  <2>7. Contract!Serves(new, r.node, "lxc") BY <2>2, SameOperations
  <2> QED BY <2>1, <2>4, <2>5, <2>6, <2>7 DEF TakesEffect, Contract!Create, Contract!Effect
<1>4. ASSUME PerformDelete(c) PROVE Contract!Delete(c)
  <2>1. /\ r # None /\ r.tool = "destroy" /\ wire[c] # None /\ hit[c] = None
        /\ g \in Guests /\ Serves(g, r.node, r.kind)
    BY <1>4, Reached DEF PerformDelete
  <2>2. DeleteAdmits(g) /\ Perform(c, g, r.vmid, None) BY <1>4 DEF PerformDelete, Live
  <2>3. TakesEffect(c) /\ guest' = [guest EXCEPT ![r.vmid] = None]
    BY <2>1, <2>2, PerformIsEffect DEF Perform, Change
  <2>4. Contract!Pending(c, {"destroy"}) BY <2>1 DEF Contract!Pending
  <2>5. Contract!Serves(g, r.node, r.kind) /\ Contract!DeleteAdmits(g)
    BY <2>1, <2>2, SameOperations
  <2> QED BY <2>3, <2>4, <2>5 DEF TakesEffect, Contract!Delete, Contract!Effect
<1> QED BY <1>1, <1>2, <1>3, <1>4

\* The protection flag is dropped by a destroy that was asked to, once.
LEMMA UnprotectIsPromised ==
  ASSUME IInv, NEW c \in Calls, PerformUnprotect(c)
  PROVE  Contract!Unprotect(c)
<1> DEFINE r == args[c]
           g == guest[r.vmid]
<1>1. /\ unprot[c] = "sent" /\ Serves(g, r.node, r.kind)
      /\ guest' = [guest EXCEPT ![r.vmid] = [g EXCEPT !.conf.prot = FALSE]]
      /\ unprot' = [unprot EXCEPT ![c] = "performed"]
      /\ UNCHANGED <<args, hit>>
  BY DEF PerformUnprotect, Live, Change, handlerVars
<1>2. r # None /\ r.tool = "destroy" /\ r.unprotect
  BY <1>1 DEF IInv, ArgsInv, UnprotInv
<1>3. guest' = [guest EXCEPT ![r.vmid].conf.prot = FALSE] BY <1>1
<1>4. c \notin {d \in Calls : unprot[d] = "performed"} BY <1>1
<1>5. {d \in Calls : unprot'[d] = "performed"} = {d \in Calls : unprot[d] = "performed"} \union {c}
  BY <1>1 DEF IInv, TypeOK
<1>6. Contract!Serves(g, r.node, r.kind) BY <1>1, SameOperations
<1> QED BY <1>1, <1>2, <1>3, <1>4, <1>5, <1>6 DEF Contract!Unprotect

\* A write or a protection change that is lost promises nothing.
LEMMA DropPromisesNothing ==
  ASSUME IInv, NEW c \in Calls, DropWrite(c) \/ DropUnprotect(c)
  PROVE  UNCHANGED Promised
<1>1. CASE DropWrite(c)
  BY <1>1 DEF DropWrite, handlerVars, pveVars, Promised
<1>2. CASE DropUnprotect(c)
  <2>1. /\ unprot[c] = "sent" /\ unprot' = [unprot EXCEPT ![c] = "failed"]
        /\ UNCHANGED <<guest, args, hit>>
    BY <1>2 DEF DropUnprotect, handlerVars, pveVars
  <2>2. {d \in Calls : unprot'[d] = "performed"} = {d \in Calls : unprot[d] = "performed"}
    BY <2>1 DEF IInv, TypeOK
  <2> QED BY <2>1, <2>2 DEF Promised
<1> QED BY <1>1, <1>2

\* The other clients of Proxmox are the others of the contract.
LEMMA ExternalIsOthers ==
  ASSUME IInv, NEW v \in VMIDs, External(v)
  PROVE  Contract!Others(v)
<1>1. IInv' BY ExternalInv
<1>2. PICK g : guest' = [guest EXCEPT ![v] = g] BY DEF External, Change
<1>3. guest'[v] = g BY <1>2 DEF IInv, TypeOK
<1>4. guest'[v] \in Guests \union {None} BY <1>1 DEF IInv, TypeOK
<1>5. UNCHANGED <<args, unprot, hit>> BY DEF External, handlerVars
<1> QED BY <1>2, <1>3, <1>4, <1>5, SameRequests DEF Contract!Others

LEMMA StepPromised == IInv /\ [Next]_vars => [Contract!Next]_(Contract!vars)
<1> SUFFICES ASSUME IInv, [Next]_vars PROVE Contract!Next \/ UNCHANGED Promised
  BY PromisedVars DEF Promised, Contract!vars
<1>1. ASSUME NEW c \in Calls, Invoke(c) PROVE Contract!Next
  BY <1>1, InvokeSubmits DEF Contract!Next
<1>2. ASSUME NEW c \in Calls, Handler(c) PROVE UNCHANGED Promised
  BY <1>2, HandlerPromisesNothing
<1>3. ASSUME NEW c \in Calls, Proxmox(c) PROVE Contract!Next \/ UNCHANGED Promised
  BY <1>3, EditIsPromised, OtherWritesArePromised, UnprotectIsPromised, DropPromisesNothing
     DEF Proxmox, Contract!Next
<1>4. ASSUME NEW v \in VMIDs, External(v) PROVE Contract!Next
  BY <1>4, ExternalIsOthers DEF Contract!Next
<1>5. CASE UNCHANGED vars
  BY <1>5 DEF vars, Promised
<1> QED BY <1>1, <1>2, <1>3, <1>4, <1>5 DEF Next

\* The handlers, running concurrently with one another and with every other
\* client of Proxmox, implement the contract: an approved edit is one atomic
\* compare-and-set, and every other effect is one step of the call it belongs to.
THEOREM RefinesContract == Spec => ImplementsContract
<1>1. Init => Contract!Init BY InitPromised
<1>2. IInv /\ [Next]_vars => [Contract!Next]_(Contract!vars) BY StepPromised
<1> QED BY <1>1, <1>2, Invariance, PTL DEF Spec, ImplementsContract, Contract!Spec
=============================================================================
