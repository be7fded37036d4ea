---------------------------- MODULE GuestHistory -----------------------------
(***************************************************************************)
(* Proofs about what GuestTools.tla remembers of a call: BindingInv and    *)
(* GrowthInv of GuestInvariant.tla, for every number of calls, guests,     *)
(* nodes and values.                                                       *)
(***************************************************************************)
EXTENDS GuestProofs

-----------------------------------------------------------------------------
(* What a reply says of the guest at the moment of the reply.              *)

LEMMA ConfigReplyIsLive ==
  ASSUME NEW c \in Calls, NEW conf \in ConfigReplies(c), conf # None
  PROVE  Live(c) # None /\ Live(c).conf = conf
BY DEF ConfigReplies, Serves

LEMMA StatusReplyIsLive ==
  ASSUME NEW c \in Calls, NEW g \in StatusReplies(c), g # None
  PROVE  g = Live(c)
BY DEF StatusReplies

\* The second half of a handler ends the reading, and writes only when the
\* digest of what was read is the one that was approved.
LEMMA DecidedOnDigest ==
  ASSUME TypeOK, NEW c \in Calls, NEW conf \in Confs \union {None}, NEW w,
         ConfirmThenSend(c, LiveDigest(conf), w) \/ Answer(c, "refused")
  PROVE  /\ pc'[c] \in {"sent", "done"}
         /\ wire' = wire \/ (conf # None => args[c].digest = Digest(conf))
<1>1. pc'[c] \in {"sent", "done"}
  BY DEF ConfirmThenSend, Answer, Send, TypeOK
<1>2. CASE UNCHANGED wire
  BY <1>1, <1>2
<1>3. CASE VerifyTargetDigest(args[c].digest, LiveDigest(conf))
  <2>1. conf # None => Digest(conf) # None BY NoneAssumption DEF Digests
  <2> QED BY <1>1, <1>3, <2>1 DEF VerifyTargetDigest, LiveDigest
<1> QED BY <1>2, <1>3 DEF ConfirmThenSend, Answer

\* A handler step updates what its own call has read, if anything, with the
\* configuration that Proxmox has at that moment.
LEMMA SeenStep ==
  ASSUME NEW c \in Calls, Handler(c)
  PROVE  UNCHANGED seen \/ \E conf \in ConfigReplies(c) : seen' = [seen EXCEPT ![c] = conf]
<1>1. \/ PowerReadConfig(c) \/ PowerReadStatus(c) \/ UpdateHardware(c) \/ ResizeDisk(c)
      \/ UpdateNetwork(c) \/ Clone(c) \/ Create(c) \/ Protection(c)
      \/ DestroyReadStatus(c) \/ DestroyReadConfig(c) \/ DestroyUnprotected(c) \/ Return(c)
  BY DEF Handler, Power, Destroy, QemuPower, QemuUpdateHardware, QemuResizeDisk,
       QemuUpdateNetwork, QemuClone, QemuDestroy, QemuProtection, LxcPower, LxcUpdateHardware,
       LxcResizeDisk, LxcUpdateNetwork, LxcClone, LxcCreate, LxcDestroy, LxcProtection
<1>2. CASE PowerReadConfig(c) \/ Clone(c) \/ Protection(c) \/ DestroyReadConfig(c)
  BY <1>2 DEF PowerReadConfig, Clone, Protection, DestroyReadConfig
<1>3. CASE \/ PowerReadStatus(c) \/ UpdateHardware(c) \/ ResizeDisk(c) \/ UpdateNetwork(c)
           \/ Create(c) \/ DestroyReadStatus(c) \/ DestroyUnprotected(c) \/ Return(c)
  BY <1>3 DEF PowerReadStatus, UpdateHardware, ResizeDisk, UpdateNetwork, Create,
       DestroyReadStatus, DestroyUnprotected, Return
<1> QED BY <1>1, <1>2, <1>3

-----------------------------------------------------------------------------
(* A call that a step does not concern keeps its binding.                  *)

LEMMA BindingFrame ==
  ASSUME NEW d \in Calls, Binding(d),
         pc'[d] = pc[d], args'[d] = args[d], seen'[d] = seen[d], hit'[d] = hit[d],
         wire'[d] \in {wire[d], None},
         ~disturbed'[d] =>
           ~disturbed[d] /\ (args[d] # None /\ hit[d] = None => guest'[args[d].vmid] = guest[args[d].vmid])
  PROVE  Binding(d)'
<1>1. pc'[d] \in {"idle", "status", "config", "post"} => seen'[d] = None
  BY DEF Binding
<1>2. ASSUME ~disturbed'[d], args'[d] # None, args'[d].tool \in {"power", "clone", "destroy"}
      PROVE  IF hit'[d] = None THEN Undisturbed(d)' ELSE BoundTo(d, hit[d])'
  <2>1. ~disturbed[d] /\ args[d] # None /\ args[d].tool \in {"power", "clone", "destroy"}
    BY <1>2
  <2>2. CASE hit[d] # None
    <3>1. BoundTo(d, hit[d]) BY <2>1, <2>2 DEF Binding
    <3>2. BoundTo(d, hit[d])' BY <3>1 DEF BoundTo
    <3> QED BY <2>2, <3>2
  <2>3. CASE hit[d] = None
    <3>1. Undisturbed(d) BY <2>1, <2>3 DEF Binding
    <3>2. guest'[args[d].vmid] = guest[args[d].vmid] BY <1>2, <2>1, <2>3
    <3>3. Undisturbed(d)' BY <3>1, <3>2 DEF Undisturbed, Live, Named, OwnChanges
    <3> QED BY <2>3, <3>3
  <2> QED BY <2>2, <2>3
<1> QED BY <1>1, <1>2 DEF Binding

\* A change of a guest by another hand either spares the guest of call d or
\* is remembered as a disturbance.
LEMMA ChangeSpares ==
  ASSUME TypeOK, ArgsInv, NEW v, NEW g, NEW c, Change(v, g, c), NEW d \in Calls, ~disturbed'[d]
  PROVE  /\ ~disturbed[d]
         /\ d # c /\ args[d] # None /\ hit[d] = None => guest'[args[d].vmid] = guest[args[d].vmid]
<1>1. disturbed' = [x \in Calls |->
        disturbed[x] \/ (x # c /\ pc[x] # "idle" /\ args[x].vmid = v /\ hit[x] = None)]
  BY DEF Change
<1>2. ~disturbed[d] /\ ~(d # c /\ pc[d] # "idle" /\ args[d].vmid = v /\ hit[d] = None)
  BY <1>1, Zenon
<1>3. guest' = [guest EXCEPT ![v] = g] BY DEF Change
<1>4. args[d] # None => pc[d] # "idle" /\ args[d].vmid \in VMIDs
  BY DEF TypeOK, ArgsInv, Reqs
<1>5. d # c /\ args[d] # None /\ hit[d] = None => args[d].vmid # v
  BY <1>2, <1>4
<1>6. args[d] # None /\ args[d].vmid # v => guest'[args[d].vmid] = guest[args[d].vmid]
  BY <1>3, <1>4 DEF TypeOK
<1> QED BY <1>2, <1>5, <1>6

-----------------------------------------------------------------------------
(* A handler's own step, tool by tool: what it has decided on is what its  *)
(* guest is as long as nobody disturbs the call.                           *)

\* A call before its write: nothing is in flight and nothing was performed.
Early(c) ==
  /\ pc[c] \notin {"idle", "sent", "done"}
  /\ wire[c] = None /\ hit[c] = None /\ args[c] \in Reqs
  /\ UNCHANGED <<guest, args, hit, disturbed>>

LEMMA PowerBinding ==
  ASSUME TypeOK, NEW c \in Calls, Binding(c), Early(c), Power(c)
  PROVE  Binding(c)'
<1>1. args[c].tool = "power" BY DEF Power, PowerReadConfig, PowerReadStatus, At
<1>2. args[c] # None BY NoneReqAssumption DEF Early
<1>3. CASE PowerReadConfig(c)
  <2>1. PICK conf \in ConfigReplies(c) : seen' = [seen EXCEPT ![c] = conf]
    BY <1>3 DEF PowerReadConfig
  <2>2. pc'[c] = "read" /\ wire'[c] = None /\ seen'[c] = conf
    BY <1>3, <2>1 DEF PowerReadConfig, Early, TypeOK
  <2>3. conf # None => Live(c) # None /\ Live(c).conf = conf BY ConfigReplyIsLive
  <2>4. Undisturbed(c)'
    BY <1>1, <2>2, <2>3 DEF Early, Undisturbed, Live, OwnChanges
  <2> QED BY <2>2, <2>4 DEF Binding, Early
<1>4. CASE PowerReadStatus(c)
  <2>1. PICK g \in StatusReplies(c) :
          LET name == IF g # None THEN g.conf.name ELSE IF seen[c] # None THEN seen[c].name ELSE None
          IN  IF VerifyTargetIdentity(args[c].name, name, args[c].action = "stop")
              THEN ConfirmThenSend(c, LiveDigest(seen[c]), Unguarded)
              ELSE Answer(c, "refused")
    BY <1>4 DEF PowerReadStatus
  <2>2. UNCHANGED seen BY <1>4 DEF PowerReadStatus
  <2>3. seen[c] \in Confs \union {None} BY DEF TypeOK
  <2>4. /\ pc'[c] \in {"sent", "done"}
        /\ wire' = wire \/ (seen[c] # None => args[c].digest = Digest(seen[c]))
    BY <2>1, <2>3, DecidedOnDigest
  <2>5. ASSUME ~disturbed[c] PROVE Undisturbed(c)'
    <3>1. Undisturbed(c) BY <1>1, <1>2, <2>5 DEF Binding, Early
    <3>2. seen[c] # None => Live(c) # None /\ Live(c).conf = seen[c]
      BY <1>1, <3>1 DEF Undisturbed, OwnChanges
    <3>3. ASSUME args[c].action = "stop", wire'[c] # None PROVE Named(c)
      <4>1. wire' # wire BY <3>3 DEF Early
      <4> DEFINE name == IF g # None THEN g.conf.name
                         ELSE IF seen[c] # None THEN seen[c].name ELSE None
      <4>2. VerifyTargetIdentity(args[c].name, name, TRUE)
        BY <2>1, <3>3, <4>1 DEF Answer
      <4>3. args[c].name # None /\ args[c].name = name BY <4>2 DEF VerifyTargetIdentity
      <4>4. CASE g # None
        <5>1. g = Live(c) BY <4>4, StatusReplyIsLive
        <5> QED BY <4>3, <4>4, <5>1 DEF Named
      <4>5. CASE g = None
        BY <3>2, <4>3, <4>5 DEF Named
      <4> QED BY <4>4, <4>5
    <3>4. Named(c)' <=> Named(c) BY DEF Early, Named, Live
    <3> QED BY <1>1, <2>2, <2>4, <3>2, <3>3, <3>4 DEF Early, Undisturbed, Live, OwnChanges
  <2> QED BY <2>4, <2>5 DEF Binding, Early
<1> QED BY <1>3, <1>4 DEF Power

LEMMA CloneBinding ==
  ASSUME TypeOK, NEW c \in Calls, Binding(c), Early(c), Clone(c)
  PROVE  Binding(c)'
<1>1. args[c].tool = "clone" BY DEF Clone, At
<1>2. PICK conf \in ConfigReplies(c) :
        seen' = [seen EXCEPT ![c] = conf] /\ ConfirmThenSend(c, LiveDigest(conf), Unguarded)
  BY DEF Clone
<1>3. conf \in Confs \union {None}
  BY ConfigRepliesTyped, NoneReqAssumption DEF Early
<1>4. /\ pc'[c] \in {"sent", "done"}
      /\ wire' = wire \/ (conf # None => args[c].digest = Digest(conf))
  BY <1>2, <1>3, DecidedOnDigest
<1>5. seen'[c] = conf BY <1>2 DEF TypeOK
<1>6. conf # None => Live(c) # None /\ Live(c).conf = conf BY ConfigReplyIsLive
<1>7. Undisturbed(c)'
  BY <1>1, <1>4, <1>5, <1>6 DEF Early, Undisturbed, Live, OwnChanges
<1> QED BY <1>4, <1>7 DEF Binding, Early

LEMMA DestroyBinding ==
  ASSUME TypeOK, UnprotInv, NEW c \in Calls, Binding(c), Early(c), Destroy(c)
  PROVE  Binding(c)'
<1>1. args[c].tool = "destroy" /\ args[c] # None
  BY NoneReqAssumption DEF Destroy, DestroyReadStatus, DestroyReadConfig, DestroyUnprotected, At, Early
<1>2. ~disturbed[c] => Undisturbed(c) BY <1>1 DEF Binding, Early
<1>3. Named(c)' <=> Named(c) BY DEF Early, Named, Live
<1>4. CASE DestroyReadStatus(c)
  <2>1. seen[c] = None /\ UNCHANGED seen BY <1>4 DEF DestroyReadStatus, At, Binding
  <2>2. PICK g \in StatusReplies(c) :
          IF g # None /\ VerifyTargetIdentity(args[c].name, g.conf.name, TRUE) /\ g.status = "stopped"
          THEN /\ pc' = [pc EXCEPT ![c] = "config"]
               /\ UNCHANGED <<args, out, wire, unprot, pveVars>>
          ELSE Answer(c, "refused")
    BY <1>4 DEF DestroyReadStatus
  <2>3. wire' = wire BY <2>2 DEF Answer
  <2>4. CASE g # None /\ VerifyTargetIdentity(args[c].name, g.conf.name, TRUE) /\ g.status = "stopped"
    <3>1. g = Live(c) BY <2>4, StatusReplyIsLive
    <3>2. Named(c) BY <2>4, <3>1 DEF Named, VerifyTargetIdentity
    <3>3. Undisturbed(c)' BY <1>1, <1>3, <2>1, <2>3, <3>2 DEF Undisturbed, Early
    <3> QED BY <2>1, <3>3 DEF Binding, Early
  <2>5. CASE Answer(c, "refused")
    <3>1. pc'[c] = "done" BY <2>5 DEF Answer, TypeOK
    <3>2. Undisturbed(c)' BY <1>1, <2>1, <2>3, <3>1 DEF Undisturbed, Early
    <3> QED BY <2>1, <3>2 DEF Binding, Early
  <2> QED BY <2>2, <2>4, <2>5
<1>5. CASE DestroyReadConfig(c)
  <2>1. PICK conf \in ConfigReplies(c) :
          /\ seen' = [seen EXCEPT ![c] = conf]
          /\ IF ~NeedsUnprotect(conf) THEN ConfirmThenSend(c, LiveDigest(conf), Unguarded)
             ELSE IF ~args[c].unprotect THEN Answer(c, "refused")
             ELSE /\ pc' = [pc EXCEPT ![c] = "unprotect"]
                  /\ unprot' = [unprot EXCEPT ![c] = "sent"]
                  /\ UNCHANGED <<args, out, wire, pveVars>>
    BY <1>5 DEF DestroyReadConfig
  <2>2. conf \in Confs \union {None}
    BY ConfigRepliesTyped, NoneReqAssumption DEF Early
  <2>3. seen'[c] = conf BY <2>1 DEF TypeOK
  <2>4. conf # None => Live(c) # None /\ Live(c).conf = conf BY ConfigReplyIsLive
  <2>5. pc[c] = "config" BY <1>5 DEF DestroyReadConfig, At
  <2>6. ~disturbed[c] => Named(c) BY <1>1, <1>2, <2>5 DEF Undisturbed
  <2>7. CASE ~NeedsUnprotect(conf) /\ ConfirmThenSend(c, LiveDigest(conf), Unguarded)
    <3>1. /\ pc'[c] \in {"sent", "done"}
          /\ wire' = wire \/ (conf # None => args[c].digest = Digest(conf))
      BY <2>2, <2>7, DecidedOnDigest
    <3>2. conf # None => ~conf.prot BY <2>7 DEF NeedsUnprotect
    <3>3. ~disturbed[c] => Undisturbed(c)'
      BY <1>1, <1>3, <2>3, <2>4, <2>6, <3>1, <3>2 DEF Undisturbed, Early, Live, OwnChanges
    <3> QED BY <3>1, <3>3 DEF Binding, Early
  <2>8. CASE Answer(c, "refused")
    <3>1. pc'[c] = "done" /\ wire' = wire BY <2>8 DEF Answer, TypeOK
    <3>2. Undisturbed(c)'
      BY <1>1, <2>3, <2>4, <3>1 DEF Undisturbed, Early, Live, OwnChanges
    <3> QED BY <3>1, <3>2 DEF Binding, Early
  <2>9. CASE args[c].unprotect /\ pc' = [pc EXCEPT ![c] = "unprotect"] /\ wire' = wire
    <3>1. pc'[c] = "unprotect" BY <2>9 DEF TypeOK
    <3>2. ~disturbed[c] => Undisturbed(c)'
      BY <1>1, <1>3, <2>3, <2>4, <2>6, <2>9, <3>1 DEF Undisturbed, Early, Live, OwnChanges
    <3> QED BY <3>1, <3>2 DEF Binding, Early
  <2> QED BY <2>1, <2>7, <2>8, <2>9
<1>6. CASE DestroyUnprotected(c)
  <2>1. /\ pc[c] = "unprotect" /\ UNCHANGED seen
        /\ ConfirmThenSend(c, LiveDigest(seen[c]), Unguarded)
    BY <1>6 DEF DestroyUnprotected, At
  <2>2. seen[c] \in Confs \union {None} BY DEF TypeOK
  <2>3. /\ pc'[c] \in {"sent", "done"}
        /\ wire' = wire \/ (seen[c] # None => args[c].digest = Digest(seen[c]))
    BY <2>1, <2>2, DecidedOnDigest
  <2>4. ~disturbed[c] => Undisturbed(c)'
    BY <1>1, <1>2, <1>3, <2>1, <2>3 DEF Undisturbed, Early, Live, OwnChanges
  <2> QED BY <2>3, <2>4 DEF Binding, Early
<1> QED BY <1>4, <1>5, <1>6 DEF Destroy

\* The other tools have no binding to keep: their writes carry the digest or
\* promise none.
LEMMA UnboundBinding ==
  ASSUME TypeOK, NEW c \in Calls, Binding(c), Early(c),
         UpdateHardware(c) \/ ResizeDisk(c) \/ UpdateNetwork(c) \/ Create(c) \/ Protection(c)
  PROVE  Binding(c)'
<1>1. args[c].tool \notin {"power", "clone", "destroy"}
  BY DEF UpdateHardware, ResizeDisk, UpdateNetwork, Create, Protection, At
<1>2. pc'[c] \in {"sent", "done"}
  <2>1. ASSUME NEW d, NEW w, ConfirmThenSend(c, d, w) \/ Answer(c, "refused")
        PROVE  pc'[c] \in {"sent", "done"}
    BY <2>1 DEF ConfirmThenSend, Answer, Send, TypeOK
  <2> QED BY <2>1 DEF UpdateHardware, ResizeDisk, UpdateNetwork, Create, Protection
<1> QED BY <1>1, <1>2 DEF Binding, Early

-----------------------------------------------------------------------------
(* Every step keeps BindingInv.                                            *)

LEMMA BindingInit == Init => BindingInv
BY DEF Init, BindingInv, Binding

LEMMA BindingInvoke ==
  ASSUME IInv, BindingInv, NEW c \in Calls, Invoke(c)
  PROVE  BindingInv'
<1>1. PICK r \in Reqs : Admit(c, r) BY InvokeAdmits DEF IInv
<1>2. /\ pc[c] = "idle" /\ args' = [args EXCEPT ![c] = r] /\ pc' = [pc EXCEPT ![c] = FirstStep(r.tool)]
      /\ UNCHANGED <<guest, seen, wire, hit, disturbed>>
  BY <1>1 DEF Admit, pveVars
<1>3. seen[c] = None /\ wire[c] = None /\ hit[c] = None
  BY <1>2 DEF BindingInv, Binding, IInv, ArgsInv
<1>4. args'[c] = r /\ pc'[c] = FirstStep(r.tool) BY <1>2 DEF IInv, TypeOK
<1>5. r.tool = "destroy" => pc'[c] = "status"
  BY <1>4 DEF FirstStep
<1>6. pc'[c] # "unprotect" BY <1>4 DEF FirstStep
<1>7. Binding(c)' BY <1>2, <1>3, <1>4, <1>5, <1>6 DEF Binding, Undisturbed
<1>8. ASSUME NEW d \in Calls, d # c PROVE Binding(d)'
  <2>1. pc'[d] = pc[d] /\ args'[d] = args[d] BY <1>2, <1>8 DEF IInv, TypeOK
  <2>2. Binding(d) BY DEF BindingInv
  <2> QED BY <1>2, <2>1, <2>2, BindingFrame
<1> QED BY <1>7, <1>8 DEF BindingInv

LEMMA BindingHandler ==
  ASSUME IInv, BindingInv, NEW c \in Calls, Handler(c)
  PROVE  BindingInv'
<1>1. HandlerEffect(c) BY HandlerStepEffect DEF IInv
<1>2. /\ pc[c] \notin {"idle", "done"} /\ UNCHANGED <<guest, args, hit, disturbed>>
      /\ \A d \in Calls \ {c} : pc'[d] = pc[d] /\ wire'[d] = wire[d]
  BY <1>1 DEF HandlerEffect, pveVars, IInv, TypeOK
<1>3. \A d \in Calls \ {c} : seen'[d] = seen[d] BY SeenStep DEF IInv, TypeOK
<1>4. TypeOK /\ UnprotInv /\ Binding(c) BY DEF IInv, BindingInv
<1>5. CASE pc[c] = "sent"
  <2>1. Return(c)
    BY <1>5 DEF Handler, QemuPower, QemuUpdateHardware, QemuResizeDisk, QemuUpdateNetwork, QemuClone,
       QemuDestroy, QemuProtection, LxcPower, LxcUpdateHardware, LxcResizeDisk, LxcUpdateNetwork,
       LxcClone, LxcCreate, LxcDestroy, LxcProtection, Power, Destroy, PowerReadConfig,
       PowerReadStatus, UpdateHardware, ResizeDisk, UpdateNetwork, Clone, Create, Protection,
       DestroyReadStatus, DestroyReadConfig, DestroyUnprotected, At
  <2>2. pc'[c] = "done" /\ UNCHANGED <<seen, wire>>
    BY <2>1 DEF Return, Answer, IInv, TypeOK
  <2>3. Binding(c)'
    <3>1. \/ disturbed[c] \/ args[c] = None \/ args[c].tool \notin {"power", "clone", "destroy"}
          \/ (hit[c] # None /\ BoundTo(c, hit[c]) /\ BoundTo(c, hit[c])')
          \/ (hit[c] = None /\ Undisturbed(c) /\ Undisturbed(c)')
      <4>1. BoundTo(c, hit[c]) => BoundTo(c, hit[c])'
        BY <1>2, <2>2 DEF BoundTo
      <4>2. Undisturbed(c) => Undisturbed(c)'
        BY <1>2, <1>5, <2>2 DEF Undisturbed, Live, Named, OwnChanges
      <4> QED BY <1>4, <4>1, <4>2 DEF Binding
    <3> QED BY <1>2, <2>2, <3>1 DEF Binding
  <2> QED BY <1>2, <1>3, <2>3, BindingFrame DEF BindingInv
<1>6. CASE pc[c] # "sent"
  <2>1. Early(c)
    BY <1>2, <1>6 DEF Early, IInv, SentInv, ArgsInv, TypeOK
  <2>2. \/ Power(c) \/ Clone(c) \/ Destroy(c)
        \/ UpdateHardware(c) \/ ResizeDisk(c) \/ UpdateNetwork(c) \/ Create(c) \/ Protection(c)
    BY <1>6 DEF Handler, QemuPower, QemuUpdateHardware, QemuResizeDisk, QemuUpdateNetwork, QemuClone,
       QemuDestroy, QemuProtection, LxcPower, LxcUpdateHardware, LxcResizeDisk, LxcUpdateNetwork,
       LxcClone, LxcCreate, LxcDestroy, LxcProtection, Return
  <2>3. Binding(c)'
    BY <1>4, <2>1, <2>2, PowerBinding, CloneBinding, DestroyBinding, UnboundBinding
  <2> QED BY <1>2, <1>3, <2>3, BindingFrame DEF BindingInv
<1> QED BY <1>5, <1>6

\* A write that takes effect for an undisturbed call finds what it decided on.
LEMMA BindingPerform ==
  ASSUME IInv, BindingInv, NEW c \in Calls, NEW g, NEW v, NEW new,
         wire[c] # None, g # None, Perform(c, g, v, new),
         args[c].tool \in {"power", "clone", "destroy"} => g = Live(c),
         args[c].tool = "destroy" => ~g.conf.prot /\ g.conf \in Confs
  PROVE  BindingInv'
<1>1. /\ Change(v, new, c) /\ hit' = [hit EXCEPT ![c] = g] /\ wire' = [wire EXCEPT ![c] = None]
      /\ UNCHANGED <<pc, args, seen>>
  BY DEF Perform, handlerVars
<1>2. /\ hit'[c] = g /\ wire'[c] = None
      /\ \A d \in Calls \ {c} : hit'[d] = hit[d] /\ wire'[d] = wire[d]
  BY <1>1 DEF IInv, TypeOK
<1>3. hit[c] = None BY DEF IInv, WireInv
<1>4. ASSUME NEW d \in Calls, ~disturbed'[d]
      PROVE  /\ ~disturbed[d]
             /\ d # c /\ args[d] # None /\ hit[d] = None => guest'[args[d].vmid] = guest[args[d].vmid]
  BY <1>1, <1>4, ChangeSpares DEF IInv
<1>5. Binding(c)'
  <2>1. ASSUME ~disturbed'[c], args[c] # None, args[c].tool \in {"power", "clone", "destroy"}
        PROVE  BoundTo(c, hit[c])'
    <3>1. Undisturbed(c) BY <1>3, <1>4, <2>1 DEF BindingInv, Binding
    <3>2. g = Live(c) BY <2>1
    <3>3. args[c].tool = "destroy" \/ (args[c].tool = "power" /\ args[c].action = "stop")
            => args[c].name = g.conf.name
      BY <3>1, <3>2 DEF Undisturbed, Named
    <3>4. seen[c] # None =>
            /\ args[c].digest = Digest(seen[c])
            /\ g.conf = IF args[c].tool = "destroy" THEN [seen[c] EXCEPT !.prot = FALSE] ELSE seen[c]
      <4>1. seen[c] # None => seen[c] \in Confs BY DEF IInv, TypeOK
      <4>2. seen[c] # None => args[c].digest = Digest(seen[c]) /\ g.conf \in OwnChanges(c, seen[c])
        BY <3>1, <3>2 DEF Undisturbed
      <4>3. ASSUME seen[c] # None, args[c].tool = "destroy"
            PROVE  g.conf = [seen[c] EXCEPT !.prot = FALSE]
        <5>1. g.conf = seen[c] \/ g.conf = [seen[c] EXCEPT !.prot = FALSE]
          BY <4>2, <4>3 DEF OwnChanges
        <5>2. g.conf = seen[c] => seen[c].prot = FALSE
          BY <4>1, <4>3 DEF Confs
        <5>3. seen[c].prot = FALSE => seen[c] = [seen[c] EXCEPT !.prot = FALSE]
          BY <4>1, <4>3 DEF Confs
        <5> QED BY <5>1, <5>2, <5>3
      <4>4. ASSUME seen[c] # None, args[c].tool # "destroy" PROVE g.conf = seen[c]
        BY <4>2, <4>4 DEF OwnChanges
      <4> QED BY <4>2, <4>3, <4>4
    <3>5. args[c].tool = "destroy" /\ seen[c] # None /\ seen[c].prot => args[c].unprotect
      BY <3>1 DEF Undisturbed
    <3> QED BY <1>1, <1>2, <3>3, <3>4, <3>5 DEF BoundTo
  <2>2. pc[c] \in {"idle", "status", "config", "post"} => seen[c] = None
    BY DEF BindingInv, Binding
  <2> QED BY <1>1, <1>2, <2>1, <2>2 DEF Binding
<1>6. ASSUME NEW d \in Calls, d # c PROVE Binding(d)'
  BY <1>1, <1>2, <1>4, <1>6, BindingFrame DEF BindingInv
<1> QED BY <1>5, <1>6 DEF BindingInv

LEMMA BindingWrites ==
  ASSUME IInv, BindingInv, NEW c \in Calls,
         PerformEdit(c) \/ PerformPower(c) \/ PerformClone(c) \/ PerformCreate(c) \/ PerformDelete(c)
  PROVE  BindingInv'
<1>1. ASSUME NEW tools, Reaches(c, tools)
      PROVE  wire[c] # None /\ args[c].tool \in tools /\ Live(c) \in Guests /\ Live(c) # None
  <2>1. wire[c] # None /\ args[c].tool \in tools /\ Live(c) # None
    BY <1>1 DEF Reaches, Serves
  <2>2. args[c].vmid \in VMIDs BY <2>1, WireTyped
  <2> QED BY <2>1, <2>2 DEF Live, IInv, TypeOK
<1>2. CASE PerformEdit(c)
  <2>1. wire[c] # None /\ Live(c) # None /\ args[c].tool \notin {"power", "clone", "destroy"}
    BY <1>1, <1>2 DEF PerformEdit
  <2>2. PICK new : Perform(c, Live(c), args[c].vmid, new) BY <1>2 DEF PerformEdit
  <2> QED BY <2>1, <2>2, BindingPerform
<1>3. CASE PerformPower(c)
  <2>1. wire[c] # None /\ Live(c) # None /\ args[c].tool = "power"
    BY <1>1, <1>3 DEF PerformPower
  <2>2. PICK new : Perform(c, Live(c), args[c].vmid, new) BY <1>3 DEF PerformPower
  <2> QED BY <2>1, <2>2, BindingPerform
<1>4. CASE PerformClone(c)
  <2>1. wire[c] # None /\ Live(c) # None /\ args[c].tool = "clone"
    <3>1. Reaches(c, {"clone"}) BY <1>4 DEF PerformClone
    <3> QED BY <1>1, <3>1
  <2>2. PICK new : Perform(c, Live(c), args[c].newid, new) BY <1>4 DEF PerformClone
  <2> QED BY <2>1, <2>2, BindingPerform
<1>5. CASE PerformCreate(c)
  <2>1. wire[c] # None /\ args[c].tool = "create" BY <1>5 DEF PerformCreate
  <2>2. PICK new \in Guests : Perform(c, new, args[c].vmid, new) BY <1>5 DEF PerformCreate
  <2>3. new # None BY NoneAssumption
  <2> QED BY <2>1, <2>2, <2>3, BindingPerform
<1>6. CASE PerformDelete(c)
  <2>1. /\ wire[c] # None /\ Live(c) # None /\ args[c].tool = "destroy"
        /\ ~Live(c).conf.prot /\ Live(c).conf \in Confs
    BY <1>1, <1>6 DEF PerformDelete, DeleteAdmits, Guests
  <2>2. Perform(c, Live(c), args[c].vmid, None) BY <1>6 DEF PerformDelete
  <2> QED BY <2>1, <2>2, BindingPerform
<1> QED BY <1>2, <1>3, <1>4, <1>5, <1>6

LEMMA BindingUnprotect ==
  ASSUME IInv, BindingInv, NEW c \in Calls, PerformUnprotect(c)
  PROVE  BindingInv'
<1> DEFINE g == Live(c)
           v == args[c].vmid
<1>1. /\ unprot[c] = "sent" /\ g # None /\ Change(v, [g EXCEPT !.conf.prot = FALSE], c)
      /\ guest' = [guest EXCEPT ![v] = [g EXCEPT !.conf.prot = FALSE]]
      /\ UNCHANGED <<pc, args, seen, wire, hit>>
  BY DEF PerformUnprotect, Serves, Change, handlerVars
<1>2. args[c] # None /\ args[c].tool = "destroy"
  BY <1>1 DEF IInv, ArgsInv, UnprotInv
<1>3. v \in VMIDs BY <1>2 DEF IInv, TypeOK, Reqs
<1>4. g \in Guests /\ g.conf \in Confs BY <1>1, <1>3 DEF Live, IInv, TypeOK, Guests
<1>5. Live(c)' = [g EXCEPT !.conf.prot = FALSE] BY <1>1, <1>3 DEF Live, IInv, TypeOK
<1>6. /\ Live(c)' # None /\ Live(c)'.conf = [g.conf EXCEPT !.prot = FALSE]
      /\ Live(c)'.conf.name = g.conf.name
  <2> DEFINE new == [g EXCEPT !.conf.prot = FALSE]
  <2>1. new \in Guests BY <1>4 DEF Guests, Confs
  <2>2. new # None BY <2>1, NoneAssumption
  <2>3. new.conf = [g.conf EXCEPT !.prot = FALSE] BY <1>4 DEF Guests
  <2>4. new.conf.name = g.conf.name BY <1>4, <2>3 DEF Confs
  <2>5. Live(c)' = new BY <1>5
  <2> HIDE DEF new, g
  <2> QED BY <2>2, <2>3, <2>4, <2>5
<1>7. ASSUME NEW d \in Calls, ~disturbed'[d]
      PROVE  /\ ~disturbed[d]
             /\ d # c /\ args[d] # None /\ hit[d] = None => guest'[args[d].vmid] = guest[args[d].vmid]
  <2>1. PICK w, new : Change(w, new, c) BY <1>1
  <2> QED BY <1>7, <2>1, ChangeSpares DEF IInv
<1>8. ASSUME ~disturbed'[c], hit[c] = None PROVE Undisturbed(c)'
  <2>1. Undisturbed(c) BY <1>2, <1>7, <1>8 DEF BindingInv, Binding
  <2>2. seen[c] # None => Live(c)' # None /\ Live(c)'.conf \in OwnChanges(c, seen[c])
    <3>1. seen[c] # None => seen[c] \in Confs BY DEF IInv, TypeOK
    <3>2. seen[c] # None => g.conf = seen[c] \/ g.conf = [seen[c] EXCEPT !.prot = FALSE]
      BY <1>2, <2>1 DEF Undisturbed, OwnChanges
    <3>3. seen[c] # None => Live(c)'.conf = [seen[c] EXCEPT !.prot = FALSE]
      BY <1>6, <3>1, <3>2 DEF Confs
    <3> QED BY <1>2, <1>6, <3>3 DEF OwnChanges
  <2>3. Named(c) => Named(c)' BY <1>1, <1>6 DEF Named
  <2>4. OwnChanges(c, seen[c])' = OwnChanges(c, seen[c]) BY <1>1 DEF OwnChanges
  <2> HIDE DEF g, v
  <2> QED BY <1>1, <1>2, <2>1, <2>2, <2>3, <2>4 DEF Undisturbed
<1>9. ASSUME ~disturbed'[c], hit[c] # None PROVE BoundTo(c, hit[c])'
  <2>1. args[c].tool \in {"power", "clone", "destroy"} => BoundTo(c, hit[c])
    BY <1>2, <1>7, <1>9 DEF BindingInv, Binding
  <2> QED BY <1>1, <1>2, <2>1 DEF BoundTo
<1>10. Binding(c)'
  <2>1. pc[c] \in {"idle", "status", "config", "post"} => seen[c] = None
    BY DEF BindingInv, Binding
  <2> QED BY <1>1, <1>8, <1>9, <2>1 DEF Binding
<1>11. ASSUME NEW d \in Calls, d # c PROVE Binding(d)'
  BY <1>1, <1>7, <1>11, BindingFrame DEF BindingInv
<1> QED BY <1>10, <1>11 DEF BindingInv

LEMMA BindingStep == IInv /\ BindingInv /\ [Next]_vars => BindingInv'
<1> SUFFICES ASSUME IInv, BindingInv, [Next]_vars PROVE BindingInv' OBVIOUS
<1>1. ASSUME NEW c \in Calls, DropWrite(c) \/ DropUnprotect(c) PROVE BindingInv'
  <2>1. /\ UNCHANGED <<guest, pc, args, seen, hit, disturbed>>
        /\ \A d \in Calls : wire'[d] \in {wire[d], None}
    BY <1>1 DEF DropWrite, DropUnprotect, handlerVars, pveVars, IInv, TypeOK
  <2> QED BY <2>1, BindingFrame DEF BindingInv
<1>2. ASSUME NEW v \in VMIDs, External(v) PROVE BindingInv'
  <2>1. PICK g : Change(v, g, None) BY <1>2 DEF External
  <2>2. UNCHANGED <<pc, args, seen, wire, hit>> BY <1>2 DEF External, handlerVars
  <2>3. ASSUME NEW d \in Calls, ~disturbed'[d]
        PROVE  /\ ~disturbed[d]
               /\ args[d] # None /\ hit[d] = None => guest'[args[d].vmid] = guest[args[d].vmid]
    <3>1. d # None BY GuestToolsAssumption
    <3> QED BY <2>1, <2>3, <3>1, ChangeSpares DEF IInv
  <2> QED BY <2>2, <2>3, BindingFrame DEF BindingInv
<1>3. ASSUME UNCHANGED vars PROVE BindingInv'
  <2>1. UNCHANGED <<guest, pc, args, seen, hit, wire, disturbed>> BY <1>3 DEF vars
  <2> QED BY <2>1, BindingFrame DEF BindingInv
<1> QED BY <1>1, <1>2, <1>3, BindingInvoke, BindingHandler, BindingWrites, BindingUnprotect
        DEF Next, Proxmox

\* What an undisturbed call decided on is what its guest is, until its write
\* takes effect and when it does.
THEOREM BindingInvariance == Spec => []BindingInv
<1>1. IInv /\ BindingInv /\ [Next]_vars => BindingInv' BY BindingStep
<1> QED BY <1>1, BindingInit, Invariance, PTL DEF Spec

\* A destroy, a hard stop and a clone, whose writes carry no digest, find the
\* guest that was named and the configuration that was approved, as long as
\* nobody else changes the guest in between (qemu.go:74-125, 525-586, 648-712).
THEOREM UndisturbedCallsAreBound == Spec => []UndisturbedBinding
<1>1. IInv /\ BindingInv => UndisturbedBinding
  <2> SUFFICES ASSUME IInv, BindingInv, NEW c \in Calls, hit[c] # None, ~disturbed[c],
                      args[c].tool \in {"power", "clone", "destroy"}
               PROVE  BoundTo(c, hit[c])
    BY DEF UndisturbedBinding, BoundTo
  <2>1. args[c] # None BY DEF IInv, ArgsInv
  <2> QED BY <2>1 DEF BindingInv, Binding
<1> QED BY <1>1, Invariance, BindingInvariance, PTL

-----------------------------------------------------------------------------
(* Growth: what a resize did lasts as long as the guests do.               *)

\* A guest whose disk entry records a size stays, and its disk does not shrink.
Grows(old, new) ==
  old # None /\ old.conf.sized =>
    new # None /\ new.conf.sized /\ new.conf.disk >= old.conf.disk

LEMMA RewritesGrow ==
  ASSUME NEW r \in Reqs, NEW conf \in Confs, NEW net, NEW new \in Rewrites(r, conf, net), conf.sized,
         r.tool \in {"hardware", "resize", "network", "protection"},
         r.tool = "resize" => ValidateDiskGrowth(ExtractDiskSizeBytes(conf), r.relative, r.size)
  PROVE  /\ new.sized /\ new.disk >= conf.disk
         /\ r.tool = "resize" /\ r.size > 0 => new.disk > conf.disk
<1>1. conf.disk \in 1 .. MaxDisk /\ r.size \in 0 .. MaxDisk BY DEF Confs, Reqs
<1>2. CASE r.tool = "hardware"
  <2>1. new = [conf EXCEPT !.hw = r.hw] BY <1>2 DEF Rewrites
  <2>2. new.disk = conf.disk /\ new.sized BY <2>1 DEF Confs
  <2> QED BY <1>1, <1>2, <2>2, MaxDiskAssumption
<1>3. CASE r.tool = "protection"
  <2>1. new = [conf EXCEPT !.prot = r.protected] BY <1>3 DEF Rewrites
  <2>2. new.disk = conf.disk /\ new.sized BY <2>1 DEF Confs
  <2> QED BY <1>1, <1>3, <2>2, MaxDiskAssumption
<1>4. CASE r.tool = "network"
  <2>1. PICK m : new = [conf EXCEPT !.net = [net EXCEPT !.mac = m]] BY <1>4 DEF Rewrites
  <2>2. new.disk = conf.disk /\ new.sized BY <2>1 DEF Confs
  <2> QED BY <1>1, <1>4, <2>2, MaxDiskAssumption
<1>5. CASE r.tool = "resize"
  <2>1. new = [conf EXCEPT !.disk = IF r.relative THEN @ + r.size ELSE r.size] BY <1>5 DEF Rewrites
  <2>2. new.disk = (IF r.relative THEN conf.disk + r.size ELSE r.size) /\ new.sized
    BY <2>1 DEF Confs
  <2>3. r.relative \/ r.size > conf.disk
    BY <1>1, <1>5 DEF ValidateDiskGrowth, ExtractDiskSizeBytes
  <2> QED BY <1>1, <2>2, <2>3, MaxDiskAssumption
<1> QED BY <1>2, <1>3, <1>4, <1>5

\* A change of one VMID that keeps or grows what is there does so everywhere.
LEMMA OneGrows ==
  ASSUME TypeOK, NEW w \in VMIDs, NEW new, guest' = [guest EXCEPT ![w] = new], Grows(guest[w], new),
         NEW v \in VMIDs
  PROVE  Grows(guest[v], guest'[v])
<1>1. CASE v = w
  <2>1. guest'[v] = new BY <1>1 DEF TypeOK
  <2> QED BY <1>1, <2>1 DEF Grows
<1>2. CASE v # w
  <2>1. guest'[v] = guest[v] BY <1>2 DEF TypeOK
  <2>2. guest[v] # None => guest[v].conf.disk \in Nat
    BY MaxDiskAssumption DEF TypeOK, Guests, Confs
  <2>3. guest[v] # None => guest[v].conf.disk >= guest[v].conf.disk
    <3> DEFINE n == guest[v].conf.disk
    <3> HIDE DEF n
    <3>1. n \in Nat => n >= n OBVIOUS
    <3> QED BY <2>2, <3>1 DEF n
  <2> QED BY <2>1, <2>3 DEF Grows
<1> QED BY <1>1, <1>2

\* The same configuration apart from what the clause names.
LEMMA SameDiskGrows ==
  ASSUME NEW old \in Guests, NEW new \in Guests,
         new.conf.sized = old.conf.sized, new.conf.disk = old.conf.disk
  PROVE  Grows(old, new)
<1>1. old.conf.disk \in Nat BY MaxDiskAssumption DEF Guests, Confs
<1>2. new # None BY NoneAssumption
<1> DEFINE m == old.conf.disk
           n == new.conf.disk
<1> HIDE DEF m, n
<1>3. m \in Nat /\ n = m BY <1>1 DEF m, n
<1>4. n >= m BY <1>3
<1> QED BY <1>2, <1>4 DEF Grows, m, n

\* Without destroy, neither the tools nor Proxmox's other clients remove a
\* guest or make a recorded disk smaller.
LEMMA GuestsGrow ==
  ASSUME IInv, Next, GuestsLast, NEW v \in VMIDs
  PROVE  Grows(guest[v], guest'[v])
<1>0. TypeOK BY DEF IInv
<1>1. ASSUME UNCHANGED guest PROVE Grows(guest[v], guest'[v])
  <2>1. CASE guest[v] = None BY <1>1, <2>1 DEF Grows
  <2>2. CASE guest[v] # None
    <3>1. guest[v] \in Guests BY <1>0, <2>2 DEF TypeOK
    <3> QED BY <1>1, <3>1, SameDiskGrows
  <2> QED BY <2>1, <2>2
<1>2. ASSUME NEW c \in Calls, Invoke(c) PROVE UNCHANGED guest
  <2>1. PICK r \in Reqs : Admit(c, r) BY <1>0, <1>2, InvokeAdmits
  <2> QED BY <2>1 DEF Admit, pveVars
<1>3. ASSUME NEW c \in Calls, Handler(c) PROVE UNCHANGED guest
  BY <1>3, HandlerStepEffect DEF HandlerEffect, pveVars, IInv
<1>4. ASSUME NEW c \in Calls, DropWrite(c) \/ DropUnprotect(c) PROVE UNCHANGED guest
  BY <1>4 DEF DropWrite, DropUnprotect, pveVars
<1>5. ASSUME NEW c \in Calls, PerformEdit(c) PROVE Grows(guest[v], guest'[v])
  <2> DEFINE r == args[c]
             g == guest[r.vmid]
  <2>1. /\ r \in Reqs /\ r.vmid \in VMIDs /\ r.tool \in Edits \union {"protection"}
        /\ g \in Guests /\ g.conf \in Confs
        /\ r.tool = "resize" => ValidateDiskGrowth(ExtractDiskSizeBytes(g.conf), r.relative, r.size)
    BY <1>5, EditPerforms
  <2>2. PICK conf \in Confs \cap Rewrites(r, g.conf, wire[c].net) :
          Perform(c, g, r.vmid, [g EXCEPT !.conf = conf])
    BY <1>5, EditPerforms
  <2>3. guest' = [guest EXCEPT ![r.vmid] = [g EXCEPT !.conf = conf]]
    BY <2>2 DEF Perform, Change
  <2>4. g.conf.sized => conf.sized /\ conf.disk >= g.conf.disk
    BY <2>1, <2>2, RewritesGrow DEF Edits
  <2>5. [g EXCEPT !.conf = conf].conf = conf /\ [g EXCEPT !.conf = conf] \in Guests
    BY <2>1, <2>2 DEF Guests
  <2>6. [g EXCEPT !.conf = conf] # None BY <2>5, NoneAssumption
  <2>7. Grows(g, [g EXCEPT !.conf = conf]) BY <2>4, <2>5, <2>6 DEF Grows
  <2> QED BY <1>0, <2>1, <2>3, <2>7, OneGrows
<1>6. ASSUME NEW c \in Calls, PerformPower(c) PROVE Grows(guest[v], guest'[v])
  <2> DEFINE g == guest[args[c].vmid]
             new == [g EXCEPT !.status = StatusAfter(g, args[c].action)]
  <2>1. args[c].vmid \in VMIDs /\ g \in Guests BY <1>6, Reached DEF PerformPower
  <2>2. guest' = [guest EXCEPT ![args[c].vmid] = new]
    BY <1>6 DEF PerformPower, Perform, Change, Live
  <2>3. StatusAfter(g, args[c].action) \in {"running", "stopped"} BY <2>1 DEF StatusAfter, Guests
  <2>4. new \in Guests /\ new.conf = g.conf BY <2>1, <2>3 DEF Guests
  <2>5. Grows(g, new) BY <2>1, <2>4, SameDiskGrows
  <2> QED BY <1>0, <2>1, <2>2, <2>5, OneGrows
<1>7. ASSUME NEW c \in Calls, PerformClone(c) \/ PerformCreate(c) PROVE Grows(guest[v], guest'[v])
  <2>0. PICK w, new : guest[w] = None /\ guest' = [guest EXCEPT ![w] = new]
    <3>1. CASE PerformClone(c)
      <4>1. PICK w : w = args[c].newid OBVIOUS
      <4>2. PICK conf :
              Perform(c, Live(c), args[c].newid, [Live(c) EXCEPT !.status = "stopped", !.conf = conf])
        BY <3>1 DEF PerformClone
      <4>3. PICK new : new = [Live(c) EXCEPT !.status = "stopped", !.conf = conf] OBVIOUS
      <4>4. guest[w] = None BY <3>1, <4>1 DEF PerformClone
      <4>5. guest' = [guest EXCEPT ![w] = new] BY <4>1, <4>2, <4>3 DEF Perform, Change
      <4> QED BY <4>4, <4>5
    <3>2. CASE PerformCreate(c)
      <4>1. PICK w : w = args[c].vmid OBVIOUS
      <4>2. PICK g : Perform(c, g, args[c].vmid, g) BY <3>2 DEF PerformCreate
      <4>3. guest[w] = None BY <3>2, <4>1 DEF PerformCreate, Live
      <4>4. guest' = [guest EXCEPT ![w] = g] BY <4>1, <4>2 DEF Perform, Change
      <4> QED BY <4>3, <4>4
    <3> QED BY <1>7, <3>1, <3>2
  <2>1. guest[w] = None /\ guest' = [guest EXCEPT ![w] = new] BY <2>0
  <2>2. CASE w \in VMIDs
    <3>1. Grows(guest[w], new) BY <2>1 DEF Grows
    <3> QED BY <1>0, <2>1, <2>2, <3>1, OneGrows
  <2>3. CASE w \notin VMIDs
    BY <1>0, <1>1, <2>1, <2>3 DEF TypeOK
  <2> QED BY <2>2, <2>3
<1>8. ASSUME NEW c \in Calls, PerformDelete(c) \/ PerformUnprotect(c) PROVE FALSE
  <2>1. args[c] # None /\ args[c].tool = "destroy"
    BY <1>8, Reached DEF PerformDelete, PerformUnprotect, IInv, ArgsInv, UnprotInv
  <2>2. Admissible(args[c]) BY <2>1 DEF IInv, ArgsInv
  <2> QED BY <2>1, <2>2 DEF Admissible, EnsureAllowed, CategoryOf, GuestsLast
<1>9. ASSUME NEW w \in VMIDs, External(w) PROVE Grows(guest[v], guest'[v])
  <2>1. PICK new \in ExternalChanges(w) : guest' = [guest EXCEPT ![w] = new]
    BY <1>9 DEF External, Change
  <2>2. Grows(guest[w], new)
    <3>1. CASE guest[w] = None BY <3>1 DEF Grows
    <3>2. CASE guest[w] # None
      <4> DEFINE g == guest[w]
      <4>1. g \in Guests /\ g.conf \in Confs BY <1>0, <3>2 DEF TypeOK, Guests
      <4>2. CASE \E conf \in ExternalConfs(g.conf) : new = [g EXCEPT !.conf = conf]
        <5>1. PICK conf \in ExternalConfs(g.conf) : new = [g EXCEPT !.conf = conf] BY <4>2
        <5>2. CASE conf \in Confs /\ conf.disk = g.conf.disk /\ conf.sized = g.conf.sized
          <6>1. new \in Guests /\ new.conf = conf BY <4>1, <5>1, <5>2 DEF Guests
          <6> QED BY <4>1, <5>2, <6>1, SameDiskGrows
        <5>3. CASE \E n \in 1 .. MaxDisk : n > g.conf.disk /\ conf = [g.conf EXCEPT !.disk = n]
          <6>1. PICK n \in 1 .. MaxDisk : n > g.conf.disk /\ conf = [g.conf EXCEPT !.disk = n] BY <5>3
          <6>2. conf \in Confs /\ conf.disk = n /\ conf.sized = g.conf.sized
            BY <4>1, <6>1 DEF Confs
          <6>3. new \in Guests /\ new.conf = conf BY <4>1, <5>1, <6>2 DEF Guests
          <6>4. new # None BY <6>3, NoneAssumption
          <6> DEFINE m == g.conf.disk
          <6>5. m \in 1 .. MaxDisk BY <4>1 DEF Confs
          <6> HIDE DEF m
          <6>6. n > m => n >= m BY <6>5, MaxDiskAssumption
          <6> QED BY <6>1, <6>2, <6>3, <6>4, <6>6 DEF Grows, m
        <5> QED BY <5>1, <5>2, <5>3 DEF ExternalConfs
      <4>3. CASE \E s \in {"running", "stopped"} : new = [g EXCEPT !.status = s]
        <5>1. new \in Guests /\ new.conf = g.conf BY <4>1, <4>3 DEF Guests
        <5> QED BY <4>1, <5>1, SameDiskGrows
      <4>4. CASE \E n \in Nodes : new = [g EXCEPT !.node = n]
        <5>1. new \in Guests /\ new.conf = g.conf BY <4>1, <4>4 DEF Guests
        <5> QED BY <4>1, <5>1, SameDiskGrows
      <4> QED BY <2>1, <3>2, <4>2, <4>3, <4>4 DEF ExternalChanges, GuestsLast
    <3> QED BY <3>1, <3>2
  <2> QED BY <1>0, <2>1, <2>2, OneGrows
<1> QED BY <1>1, <1>2, <1>3, <1>4, <1>5, <1>6, <1>7, <1>8, <1>9 DEF Next, Proxmox

\* At most the write of call c takes effect, once, and calls whose write took
\* effect keep their arguments.
HitOnly(c) ==
  \A d \in Calls :
    /\ d # c \/ hit[d] # None => hit'[d] = hit[d]
    /\ hit'[d] # None => args'[d] = args[d]

\* A step lets the write of at most one call take effect, once, and a call
\* whose write took effect keeps its arguments.
LEMMA HitStep ==
  ASSUME IInv, Next
  PROVE  \E c : HitOnly(c)
<1>0. TypeOK /\ ArgsInv /\ WireInv BY DEF IInv
<1>1. ASSUME NEW c \in Calls, Invoke(c) PROVE HitOnly(c)
  <2>1. PICK r \in Reqs : Admit(c, r) BY <1>0, <1>1, InvokeAdmits
  <2>2. UNCHANGED hit /\ pc[c] = "idle" /\ args' = [args EXCEPT ![c] = r] BY <2>1 DEF Admit, pveVars
  <2>3. hit[c] = None BY <1>0, <2>2 DEF ArgsInv
  <2>4. \A d \in Calls : d # c => args'[d] = args[d] BY <1>0, <2>2 DEF TypeOK
  <2> QED BY <2>2, <2>3, <2>4 DEF HitOnly
<1>2. ASSUME NEW c \in Calls, Handler(c) PROVE HitOnly(c)
  BY <1>0, <1>2, HandlerStepEffect DEF HandlerEffect, pveVars, HitOnly
<1>3. ASSUME NEW c \in Calls, Proxmox(c) PROVE HitOnly(c)
  <2>1. ASSUME NEW v, NEW g, NEW new, wire[c] # None, Perform(c, g, v, new) PROVE HitOnly(c)
    <3>1. hit[c] = None BY <1>0, <2>1 DEF WireInv
    <3>2. UNCHANGED args /\ hit' = [hit EXCEPT ![c] = g] BY <2>1 DEF Perform, handlerVars
    <3>3. \A d \in Calls : d # c => hit'[d] = hit[d] BY <1>0, <3>2 DEF TypeOK
    <3> QED BY <3>1, <3>2, <3>3 DEF HitOnly
  <2>2. CASE PerformEdit(c) BY <2>1, <2>2 DEF PerformEdit, Reaches
  <2>3. CASE PerformPower(c) \/ PerformDelete(c)
    BY <2>1, <2>3 DEF PerformPower, PerformDelete, Reaches
  <2>4. CASE PerformClone(c) BY <2>1, <2>4 DEF PerformClone, Reaches
  <2>5. CASE PerformCreate(c) BY <2>1, <2>5 DEF PerformCreate
  <2>6. CASE DropWrite(c) \/ PerformUnprotect(c) \/ DropUnprotect(c)
    BY <2>6 DEF DropWrite, PerformUnprotect, DropUnprotect, pveVars, handlerVars, HitOnly
  <2> QED BY <1>3, <2>2, <2>3, <2>4, <2>5, <2>6 DEF Proxmox
<1>4. ASSUME NEW v \in VMIDs, External(v) PROVE HitOnly(None)
  BY <1>4 DEF External, handlerVars, HitOnly
<1> QED BY <1>1, <1>2, <1>3, <1>4 DEF Next

-----------------------------------------------------------------------------
(* The disk is larger than any resize found it.                            *)

-----------------------------------------------------------------------------
(* The disk is larger than any resize found it.                            *)

\* A resize that takes effect makes the disk larger than it finds it.
LEMMA NewGrowth ==
  ASSUME IInv, Next, GuestsLast, NEW c \in Calls, hit[c] = None, args'[c] = args[c], Grew(c)'
  PROVE  Live(c)' # None /\ Live(c)'.conf.sized /\ Live(c)'.conf.disk > hit'[c].conf.disk
<1> DEFINE live == guest[args[c].vmid].conf
           new == guest'[args[c].vmid].conf
<1>1. hit'[c] # None /\ args[c].tool = "resize" /\ hit'[c].conf.sized /\ args[c].size > 0
  BY DEF Grew
<1>2. /\ hit'[c].conf = live /\ live \in Confs
      /\ guest[args[c].vmid] \in Guests /\ args[c] \in Reqs
      /\ new \in Rewrites(args[c], live, wire[c].net)
      /\ ValidateDiskGrowth(ExtractDiskSizeBytes(live), args[c].relative, args[c].size)
  BY <1>1, EditStep DEF Edits
<1>3. live.sized BY <1>1, <1>2
<1>4. new.sized /\ new.disk > live.disk BY <1>1, <1>2, <1>3, RewritesGrow
<1>5. args[c].vmid \in VMIDs BY <1>2 DEF Reqs
<1>6. Grows(guest[args[c].vmid], guest'[args[c].vmid]) BY <1>5, GuestsGrow
<1>7. guest'[args[c].vmid] # None BY <1>2, <1>3, <1>6, NoneAssumption DEF Grows
<1> QED BY <1>2, <1>4, <1>7 DEF Live

\* What a resize did lasts: as long as nobody destroys guests, the disk stays
\* larger than any resize that was to enlarge it found it.
THEOREM GrowthInvariance == Spec => []GrowthInv
<1>1. Init => GrowthInv BY DEF Init, GrowthInv, Grew
<1>2. IInv /\ IInv' /\ GrowthInv /\ [Next]_vars => GrowthInv'
  <2>1. ASSUME IInv, IInv', GrowthInv, UNCHANGED vars PROVE GrowthInv'
    BY <2>1 DEF GrowthInv, Grew, Live, vars
  <2>2. ASSUME IInv, IInv', GrowthInv, Next, GuestsLast, NEW c \in Calls, Grew(c)'
        PROVE  Live(c)' # None /\ Live(c)'.conf.sized /\ Live(c)'.conf.disk > hit'[c].conf.disk
    <3>1. hit'[c] # None BY <2>2 DEF Grew
    <3>2. args'[c] = args[c] /\ (hit[c] # None => hit'[c] = hit[c])
      BY <2>2, <3>1, HitStep DEF HitOnly
    <3>3. CASE hit[c] = None BY <2>2, <3>2, <3>3, NewGrowth
    <3>4. CASE hit[c] # None
      <4> DEFINE old == guest[args[c].vmid]
                 new == guest'[args[c].vmid]
                 found == hit[c].conf.disk
      <4>1. Grew(c) BY <2>2, <3>2, <3>4 DEF Grew
      <4>2. old # None /\ old.conf.sized /\ old.conf.disk > found
        BY <2>2, <4>1 DEF GrowthInv, Live
      <4>3. args[c] \in Reqs /\ args[c].vmid \in VMIDs
        BY <2>2, <3>4 DEF IInv, ArgsInv, TypeOK, Reqs
      <4>4. Grows(old, new) BY <2>2, <4>3, GuestsGrow
      <4>5. new # None /\ new.conf.sized /\ new.conf.disk >= old.conf.disk
        BY <4>2, <4>4 DEF Grows
      <4>6. old \in Guests /\ new \in Guests
        BY <2>2, <4>2, <4>3, <4>5 DEF IInv, TypeOK
      <4>7. hit[c] \in Guests BY <2>2, <3>4 DEF IInv, TypeOK
      <4>8. old.conf.disk \in Nat /\ new.conf.disk \in Nat /\ found \in Nat
        BY <4>6, <4>7, MaxDiskAssumption DEF Guests, Confs
      <4>9. new.conf.disk > found
        <5> DEFINE m == old.conf.disk
                   n == new.conf.disk
        <5>1. m \in Nat /\ n \in Nat /\ found \in Nat /\ n >= m /\ m > found BY <4>2, <4>5, <4>8
        <5> HIDE DEF m, n, found
        <5>2. n > found BY <5>1
        <5> QED BY <5>2 DEF n
      <4> QED BY <3>2, <3>4, <4>5, <4>9 DEF Live
    <3> QED BY <3>3, <3>4
  <2> QED BY <2>1, <2>2 DEF GrowthInv
<1> QED BY <1>1, <1>2, Invariance, PTL DEF Spec

\* A resize that is retried with the digest that was approved takes effect
\* once: the retry would have to find the configuration as the first found it,
\* and the first has made the disk larger.
THEOREM RetriesGrowOnce == Spec => []RetryGrowsOnce
<1>1. Init => RetryGrowsOnce BY DEF Init, RetryGrowsOnce
<1>2. RetryGrowsOnce <=>
        (GuestsLast => \A c, d \in Calls :
           c # d /\ Grew(c) /\ Grew(d) /\ args[c].vmid = args[d].vmid => args[c].digest # args[d].digest)
  BY DEF RetryGrowsOnce, GuestsLast, Grew
\* The write of c takes effect after that of d.
<1>3. ASSUME IInv, GrowthInv, Next, GuestsLast, NEW c \in Calls, NEW d \in Calls,
             hit[c] = None, Grew(c)', Grew(d), args'[c] = args[c], args[c].vmid = args[d].vmid
      PROVE  args[c].digest # args[d].digest
  <2>1. hit'[c] # None /\ args[c].tool = "resize" BY <1>3 DEF Grew
  <2>2. hit'[c].conf = Live(c).conf BY <1>3, <2>1, EditStep DEF Edits, Live
  <2>3. IInv' BY <1>3, NextInv
  <2>4. args[c].digest = Digest(Live(c).conf) BY <1>3, <2>1, <2>2, <2>3 DEF IInv, HitInv, Edits
  <2>5. args[d].digest = Digest(hit[d].conf) BY <1>3 DEF Grew, IInv, HitInv, Edits
  <2>6. Live(d).conf.disk > hit[d].conf.disk BY <1>3 DEF GrowthInv
  <2>7. hit[d].conf.disk \in Nat
    BY <1>3, MaxDiskAssumption DEF Grew, IInv, TypeOK, Guests, Confs
  <2>8. Live(d).conf # hit[d].conf
    <3> DEFINE m == hit[d].conf.disk
    <3>1. m \in Nat BY <2>7
    <3>2. Live(d).conf = hit[d].conf => m > m BY <2>6
    <3> HIDE DEF m
    <3> QED BY <3>1, <3>2
  <2>9. Live(c) = Live(d) BY <1>3 DEF Live
  <2> QED BY <2>4, <2>5, <2>8, <2>9, DigestInjective
<1>4. IInv /\ GrowthInv /\ RetryGrowsOnce /\ [Next]_vars => RetryGrowsOnce'
  <2>1. ASSUME RetryGrowsOnce, UNCHANGED vars PROVE RetryGrowsOnce'
    BY <2>1 DEF RetryGrowsOnce, vars
  <2>2. ASSUME IInv, GrowthInv, RetryGrowsOnce, Next, GuestsLast, NEW c \in Calls, NEW d \in Calls,
               c # d, Grew(c)', Grew(d)', args'[c].vmid = args'[d].vmid
        PROVE  args'[c].digest # args'[d].digest
    <3>1. hit'[c] # None /\ hit'[d] # None BY <2>2 DEF Grew
    <3>2. PICK x : HitOnly(x) BY <2>2, HitStep
    <3>3. args'[c] = args[c] /\ args'[d] = args[d] BY <3>1, <3>2 DEF HitOnly
    <3>4. CASE hit[c] # None /\ hit[d] # None
      <4>1. Grew(c) /\ Grew(d) BY <2>2, <3>2, <3>3, <3>4 DEF Grew, HitOnly
      <4> QED BY <1>2, <2>2, <3>3, <4>1
    <3>5. CASE hit[c] = None /\ hit[d] # None
      <4>1. Grew(d) BY <2>2, <3>2, <3>3, <3>5 DEF Grew, HitOnly
      <4> QED BY <1>3, <2>2, <3>3, <3>5, <4>1
    <3>6. CASE hit[c] # None /\ hit[d] = None
      <4>1. Grew(c) BY <2>2, <3>2, <3>3, <3>6 DEF Grew, HitOnly
      <4> QED BY <1>3, <2>2, <3>3, <3>6, <4>1
    <3>7. CASE hit[c] = None /\ hit[d] = None
      BY <2>2, <3>1, <3>2, <3>7 DEF HitOnly
    <3> QED BY <3>4, <3>5, <3>6, <3>7
  <2>3. ASSUME IInv, GrowthInv, RetryGrowsOnce, Next PROVE RetryGrowsOnce'
    BY <2>2, <2>3 DEF RetryGrowsOnce, GuestsLast, Grew
  <2> QED BY <2>1, <2>3
<1> QED BY <1>1, <1>4, Invariance, GrowthInvariance, PTL DEF Spec
=============================================================================
