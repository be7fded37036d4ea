----------------------------- MODULE GuestProofs -----------------------------
(***************************************************************************)
(* Proofs about GuestTools.tla for every number of calls, guests, nodes    *)
(* and values.                                                             *)
(***************************************************************************)
EXTENDS GuestInvariant, TLAPS

\* What every parsed request has in common is well formed.
LEMMA TargetTyped ==
  ASSUME TypeOK, NEW tool \in Tools, NEW r \in Target(tool)
  PROVE  r \in Reqs /\ r.tool = tool
<1> DEFINE Approved == {None} \union {Digest(guest[w].conf) : w \in {x \in VMIDs : guest[x] # None}}
<1>1. PICK k \in Kinds, v \in VMIDs, n \in Nodes, b \in BOOLEAN, d \in Approved :
        r = [tool |-> tool, kind |-> k, vmid |-> v, node |-> n, confirm |-> b, digest |-> d,
             action |-> None, force |-> FALSE, name |-> None, hw |-> None, bridge |-> None,
             tag |-> None, relative |-> FALSE, size |-> 0, newid |-> None,
             unprotect |-> FALSE, protected |-> FALSE]
  BY DEF Target
<1>2. d \in Digests \union {None}
  BY DEF TypeOK, Guests, Digests
<1> HIDE DEF Approved
<1> QED BY <1>1, <1>2, MaxDiskAssumption DEF Reqs

\* A step of a caller admits one well-formed request.
LEMMA InvokeAdmits ==
  ASSUME TypeOK, NEW c \in Calls, Invoke(c)
  PROVE  \E r \in Reqs : Admit(c, r)
<1>1. CASE InvokePower(c)
  <2>1. PICK r \in Target("power"), a \in Actions, f \in BOOLEAN, n \in Names \union {None} : Admit(c, [r EXCEPT !.action = a, !.force = f, !.name = n])
    BY <1>1 DEF InvokePower
  <2>2. r \in Reqs BY TargetTyped DEF Tools
  <2>3. [r EXCEPT !.action = a, !.force = f, !.name = n] \in Reqs
    BY <2>2, ToolsAssumption DEF Reqs
  <2> QED BY <2>1, <2>3
<1>2. CASE InvokeHardware(c)
  <2>1. PICK r \in Target("hardware"), h \in Hws \union {None} : Admit(c, [r EXCEPT !.hw = h])
    BY <1>2 DEF InvokeHardware
  <2>2. r \in Reqs BY TargetTyped DEF Tools
  <2>3. [r EXCEPT !.hw = h] \in Reqs
    BY <2>2 DEF Reqs
  <2> QED BY <2>1, <2>3
<1>3. CASE InvokeNetwork(c)
  <2>1. PICK r \in Target("network"), x \in Bridges \union {None}, t \in Tags \union {None} : Admit(c, [r EXCEPT !.bridge = x, !.tag = t])
    BY <1>3 DEF InvokeNetwork
  <2>2. r \in Reqs BY TargetTyped DEF Tools
  <2>3. [r EXCEPT !.bridge = x, !.tag = t] \in Reqs
    BY <2>2 DEF Reqs
  <2> QED BY <2>1, <2>3
<1>4. CASE InvokeResize(c)
  <2>1. PICK r \in Target("resize"), n \in 0 .. MaxDisk :
          Admit(c, [r EXCEPT !.size = n]) \/ Admit(c, [r EXCEPT !.relative = TRUE, !.size = n])
    BY <1>4 DEF InvokeResize
  <2>2. r \in Reqs BY TargetTyped DEF Tools
  <2>3. [r EXCEPT !.size = n] \in Reqs /\ [r EXCEPT !.relative = TRUE, !.size = n] \in Reqs
    BY <2>2 DEF Reqs
  <2> QED BY <2>1, <2>3
<1>5. CASE InvokeClone(c)
  <2>1. PICK r \in Target("clone"), v \in VMIDs, n \in Names \union {None} : Admit(c, [r EXCEPT !.newid = v, !.name = n])
    BY <1>5 DEF InvokeClone
  <2>2. r \in Reqs BY TargetTyped DEF Tools
  <2>3. [r EXCEPT !.newid = v, !.name = n] \in Reqs
    BY <2>2 DEF Reqs
  <2> QED BY <2>1, <2>3
<1>6. CASE InvokeCreate(c)
  <2>1. PICK r \in Target("create"), n \in Names : Admit(c, [r EXCEPT !.name = n])
    BY <1>6 DEF InvokeCreate
  <2>2. r \in Reqs BY TargetTyped DEF Tools
  <2>3. [r EXCEPT !.name = n] \in Reqs
    BY <2>2 DEF Reqs
  <2> QED BY <2>1, <2>3
<1>7. CASE InvokeDestroy(c)
  <2>1. PICK r \in Target("destroy"), n \in Names \union {None}, u \in BOOLEAN : Admit(c, [r EXCEPT !.name = n, !.unprotect = u])
    BY <1>7 DEF InvokeDestroy
  <2>2. r \in Reqs BY TargetTyped DEF Tools
  <2>3. [r EXCEPT !.name = n, !.unprotect = u] \in Reqs
    BY <2>2 DEF Reqs
  <2> QED BY <2>1, <2>3
<1>8. CASE InvokeProtection(c)
  <2>1. PICK r \in Target("protection"), p \in BOOLEAN : Admit(c, [r EXCEPT !.protected = p])
    BY <1>8 DEF InvokeProtection
  <2>2. r \in Reqs BY TargetTyped DEF Tools
  <2>3. [r EXCEPT !.protected = p] \in Reqs
    BY <2>2 DEF Reqs
  <2> QED BY <2>1, <2>3
<1> QED
  BY <1>1, <1>2, <1>3, <1>4, <1>5, <1>6, <1>7, <1>8 DEF Invoke

\* Digests identify configurations.
LEMMA DigestInjective ==
  ASSUME NEW a, NEW b, Digest(a) = Digest(b)
  PROVE  a = b
<1>1. Digest(a).sha1 = a /\ Digest(b).sha1 = b BY DEF Digest
<1> QED BY <1>1

\* What the config GET returns.
LEMMA ConfigRepliesTyped ==
  ASSUME TypeOK, NEW c \in Calls, args[c] # None, NEW conf \in ConfigReplies(c)
  PROVE  conf = None \/ conf \in Confs
BY DEF ConfigReplies, Live, TypeOK, Guests, Serves, Reqs

\* What one step of a handler may do: it works on its own call, changes
\* nothing in Proxmox, and sends only good writes.
HandlerEffect(c) ==
  /\ pc[c] \notin {"idle", "done"}
  /\ UNCHANGED <<args, pveVars>>
  /\ pc' \in [Calls -> PCs] /\ pc'[c] # "idle" /\ \A d \in Calls \ {c} : pc'[d] = pc[d]
  /\ out' \in [Calls -> Outs] /\ seen' \in [Calls -> Confs \union {None}]
  /\ \/ wire' = wire /\ (pc[c] = "sent" => pc'[c] = "done")
     \/ /\ pc[c] # "sent" /\ pc'[c] = "sent"
        /\ \E w \in Writes : GoodWrite(args[c], w) /\ wire' = [wire EXCEPT ![c] = w]
  /\ \/ unprot' = unprot /\ (pc[c] = "unprotect" => pc'[c] \in {"sent", "done"})
     \/ /\ unprot' = [unprot EXCEPT ![c] = "sent"]
        /\ args[c].tool = "destroy" /\ args[c].unprotect
        /\ pc[c] = "config" /\ pc'[c] = "unprotect"

\* The common second half of the handlers.
LEMMA ConfirmThenSendEffect ==
  ASSUME TypeOK, NEW c \in Calls, NEW liveDigest, NEW w,
         pc[c] \notin {"idle", "sent", "done"},
         seen' \in [Calls -> Confs \union {None}],
         args[c].confirm /\ VerifyTargetDigest(args[c].digest, liveDigest) => GoodWrite(args[c], w),
         ConfirmThenSend(c, liveDigest, w)
  PROVE  HandlerEffect(c)
<1>1. CASE Answer(c, "preview")
  BY <1>1 DEF Answer, HandlerEffect, TypeOK, PCs, Outs
<1>2. CASE Answer(c, "refused")
  BY <1>2 DEF Answer, HandlerEffect, TypeOK, PCs, Outs
<1>3. CASE GoodWrite(args[c], w) /\ Send(c, w)
  <2>1. w \in Writes BY <1>3 DEF GoodWrite
  <2> QED BY <1>3, <2>1 DEF Send, HandlerEffect, TypeOK, PCs
<1> QED BY <1>1, <1>2, <1>3 DEF ConfirmThenSend

\* An answer before any write.
LEMMA AnswerEffect ==
  ASSUME TypeOK, NEW c \in Calls, NEW result \in Outs,
         pc[c] \notin {"idle", "done"},
         seen' \in [Calls -> Confs \union {None}],
         Answer(c, result)
  PROVE  HandlerEffect(c)
BY DEF Answer, HandlerEffect, TypeOK, PCs

\* A form without a digest is good for every tool but the edits.
LEMMA UnguardedGood ==
  ASSUME NEW r, r.confirm, r.tool \notin Edits
  PROVE  GoodWrite(r, Unguarded)
BY DEF GoodWrite, Unguarded, Writes

\* A form that carries the digest of what was read.
LEMMA GuardedGood ==
  ASSUME NEW r \in Reqs, NEW conf \in Confs, NEW net \in MergedNets \union {None},
         r.confirm, VerifyTargetDigest(r.digest, LiveDigest(conf)),
         r.tool = "hardware" => r.hw # None,
         r.tool = "resize" => ValidateDiskGrowth(ExtractDiskSizeBytes(conf), r.relative, r.size),
         r.tool = "network" => net = MergeNetworkConfig(conf.net, r) /\ net.bridge # None
  PROVE  GoodWrite(r, [digest |-> FormDigest(conf), net |-> net])
<1>1. conf # None /\ Digest(conf) # None
  BY NoneAssumption DEF Digests
<1>2. LiveDigest(conf) = Digest(conf) /\ FormDigest(conf) = Digest(conf)
  BY <1>1 DEF LiveDigest, FormDigest
<1>3. r.digest = Digest(conf)
  BY <1>1, <1>2 DEF VerifyTargetDigest
<1>4. [digest |-> Digest(conf), net |-> net] \in Writes
  BY DEF Writes, Digests
<1> QED BY <1>2, <1>3, <1>4 DEF GoodWrite

LEMMA MergeTyped ==
  ASSUME NEW r \in Reqs, NEW net \in Nets \union {None}
  PROVE  MergeNetworkConfig(net, r) \in MergedNets
<1>1. CASE net = None
  BY <1>1 DEF MergeNetworkConfig, MergedNets, Reqs
<1>2. CASE net # None
  BY <1>2 DEF MergeNetworkConfig, MergedNets, Reqs, Nets
<1> QED BY <1>1, <1>2

-----------------------------------------------------------------------------
(* One step of a handler, tool by tool.                                    *)

LEMMA ReadsEffect ==
  ASSUME TypeOK, NEW c \in Calls, args[c] \in Reqs,
         PowerReadConfig(c) \/ DestroyReadStatus(c)
  PROVE  HandlerEffect(c)
<1>1. CASE PowerReadConfig(c)
  <2>1. PICK conf \in ConfigReplies(c) : seen' = [seen EXCEPT ![c] = conf]
    BY <1>1 DEF PowerReadConfig
  <2>2. conf \in Confs \union {None}
    BY ConfigRepliesTyped, NoneReqAssumption
  <2> QED BY <1>1, <2>1, <2>2 DEF PowerReadConfig, At, HandlerEffect, TypeOK, PCs
<1>2. CASE DestroyReadStatus(c)
  <2>1. seen' \in [Calls -> Confs \union {None}] /\ pc[c] = "status"
    BY <1>2 DEF DestroyReadStatus, At, TypeOK
  <2>2. CASE Answer(c, "refused")
    BY <2>1, <2>2, AnswerEffect DEF Outs
  <2>3. CASE pc' = [pc EXCEPT ![c] = "config"] /\ UNCHANGED <<args, out, wire, unprot, pveVars>>
    BY <2>1, <2>3 DEF HandlerEffect, TypeOK, PCs
  <2> QED BY <1>2, <2>2, <2>3 DEF DestroyReadStatus
<1> QED BY <1>1, <1>2

LEMMA PowerEffect ==
  ASSUME TypeOK, NEW c \in Calls, PowerReadStatus(c)
  PROVE  HandlerEffect(c)
<1>1. /\ pc[c] = "read" /\ args[c].tool = "power"
      /\ seen' \in [Calls -> Confs \union {None}]
  BY DEF PowerReadStatus, At, TypeOK
<1>2. CASE Answer(c, "refused")
  BY <1>1, <1>2, AnswerEffect DEF Outs
<1>3. CASE ConfirmThenSend(c, LiveDigest(seen[c]), Unguarded)
  BY <1>1, <1>3, UnguardedGood, ConfirmThenSendEffect DEF Edits
<1> QED BY <1>2, <1>3 DEF PowerReadStatus

LEMMA HardwareEffect ==
  ASSUME TypeOK, NEW c \in Calls, args[c] \in Reqs, UpdateHardware(c)
  PROVE  HandlerEffect(c)
<1>1. /\ pc[c] = "config" /\ args[c].tool = "hardware"
      /\ seen' \in [Calls -> Confs \union {None}]
  BY DEF UpdateHardware, At, TypeOK
<1>2. CASE Answer(c, "refused")
  BY <1>1, <1>2, AnswerEffect DEF Outs
<1>3. ASSUME NEW conf \in ConfigReplies(c), conf # None, args[c].hw # None,
             ConfirmThenSend(c, LiveDigest(conf), [digest |-> FormDigest(conf), net |-> None])
      PROVE  HandlerEffect(c)
  <2>1. conf \in Confs BY <1>3, ConfigRepliesTyped, NoneReqAssumption
  <2>2. args[c].confirm /\ VerifyTargetDigest(args[c].digest, LiveDigest(conf))
          => GoodWrite(args[c], [digest |-> FormDigest(conf), net |-> None])
    BY <1>1, <1>3, <2>1, GuardedGood
  <2> QED BY <1>1, <1>3, <2>2, ConfirmThenSendEffect
<1> QED BY <1>2, <1>3 DEF UpdateHardware

LEMMA ResizeEffect ==
  ASSUME TypeOK, NEW c \in Calls, args[c] \in Reqs, ResizeDisk(c)
  PROVE  HandlerEffect(c)
<1>1. /\ pc[c] = "config" /\ args[c].tool = "resize"
      /\ seen' \in [Calls -> Confs \union {None}]
  BY DEF ResizeDisk, At, TypeOK
<1>2. CASE Answer(c, "refused")
  BY <1>1, <1>2, AnswerEffect DEF Outs
<1>3. ASSUME NEW conf \in ConfigReplies(c), conf # None,
             ValidateDiskGrowth(ExtractDiskSizeBytes(conf), args[c].relative, args[c].size),
             ConfirmThenSend(c, LiveDigest(conf), [digest |-> FormDigest(conf), net |-> None])
      PROVE  HandlerEffect(c)
  <2>1. conf \in Confs BY <1>3, ConfigRepliesTyped, NoneReqAssumption
  <2>2. args[c].confirm /\ VerifyTargetDigest(args[c].digest, LiveDigest(conf))
          => GoodWrite(args[c], [digest |-> FormDigest(conf), net |-> None])
    BY <1>1, <1>3, <2>1, GuardedGood
  <2> QED BY <1>1, <1>3, <2>2, ConfirmThenSendEffect
<1> QED BY <1>2, <1>3 DEF ResizeDisk

LEMMA NetworkEffect ==
  ASSUME TypeOK, NEW c \in Calls, args[c] \in Reqs, UpdateNetwork(c)
  PROVE  HandlerEffect(c)
<1>1. /\ pc[c] = "config" /\ args[c].tool = "network"
      /\ seen' \in [Calls -> Confs \union {None}]
  BY DEF UpdateNetwork, At, TypeOK
<1>2. CASE Answer(c, "refused")
  BY <1>1, <1>2, AnswerEffect DEF Outs
<1>3. ASSUME NEW conf \in ConfigReplies(c), conf # None,
             MergeNetworkConfig(conf.net, args[c]).bridge # None,
             ConfirmThenSend(c, LiveDigest(conf),
               [digest |-> FormDigest(conf), net |-> MergeNetworkConfig(conf.net, args[c])])
      PROVE  HandlerEffect(c)
  <2>1. conf \in Confs BY <1>3, ConfigRepliesTyped, NoneReqAssumption
  <2> DEFINE net == MergeNetworkConfig(conf.net, args[c])
  <2>2. net \in MergedNets BY <2>1, MergeTyped DEF Confs
  <2> HIDE DEF net
  <2>3. args[c].confirm /\ VerifyTargetDigest(args[c].digest, LiveDigest(conf))
          => GoodWrite(args[c], [digest |-> FormDigest(conf), net |-> net])
    BY <1>1, <1>3, <2>1, <2>2, GuardedGood DEF net
  <2> QED BY <1>1, <1>3, <2>3, ConfirmThenSendEffect DEF net
<1> QED BY <1>2, <1>3 DEF UpdateNetwork

LEMMA UnboundEffect ==
  ASSUME TypeOK, NEW c \in Calls, args[c] \in Reqs, Clone(c) \/ Create(c) \/ Protection(c)
  PROVE  HandlerEffect(c)
<1>1. CASE Clone(c)
  <2>1. PICK conf \in ConfigReplies(c) :
          seen' = [seen EXCEPT ![c] = conf] /\ ConfirmThenSend(c, LiveDigest(conf), Unguarded)
    BY <1>1 DEF Clone
  <2>2. conf \in Confs \union {None} BY ConfigRepliesTyped, NoneReqAssumption
  <2>3. pc[c] = "config" /\ args[c].tool = "clone" /\ seen' \in [Calls -> Confs \union {None}]
    BY <1>1, <2>1, <2>2 DEF Clone, At, TypeOK
  <2> QED BY <2>1, <2>3, UnguardedGood, ConfirmThenSendEffect DEF Edits
<1>2. CASE Create(c)
  <2>1. /\ pc[c] = "post" /\ args[c].tool = "create" /\ seen' \in [Calls -> Confs \union {None}]
        /\ ConfirmThenSend(c, None, Unguarded)
    BY <1>2 DEF Create, At, TypeOK
  <2> QED BY <2>1, UnguardedGood, ConfirmThenSendEffect DEF Edits
<1>3. CASE Protection(c)
  <2>1. PICK conf \in ConfigReplies(c) :
          /\ seen' = [seen EXCEPT ![c] = conf]
          /\ ConfirmThenSend(c, LiveDigest(conf), [digest |-> FormDigest(conf), net |-> None])
    BY <1>3 DEF Protection
  <2>2. conf \in Confs \union {None} BY ConfigRepliesTyped, NoneReqAssumption
  <2>3. pc[c] = "config" /\ args[c].tool = "protection" /\ seen' \in [Calls -> Confs \union {None}]
    BY <1>3, <2>1, <2>2 DEF Protection, At, TypeOK
  <2>4. FormDigest(conf) \in Digests \union {None}
    BY <2>2 DEF FormDigest, LiveDigest, Digests
  <2>5. args[c].confirm => GoodWrite(args[c], [digest |-> FormDigest(conf), net |-> None])
    BY <2>3, <2>4 DEF GoodWrite, Writes, Edits
  <2> QED BY <2>1, <2>3, <2>5, ConfirmThenSendEffect
<1> QED BY <1>1, <1>2, <1>3

LEMMA DestroyEffect ==
  ASSUME TypeOK, NEW c \in Calls, args[c] \in Reqs, DestroyReadConfig(c) \/ DestroyUnprotected(c)
  PROVE  HandlerEffect(c)
<1>1. CASE DestroyReadConfig(c)
  <2>1. PICK conf \in ConfigReplies(c) :
          /\ seen' = [seen EXCEPT ![c] = conf]
          /\ \/ ConfirmThenSend(c, LiveDigest(conf), Unguarded)
             \/ Answer(c, "refused")
             \/ /\ args[c].unprotect
                /\ pc' = [pc EXCEPT ![c] = "unprotect"]
                /\ unprot' = [unprot EXCEPT ![c] = "sent"]
                /\ UNCHANGED <<args, out, wire, pveVars>>
    BY <1>1 DEF DestroyReadConfig
  <2>2. conf \in Confs \union {None} BY ConfigRepliesTyped, NoneReqAssumption
  <2>3. pc[c] = "config" /\ args[c].tool = "destroy" /\ seen' \in [Calls -> Confs \union {None}]
    BY <1>1, <2>1, <2>2 DEF DestroyReadConfig, At, TypeOK
  <2>4. CASE ConfirmThenSend(c, LiveDigest(conf), Unguarded)
    BY <2>3, <2>4, UnguardedGood, ConfirmThenSendEffect DEF Edits
  <2>5. CASE Answer(c, "refused")
    BY <2>3, <2>5, AnswerEffect DEF Outs
  <2>6. CASE /\ args[c].unprotect
             /\ pc' = [pc EXCEPT ![c] = "unprotect"]
             /\ unprot' = [unprot EXCEPT ![c] = "sent"]
             /\ UNCHANGED <<args, out, wire, pveVars>>
    BY <2>3, <2>6 DEF HandlerEffect, TypeOK, PCs
  <2> QED BY <2>1, <2>4, <2>5, <2>6
<1>2. CASE DestroyUnprotected(c)
  <2>1. /\ pc[c] = "unprotect" /\ args[c].tool = "destroy" /\ seen' \in [Calls -> Confs \union {None}]
        /\ ConfirmThenSend(c, LiveDigest(seen[c]), Unguarded)
    BY <1>2 DEF DestroyUnprotected, At, TypeOK
  <2> QED BY <2>1, UnguardedGood, ConfirmThenSendEffect DEF Edits
<1> QED BY <1>1, <1>2

LEMMA HandlerStepEffect ==
  ASSUME TypeOK, ArgsInv, NEW c \in Calls, Handler(c)
  PROVE  HandlerEffect(c)
<1>1. CASE Return(c)
  <2>1. pc[c] = "sent" /\ seen' \in [Calls -> Confs \union {None}] BY <1>1 DEF Return, TypeOK
  <2>2. PICK result \in {"ok", "failed"} : Answer(c, result) BY <1>1 DEF Return
  <2> QED BY <2>1, <2>2, AnswerEffect DEF Outs
<1>2. CASE ~Return(c)
  <2>1. pc[c] # "idle"
    BY <1>2 DEF Handler, QemuPower, QemuUpdateHardware, QemuResizeDisk, QemuUpdateNetwork, QemuClone,
         QemuDestroy, QemuProtection, LxcPower, LxcUpdateHardware, LxcResizeDisk, LxcUpdateNetwork,
         LxcClone, LxcCreate, LxcDestroy, LxcProtection
  <2>2. args[c] \in Reqs BY <2>1 DEF ArgsInv, TypeOK
  <2>3. \/ PowerReadConfig(c) \/ PowerReadStatus(c) \/ UpdateHardware(c) \/ ResizeDisk(c)
        \/ UpdateNetwork(c) \/ Clone(c) \/ Create(c) \/ Protection(c)
        \/ DestroyReadStatus(c) \/ DestroyReadConfig(c) \/ DestroyUnprotected(c)
    BY <1>2 DEF Handler, Power, Destroy, QemuPower, QemuUpdateHardware, QemuResizeDisk,
         QemuUpdateNetwork, QemuClone, QemuDestroy, QemuProtection, LxcPower, LxcUpdateHardware,
         LxcResizeDisk, LxcUpdateNetwork, LxcClone, LxcCreate, LxcDestroy, LxcProtection
  <2> QED BY <2>2, <2>3, ReadsEffect, PowerEffect, HardwareEffect, ResizeEffect, NetworkEffect,
         UnboundEffect, DestroyEffect
<1> QED BY <1>1, <1>2

-----------------------------------------------------------------------------
(* The invariant holds initially and every step preserves it.              *)

LEMMA InitInv == Init => IInv
<1> SUFFICES ASSUME Init PROVE IInv OBVIOUS
<1>1. TypeOK BY GuestToolsAssumption DEF Init, TypeOK, PCs, Outs
<1>2. ArgsInv BY DEF Init, ArgsInv
<1>3. WireInv /\ UnprotInv /\ SentInv /\ HitInv BY DEF Init, WireInv, UnprotInv, SentInv, HitInv
<1> QED BY <1>1, <1>2, <1>3 DEF IInv

LEMMA StutterInv == IInv /\ UNCHANGED vars => IInv'
<1> SUFFICES ASSUME IInv, UNCHANGED vars PROVE IInv' OBVIOUS
<1> USE DEF vars
<1>1. TypeOK' BY DEF IInv, TypeOK
<1>2. ArgsInv' /\ UnprotInv' BY DEF IInv, ArgsInv, UnprotInv
<1>3. WireInv' BY DEF IInv, WireInv
<1>4. SentInv' /\ HitInv' BY DEF IInv, SentInv, HitInv
<1> QED BY <1>1, <1>2, <1>3, <1>4 DEF IInv

LEMMA AdmitInv ==
  ASSUME IInv, NEW c \in Calls, NEW r \in Reqs, Admit(c, r)
  PROVE  IInv'
<1>1. /\ pc[c] = "idle" /\ Admissible(r) /\ r # None
      /\ args' = [args EXCEPT ![c] = r] /\ pc' = [pc EXCEPT ![c] = FirstStep(r.tool)]
      /\ UNCHANGED <<guest, seen, wire, unprot, out, hit, disturbed>>
  BY NoneReqAssumption DEF Admit, pveVars
<1>2. FirstStep(r.tool) \in {"post", "status", "config"} BY DEF FirstStep
<1>3. /\ args' \in [Calls -> Reqs \union {None}] /\ pc' \in [Calls -> PCs]
      /\ args'[c] = r /\ pc'[c] \notin {"idle", "sent", "done"}
      /\ \A d \in Calls \ {c} : args'[d] = args[d] /\ pc'[d] = pc[d]
  BY <1>1, <1>2 DEF IInv, TypeOK, PCs
<1>4. wire[c] = None /\ unprot[c] = "no" /\ hit[c] = None
  BY <1>1 DEF IInv, ArgsInv
<1>5. TypeOK' BY <1>1, <1>3 DEF IInv, TypeOK
<1>6. ArgsInv' BY <1>1, <1>3 DEF IInv, ArgsInv
<1>7. WireInv' BY <1>1, <1>3, <1>4 DEF IInv, WireInv
<1>8. UnprotInv' BY <1>1, <1>3, <1>4 DEF IInv, UnprotInv
<1>9. SentInv' BY <1>1, <1>3, <1>4 DEF IInv, SentInv
<1>10. HitInv' BY <1>1, <1>3, <1>4 DEF IInv, HitInv
<1> QED BY <1>5, <1>6, <1>7, <1>8, <1>9, <1>10 DEF IInv

LEMMA HandlerInv ==
  ASSUME IInv, NEW c \in Calls, Handler(c)
  PROVE  IInv'
<1>1. HandlerEffect(c) BY HandlerStepEffect DEF IInv
<1>2. /\ pc[c] \notin {"idle", "done"}
      /\ UNCHANGED <<guest, args, hit, disturbed>>
      /\ pc' \in [Calls -> PCs] /\ pc'[c] # "idle" /\ \A d \in Calls \ {c} : pc'[d] = pc[d]
      /\ out' \in [Calls -> Outs] /\ seen' \in [Calls -> Confs \union {None}]
  BY <1>1 DEF HandlerEffect, pveVars
<1>3. args[c] # None BY <1>2 DEF IInv, ArgsInv
<1>4. /\ wire' \in [Calls -> Writes \union {None}]
      /\ \A d \in Calls \ {c} : wire'[d] = wire[d]
      /\ \/ wire'[c] = wire[c] /\ (pc[c] = "sent" => pc'[c] = "done")
         \/ pc[c] # "sent" /\ pc'[c] = "sent" /\ GoodWrite(args[c], wire'[c])
  BY <1>1 DEF HandlerEffect, IInv, TypeOK
<1>5. /\ unprot' \in [Calls -> {"no", "sent", "performed", "failed"}]
      /\ \A d \in Calls \ {c} : unprot'[d] = unprot[d]
      /\ \/ unprot'[c] = unprot[c] /\ (pc[c] = "unprotect" => pc'[c] \in {"sent", "done"})
         \/ args[c].tool = "destroy" /\ args[c].unprotect /\ pc'[c] = "unprotect"
  BY <1>1 DEF HandlerEffect, IInv, TypeOK
<1>6. TypeOK' BY <1>2, <1>4, <1>5 DEF IInv, TypeOK
<1>7. ArgsInv' BY <1>2, <1>3, <1>4, <1>5 DEF IInv, ArgsInv
<1>8. WireInv'
  <2>1. pc[c] # "sent" => hit[c] = None BY <1>2 DEF IInv, SentInv
  <2> QED BY <1>2, <1>4, <2>1 DEF IInv, WireInv
<1>9. UnprotInv' BY <1>2, <1>4, <1>5 DEF IInv, UnprotInv
<1>10. SentInv' BY <1>2, <1>4 DEF IInv, SentInv
<1>11. HitInv' BY <1>2 DEF IInv, HitInv
<1> QED BY <1>6, <1>7, <1>8, <1>9, <1>10, <1>11 DEF IInv

\* Proxmox's guests stay well formed when one of them changes.
LEMMA ChangeTyped ==
  ASSUME TypeOK, NEW v \in VMIDs, NEW g \in Guests \union {None}, NEW c, Change(v, g, c)
  PROVE  guest' \in [VMIDs -> Guests \union {None}] /\ disturbed' \in [Calls -> BOOLEAN]
<1>1. guest' = [guest EXCEPT ![v] = g] BY DEF Change
<1>2. disturbed' = [d \in Calls |->
        disturbed[d] \/ (d # c /\ pc[d] # "idle" /\ args[d].vmid = v /\ hit[d] = None)]
  BY DEF Change
<1>3. guest' \in [VMIDs -> Guests \union {None}] BY <1>1 DEF TypeOK
<1>4. \A d \in Calls : disturbed[d] \in BOOLEAN BY DEF TypeOK
<1>5. disturbed' \in [Calls -> BOOLEAN] BY <1>2, <1>4, Zenon
<1> QED BY <1>3, <1>5

\* A write that finds what the handler decided on keeps the invariant.
LEMMA PerformInv ==
  ASSUME IInv, NEW c \in Calls, NEW v \in VMIDs, NEW g \in Guests, NEW new \in Guests \union {None},
         wire[c] # None, g.node = args[c].node,
         args[c].tool \in Edits => args[c].digest = Digest(g.conf),
         Perform(c, g, v, new)
  PROVE  IInv'
<1>1. Change(v, new, c) BY DEF Perform
<1>2. /\ hit' = [hit EXCEPT ![c] = g] /\ wire' = [wire EXCEPT ![c] = None]
      /\ UNCHANGED <<pc, args, seen, out, unprot>>
  BY DEF Perform, handlerVars
<1>3. guest' \in [VMIDs -> Guests \union {None}] /\ disturbed' \in [Calls -> BOOLEAN]
  BY <1>1, ChangeTyped DEF IInv
<1>4. /\ hit' \in [Calls -> Guests \union {None}] /\ wire' \in [Calls -> Writes \union {None}]
      /\ hit'[c] = g /\ wire'[c] = None
      /\ \A d \in Calls \ {c} : hit'[d] = hit[d] /\ wire'[d] = wire[d]
  BY <1>2 DEF IInv, TypeOK
<1>5. args[c] # None /\ pc[c] \in {"sent", "done"} /\ args[c].confirm
  BY DEF IInv, ArgsInv, SentInv, WireInv, GoodWrite
<1>6. TypeOK' BY <1>2, <1>3, <1>4 DEF IInv, TypeOK
<1>7. ArgsInv' BY <1>2, <1>4, <1>5 DEF IInv, ArgsInv
<1>8. WireInv' BY <1>2, <1>4 DEF IInv, WireInv
<1>9. UnprotInv' BY <1>2 DEF IInv, UnprotInv
<1>10. SentInv' BY <1>2, <1>4, <1>5 DEF IInv, SentInv
<1>11. HitInv' BY <1>2, <1>4, <1>5 DEF IInv, HitInv
<1> QED BY <1>6, <1>7, <1>8, <1>9, <1>10, <1>11 DEF IInv

\* A change of a guest that is no call's main write keeps the invariant.
LEMMA ChangeInv ==
  ASSUME IInv, NEW v \in VMIDs, NEW g \in Guests \union {None}, NEW c, Change(v, g, c),
         UNCHANGED <<pc, args, seen, out, wire, hit>>,
         unprot' \in [Calls -> {"no", "sent", "performed", "failed"}],
         \A d \in Calls : unprot[d] = "no" => unprot'[d] = "no"
  PROVE  IInv'
<1>1. guest' \in [VMIDs -> Guests \union {None}] /\ disturbed' \in [Calls -> BOOLEAN]
  BY ChangeTyped DEF IInv
<1>2. TypeOK' BY <1>1 DEF IInv, TypeOK
<1>3. ArgsInv' BY DEF IInv, ArgsInv
<1>4. WireInv' BY DEF IInv, WireInv
<1>5. UnprotInv' BY DEF IInv, UnprotInv
<1>6. SentInv' /\ HitInv' BY DEF IInv, SentInv, HitInv
<1> QED BY <1>2, <1>3, <1>4, <1>5, <1>6 DEF IInv

\* A write that is lost, and a protection change that is, keep the invariant.
LEMMA DropInv ==
  ASSUME IInv, NEW c \in Calls, DropWrite(c) \/ DropUnprotect(c)
  PROVE  IInv'
<1>1. CASE DropWrite(c)
  <2>1. /\ wire' = [wire EXCEPT ![c] = None]
        /\ UNCHANGED <<guest, pc, args, seen, unprot, out, hit, disturbed>>
    BY <1>1 DEF DropWrite, handlerVars, pveVars
  <2>2. /\ wire' \in [Calls -> Writes \union {None}] /\ wire'[c] = None
        /\ \A d \in Calls \ {c} : wire'[d] = wire[d]
    BY <2>1 DEF IInv, TypeOK
  <2>3. TypeOK' BY <2>1, <2>2 DEF IInv, TypeOK
  <2>4. ArgsInv' BY <2>1, <2>2 DEF IInv, ArgsInv
  <2>5. WireInv' BY <2>1, <2>2 DEF IInv, WireInv
  <2>6. UnprotInv' BY <2>1 DEF IInv, UnprotInv
  <2>7. SentInv' /\ HitInv' BY <2>1, <2>2 DEF IInv, SentInv, HitInv
  <2> QED BY <2>3, <2>4, <2>5, <2>6, <2>7 DEF IInv
<1>2. CASE DropUnprotect(c)
  <2>1. /\ unprot[c] = "sent" /\ unprot' = [unprot EXCEPT ![c] = "failed"]
        /\ UNCHANGED <<guest, pc, args, seen, wire, out, hit, disturbed>>
    BY <1>2 DEF DropUnprotect, handlerVars, pveVars
  <2>2. /\ unprot' \in [Calls -> {"no", "sent", "performed", "failed"}]
        /\ \A d \in Calls \ {c} : unprot'[d] = unprot[d]
    BY <2>1 DEF IInv, TypeOK
  <2>3. TypeOK' BY <2>1, <2>2 DEF IInv, TypeOK
  <2>4. ArgsInv' BY <2>1, <2>2 DEF IInv, ArgsInv
  <2>5. WireInv' BY <2>1 DEF IInv, WireInv
  <2>6. UnprotInv' BY <2>1, <2>2 DEF IInv, UnprotInv
  <2>7. SentInv' /\ HitInv' BY <2>1 DEF IInv, SentInv, HitInv
  <2> QED BY <2>3, <2>4, <2>5, <2>6, <2>7 DEF IInv
<1> QED BY <1>1, <1>2

\* PVE turns well-formed configurations into well-formed ones.
LEMMA RewritesTyped ==
  ASSUME NEW r \in Reqs, NEW conf \in Confs, NEW net,
         r.tool \in Edits \union {"protection"},
         r.tool = "hardware" => r.hw # None,
         r.tool = "network" => net \in MergedNets /\ net.bridge # None,
         NEW new \in Rewrites(r, conf, net)
  PROVE  new \in Confs
<1>1. CASE r.tool = "hardware"
  <2>1. new = [conf EXCEPT !.hw = r.hw] BY <1>1 DEF Rewrites
  <2>2. r.hw \in Hws BY <1>1 DEF Reqs
  <2> QED BY <2>1, <2>2 DEF Confs
<1>2. CASE r.tool = "protection"
  <2>1. new = [conf EXCEPT !.prot = r.protected] BY <1>2 DEF Rewrites
  <2>2. r.protected \in BOOLEAN BY DEF Reqs
  <2> QED BY <2>1, <2>2 DEF Confs
<1>3. CASE r.tool = "resize"
  <2>1. new = [conf EXCEPT !.disk = IF r.relative THEN @ + r.size ELSE r.size] /\ new.disk \in 1 .. MaxDisk
    BY <1>3 DEF Rewrites
  <2> QED BY <2>1 DEF Confs
<1>4. CASE r.tool = "network"
  <2>1. PICK m \in IF net.mac = None THEN Macs ELSE {net.mac} :
          new = [conf EXCEPT !.net = [net EXCEPT !.mac = m]]
    BY <1>4 DEF Rewrites
  <2>2. [net EXCEPT !.mac = m] \in Nets BY <1>4, <2>1 DEF Nets, MergedNets
  <2> QED BY <2>1, <2>2 DEF Confs
<1> QED BY <1>1, <1>2, <1>3, <1>4 DEF Edits

\* An edit finds the configuration that was read: both have the digest sent.
LEMMA EditFindsWhatWasRead ==
  ASSUME NEW r, NEW w, NEW live, GoodWrite(r, w), r.tool \in Edits, DigestAdmits(w.digest, live)
  PROVE  /\ r.digest = Digest(live)
         /\ r.tool = "hardware" => r.hw # None
         /\ r.tool = "resize" => ValidateDiskGrowth(ExtractDiskSizeBytes(live), r.relative, r.size)
         /\ r.tool = "network" =>
              w.net = MergeNetworkConfig(live.net, r) /\ w.net.bridge # None
<1>1. PICK conf \in Confs :
        /\ r.digest = Digest(conf) /\ w.digest = Digest(conf)
        /\ r.tool = "hardware" => r.hw # None
        /\ r.tool = "resize" => ValidateDiskGrowth(ExtractDiskSizeBytes(conf), r.relative, r.size)
        /\ r.tool = "network" =>
             w.net = MergeNetworkConfig(conf.net, r) /\ w.net.bridge # None
  BY DEF GoodWrite
<1>2. Digest(conf) # None BY NoneAssumption DEF Digests
<1>3. Digest(conf) = Digest(live) BY <1>1, <1>2 DEF DigestAdmits
<1>4. conf = live BY <1>3, DigestInjective
<1> QED BY <1>1, <1>4

\* A write in flight has typed arguments.
LEMMA WireTyped ==
  ASSUME IInv, NEW c \in Calls, wire[c] # None
  PROVE  args[c] \in Reqs /\ Admissible(args[c]) /\ args[c].vmid \in VMIDs
<1>1. args[c] # None /\ Admissible(args[c]) BY DEF IInv, ArgsInv
<1>2. args[c] \in Reqs BY <1>1 DEF IInv, TypeOK
<1> QED BY <1>1, <1>2 DEF Reqs

\* The request and the guest that a write reaches.
LEMMA Reached ==
  ASSUME IInv, NEW c \in Calls, NEW tools, Reaches(c, tools)
  PROVE  /\ args[c] \in Reqs /\ args[c] # None /\ args[c].vmid \in VMIDs /\ args[c].tool \in tools
         /\ wire[c] # None /\ GoodWrite(args[c], wire[c]) /\ hit[c] = None
         /\ guest[args[c].vmid] \in Guests /\ guest[args[c].vmid].conf \in Confs
         /\ Serves(guest[args[c].vmid], args[c].node, args[c].kind)
<1>1. /\ wire[c] # None /\ args[c].tool \in tools
      /\ Serves(guest[args[c].vmid], args[c].node, args[c].kind)
  BY DEF Reaches, Live
<1>2. args[c] \in Reqs /\ args[c].vmid \in VMIDs /\ args[c] # None
  BY <1>1, WireTyped, NoneReqAssumption
<1>3. GoodWrite(args[c], wire[c]) /\ hit[c] = None BY <1>1 DEF IInv, WireInv
<1>4. guest[args[c].vmid] \in Guests
  BY <1>1, <1>2 DEF IInv, TypeOK, Serves
<1> QED BY <1>1, <1>2, <1>3, <1>4 DEF Guests

\* An edit turns the configuration that was read into a well-formed one that
\* the request asks for.
LEMMA EditPerforms ==
  ASSUME IInv, NEW c \in Calls, PerformEdit(c)
  PROVE  LET r == args[c]
             g == guest[r.vmid]
         IN  /\ r \in Reqs /\ r.vmid \in VMIDs /\ r.tool \in Edits \union {"protection"}
             /\ wire[c] # None /\ g \in Guests /\ g.conf \in Confs /\ g.node = r.node
             /\ r.tool \in Edits => r.digest = Digest(g.conf)
             /\ r.tool = "resize" => ValidateDiskGrowth(ExtractDiskSizeBytes(g.conf), r.relative, r.size)
             /\ r.tool = "network" => wire[c].net = MergeNetworkConfig(g.conf.net, r)
             /\ \E conf \in Confs \cap Rewrites(r, g.conf, wire[c].net) :
                  Perform(c, g, r.vmid, [g EXCEPT !.conf = conf])
<1> DEFINE r == args[c]
           w == wire[c]
           g == guest[r.vmid]
<1>1. /\ r \in Reqs /\ r.vmid \in VMIDs /\ r.tool \in Edits \union {"protection"}
      /\ w # None /\ GoodWrite(r, w) /\ g \in Guests /\ g.conf \in Confs
      /\ Serves(g, r.node, r.kind)
  BY Reached DEF PerformEdit, Edits
<1>2. DigestAdmits(w.digest, g.conf) BY DEF PerformEdit, Live
<1>3. PICK conf \in Rewrites(r, g.conf, w.net) : Perform(c, g, r.vmid, [g EXCEPT !.conf = conf])
  BY DEF PerformEdit, Live
<1>4. g.node = r.node BY <1>1 DEF Serves
<1> HIDE DEF r, w, g
<1>5. r.tool \in Edits =>
        /\ r.digest = Digest(g.conf)
        /\ r.tool = "hardware" => r.hw # None
        /\ r.tool = "resize" => ValidateDiskGrowth(ExtractDiskSizeBytes(g.conf), r.relative, r.size)
        /\ r.tool = "network" => w.net = MergeNetworkConfig(g.conf.net, r) /\ w.net.bridge # None
  BY <1>1, <1>2, EditFindsWhatWasRead
<1>6. r.tool = "network" => w.net \in MergedNets /\ w.net.bridge # None
  <2>1. g.conf.net \in Nets \union {None} BY <1>1 DEF Confs
  <2>2. MergeNetworkConfig(g.conf.net, r) \in MergedNets BY <1>1, <2>1, MergeTyped
  <2> QED BY <1>5, <2>2 DEF Edits
<1>7. r.tool = "hardware" => r.hw # None BY <1>5 DEF Edits
<1>8. conf \in Confs BY <1>1, <1>3, <1>6, <1>7, RewritesTyped
<1> QED BY <1>1, <1>3, <1>4, <1>5, <1>8 DEF Edits, r, w, g

LEMMA EditInv ==
  ASSUME IInv, NEW c \in Calls, PerformEdit(c)
  PROVE  IInv'
<1> DEFINE r == args[c]
           g == guest[r.vmid]
<1>1. /\ r.vmid \in VMIDs /\ wire[c] # None /\ g \in Guests /\ g.node = r.node
      /\ r.tool \in Edits => r.digest = Digest(g.conf)
  BY EditPerforms
<1>2. PICK conf \in Confs : Perform(c, g, r.vmid, [g EXCEPT !.conf = conf]) BY EditPerforms
<1>3. [g EXCEPT !.conf = conf] \in Guests BY <1>1, <1>2 DEF Guests
<1> QED BY <1>1, <1>2, <1>3, PerformInv

LEMMA OtherWritesInv ==
  ASSUME IInv, NEW c \in Calls,
         PerformPower(c) \/ PerformClone(c) \/ PerformCreate(c) \/ PerformDelete(c)
  PROVE  IInv'
<1> DEFINE r == args[c]
           g == guest[r.vmid]
<1>1. wire[c] # None /\ r.tool \notin Edits
  BY DEF PerformPower, PerformClone, PerformCreate, PerformDelete, Reaches, Edits
<1>2. r \in Reqs /\ Admissible(r) /\ r.vmid \in VMIDs BY <1>1, WireTyped
<1>3. g \in Guests \union {None} BY <1>2 DEF IInv, TypeOK
<1>4. ASSUME Reaches(c, {"power"}) \/ Reaches(c, {"clone"}) \/ Reaches(c, {"destroy"})
      PROVE  g \in Guests /\ g.node = r.node
  BY <1>3, <1>4 DEF Reaches, Serves, Live
<1>5. CASE PerformPower(c)
  <2>1. g \in Guests /\ g.node = r.node BY <1>4, <1>5 DEF PerformPower
  <2>2. StatusAfter(g, r.action) \in {"running", "stopped"} BY <2>1 DEF StatusAfter, Guests
  <2>3. [g EXCEPT !.status = StatusAfter(g, r.action)] \in Guests BY <2>1, <2>2 DEF Guests
  <2>4. Perform(c, g, r.vmid, [g EXCEPT !.status = StatusAfter(g, r.action)])
    BY <1>5 DEF PerformPower, Live
  <2> QED BY <1>1, <1>2, <2>1, <2>3, <2>4, PerformInv
<1>6. CASE PerformClone(c)
  <2>1. g \in Guests /\ g.node = r.node /\ r.tool = "clone"
    BY <1>4, <1>6 DEF PerformClone, Reaches
  <2>2. PICK conf \in ClonesOf(g.conf, r.name) :
          Perform(c, g, r.newid, [g EXCEPT !.status = "stopped", !.conf = conf])
    BY <1>6 DEF PerformClone, Live
  <2>3. conf \in Confs BY <2>2 DEF ClonesOf
  <2>4. [g EXCEPT !.status = "stopped", !.conf = conf] \in Guests BY <2>1, <2>3 DEF Guests
  <2>5. r.newid \in VMIDs BY <1>2, <2>1 DEF Admissible
  <2> QED BY <1>1, <2>1, <2>2, <2>4, <2>5, PerformInv
<1>7. CASE PerformCreate(c)
  <2>1. PICK new \in Guests : new.node = r.node /\ Perform(c, new, r.vmid, new)
    BY <1>7 DEF PerformCreate, Serves
  <2> QED BY <1>1, <1>2, <2>1, PerformInv
<1>8. CASE PerformDelete(c)
  <2>1. g \in Guests /\ g.node = r.node BY <1>4, <1>8 DEF PerformDelete
  <2>2. Perform(c, g, r.vmid, None) BY <1>8 DEF PerformDelete, Live
  <2> QED BY <1>1, <1>2, <2>1, <2>2, PerformInv
<1> QED BY <1>5, <1>6, <1>7, <1>8

LEMMA UnprotectInv ==
  ASSUME IInv, NEW c \in Calls, PerformUnprotect(c)
  PROVE  IInv'
<1> DEFINE r == args[c]
           g == guest[r.vmid]
<1>1. /\ unprot[c] = "sent" /\ g # None
      /\ Change(r.vmid, [g EXCEPT !.conf.prot = FALSE], c)
      /\ unprot' = [unprot EXCEPT ![c] = "performed"]
      /\ UNCHANGED <<pc, args, seen, out, wire, hit>>
  BY DEF PerformUnprotect, Serves, Live, handlerVars
<1>2. r # None BY <1>1 DEF IInv, ArgsInv
<1>3. r \in Reqs /\ r.vmid \in VMIDs BY <1>2 DEF IInv, TypeOK, Reqs
<1>4. g \in Guests BY <1>1, <1>3 DEF IInv, TypeOK
<1>5. [g EXCEPT !.conf.prot = FALSE] \in Guests BY <1>4 DEF Guests, Confs
<1>6. /\ unprot' \in [Calls -> {"no", "sent", "performed", "failed"}]
      /\ \A d \in Calls : unprot[d] = "no" => unprot'[d] = "no"
  BY <1>1 DEF IInv, TypeOK
<1> HIDE DEF r, g
<1> QED BY <1>1, <1>3, <1>5, <1>6, ChangeInv

LEMMA ExternalInv ==
  ASSUME IInv, NEW v \in VMIDs, External(v)
  PROVE  IInv'
<1>1. PICK g \in ExternalChanges(v) : Change(v, g, None)
  BY DEF External
<1>2. UNCHANGED <<pc, args, seen, out, wire, unprot, hit>> BY DEF External, handlerVars
<1>3. guest[v] \in Guests \union {None} BY DEF IInv, TypeOK
<1>4. g \in Guests \union {None}
  <2>1. CASE guest[v] = None
    BY <1>1, <2>1, GuestToolsAssumption DEF ExternalChanges
  <2>2. CASE guest[v] # None
    <3>1. guest[v] \in Guests BY <1>3, <2>2
    <3>2. CASE g \in {[guest[v] EXCEPT !.conf = conf] : conf \in ExternalConfs(guest[v].conf)}
      <4>1. PICK conf \in ExternalConfs(guest[v].conf) : g = [guest[v] EXCEPT !.conf = conf]
        BY <3>2
      <4>2. guest[v].conf \in Confs BY <3>1 DEF Guests
      <4>3. conf \in Confs BY <4>1, <4>2 DEF ExternalConfs, Confs
      <4> QED BY <3>1, <4>1, <4>3 DEF Guests
    <3>3. CASE \E s \in {"running", "stopped"} : g = [guest[v] EXCEPT !.status = s]
      BY <3>1, <3>3 DEF Guests
    <3>4. CASE \E n \in Nodes : g = [guest[v] EXCEPT !.node = n]
      BY <3>1, <3>4 DEF Guests
    <3> QED BY <1>1, <2>2, <3>2, <3>3, <3>4 DEF ExternalChanges
  <2> QED BY <2>1, <2>2
<1>5. /\ unprot' \in [Calls -> {"no", "sent", "performed", "failed"}]
      /\ \A d \in Calls : unprot[d] = "no" => unprot'[d] = "no"
  BY <1>2 DEF IInv, TypeOK
<1> QED BY <1>1, <1>2, <1>4, <1>5, ChangeInv

LEMMA NextInv == IInv /\ [Next]_vars => IInv'
<1> SUFFICES ASSUME IInv, Next PROVE IInv' BY StutterInv
<1>1. ASSUME NEW c \in Calls, Invoke(c) PROVE IInv'
  BY <1>1, InvokeAdmits, AdmitInv DEF IInv
<1>2. ASSUME NEW c \in Calls, Handler(c) PROVE IInv'
  BY <1>2, HandlerInv
<1>3. ASSUME NEW c \in Calls, Proxmox(c) PROVE IInv'
  BY <1>3, EditInv, OtherWritesInv, DropInv, UnprotectInv DEF Proxmox
<1>4. ASSUME NEW v \in VMIDs, External(v) PROVE IInv'
  BY <1>4, ExternalInv
<1> QED BY <1>1, <1>2, <1>3, <1>4 DEF Next

-----------------------------------------------------------------------------
(* The theorems.                                                           *)

\* The inductive invariant holds in every behaviour of the tools, of Proxmox
\* and of its other clients.
THEOREM Invariance == Spec => []IInv
<1>1. Init => IInv BY InitInv
<1>2. IInv /\ [Next]_vars => IInv' BY NextInv
<1> QED BY <1>1, <1>2, PTL DEF Spec

\* The variables of GuestTools.tla keep their types.
THEOREM TypeCorrect == Spec => []TypeOK
<1>1. IInv => TypeOK BY DEF IInv
<1> QED BY <1>1, Invariance, PTL

\* Every edit of hardware, disk or network takes effect on the configuration
\* whose digest was approved, for any number of concurrent calls and clients:
\* the digest the form carries is the digest of what the handler read, which is
\* the approved one, and Proxmox compares it (qemu.go:218-223, 315-324, 452-460).
THEOREM EditsAreBound == Spec => []EditsHitWhatWasApproved
<1>1. IInv => EditsHitWhatWasApproved
  BY DEF IInv, HitInv, EditsHitWhatWasApproved, Edits
<1> QED BY <1>1, Invariance, PTL

\* No write takes effect for a call that was not confirmed, or whose category
\* or node was not allowed, however late it is performed.
THEOREM EffectsAllowed == Spec => []EffectsWereAllowed
<1>1. ASSUME IInv, NEW c \in Calls, hit[c] # None
      PROVE  /\ args[c].confirm
             /\ CategoryOf(args[c].tool) \in Enabled
             /\ AllowedNodes = {} \/ hit[c].node \in AllowedNodes
             /\ args[c].tool = "power" /\ args[c].action = "stop" => args[c].force
  <2>1. args[c].confirm /\ hit[c].node = args[c].node BY <1>1 DEF IInv, HitInv
  <2>2. Admissible(args[c]) BY <1>1 DEF IInv, ArgsInv
  <2> QED BY <2>1, <2>2 DEF Admissible, EnsureAllowed, ValidateAllowedNode
<1>2. IInv => EffectsWereAllowed BY <1>1 DEF EffectsWereAllowed
<1> QED BY <1>2, Invariance, PTL

\* An edit takes effect in a PerformEdit step of its own call, which turns the
\* configuration that was read into one the request asks for.
LEMMA EditStep ==
  ASSUME IInv, Next, NEW c \in Calls, hit[c] = None, hit'[c] # None, args[c].tool \in Edits
  PROVE  LET live == guest[args[c].vmid].conf
             new == guest'[args[c].vmid].conf
         IN  /\ hit'[c].conf = live /\ live \in Confs
             /\ guest[args[c].vmid] \in Guests /\ args[c] \in Reqs
             /\ new \in Rewrites(args[c], live, wire[c].net)
             /\ args[c].tool = "resize" =>
                  ValidateDiskGrowth(ExtractDiskSizeBytes(live), args[c].relative, args[c].size)
             /\ args[c].tool = "network" => wire[c].net = MergeNetworkConfig(live.net, args[c])
<1>1. PerformEdit(c)
  <2>1. ASSUME NEW d \in Calls, Invoke(d) PROVE FALSE
    <3>1. PICK r \in Reqs : Admit(d, r) BY <2>1, InvokeAdmits DEF IInv
    <3> QED BY <3>1 DEF Admit, pveVars
  <2>2. ASSUME NEW d \in Calls, Handler(d) PROVE FALSE
    BY <2>2, HandlerStepEffect DEF HandlerEffect, pveVars, IInv
  <2>3. ASSUME NEW v \in VMIDs, External(v) PROVE FALSE
    BY <2>3 DEF External
  <2>4. ASSUME NEW d \in Calls, Proxmox(d) PROVE PerformEdit(c)
    <3>1. ASSUME NEW v, NEW g, NEW new, Perform(d, g, v, new) PROVE d = c
      BY <3>1 DEF Perform, IInv, TypeOK
    <3>2. CASE PerformEdit(d)
      BY <3>1, <3>2 DEF PerformEdit
    <3>3. CASE PerformPower(d) \/ PerformDelete(d)
      BY <3>1, <3>3 DEF PerformPower, PerformDelete, Reaches, Edits
    <3>4. CASE PerformClone(d)
      BY <3>1, <3>4 DEF PerformClone, Reaches, Edits
    <3>5. CASE PerformCreate(d)
      BY <3>1, <3>5 DEF PerformCreate, Edits
    <3>6. CASE DropWrite(d) \/ PerformUnprotect(d) \/ DropUnprotect(d)
      BY <3>6 DEF DropWrite, PerformUnprotect, DropUnprotect, pveVars
    <3> QED BY <2>4, <3>2, <3>3, <3>4, <3>5, <3>6 DEF Proxmox
  <2> QED BY <2>1, <2>2, <2>3, <2>4 DEF Next
<1> DEFINE r == args[c]
           g == guest[r.vmid]
<1>2. /\ r \in Reqs /\ r.vmid \in VMIDs /\ g \in Guests /\ g.conf \in Confs
      /\ r.tool = "resize" => ValidateDiskGrowth(ExtractDiskSizeBytes(g.conf), r.relative, r.size)
      /\ r.tool = "network" => wire[c].net = MergeNetworkConfig(g.conf.net, r)
  BY <1>1, EditPerforms
<1>3. PICK conf \in Rewrites(r, g.conf, wire[c].net) : Perform(c, g, r.vmid, [g EXCEPT !.conf = conf])
  BY <1>1, EditPerforms
<1>4. guest' = [guest EXCEPT ![r.vmid] = [g EXCEPT !.conf = conf]] /\ hit' = [hit EXCEPT ![c] = g]
  BY <1>3 DEF Perform, Change
<1>5. guest'[r.vmid] = [g EXCEPT !.conf = conf] /\ hit'[c] = g
  BY <1>2, <1>4 DEF IInv, TypeOK
<1>6. guest'[r.vmid].conf = conf BY <1>2, <1>5 DEF Guests
<1> QED BY <1>2, <1>3, <1>5, <1>6

\* A resize of a disk whose entry records a size never makes it smaller and,
\* given as a target, always larger, although the size was validated against an
\* earlier reading (common.go:414-427).
THEOREM ResizesGrow == Spec => ResizeGrows
<1>1. ASSUME IInv, Next, NEW c \in Calls, hit[c] = None, hit'[c] # None,
             args[c].tool = "resize", hit'[c].conf.sized
      PROVE  LET new == guest'[args[c].vmid].conf.disk
                 old == guest[args[c].vmid].conf.disk
             IN  new >= old /\ (~args[c].relative => new > old)
  <2> DEFINE live == guest[args[c].vmid].conf
             new == guest'[args[c].vmid].conf
  <2>1. /\ live \in Confs /\ live.sized /\ args[c] \in Reqs
        /\ new \in Rewrites(args[c], live, wire[c].net)
        /\ ValidateDiskGrowth(ExtractDiskSizeBytes(live), args[c].relative, args[c].size)
    BY <1>1, EditStep DEF Edits
  <2>2. /\ live.disk \in 1 .. MaxDisk /\ args[c].size \in 0 .. MaxDisk
        /\ args[c].relative \in BOOLEAN
    BY <2>1 DEF Confs, Reqs
  <2>3. new = [live EXCEPT !.disk = IF args[c].relative THEN @ + args[c].size ELSE args[c].size]
    BY <1>1, <2>1 DEF Rewrites
  <2>4. new.disk = IF args[c].relative THEN live.disk + args[c].size ELSE args[c].size
    BY <2>1, <2>3 DEF Confs
  <2>5. args[c].relative \/ args[c].size > live.disk
    BY <2>1, <2>2 DEF ValidateDiskGrowth, ExtractDiskSizeBytes
  <2> HIDE DEF live, new
  <2>6. new.disk >= live.disk /\ (~args[c].relative => new.disk > live.disk)
    BY <2>2, <2>4, <2>5, MaxDiskAssumption
  <2> QED BY <2>6 DEF live, new
<1>2. IInv /\ [Next]_vars =>
        [\A c \in Calls :
           hit[c] = None /\ hit'[c] # None /\ args[c].tool = "resize" /\ hit'[c].conf.sized =>
             LET new == guest'[args[c].vmid].conf.disk
                 old == guest[args[c].vmid].conf.disk
             IN  new >= old /\ (~args[c].relative => new > old)]_vars
  BY <1>1
<1> QED BY <1>2, Invariance, PTL DEF Spec, ResizeGrows

\* A network update keeps the hardware address, and the bridge and the tag that
\* were not passed, of the interface as it is when the update takes effect.
THEOREM NetworkUpdatesMerge == Spec => NetworkKeepsTheRest
<1>1. ASSUME IInv, Next, NEW c \in Calls, hit[c] = None, hit'[c] # None,
             args[c].tool = "network", hit'[c].conf.net # None
      PROVE  LET new == guest'[args[c].vmid].conf.net
                 old == guest[args[c].vmid].conf.net
             IN  /\ new.mac = old.mac
                 /\ args[c].bridge = None => new.bridge = old.bridge
                 /\ args[c].tag = None => new.tag = old.tag
  <2> DEFINE live == guest[args[c].vmid].conf
             new == guest'[args[c].vmid].conf
             net == wire[c].net
  <2>1. /\ live \in Confs /\ live.net # None /\ args[c] \in Reqs
        /\ new \in Rewrites(args[c], live, net)
        /\ net = MergeNetworkConfig(live.net, args[c])
    BY <1>1, EditStep DEF Edits
  <2>2. live.net \in Nets BY <2>1 DEF Confs
  <2>3. live.net.mac \in Macs /\ live.net.mac # None BY <2>2, NoneAssumption DEF Nets
  <2>4. net = [live.net EXCEPT !.bridge = IF args[c].bridge = None THEN @ ELSE args[c].bridge,
                               !.tag = IF args[c].tag = None THEN @ ELSE args[c].tag]
    BY <2>1 DEF MergeNetworkConfig
  <2>5. /\ net.mac = live.net.mac
        /\ args[c].bridge = None => net.bridge = live.net.bridge
        /\ args[c].tag = None => net.tag = live.net.tag
        /\ net \in [mac : Macs, bridge : Bridges \union {None}, tag : Tags \union {None}]
    BY <2>1, <2>2, <2>4 DEF Nets, Reqs
  <2>6. new = [live EXCEPT !.net = [net EXCEPT !.mac = net.mac]]
    BY <1>1, <2>1, <2>3, <2>5 DEF Rewrites
  <2>7. new.net = [net EXCEPT !.mac = net.mac] BY <2>1, <2>6 DEF Confs
  <2>8. new.net.mac = net.mac /\ new.net.bridge = net.bridge /\ new.net.tag = net.tag
    BY <2>5, <2>7
  <2> QED BY <2>5, <2>8
<1>2. IInv /\ [Next]_vars =>
        [\A c \in Calls :
           hit[c] = None /\ hit'[c] # None /\ args[c].tool = "network" /\ hit'[c].conf.net # None =>
             LET new == guest'[args[c].vmid].conf.net
                 old == guest[args[c].vmid].conf.net
             IN  /\ new.mac = old.mac
                 /\ args[c].bridge = None => new.bridge = old.bridge
                 /\ args[c].tag = None => new.tag = old.tag]_vars
  BY <1>1
<1> QED BY <1>2, Invariance, PTL DEF Spec, NetworkKeepsTheRest
=============================================================================
