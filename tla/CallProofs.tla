----------------------------- MODULE CallProofs ------------------------------
(***************************************************************************)
(* Proofs about the tool calls of ToolCalls.tla, for any number of calls,  *)
(* guests and nodes, any settings and any width of a machine word.         *)
(***************************************************************************)
EXTENDS CallProperties, TLAPS

-----------------------------------------------------------------------------
(* Sizes                                                                   *)

\* The factors of the units are positive.
LEMMA FactorTyped ==
  ASSUME NEW u \in Units
  PROVE  Factor[u] \in Nat /\ Factor[u] > 0
<1>1. Kilo * Kilo \in Nat /\ Kilo * Kilo > 0 BY SizesAssumption
<1>2. Kilo * Kilo * Kilo \in Nat /\ Kilo * Kilo * Kilo > 0 BY <1>1, SizesAssumption
<1>3. Kilo * Kilo * Kilo * Kilo \in Nat /\ Kilo * Kilo * Kilo * Kilo > 0 BY <1>2, SizesAssumption
<1>4. QED BY <1>1, <1>2, <1>3, SizesAssumption DEF Factor, Units

\* A text stands for a number of bytes, at least one unless its number is zero.
LEMMA BytesTyped ==
  ASSUME NEW t \in SizeTexts
  PROVE  Bytes(t) \in Nat /\ (t.num > 0 => Bytes(t) > 0)
<1>1. t.num \in Nat /\ Factor[t.unit] \in Nat /\ Factor[t.unit] > 0 BY FactorTyped DEF SizeTexts
<1>2. \A n, m \in Nat : n * m \in Nat /\ (n > 0 /\ m > 0 => n * m > 0) OBVIOUS
<1>3. QED BY <1>1, <1>2 DEF Bytes

\* Overflow only ever makes a product smaller.
LEMMA WrapBelow ==
  ASSUME NEW x \in Nat
  PROVE  Wrap(x) \in Int /\ Wrap(x) <= x /\ (x <= MaxInt64 => Wrap(x) = x)
<1>1. Word \in Nat /\ Word > 1 BY SizesAssumption
<1>2. x % Word \in 0 .. Word - 1 BY <1>1
<1>3. x % Word <= x BY <1>1
<1>4. x < Word => x % Word = x BY <1>1
<1>5. MaxInt64 \in Int /\ MaxInt64 < Word BY <1>1 DEF MaxInt64
<1>6. QED BY <1>1, <1>2, <1>3, <1>4, <1>5 DEF Wrap

\* What Proxmox records is a size with a number of its own.
LEMMA EntriesAreSizes ==
  ASSUME NEW entry \in Entries
  PROVE  entry \in SizeTexts /\ entry.num \in 1 .. MaxBytes
<1>1. 1 .. MaxBytes \subseteq Nat BY CallsAssumption, SizesAssumption DEF MaxInt64
<1>2. entry.num \in 1 .. MaxBytes BY DEF Entries
<1>3. QED BY <1>1, <1>2 DEF Entries, SizeTexts

\* A target that is accepted is larger than the disk, in bytes as Proxmox counts
\* them, although both sides of the comparison were computed in words.
THEOREM AcceptedTargetsAreLarger ==
  ASSUME NEW entry \in Entries, Bytes(entry) <= MaxBytes,
         NEW size \in SizeTexts, ~size.plus,
         ValidateDiskGrowth(TRUE, entry, size)
  PROVE  Bytes(size) > Bytes(entry)
<1>1. MaxBytes \in Nat /\ MaxBytes <= MaxInt64 /\ MaxInt64 \in Int
  BY CallsAssumption, SizesAssumption DEF MaxInt64
<1>2. entry \in SizeTexts /\ entry.num \in 1 .. MaxBytes BY EntriesAreSizes
<1>3. Bytes(entry) \in Nat /\ Bytes(entry) > 0 BY <1>1, <1>2, BytesTyped
<1>4. ExtractDiskSizeBytes(TRUE, entry) = Bytes(entry)
  BY <1>1, <1>2, <1>3, WrapBelow DEF ExtractDiskSizeBytes, ParsesSize, ParseSizeBytes
<1>5. ParseSizeBytes(size) > Bytes(entry) BY <1>3, <1>4 DEF ValidateDiskGrowth
<1>6. Bytes(size) \in Nat BY BytesTyped
<1>7. QED BY <1>3, <1>5, <1>6, WrapBelow DEF ParseSizeBytes

-----------------------------------------------------------------------------
(* The inductive invariant                                                 *)

LEMMA Initially == Init => CallInv
<1> SUFFICES ASSUME Init PROVE CallInv OBVIOUS
<1>1. settings \in Settings /\ args \in [Calls -> Args] BY CallsAssumption DEF Init
<1>2. TypeOK BY <1>1, CallsAssumption DEF Init, TypeOK
<1>3. Bytes(disk.entry) <= MaxBytes BY CallsAssumption DEF Init
<1>4. ASSUME NEW c \in Calls PROVE WriteInv(c) /\ AnswerInv(c) /\ PreviewInv(c)
  BY <1>4, CallsAssumption DEF Init, WriteInv, AnswerInv, PreviewInv, Answers
<1>5. DOMAIN log = {} BY DEF Init
<1>6. OneEntryPerCall BY <1>5 DEF Init, OneEntryPerCall
<1>7. QED BY <1>2, <1>3, <1>4, <1>5, <1>6 DEF CallInv

\* What an action of a handler leaves alone in the invariant of another call.
Inv(c) == WriteInv(c) /\ AnswerInv(c) /\ PreviewInv(c)

\* A call whose own variables do not change, in a world that does not either,
\* keeps its invariant.
LEMMA OtherCalls ==
  ASSUME NEW d \in Calls, Inv(d), UNCHANGED <<world, args>>,
         pc'[d] = pc[d], lists'[d] = lists[d], read'[d] = read[d],
         wire'[d] = wire[d], answer'[d] = answer[d]
  PROVE  Inv(d)'
<1> USE DEF world
<1>1. WriteInv(d)'
  <2>1. Registered(args[d].tool)' <=> Registered(args[d].tool)
    BY DEF Registered, EnableNodeOps, EnableNodeShutdown
  <2>2. Admits(args[d])' <=> Admits(args[d]) BY DEF Admits, ValidateAllowedNode
  <2>3. ValidateDiskGrowth(read[d].sized, read[d].entry, args[d].size)'
          <=> ValidateDiskGrowth(read[d].sized, read[d].entry, args[d].size)
    BY DEF ValidateDiskGrowth
  <2>4. QED BY <2>1, <2>2, <2>3 DEF Inv, WriteInv
<1>2. AnswerInv(d)' BY DEF Inv, AnswerInv, Admits, ValidateAllowedNode, Previews
<1>3. PreviewInv(d)' BY DEF Inv, PreviewInv, RunningOn, Previews
<1>4. QED BY <1>1, <1>2, <1>3 DEF Inv

LEMMA EntriesTyped ==
  ASSUME CallInv
  PROVE  \A i \in DOMAIN log : log[i] \in [call : Calls, kind : Kinds] /\ log[i].call \in Calls
<1> DEFINE T == [call : Calls, kind : Kinds]
<1>1. log \in Seq(T) BY DEF CallInv, TypeOK
<1>2. \A e \in T : e.call \in Calls OBVIOUS
<1> HIDE DEF T
<1>3. \A i \in DOMAIN log : log[i] \in T BY <1>1
<1>4. QED BY <1>2, <1>3 DEF T

\* The log as long as nobody ends: its entries stay true and complete.
LEMMA SameLog ==
  ASSUME CallInv, UNCHANGED <<log, args>>, pc' \in [Calls -> {"idle", "vms", "cts", "status", "config", "write", "reply", "returned", "done"}],
         \A d \in Calls : (pc[d] = "done" <=> pc'[d] = "done") /\ (pc[d] = "done" => answer'[d] = answer[d])
  PROVE  (\A i \in DOMAIN log : EntryInv(log[i]))' /\ OneEntryPerCall'
<1>1. \A i \in DOMAIN log : log[i].call \in Calls BY EntriesTyped
<1>2. ASSUME NEW i \in DOMAIN log' PROVE EntryInv(log[i])'
  <2>1. i \in DOMAIN log /\ log'[i] = log[i] OBVIOUS
  <2>2. EntryInv(log[i]) BY <2>1 DEF CallInv
  <2>3. QED BY <1>1, <2>1, <2>2 DEF EntryInv
<1>3. OneEntryPerCall' BY DEF CallInv, OneEntryPerCall
<1>4. QED BY <1>2, <1>3

LEMMA ListingQEMU ==
  ASSUME CallInv, NEW c \in Calls, ListQEMU(c)
  PROVE  CallInv'
<1>1. TypeOK' BY DEF CallInv, TypeOK, ListQEMU, Answer, Answers, RunningOn, world, Guests
<1>2. Bytes(disk'.entry) <= MaxBytes BY DEF CallInv, ListQEMU, world
<1>3. ASSUME NEW d \in Calls PROVE Inv(d)'
  <2>1. CASE d # c
    BY <2>1, OtherCalls DEF CallInv, TypeOK, Inv, ListQEMU, Answer
  <2>2. CASE d = c
    <3>1. WriteInv(c)' BY DEF CallInv, TypeOK, ListQEMU, WriteInv, Answer, world
    <3>2. AnswerInv(c)' BY CallsAssumption DEF CallInv, TypeOK, ListQEMU, AnswerInv, Answer, world, Previews, Answers
    <3>3. PreviewInv(c)' BY CallsAssumption DEF CallInv, TypeOK, ListQEMU, PreviewInv, AnswerInv, Answer, world, RunningOn, Previews, Answers
    <3>4. QED BY <2>2, <3>1, <3>2, <3>3 DEF Inv
  <2>3. QED BY <2>1, <2>2
<1>4. (\A i \in DOMAIN log : EntryInv(log[i]))' /\ OneEntryPerCall'
  BY <1>1, SameLog DEF TypeOK, CallInv, ListQEMU, Answer
<1>5. QED BY <1>1, <1>2, <1>3, <1>4 DEF CallInv, Inv

LEMMA ListingLXC ==
  ASSUME CallInv, NEW c \in Calls, ListLXC(c)
  PROVE  CallInv'
<1>1. TypeOK'
  <2>1. RunningOn(c, CTs) \subseteq Guests BY DEF RunningOn, Guests
  <2>2. lists' \in [Calls -> SUBSET Guests] BY <2>1 DEF CallInv, TypeOK, ListLXC
  <2>3. QED BY <2>2 DEF CallInv, TypeOK, ListLXC, Answer, Answers, world
<1>2. Bytes(disk'.entry) <= MaxBytes BY DEF CallInv, ListLXC, world
<1>3. ASSUME NEW d \in Calls PROVE Inv(d)'
  <2>1. CASE d # c
    BY <2>1, OtherCalls DEF CallInv, TypeOK, Inv, ListLXC, Answer
  <2>2. CASE d = c
    <3>1. WriteInv(c)'
      BY CallsAssumption DEF CallInv, TypeOK, ListLXC, WriteInv, AnswerInv, Answer, world
    <3>2. AnswerInv(c)'
      BY CallsAssumption DEF CallInv, TypeOK, ListLXC, AnswerInv, Answer, world, Previews, Answers
    <3>3. PreviewInv(c)'
      BY CallsAssumption DEF CallInv, TypeOK, ListLXC, PreviewInv, AnswerInv, Answer, world, RunningOn, Previews, Answers, Guests
    <3>4. QED BY <2>2, <3>1, <3>2, <3>3 DEF Inv
  <2>3. QED BY <2>1, <2>2
<1>4. (\A i \in DOMAIN log : EntryInv(log[i]))' /\ OneEntryPerCall'
  BY <1>1, SameLog DEF TypeOK, CallInv, ListLXC, Answer
<1>5. QED BY <1>1, <1>2, <1>3, <1>4 DEF CallInv, Inv

LEMMA ReadingDisk ==
  ASSUME CallInv, NEW c \in Calls, ReadDisk(c)
  PROVE  CallInv'
<1>1. TypeOK' BY CallsAssumption DEF CallInv, TypeOK, ReadDisk, Answer, Answers, world
<1>2. Bytes(disk'.entry) <= MaxBytes BY DEF CallInv, ReadDisk, world
<1>3. ASSUME NEW d \in Calls PROVE Inv(d)'
  <2>1. CASE d # c
    BY <2>1, OtherCalls DEF CallInv, TypeOK, Inv, ReadDisk, Answer
  <2>2. CASE d = c
    <3>1. WriteInv(c)'
      <4>1. ~wire[c] /\ effect[c] = None BY DEF CallInv, WriteInv, ReadDisk
      <4>2. args[c].tool = "pve_qemu_resize_disk" /\ Admits(args[c]) BY DEF CallInv, AnswerInv, ReadDisk
      <4>3. read'[c] = disk /\ disk # None /\ UNCHANGED <<wire, effect, args, settings>>
        BY CallsAssumption DEF CallInv, TypeOK, ReadDisk, world
      <4>4. CASE pc'[c] # "write"
        <5>1. pc'[c] \notin {"write", "reply"} BY <4>4 DEF CallInv, TypeOK, ReadDisk, Answer
        <5>2. QED BY <4>1, <4>3, <5>1 DEF WriteInv
      <4>5. CASE pc'[c] = "write"
        <5>1. ValidateDiskGrowth(disk.sized, disk.entry, args[c].size) /\ IsConfirmed(args[c].confirm)
          BY <4>5 DEF CallInv, TypeOK, ReadDisk, Answer
        <5>2. (Registered(args[c].tool) /\ Admits(args[c]))'
          BY <4>2, <4>3 DEF Registered, NodeTools, Admits, ValidateAllowedNode
        <5>3. Bytes(disk.entry) <= MaxBytes BY DEF CallInv
        <5>4. QED BY <4>2, <4>3, <4>5, <5>1, <5>2, <5>3 DEF WriteInv
      <4>6. QED BY <4>4, <4>5
    <3>2. AnswerInv(c)'
      <4>1. UNCHANGED <<effect, args>> /\ effect[c] \in {None, args[c].tool}
        BY DEF CallInv, AnswerInv, ReadDisk, world
      <4>2. \/ pc'[c] = "returned" /\ answer'[c] = "error"
            \/ pc'[c] = "returned" /\ answer'[c] = "preview" /\ ~IsConfirmed(args[c].confirm)
            \/ pc'[c] = "write" /\ answer'[c] = answer[c]
        BY DEF CallInv, TypeOK, ReadDisk, Answer
      <4>3. None \notin {"preview", "ok", "error"} BY CallsAssumption DEF Answers
      <4>4. pc[c] = "config" => answer[c] = None BY DEF CallInv, AnswerInv
      <4>5. pc[c] = "config" BY DEF ReadDisk
      <4>6. QED BY <4>1, <4>2, <4>3, <4>4, <4>5 DEF AnswerInv
    <3>3. PreviewInv(c)'
      BY CallsAssumption DEF CallInv, TypeOK, ReadDisk, PreviewInv, AnswerInv, Answer, world, RunningOn, Previews, Answers, NodeTools
    <3>4. QED BY <2>2, <3>1, <3>2, <3>3 DEF Inv
  <2>3. QED BY <2>1, <2>2
<1>4. (\A i \in DOMAIN log : EntryInv(log[i]))' /\ OneEntryPerCall'
  BY <1>1, SameLog DEF TypeOK, CallInv, ReadDisk, Answer
<1>5. QED BY <1>1, <1>2, <1>3, <1>4 DEF CallInv, Inv

LEMMA ReadingStatus ==
  ASSUME CallInv, NEW c \in Calls, GetTaskStatus(c)
  PROVE  CallInv'
<1>1. TypeOK' BY CallsAssumption DEF CallInv, TypeOK, GetTaskStatus, Answer, Answers, world
<1>2. Bytes(disk'.entry) <= MaxBytes BY DEF CallInv, GetTaskStatus, world
<1>3. ASSUME NEW d \in Calls PROVE Inv(d)'
  <2>1. CASE d # c
    BY <2>1, OtherCalls DEF CallInv, TypeOK, Inv, GetTaskStatus, Answer
  <2>2. CASE d = c
    <3>1. WriteInv(c)'
      BY CallsAssumption DEF CallInv, TypeOK, GetTaskStatus, WriteInv, AnswerInv, Answer, world
    <3>2. AnswerInv(c)'
      BY CallsAssumption DEF CallInv, TypeOK, GetTaskStatus, AnswerInv, Answer, world, Previews, Answers
    <3>3. PreviewInv(c)'
      BY CallsAssumption DEF CallInv, TypeOK, GetTaskStatus, PreviewInv, AnswerInv, Answer, world, RunningOn, Previews, Answers, NodeTools
    <3>4. QED BY <2>2, <3>1, <3>2, <3>3 DEF Inv
  <2>3. QED BY <2>1, <2>2
<1>4. (\A i \in DOMAIN log : EntryInv(log[i]))' /\ OneEntryPerCall'
  BY <1>1, SameLog DEF TypeOK, CallInv, GetTaskStatus, Answer
<1>5. QED BY <1>1, <1>2, <1>3, <1>4 DEF CallInv, Inv

LEMMA Writing ==
  ASSUME CallInv, NEW c \in Calls, Write(c)
  PROVE  CallInv'
<1>1. TypeOK' BY CallsAssumption DEF CallInv, TypeOK, Write, Answer, Answers, world
<1>2. Bytes(disk'.entry) <= MaxBytes BY DEF CallInv, Write, world
<1>3. ASSUME NEW d \in Calls PROVE Inv(d)'
  <2>1. CASE d # c
    BY <2>1, OtherCalls DEF CallInv, TypeOK, Inv, Write, Answer
  <2>2. CASE d = c
    <3>1. WriteInv(c)'
      BY CallsAssumption DEF CallInv, TypeOK, Write, WriteInv, AnswerInv, Answer, world, Registered, Admits, ValidateAllowedNode, EnableNodeOps, EnableNodeShutdown
    <3>2. AnswerInv(c)'
      BY CallsAssumption DEF CallInv, TypeOK, Write, AnswerInv, Answer, world, Previews, Answers
    <3>3. PreviewInv(c)'
      BY CallsAssumption DEF CallInv, TypeOK, Write, PreviewInv, AnswerInv, Answer, world, RunningOn, Previews, Answers
    <3>4. QED BY <2>2, <3>1, <3>2, <3>3 DEF Inv
  <2>3. QED BY <2>1, <2>2
<1>4. (\A i \in DOMAIN log : EntryInv(log[i]))' /\ OneEntryPerCall'
  BY <1>1, SameLog DEF TypeOK, CallInv, Write, Answer
<1>5. QED BY <1>1, <1>2, <1>3, <1>4 DEF CallInv, Inv

LEMMA Replying ==
  ASSUME CallInv, NEW c \in Calls, Reply(c)
  PROVE  CallInv'
<1>1. TypeOK' BY CallsAssumption DEF CallInv, TypeOK, Reply, Answer, Answers, world
<1>2. Bytes(disk'.entry) <= MaxBytes BY DEF CallInv, Reply, world
<1>3. ASSUME NEW d \in Calls PROVE Inv(d)'
  <2>1. CASE d # c
    BY <2>1, OtherCalls DEF CallInv, TypeOK, Inv, Reply, Answer
  <2>2. CASE d = c
    <3>1. WriteInv(c)'
      BY CallsAssumption DEF CallInv, TypeOK, Reply, WriteInv, AnswerInv, Answer, world, Registered, Admits, ValidateAllowedNode, EnableNodeOps, EnableNodeShutdown
    <3>2. AnswerInv(c)'
      BY CallsAssumption DEF CallInv, TypeOK, Reply, AnswerInv, Answer, world, Previews, Answers
    <3>3. PreviewInv(c)'
      BY CallsAssumption DEF CallInv, TypeOK, Reply, PreviewInv, AnswerInv, Answer, world, RunningOn, Previews, Answers
    <3>4. QED BY <2>2, <3>1, <3>2, <3>3 DEF Inv
  <2>3. QED BY <2>1, <2>2
<1>4. (\A i \in DOMAIN log : EntryInv(log[i]))' /\ OneEntryPerCall'
  BY <1>1, SameLog DEF TypeOK, CallInv, Reply, Answer
<1>5. QED BY <1>1, <1>2, <1>3, <1>4 DEF CallInv, Inv

\* The end of a call: one entry is appended, and what was logged stays true.
LEMMA AppendLog ==
  ASSUME CallInv, NEW c \in Calls, NEW k \in Kinds, pc[c] # "done",
         log' = Append(log, [call |-> c, kind |-> k]), args' = args,
         pc' = [pc EXCEPT ![c] = "done"],
         \A d \in Calls : d # c => answer'[d] = answer[d],
         EntryInv([call |-> c, kind |-> k])'
  PROVE  /\ log' \in Seq([call : Calls, kind : Kinds])
         /\ (\A i \in DOMAIN log : EntryInv(log[i]))'
         /\ OneEntryPerCall'
<1> DEFINE T == [call : Calls, kind : Kinds]
           e == [call |-> c, kind |-> k]
<1>1. log \in Seq(T) BY DEF CallInv, TypeOK
<1>2. e \in T /\ e.call = c OBVIOUS
<1>3. \A i \in DOMAIN log : log[i].call \in Calls BY EntriesTyped
<1>4. \A i \in DOMAIN log : pc[log[i].call] = "done" BY DEF CallInv, EntryInv
<1>5. pc \in [Calls -> {"idle", "vms", "cts", "status", "config", "write", "reply", "returned", "done"}]
  BY DEF CallInv, TypeOK
<1>6. EntryInv(e)' OBVIOUS
<1>7. log' = Append(log, e) OBVIOUS
<1> HIDE DEF T, e
<1>8. log' \in Seq(T) BY <1>1, <1>2, <1>7
<1>9. /\ DOMAIN log' = 1 .. Len(log) + 1 /\ DOMAIN log = 1 .. Len(log) /\ Len(log) \in Nat
      /\ \A i \in DOMAIN log : log'[i] = log[i]
      /\ log'[Len(log) + 1] = e
  BY <1>1, <1>2, <1>7
<1>10. \A i \in DOMAIN log' : i \in DOMAIN log \/ i = Len(log) + 1 BY <1>9
<1>11. \A i \in DOMAIN log : log[i].call # c BY <1>4
<1>12. ASSUME NEW i \in DOMAIN log' PROVE EntryInv(log[i])'
  <2>1. CASE i \in DOMAIN log
    <3>1. EntryInv(log[i]) /\ log'[i] = log[i] BY <1>9, <2>1 DEF CallInv
    <3>2. log[i].call \in Calls /\ log[i].call # c BY <1>3, <1>11, <2>1
    <3>3. pc'[log[i].call] = pc[log[i].call] /\ answer'[log[i].call] = answer[log[i].call] BY <1>5, <3>2
    <3>4. QED BY <3>1, <3>3 DEF EntryInv
  <2>2. CASE i = Len(log) + 1 BY <1>6, <1>9, <2>2
  <2>3. QED BY <1>10, <2>1, <2>2
<1>13. OneEntryPerCall'
  <2>1. ASSUME NEW d \in Calls PROVE pc'[d] = "done" <=> \E i \in DOMAIN log' : log'[i].call = d
    <3>1. CASE d = c
      <4>1. pc'[d] = "done" BY <1>5, <3>1
      <4>2. Len(log) + 1 \in DOMAIN log' BY <1>9
      <4>3. QED BY <1>2, <1>9, <3>1, <4>1, <4>2
    <3>2. CASE d # c
      <4>1. pc'[d] = pc[d] BY <1>5, <3>2
      <4>2. pc[d] = "done" <=> \E i \in DOMAIN log : log[i].call = d BY DEF CallInv, OneEntryPerCall
      <4>3. DOMAIN log \subseteq DOMAIN log' BY <1>9
      <4>4. QED BY <1>2, <1>9, <1>10, <3>2, <4>1, <4>2, <4>3
    <3>3. QED BY <3>1, <3>2
  <2>2. ASSUME NEW i \in DOMAIN log', NEW j \in DOMAIN log', log'[i].call = log'[j].call PROVE i = j
    <3>1. CASE i \in DOMAIN log /\ j \in DOMAIN log BY <1>9, <2>2, <3>1 DEF CallInv, OneEntryPerCall
    <3>2. CASE ~(i \in DOMAIN log /\ j \in DOMAIN log) BY <1>2, <1>9, <1>10, <1>11, <2>2, <3>2
    <3>3. QED BY <3>1, <3>2
  <2>3. QED BY <2>1, <2>2 DEF OneEntryPerCall
<1>14. QED BY <1>8, <1>12, <1>13 DEF T

\* A kind is an error for a failure, and for nothing else.
LEMMA Classified ==
  ASSUME NEW r \in BOOLEAN, NEW form, NEW failed \in BOOLEAN
  PROVE  /\ classifyTool(r, form, failed) \in Kinds
         /\ failed => classifyTool(r, form, failed) = "TOOL_ERROR"
         /\ ~failed => classifyTool(r, form, failed) # "TOOL_ERROR"
                       /\ classifyTool(r, form, failed) = classifyTool(r, form, FALSE)
BY DEF classifyTool, Kinds

LEMMA Logging ==
  ASSUME CallInv, NEW c \in Calls, Log(c)
  PROVE  CallInv'
<1> DEFINE failed == answer[c] = "error"
<1>0. failed \in BOOLEAN /\ readOnly(args[c].tool) \in BOOLEAN BY DEF readOnly
<1>1. PICK k \in Kinds : k = classifyTool(readOnly(args[c].tool), args[c].confirm, failed)
  BY <1>0, Classified
<1>2. answer[c] \in {"preview", "ok", "error"} BY DEF CallInv, TypeOK, AnswerInv, Log, Answers
<1>3. EntryInv([call |-> c, kind |-> k])'
  <2>1. pc'[c] = "done" BY DEF CallInv, TypeOK, Log
  <2>2. UNCHANGED <<args, answer>> BY DEF Log
  <2>3. k = "TOOL_ERROR" \/ answer[c] \in {"ok", "preview"} BY <1>0, <1>1, <1>2, Classified
  <2>4. k # "TOOL_ERROR" => k = classifyTool(readOnly(args[c].tool), args[c].confirm, FALSE) BY <1>0, <1>1, Classified
  <2>5. QED BY <2>1, <2>2, <2>3, <2>4 DEF EntryInv, readOnly
<1>4. /\ log' \in Seq([call : Calls, kind : Kinds])
      /\ (\A i \in DOMAIN log : EntryInv(log[i]))'
      /\ OneEntryPerCall'
  <2>1. pc[c] # "done" /\ log' = Append(log, [call |-> c, kind |-> k]) /\ UNCHANGED <<args, answer>>
        /\ pc' = [pc EXCEPT ![c] = "done"]
    BY <1>1 DEF Log
  <2>2. QED BY <1>1, <1>3, <2>1, AppendLog
<1>5. TypeOK' BY <1>4 DEF CallInv, TypeOK, Log, world
<1>6. Bytes(disk'.entry) <= MaxBytes BY DEF CallInv, Log, world
<1>7. ASSUME NEW d \in Calls PROVE Inv(d)'
  <2>1. CASE d # c BY <2>1, OtherCalls DEF CallInv, TypeOK, Inv, Log
  <2>2. CASE d = c
    <3>1. WriteInv(c)'
      BY CallsAssumption DEF CallInv, TypeOK, Log, WriteInv, world, Registered, Admits, ValidateAllowedNode, EnableNodeOps, EnableNodeShutdown
    <3>2. AnswerInv(c)' BY DEF CallInv, TypeOK, Log, AnswerInv, world
    <3>3. PreviewInv(c)' BY DEF CallInv, TypeOK, Log, PreviewInv, world, RunningOn, Previews
    <3>4. QED BY <2>2, <3>1, <3>2, <3>3 DEF Inv
  <2>3. QED BY <2>1, <2>2
<1>8. QED BY <1>4, <1>5, <1>6, <1>7 DEF CallInv, Inv

\* A call whose own variables do not change, while guests come and go or a
\* write of another is performed: only what a preview knows is at stake.
LEMMA WorldMoves ==
  ASSUME NEW d \in Calls, Inv(d), UNCHANGED <<settings, args, pc, lists, read, answer, atStart>>,
         effect'[d] = effect[d], wire'[d] = wire[d], PreviewInv(d)'
  PROVE  Inv(d)'
<1>1. WriteInv(d)'
  <2>1. Registered(args[d].tool)' <=> Registered(args[d].tool)
    BY DEF Registered, EnableNodeOps, EnableNodeShutdown
  <2>2. Admits(args[d])' <=> Admits(args[d]) BY DEF Admits, ValidateAllowedNode
  <2>3. QED BY <2>1, <2>2 DEF Inv, WriteInv
<1>2. AnswerInv(d)' BY DEF Inv, AnswerInv, Admits, ValidateAllowedNode, Previews
<1>3. QED BY <1>1, <1>2 DEF Inv

\* Guests that go down make no preview wrong.
LEMMA FewerRunning ==
  ASSUME NEW d \in Calls, PreviewInv(d), running' \subseteq running,
         UNCHANGED <<args, pc, lists, answer, atStart, since>>
  PROVE  PreviewInv(d)'
<1>1. \A guests : RunningOn(d, guests)' \subseteq RunningOn(d, guests) BY DEF RunningOn
<1>2. QED BY <1>1 DEF PreviewInv, Previews

LEMMA Stopping ==
  ASSUME CallInv, NEW g \in Guests, GuestStop(g)
  PROVE  CallInv'
<1>1. TypeOK' BY DEF CallInv, TypeOK, GuestStop
<1>2. Bytes(disk'.entry) <= MaxBytes BY DEF CallInv, GuestStop
<1>3. ASSUME NEW d \in Calls PROVE Inv(d)'
  <2>1. PreviewInv(d)' BY FewerRunning DEF CallInv, GuestStop
  <2>2. QED BY <2>1, WorldMoves DEF CallInv, Inv, GuestStop
<1>4. (\A i \in DOMAIN log : EntryInv(log[i]))' /\ OneEntryPerCall'
  BY <1>1, SameLog DEF TypeOK, CallInv, GuestStop
<1>5. QED BY <1>1, <1>2, <1>3, <1>4 DEF CallInv, Inv

LEMMA Starting ==
  ASSUME CallInv, NEW g \in Guests, GuestStart(g)
  PROVE  CallInv'
<1>1. TypeOK' BY DEF CallInv, TypeOK, GuestStart
<1>2. Bytes(disk'.entry) <= MaxBytes BY DEF CallInv, GuestStart
<1>3. ASSUME NEW d \in Calls PROVE Inv(d)'
  <2>1. PreviewInv(d)'
    <3>1. CASE ~Previews(args[d]) BY <3>1 DEF PreviewInv, GuestStart, Previews
    <3>2. CASE Previews(args[d]) /\ pc[d] = "idle"
      <4>1. PreviewInv(d) /\ since'[d] = since[d] /\ UNCHANGED <<args, pc, lists, answer, atStart>>
        BY <3>2 DEF CallInv, TypeOK, GuestStart
      <4>2. answer[d] = None BY <3>2 DEF CallInv, AnswerInv
      <4>3. None # "preview" BY CallsAssumption DEF Answers
      <4>4. QED BY <3>2, <4>1, <4>2, <4>3 DEF PreviewInv, Previews
    <3>3. CASE Previews(args[d]) /\ pc[d] # "idle"
      <4>1. /\ PreviewInv(d) /\ since'[d] = since[d] \union {g} /\ running' = running \union {g}
            /\ UNCHANGED <<args, pc, lists, answer, atStart>>
        BY <3>3 DEF CallInv, TypeOK, GuestStart
      <4>2. \A guests : RunningOn(d, guests)' \subseteq RunningOn(d, guests) \union {g}
        BY <4>1 DEF RunningOn
      <4>3. QED BY <3>3, <4>1, <4>2 DEF PreviewInv, Previews
    <3>4. QED BY <3>1, <3>2, <3>3
  <2>2. QED BY <2>1, WorldMoves DEF CallInv, Inv, GuestStart
<1>4. (\A i \in DOMAIN log : EntryInv(log[i]))' /\ OneEntryPerCall'
  BY <1>1, SameLog DEF TypeOK, CallInv, GuestStart
<1>5. QED BY <1>1, <1>2, <1>3, <1>4 DEF CallInv, Inv

\* Guests that a node takes down with it make no preview wrong, and a resize
\* leaves the disk within its bound.
LEMMA Performing ==
  ASSUME CallInv, NEW c \in Calls, Perform(c)
  PROVE  CallInv'
<1>1. PICK did \in Tools \union {None} :
        /\ effect' = [effect EXCEPT ![c] = did] \/ UNCHANGED effect
        /\ effect' # effect => did = args[c].tool
  BY DEF CallInv, TypeOK, Perform, Args
<1>2. running' \subseteq running BY DEF CallInv, TypeOK, Perform, PowerDown, Resized
<1>3. disk' \in DiskStates /\ Bytes(disk'.entry) <= MaxBytes
  <2>1. CASE disk' = disk BY <2>1 DEF CallInv, TypeOK
  <2>2. CASE \E e \in Entries : disk' = [disk EXCEPT !.entry = e] /\ Bytes(e) <= MaxBytes
    <3>1. PICK e \in Entries : disk' = [disk EXCEPT !.entry = e] /\ Bytes(e) <= MaxBytes BY <2>2
    <3>2. disk \in [sized : BOOLEAN, entry : Entries] BY DEF CallInv, TypeOK, DiskStates
    <3>3. disk'.entry = e /\ disk' \in [sized : BOOLEAN, entry : Entries] BY <3>1, <3>2
    <3>4. QED BY <3>1, <3>3 DEF DiskStates
  <2>3. QED BY <2>1, <2>2 DEF Perform, PowerDown, Resized
<1>4. effect' \in [Calls -> Tools \union {None}] BY <1>1 DEF CallInv, TypeOK
<1>5. wire' = [wire EXCEPT ![c] = FALSE] /\ UNCHANGED <<settings, args, pc, lists, read, answer, log, atStart, since>>
  BY DEF Perform
<1>6. TypeOK' BY <1>2, <1>3, <1>4, <1>5 DEF CallInv, TypeOK
<1>7. ASSUME NEW d \in Calls PROVE Inv(d)'
  <2>1. PreviewInv(d)' BY <1>2, <1>5, FewerRunning DEF CallInv
  <2>2. CASE d # c
    <3>1. wire'[d] = wire[d] /\ effect'[d] = effect[d] BY <1>1, <1>5, <2>2 DEF CallInv, TypeOK
    <3>2. QED BY <1>5, <2>1, <3>1, WorldMoves DEF CallInv, Inv
  <2>3. CASE d = c
    <3>1. wire[c] /\ WriteInv(c) /\ AnswerInv(c) BY DEF CallInv, Perform
    <3>2. WriteInv(c)'
      <4>1. Registered(args[c].tool)' <=> Registered(args[c].tool)
        BY <1>5 DEF Registered, EnableNodeOps, EnableNodeShutdown
      <4>2. Admits(args[c])' <=> Admits(args[c]) BY <1>5 DEF Admits, ValidateAllowedNode
      <4>3. QED BY <1>5, <3>1, <4>1, <4>2 DEF WriteInv
    <3>3. AnswerInv(c)'
      <4>1. effect'[c] \in {effect[c], args[c].tool} BY <1>1 DEF CallInv, TypeOK
      <4>2. args[c].tool # None BY CallsAssumption DEF CallInv, TypeOK, Args
      <4>3. effect[c] # None => effect'[c] # None BY <4>1, <4>2
      <4>4. QED BY <1>5, <3>1, <4>1, <4>3 DEF AnswerInv, Admits, ValidateAllowedNode, Previews
    <3>4. QED BY <2>1, <2>3, <3>2, <3>3 DEF Inv
  <2>4. QED BY <2>2, <2>3
<1>8. (\A i \in DOMAIN log : EntryInv(log[i]))' /\ OneEntryPerCall'
  BY <1>5, <1>6, SameLog DEF TypeOK, CallInv
<1>9. QED BY <1>3, <1>6, <1>7, <1>8 DEF CallInv, Inv

\* A call that begins: refused before any request, not registered, or on its way.
LEMMA Calling ==
  ASSUME CallInv, NEW c \in Calls, NEW tool \in Tools, CallTool(c, tool)
  PROVE  CallInv'
<1>1. pc[c] = "idle" /\ args[c].tool = tool /\ UNCHANGED <<settings, running, disk, args, lists, read, wire, effect, since>>
  BY DEF CallTool
<1>2. /\ pc \in [Calls -> {"idle", "vms", "cts", "status", "config", "write", "reply", "returned", "done"}]
      /\ answer \in [Calls -> Answers \union {None}] /\ log \in Seq([call : Calls, kind : Kinds])
      /\ atStart \in [Calls -> SUBSET Guests] /\ running \subseteq Guests
  BY DEF CallInv, TypeOK
<1>3. atStart' \in [Calls -> SUBSET Guests] /\ \A d \in Calls \ {c} : atStart'[d] = atStart[d]
  BY <1>2 DEF CallTool
<1>4. Previews(args[c]) => atStart'[c] = running BY <1>2 DEF CallTool
<1>5. FirstStep(args[c]) \in {"status", "config", "vms", "write"} BY DEF FirstStep
<1>6. \/ /\ ~Registered(tool) /\ answer' = [answer EXCEPT ![c] = "error"] /\ pc' = [pc EXCEPT ![c] = "done"]
         /\ log' = Append(log, [call |-> c, kind |-> "TOOL_ERROR"])
      \/ /\ Registered(tool) /\ Admits(args[c]) /\ pc' = [pc EXCEPT ![c] = FirstStep(args[c])]
         /\ UNCHANGED <<answer, log>>
      \/ /\ answer' = [answer EXCEPT ![c] = "error"] /\ pc' = [pc EXCEPT ![c] = "returned"] /\ UNCHANGED log
  BY DEF CallTool, Answer
<1>7. /\ pc' \in [Calls -> {"idle", "vms", "cts", "status", "config", "write", "reply", "returned", "done"}]
      /\ answer' \in [Calls -> Answers \union {None}]
  BY <1>2, <1>5, <1>6 DEF Answers
<1>8. log' \in Seq([call : Calls, kind : Kinds]) /\ (\A i \in DOMAIN log : EntryInv(log[i]))' /\ OneEntryPerCall'
  <2>1. CASE /\ answer' = [answer EXCEPT ![c] = "error"] /\ pc' = [pc EXCEPT ![c] = "done"]
             /\ log' = Append(log, [call |-> c, kind |-> "TOOL_ERROR"])
    <3>1. "TOOL_ERROR" \in Kinds BY DEF Kinds
    <3>2. EntryInv([call |-> c, kind |-> "TOOL_ERROR"])' BY <1>2, <2>1 DEF EntryInv
    <3>3. \A d \in Calls : d # c => answer'[d] = answer[d] BY <1>2, <2>1
    <3>4. pc[c] # "done" BY <1>1
    <3>5. QED BY <1>1, <2>1, <3>1, <3>2, <3>3, <3>4, AppendLog
  <2>2. CASE /\ UNCHANGED log /\ \A d \in Calls \ {c} : pc'[d] = pc[d] /\ answer'[d] = answer[d]
             /\ pc'[c] # "done"
    BY <1>1, <1>2, <1>7, <2>2, SameLog
  <2>3. QED BY <1>2, <1>5, <1>6, <2>1, <2>2
<1>9. TypeOK' BY <1>1, <1>3, <1>7, <1>8 DEF CallInv, TypeOK
<1>10. ASSUME NEW d \in Calls PROVE Inv(d)'
  <2>1. CASE d # c
    <3>1. pc'[d] = pc[d] /\ answer'[d] = answer[d] /\ atStart'[d] = atStart[d] BY <1>2, <1>3, <1>6, <2>1
    <3>2. WriteInv(d)'
      <4>1. Registered(args[d].tool)' <=> Registered(args[d].tool)
        BY <1>1 DEF Registered, EnableNodeOps, EnableNodeShutdown
      <4>2. Admits(args[d])' <=> Admits(args[d]) BY <1>1 DEF Admits, ValidateAllowedNode
      <4>3. QED BY <1>1, <3>1, <4>1, <4>2 DEF CallInv, WriteInv
    <3>3. AnswerInv(d)' BY <1>1, <3>1 DEF CallInv, AnswerInv, Admits, ValidateAllowedNode, Previews
    <3>4. PreviewInv(d)'
      <4>1. \A guests : RunningOn(d, guests)' = RunningOn(d, guests) BY <1>1 DEF RunningOn
      <4>2. QED BY <1>1, <3>1, <4>1 DEF CallInv, PreviewInv, Previews
    <3>5. QED BY <3>2, <3>3, <3>4 DEF Inv
  <2>2. CASE d = c
    <3>1. ~wire[c] /\ effect[c] = None BY <1>1 DEF CallInv, WriteInv
    <3>2. answer[c] = None BY <1>1 DEF CallInv, AnswerInv
    <3>3. None \notin {"preview", "ok", "error"} /\ None # tool BY CallsAssumption DEF Answers
    <3>4. WriteInv(c)'
      <4>1. CASE pc'[c] \notin {"write", "reply"} BY <1>1, <3>1, <4>1 DEF WriteInv
      <4>2. CASE pc'[c] \in {"write", "reply"}
        <5>1. Registered(tool) /\ Admits(args[c]) /\ pc'[c] = FirstStep(args[c]) BY <1>2, <1>6, <4>2
        <5>2. tool \in NodeTools /\ ~Previews(args[c]) BY <1>1, <4>2, <5>1 DEF FirstStep, Tools, NodeTools
        <5>3. IsConfirmed(args[c].confirm) /\ tool # "pve_task_status" /\ tool # "pve_qemu_resize_disk"
          BY <1>1, <5>2 DEF Previews, NodeTools
        <5>4. (Registered(args[c].tool) /\ Admits(args[c]))'
          BY <1>1, <5>1 DEF Registered, EnableNodeOps, EnableNodeShutdown, Admits, ValidateAllowedNode
        <5>5. QED BY <1>1, <4>2, <5>3, <5>4 DEF WriteInv
      <4>3. QED BY <4>1, <4>2
    <3>5. AnswerInv(c)'
      <4>1. \/ pc'[c] \in {"done", "returned"} /\ answer'[c] = "error"
            \/ pc'[c] = FirstStep(args[c]) /\ answer'[c] = None /\ Admits(args[c])
        BY <1>2, <1>6, <3>2
      <4>2. FirstStep(args[c]) = "vms" => Previews(args[c]) BY DEF FirstStep
      <4>3. FirstStep(args[c]) = "config" => args[c].tool = "pve_qemu_resize_disk" BY DEF FirstStep
      <4>4. FirstStep(args[c]) = "status" => args[c].tool = "pve_task_status" BY DEF FirstStep
      <4>5. QED BY <1>1, <1>5, <3>1, <3>3, <4>1, <4>2, <4>3, <4>4 DEF AnswerInv, Previews, Admits, ValidateAllowedNode
    <3>6. PreviewInv(c)'
      <4>1. Previews(args[c]) => lists[c] = {} BY <1>1 DEF CallInv, PreviewInv
      <4>2. pc'[c] \in {"vms", "status", "config", "write", "done", "returned"} /\ answer'[c] \in {None, "error"}
        BY <1>2, <1>5, <1>6, <3>2
      <4>3. QED BY <1>1, <1>4, <3>3, <4>1, <4>2 DEF PreviewInv, Previews
    <3>7. QED BY <2>2, <3>4, <3>5, <3>6 DEF Inv
  <2>3. QED BY <2>1, <2>2
<1>11. Bytes(disk'.entry) <= MaxBytes BY <1>1 DEF CallInv
<1>12. QED BY <1>8, <1>9, <1>10, <1>11 DEF CallInv, Inv

LEMMA Step == CallInv /\ [Next]_vars => CallInv'
<1> SUFFICES ASSUME CallInv, [Next]_vars PROVE CallInv' OBVIOUS
<1>1. CASE \E c \in Calls : NodeReboot(c) \/ NodeShutdown(c) \/ QemuResizeDisk(c) \/ TaskStatus(c)
  BY <1>1, Calling DEF NodeReboot, NodeShutdown, QemuResizeDisk, TaskStatus, Tools, NodeTools
<1>2. CASE \E c \in Calls : Handler(c) \/ Perform(c)
  BY <1>2, ListingQEMU, ListingLXC, ReadingDisk, ReadingStatus, Writing, Replying, Logging, Performing
  DEF Handler
<1>3. CASE \E g \in Guests : GuestStart(g) \/ GuestStop(g) BY <1>3, Starting, Stopping
<1>4. CASE UNCHANGED vars
  <2>1. UNCHANGED <<settings, running, disk, args, pc, lists, read, wire, answer, log, effect, atStart, since>>
    BY <1>4 DEF vars
  <2>2. TypeOK' /\ Bytes(disk'.entry) <= MaxBytes BY <2>1 DEF CallInv, TypeOK
  <2>3. \A d \in Calls : Inv(d)' BY <2>1, OtherCalls DEF CallInv, Inv, world
  <2>4. (\A i \in DOMAIN log : EntryInv(log[i]))' /\ OneEntryPerCall'
    BY <2>1, <2>2, SameLog DEF CallInv, TypeOK
  <2>5. QED BY <2>2, <2>3, <2>4 DEF CallInv, Inv
<1>5. QED BY <1>1, <1>2, <1>3, <1>4 DEF Next

\* The inductive invariant holds in every state (the guards of every tool, and
\* what each answer and each entry of the log rests on).
THEOREM CallsInvariant == Spec => []CallInv
BY Initially, Step, PTL DEF Spec

\* One entry for each call that ended (observer.go:73-98, 111-117).
THEOREM EntriesComplete == Spec => []OneEntryPerCall
<1>1. CallInv => OneEntryPerCall BY DEF CallInv
<1>2. QED BY <1>1, CallsInvariant, PTL

\* A node goes down only for a confirmed call that every guard admits.
THEOREM CommandsAllowed == Spec => []CommandsWereAllowed
<1>1. CallInv => CommandsWereAllowed
  <2> SUFFICES ASSUME CallInv, NEW c \in Calls, effect[c] \in NodeTools
               PROVE  /\ args[c].confirm \in {"true", "text yes"}
                      /\ AllowedNodes = {} \/ args[c].node \in AllowedNodes
                      /\ settings.nodeOps \in {"true", "text yes"}
                      /\ effect[c] = "pve_node_shutdown" => settings.nodeShutdown \in {"true", "text yes"}
    BY DEF CommandsWereAllowed
  <2>1. effect[c] # None BY CallsAssumption DEF Tools
  <2>2. effect[c] = args[c].tool BY <2>1 DEF CallInv, AnswerInv
  <2>3. IsConfirmed(args[c].confirm) /\ Registered(args[c].tool) /\ Admits(args[c]) BY <2>1 DEF CallInv, WriteInv
  <2>4. args[c].confirm \in {"true", "text yes"} BY <2>3 DEF IsConfirmed, ParseOptionalBool, Texts
  <2>5. QED BY <2>2, <2>3, <2>4
        DEF Registered, EnableNodeOps, EnableNodeShutdown, parseBoolEnv, Admits, ValidateAllowedNode, NodeTools
<1>2. QED BY <1>1, CallsInvariant, PTL

\* A preview names every guest that its confirmation would take down.
THEOREM PreviewsTruthful == Spec => []PreviewsAreTruthful
<1>1. CallInv => PreviewsAreTruthful
  <2> SUFFICES ASSUME CallInv, NEW c \in Calls, answer[c] = "preview", args[c].tool \in NodeTools
               PROVE  /\ {g \in running : HostOf[g] = args[c].node} \subseteq lists[c] \union since[c]
                      /\ lists[c] \subseteq atStart[c] \union since[c]
    BY DEF PreviewsAreTruthful
  <2>1. Previews(args[c]) BY DEF CallInv, AnswerInv, Previews
  <2>2. {g \in running : HostOf[g] = args[c].node} \subseteq RunningOn(c, Guests) BY DEF CallInv, TypeOK, RunningOn
  <2>3. QED BY <2>1, <2>2 DEF CallInv, PreviewInv
<1>2. QED BY <1>1, CallsInvariant, PTL

\* The log is an account of what was done to Proxmox.
THEOREM EntriesTell == Spec => []EntriesTellWhatHappened
<1>1. CallInv => EntriesTellWhatHappened
  <2> SUFFICES ASSUME CallInv, NEW i \in DOMAIN log, NEW c, c = log[i].call, NEW k, k = log[i].kind
               PROVE  /\ k = "TOOL_MUTATION" => effect[c] # None
                      /\ k = "TOOL_READ" => effect[c] = None /\ ~wire[c]
                      /\ k = "TOOL_DRY_RUN" /\ args[c].confirm # "text yes" => effect[c] = None /\ ~wire[c]
    BY DEF EntriesTellWhatHappened
  <2>1. c \in Calls BY EntriesTyped
  <2>2. /\ k = "TOOL_ERROR" \/ answer[c] \in {"ok", "preview"}
        /\ k # "TOOL_ERROR" => k = classifyTool(readOnly(args[c].tool), args[c].confirm, FALSE)
    BY DEF CallInv, EntryInv
  <2>3. WriteInv(c) /\ AnswerInv(c) BY <2>1 DEF CallInv
  <2>4. CASE k = "TOOL_MUTATION"
    <3>1. args[c].confirm = "true" /\ ~readOnly(args[c].tool) /\ answer[c] \in {"ok", "preview"}
      BY <2>2, <2>4 DEF classifyTool
    <3>2. IsConfirmed(args[c].confirm) BY <3>1 DEF IsConfirmed, ParseOptionalBool, Texts
    <3>3. answer[c] = "ok" BY <2>3, <3>1, <3>2 DEF AnswerInv
    <3>4. QED BY <2>3, <2>4, <3>1, <3>3 DEF AnswerInv, readOnly
  <2>5. CASE k = "TOOL_READ"
    <3>1. readOnly(args[c].tool) BY <2>2, <2>5 DEF classifyTool
    <3>2. QED BY <2>3, <2>5, <3>1 DEF WriteInv, readOnly
  <2>6. CASE k = "TOOL_DRY_RUN" /\ args[c].confirm # "text yes"
    <3>1. args[c].confirm # "true" BY <2>2, <2>6 DEF classifyTool
    <3>2. ~IsConfirmed(args[c].confirm) BY <2>6, <3>1 DEF IsConfirmed, ParseOptionalBool, Texts
    <3>3. QED BY <2>3, <2>6, <3>2 DEF WriteInv
  <2>7. QED BY <2>4, <2>5, <2>6
<1>2. QED BY <1>1, CallsInvariant, PTL

\* No resize makes a disk smaller whose size is recorded, for words of any width.
THEOREM DisksNeverShrink == Spec => DiskNeverShrinks
<1> DEFINE Grows == \A c \in Calls :
       effect[c] = None /\ effect'[c] = "pve_qemu_resize_disk" /\ disk.sized =>
         /\ Bytes(disk'.entry) >= Bytes(disk.entry)
         /\ ~args[c].size.plus => Bytes(disk'.entry) > Bytes(disk.entry)
<1>1. CallInv /\ [Next]_vars => [Grows]_vars
  <2> SUFFICES ASSUME CallInv, Next, NEW c \in Calls, effect[c] = None,
                      effect'[c] = "pve_qemu_resize_disk", disk.sized
               PROVE  /\ Bytes(disk'.entry) >= Bytes(disk.entry)
                      /\ ~args[c].size.plus => Bytes(disk'.entry) > Bytes(disk.entry)
    OBVIOUS
  <2>1. effect'[c] # effect[c] BY CallsAssumption DEF Tools
  <2>2. Perform(c)
    <3>1. PICK d \in Calls : Perform(d)
      BY <2>1 DEF Next, NodeReboot, NodeShutdown, QemuResizeDisk, TaskStatus, CallTool, Handler, ListQEMU, ListLXC,
         ReadDisk, GetTaskStatus, Write, Reply, Log, GuestStart, GuestStop, world
    <3>2. CASE d # c BY <2>1, <3>1, <3>2 DEF CallInv, TypeOK, Perform
    <3>3. QED BY <3>1, <3>2
  <2>3. effect' # effect BY <2>1
  <2>4. args[c].tool = "pve_qemu_resize_disk" BY <2>2, <2>3 DEF CallInv, TypeOK, Perform
  <2>5. Resized(c) BY <2>2, <2>3, <2>4 DEF Perform, PowerDown, NodeTools
  <2>6. ValidateDiskGrowth(read[c].sized, read[c].entry, args[c].size) /\ disk = read[c]
    BY <2>2, <2>4, <2>5 DEF CallInv, WriteInv, Perform, Resized
  <2>7. PICK e \in Entries :
          /\ Bytes(e) = Bytes(args[c].size) + (IF args[c].size.plus THEN Bytes(disk.entry) ELSE 0)
          /\ disk' = [disk EXCEPT !.entry = e]
    BY <2>5 DEF Resized
  <2>8. disk \in [sized : BOOLEAN, entry : Entries] /\ disk.sized = TRUE BY DEF CallInv, TypeOK, DiskStates
  <2>9. disk'.entry = e BY <2>7, <2>8
  <2>10. disk.entry \in Entries /\ Bytes(disk.entry) <= MaxBytes BY <2>8 DEF CallInv
  <2>11. Bytes(disk.entry) \in Nat BY <2>10, EntriesAreSizes, BytesTyped
  <2>12. args[c].size \in SizeTexts
    BY <2>2, <2>4 DEF CallInv, TypeOK, Args, WriteInv, Admits, Perform
  <2>13. CASE args[c].size.plus
    <3>1. Bytes(args[c].size) \in Nat BY <2>12, BytesTyped
    <3>2. Bytes(e) = Bytes(args[c].size) + Bytes(disk.entry) BY <2>7, <2>13
    <3>3. Bytes(e) >= Bytes(disk.entry) BY <2>11, <3>1, <3>2
    <3>4. QED BY <2>9, <2>13, <3>3
  <2>14. CASE ~args[c].size.plus
    <3>1. Bytes(args[c].size) > Bytes(disk.entry)
      <4>1. ValidateDiskGrowth(TRUE, disk.entry, args[c].size) BY <2>6, <2>8
      <4>2. QED BY <2>10, <2>12, <2>14, <4>1, AcceptedTargetsAreLarger
    <3>2. Bytes(args[c].size) \in Nat /\ Bytes(e) = Bytes(args[c].size) + 0 BY <2>7, <2>12, <2>14, BytesTyped
    <3>3. Bytes(e) > Bytes(disk.entry) /\ Bytes(e) >= Bytes(disk.entry) BY <2>11, <3>1, <3>2
    <3>4. QED BY <2>9, <3>3
  <2>15. QED BY <2>13, <2>14
<1>2. QED BY <1>1, CallsInvariant, PTL DEF Spec, DiskNeverShrinks
=============================================================================
