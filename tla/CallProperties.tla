--------------------------- MODULE CallProperties ----------------------------
(***************************************************************************)
(* What the tool calls of ToolCalls.tla guarantee, from the arguments they *)
(* were made with to the entry the activity log keeps of them.             *)
(***************************************************************************)
EXTENDS ToolCalls

\* The log can be read as an account of what was done to Proxmox: an entry
\* MUTATION stands for a write that was performed, an entry READ for none, and
\* an entry DRY_RUN for none either, unless the call was confirmed with a text
\* in place of a boolean, which the tools accept and the observer does not
\* count (observer.go:45-58, common.go:185-206).  An entry ERROR says nothing:
\* its write may have been performed, or be performed yet.
EntriesTellWhatHappened ==
  \A i \in DOMAIN log :
    LET c == log[i].call IN
      /\ log[i].kind = "TOOL_MUTATION" => effect[c] # None
      /\ log[i].kind = "TOOL_READ" => effect[c] = None /\ ~wire[c]
      /\ log[i].kind = "TOOL_DRY_RUN" /\ args[c].confirm # "text yes" => effect[c] = None /\ ~wire[c]

\* Each call that ended has one entry, also when its tool does not exist or its
\* arguments were refused, and no call has two (observer.go:73-98, 111-117).
OneEntryPerCall ==
  /\ \A c \in Calls : pc[c] = "done" <=> \E i \in DOMAIN log : log[i].call = c
  /\ \A i, j \in DOMAIN log : log[i].call = log[j].call => i = j

\* The preview of a node tool leaves no guest out: what runs on the node and
\* would go down was listed, or was started after the preview was asked for;
\* and what is listed did run.  Guests come and go between its two lists, and
\* either list may fail (nodes.go:21-49, 84-103).
PreviewsAreTruthful ==
  \A c \in Calls :
    answer[c] = "preview" /\ args[c].tool \in NodeTools =>
      /\ {g \in running : HostOf[g] = args[c].node} \subseteq lists[c] \union since[c]
      /\ lists[c] \subseteq atStart[c] \union since[c]

\* A node goes down only for a call confirmed with true or a text that says so,
\* on an allowed node; for good only if both switches are on (nodes.go:51-64,
\* 118, 129-134, config.go:38-44).
CommandsWereAllowed ==
  \A c \in Calls :
    effect[c] \in NodeTools =>
      /\ args[c].confirm \in {"true", "text yes"}
      /\ AllowedNodes = {} \/ args[c].node \in AllowedNodes
      /\ settings.nodeOps \in {"true", "text yes"}
      /\ effect[c] = "pve_node_shutdown" => settings.nodeShutdown \in {"true", "text yes"}

\* The comparison of sizes in machine words protects the disk as Proxmox counts
\* its bytes: whatever the numbers and units, and although the products may
\* overflow, no resize makes a disk smaller whose size is recorded, and one to
\* a target makes it larger (common.go:375-427).
DiskNeverShrinks ==
  [][\A c \in Calls :
       effect[c] = None /\ effect'[c] = "pve_qemu_resize_disk" /\ disk.sized =>
         /\ Bytes(disk'.entry) >= Bytes(disk.entry)
         /\ ~args[c].size.plus => Bytes(disk'.entry) > Bytes(disk.entry)]_vars

-----------------------------------------------------------------------------
(* The inductive invariant.                                                *)

\* A write is on its way, or was performed, only for a call that passed every
\* guard; a resize was compared with the disk it read.
WriteInv(c) ==
  pc[c] \in {"write", "reply"} \/ wire[c] \/ effect[c] # None =>
    /\ pc[c] \in {"write", "reply", "returned", "done"}
    /\ args[c].tool # "pve_task_status" /\ IsConfirmed(args[c].confirm)
    /\ Registered(args[c].tool) /\ Admits(args[c])
    /\ args[c].tool = "pve_qemu_resize_disk" =>
         /\ read[c] # None /\ Bytes(read[c].entry) <= MaxBytes
         /\ ValidateDiskGrowth(read[c].sized, read[c].entry, args[c].size)

\* What an answer rests on, and the tool a performed write was made by.
AnswerInv(c) ==
  /\ effect[c] \in {None, args[c].tool}
  /\ pc[c] \in {"idle", "config", "write", "reply"} => answer[c] = None
  /\ pc[c] = "returned" => answer[c] # None
  /\ pc[c] \in {"vms", "cts"} => Previews(args[c]) /\ answer[c] = None
  /\ pc[c] = "config" => args[c].tool = "pve_qemu_resize_disk" /\ Admits(args[c])
  /\ pc[c] = "status" => args[c].tool = "pve_task_status"
  /\ answer[c] = "ok" => effect[c] # None \/ args[c].tool = "pve_task_status"
  /\ answer[c] = "preview" => ~IsConfirmed(args[c].confirm)

\* What a preview knows after each of its lists.
PreviewInv(c) ==
  Previews(args[c]) =>
    /\ pc[c] # "idle" => running \subseteq atStart[c] \union since[c]
    /\ pc[c] \in {"idle", "vms"} => lists[c] = {}
    /\ lists[c] \subseteq atStart[c] \union since[c]
    /\ pc[c] = "cts" => RunningOn(c, VMs) \subseteq lists[c] \union since[c]
    /\ answer[c] = "preview" => RunningOn(c, Guests) \subseteq lists[c] \union since[c]

\* An entry is what the observer made of the call's outcome.
EntryInv(e) ==
  /\ pc[e.call] = "done"
  /\ e.kind = "TOOL_ERROR" \/ answer[e.call] \in {"ok", "preview"}
  /\ e.kind # "TOOL_ERROR" =>
       e.kind = classifyTool(readOnly(args[e.call].tool), args[e.call].confirm, FALSE)

CallInv ==
  /\ TypeOK
  /\ Bytes(disk.entry) <= MaxBytes
  /\ \A c \in Calls : WriteInv(c) /\ AnswerInv(c) /\ PreviewInv(c)
  /\ \A i \in DOMAIN log : EntryInv(log[i])
  /\ OneEntryPerCall
=============================================================================
