------------------------------ MODULE ToolCalls ------------------------------
(***************************************************************************)
(* Tool calls from their raw arguments to their entry in the activity log: *)
(* the node tools (internal/tools/nodes.go), the status tool (cluster.go)  *)
(* and the sizes of a disk resize, each inside the observer's middleware   *)
(* (internal/webui/observer.go).  Proxmox, its nodes' guests and its disk  *)
(* go on between any two requests of a handler.  The digest of a resize is *)
(* the subject of GuestTools: here the caller has the right one or not.    *)
(***************************************************************************)
EXTENDS Arguments, DiskSizes, Sequences

CONSTANTS
  Calls,          \* tool calls, each made once
  VMs, CTs,       \* virtual machines and containers
  Nodes, HostOf,  \* hypervisor nodes, and the node of each guest
  AllowedNodes,   \* PVE_ALLOWED_NODES; empty means every node
  Scenarios,      \* bound: the settings and arguments the calls are made with
  Disks,          \* bound: the disk to begin with
  MaxBytes,       \* bound: capacity of the storage
  None

Guests == VMs \union CTs
NodeTools == {"pve_node_reboot", "pve_node_shutdown"}
Tools == NodeTools \union {"pve_task_status", "pve_qemu_resize_disk"}

\* A size as Proxmox records it.
Entries == [plus : {FALSE}, num : 1 .. MaxBytes, unit : Units]

\* The arguments of a call; a tool ignores those it does not have.  Invalid
\* stands for a node that is missing, not a text or badly formed.
Args == [tool : Tools, node : Nodes \union {Invalid}, confirm : BoolForms,
         size : SizeTexts \union {None}]

DiskStates == [sized : BOOLEAN, entry : Entries]

Answers == {"preview", "ok", "error"}

Settings == [nodeOps : BoolForms, nodeShutdown : BoolForms]

ASSUME CallsAssumption ==
  /\ MaxBytes \in 1 .. MaxInt64
  /\ HostOf \in [Guests -> Nodes] /\ AllowedNodes \subseteq Nodes /\ Invalid \notin Nodes
  /\ Scenarios \subseteq [settings : Settings, args : [Calls -> Args]]
  /\ Disks \subseteq {d \in DiskStates : Bytes(d.entry) <= MaxBytes}
  /\ None \notin Tools \union Answers \union SizeTexts \union DiskStates

VARIABLES
  settings,   \* environment variables that admit the node tools
  running,    \* guests that run
  disk,       \* [sized, entry]: the disk, and whether its entry records a size
  args, pc,   \* a call's arguments (chosen at the start), and where its handler is
  lists,      \* what its lists of VMs and CTs said
  read,       \* the disk as the resize read it
  wire,       \* its write is on the way to Proxmox
  answer,     \* what it was answered
  log,        \* the entries of the activity log: [call, kind]
  \* history variables
  effect,     \* the tool whose write Proxmox performed for the call
  atStart,    \* guests that ran when a node tool's preview was asked for
  since       \* guests started since then

vars == <<settings, running, disk, args, pc, lists, read, wire, answer, log, effect, atStart, since>>
world == <<settings, running, disk, effect, atStart, since>>

TypeOK ==
  /\ settings \in Settings
  /\ running \subseteq Guests
  /\ disk \in DiskStates
  /\ args \in [Calls -> Args]
  /\ pc \in [Calls -> {"idle", "vms", "cts", "status", "config", "write", "reply", "returned", "done"}]
  /\ lists \in [Calls -> SUBSET Guests]
  /\ read \in [Calls -> DiskStates \union {None}]
  /\ wire \in [Calls -> BOOLEAN]
  /\ answer \in [Calls -> Answers \union {None}]
  /\ log \in Seq([call : Calls, kind : Kinds])
  /\ effect \in [Calls -> Tools \union {None}]
  /\ atStart \in [Calls -> SUBSET Guests] /\ since \in [Calls -> SUBSET Guests]

Init ==
  /\ \E s \in Scenarios : settings = s.settings /\ args = s.args
  /\ running = Guests
  /\ disk \in Disks
  /\ pc = [c \in Calls |-> "idle"]
  /\ lists = [c \in Calls |-> {}] /\ read = [c \in Calls |-> None]
  /\ wire = [c \in Calls |-> FALSE] /\ answer = [c \in Calls |-> None]
  /\ log = <<>>
  /\ effect = [c \in Calls |-> None]
  /\ atStart = [c \in Calls |-> {}] /\ since = [c \in Calls |-> {}]

-----------------------------------------------------------------------------
(* Before the handler's first request                                      *)

EnableNodeOps == parseBoolEnv(settings.nodeOps)
EnableNodeShutdown == parseBoolEnv(settings.nodeShutdown)

\* (mutant: the shutdown tool has a switch of its own)
RegisteredApart(tool) ==
  /\ tool = "pve_node_reboot" => EnableNodeOps
  /\ tool = "pve_node_shutdown" => EnableNodeShutdown

\* The node tools as a whole depend on the first switch.
Registered(tool) ==
  /\ tool \in NodeTools => EnableNodeOps
  /\ tool = "pve_node_shutdown" => EnableNodeShutdown

ValidateAllowedNode(node) ==
  node \in Nodes /\ (AllowedNodes = {} \/ node \in AllowedNodes)

\* The node of the status tool is not compared with the allowed ones.
Admits(a) ==
  /\ a.node \in Nodes
  /\ a.tool # "pve_task_status" => ValidateAllowedNode(a.node)
  /\ a.tool = "pve_qemu_resize_disk" => a.size # None

\* The call of a node tool that is to list the node's guests.
Previews(a) == a.tool \in NodeTools /\ ~IsConfirmed(a.confirm)

FirstStep(a) ==
  CASE a.tool = "pve_task_status" -> "status"
    [] a.tool = "pve_qemu_resize_disk" -> "config"
    [] OTHER -> IF Previews(a) THEN "vms" ELSE "write"

Answer(c, what) ==
  /\ answer' = [answer EXCEPT ![c] = what]
  /\ pc' = [pc EXCEPT ![c] = "returned"]

\* A tool that is not registered is answered by mcp-go, whose error hook logs.
CallTool(c, tool) ==
  /\ pc[c] = "idle" /\ args[c].tool = tool
  /\ atStart' = [atStart EXCEPT ![c] = IF Previews(args[c]) THEN running ELSE {}]
  /\ IF ~Registered(tool)
     THEN /\ answer' = [answer EXCEPT ![c] = "error"]
          /\ pc' = [pc EXCEPT ![c] = "done"]
          /\ log' = Append(log, [call |-> c, kind |-> "TOOL_ERROR"])
     ELSE /\ IF Admits(args[c])
             THEN pc' = [pc EXCEPT ![c] = FirstStep(args[c])] /\ UNCHANGED answer
             ELSE Answer(c, "error")
          /\ UNCHANGED log
  /\ UNCHANGED <<settings, running, disk, args, lists, read, wire, effect, since>>

-----------------------------------------------------------------------------
(* The handlers' requests                                                  *)

RunningOn(c, guests) == {g \in guests \intersect running : HostOf[g] = args[c].node}

\* (mutant: a list that cannot be read counts as empty)
ListLXCOrNone(c) ==
  /\ pc[c] = "cts"
  /\ \/ lists' = [lists EXCEPT ![c] = @ \union RunningOn(c, CTs)]
     \/ UNCHANGED lists
  /\ Answer(c, "preview")
  /\ UNCHANGED <<world, args, read, wire, log>>

\* getRunningGuestsOnNode: one request for the virtual machines ...
ListQEMU(c) ==
  /\ pc[c] = "vms"
  /\ \/ /\ lists' = [lists EXCEPT ![c] = RunningOn(c, VMs)]
        /\ pc' = [pc EXCEPT ![c] = "cts"]
        /\ UNCHANGED answer
     \/ Answer(c, "error") /\ UNCHANGED lists
  /\ UNCHANGED <<world, args, read, wire, log>>

\* ... and one for the containers; without both there is no preview.
ListLXC(c) ==
  /\ pc[c] = "cts"
  /\ \/ lists' = [lists EXCEPT ![c] = @ \union RunningOn(c, CTs)] /\ Answer(c, "preview")
     \/ Answer(c, "error") /\ UNCHANGED lists
  /\ UNCHANGED <<world, args, read, wire, log>>

\* The configuration is read, the size compared, and only then confirm looked
\* at; a digest that was not the caller's ends the call.
ReadDisk(c) ==
  /\ pc[c] = "config"
  /\ read' = [read EXCEPT ![c] = disk]
  /\ \/ Answer(c, "error")
     \/ /\ ValidateDiskGrowth(disk.sized, disk.entry, args[c].size)
        /\ IF IsConfirmed(args[c].confirm)
           THEN pc' = [pc EXCEPT ![c] = "write"] /\ UNCHANGED answer
           ELSE Answer(c, "preview")
  /\ UNCHANGED <<world, args, lists, wire, log>>

GetTaskStatus(c) ==
  /\ pc[c] = "status"
  /\ \/ Answer(c, "ok") \/ Answer(c, "error")
  /\ UNCHANGED <<world, args, lists, read, wire, log>>

Write(c) ==
  /\ pc[c] = "write"
  /\ pc' = [pc EXCEPT ![c] = "reply"]
  /\ wire' = [wire EXCEPT ![c] = TRUE]
  /\ UNCHANGED <<world, args, lists, read, answer, log>>

\* (mutant: a reply that cannot be read counts as a success)
ReplyUnread(c) ==
  /\ pc[c] = "reply"
  /\ Answer(c, "ok") \/ Answer(c, "error")
  /\ UNCHANGED <<world, args, lists, read, wire, log>>

\* A success is reported only from Proxmox' reply; an error also when the
\* reply is lost or late, or not understood.
Reply(c) ==
  /\ pc[c] = "reply"
  /\ \/ effect[c] # None /\ Answer(c, "ok")
     \/ Answer(c, "error")
  /\ UNCHANGED <<world, args, lists, read, wire, log>>

-----------------------------------------------------------------------------
(* The observer's middleware                                               *)

readOnly(tool) == tool = "pve_task_status"

\* (mutant: only successes are entered in the log)
LogSuccess(c) ==
  /\ pc[c] = "returned"
  /\ pc' = [pc EXCEPT ![c] = "done"]
  /\ log' = IF answer[c] = "error" THEN log
            ELSE Append(log, [call |-> c,
                              kind |-> classifyTool(readOnly(args[c].tool), args[c].confirm, FALSE)])
  /\ UNCHANGED <<world, args, lists, read, wire, answer>>

\* The entry is made after the handler has returned.
Log(c) ==
  /\ pc[c] = "returned"
  /\ pc' = [pc EXCEPT ![c] = "done"]
  /\ log' = Append(log, [call |-> c,
               kind |-> classifyTool(readOnly(args[c].tool), args[c].confirm, answer[c] = "error")])
  /\ UNCHANGED <<world, args, lists, read, wire, answer>>

-----------------------------------------------------------------------------
(* Proxmox                                                                 *)

\* Guests of a node that goes down go down with it.
PowerDown(c) ==
  /\ args[c].tool \in NodeTools
  /\ running' = {g \in running : HostOf[g] # args[c].node}
  /\ UNCHANGED disk

\* A disk is resized as the request says, if it is the one that was read.
Resized(c) ==
  /\ args[c].tool = "pve_qemu_resize_disk"
  /\ disk = read[c]
  /\ \E e \in Entries :
       /\ Bytes(e) = Bytes(args[c].size) + (IF args[c].size.plus THEN Bytes(disk.entry) ELSE 0)
       /\ Bytes(e) <= MaxBytes
       /\ disk' = [disk EXCEPT !.entry = e]
  /\ UNCHANGED running

\* A write is performed or refused at any time, also after its caller gave up.
Perform(c) ==
  /\ wire[c]
  /\ wire' = [wire EXCEPT ![c] = FALSE]
  /\ \/ (PowerDown(c) \/ Resized(c)) /\ effect' = [effect EXCEPT ![c] = args[c].tool]
     \/ UNCHANGED <<running, disk, effect>>
  /\ UNCHANGED <<settings, args, pc, lists, read, answer, log, atStart, since>>

GuestStart(g) ==
  /\ g \notin running
  /\ running' = running \union {g}
  /\ since' = [c \in Calls |->
                IF pc[c] # "idle" /\ Previews(args[c]) THEN since[c] \union {g} ELSE since[c]]
  /\ UNCHANGED <<settings, disk, args, pc, lists, read, wire, answer, log, effect, atStart>>

GuestStop(g) ==
  /\ running' = running \ {g} /\ g \in running
  /\ UNCHANGED <<settings, disk, args, pc, lists, read, wire, answer, log, effect, atStart, since>>

-----------------------------------------------------------------------------
NodeReboot(c) == CallTool(c, "pve_node_reboot")
NodeShutdown(c) == CallTool(c, "pve_node_shutdown")
QemuResizeDisk(c) == CallTool(c, "pve_qemu_resize_disk")
TaskStatus(c) == CallTool(c, "pve_task_status")

Handler(c) ==
  \/ ListQEMU(c) \/ ListLXC(c) \/ ReadDisk(c) \/ GetTaskStatus(c) \/ Write(c) \/ Reply(c) \/ Log(c)

Next ==
  \/ \E c \in Calls : NodeReboot(c) \/ NodeShutdown(c) \/ QemuResizeDisk(c) \/ TaskStatus(c)
  \/ \E c \in Calls : Handler(c) \/ Perform(c)
  \/ \E g \in Guests : GuestStart(g) \/ GuestStop(g)

Spec == Init /\ [][Next]_vars
=============================================================================
