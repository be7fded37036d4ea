------------------------------ MODULE TaskWait -------------------------------
(***************************************************************************)
(* A confirmed clone or create, from its request to its report: Proxmox    *)
(* answers the request with the id of a task, and a caller that asked to   *)
(* wait has the task polled once a second until it has ended or the limit  *)
(* of the wait has passed (internal/tools/common.go WaitForTask, the ends  *)
(* of pve_qemu_clone, pve_lxc_clone and pve_lxc_create).                   *)
(* Time passes in ticks, for all calls alike; nobody is more than a tick   *)
(* late, so a tick does not pass while a time limit is due.                *)
(***************************************************************************)
EXTENDS Naturals

CONSTANTS
  Calls,      \* calls, each made once
  Waits,      \* those made with wait=true
  WaitLimit,  \* the wait: 30 s
  Interval,   \* the pause between two polls: 1 s
  Timeout,    \* the time limit of the Proxmox client: PVE_TIMEOUT_SECONDS
  None

TaskStates == {"running", "OK", "failed"}
Reports == {"initiated", "success", "failed", "still running", "wait error", "error"}
Active == {"post", "poll", "sleep"}

ASSUME WaitAssumption ==
  /\ Waits \subseteq Calls
  /\ WaitLimit \in Nat /\ Interval \in Nat \ {0} /\ Timeout \in Nat \ {0}
ASSUME NoneAssumption == None \notin TaskStates \union Reports

VARIABLES
  pc,       \* where the handler is: its request, a poll, or the pause before the next
  age,      \* ticks since that began
  waited,   \* ticks since WaitForTask began
  wire,     \* the request is on the way to Proxmox
  task,     \* the task at Proxmox
  read,     \* the status on its way back to a poll
  report,   \* what the caller was told
  gone      \* calls whose context is cancelled

callVars == <<pc, age, waited, wire, task, read, report, gone>>

CallTypeOK ==
  /\ pc \in [Calls -> Active \union {"idle", "answered", "cut"}]
  /\ age \in [Calls -> Nat] /\ waited \in [Calls -> Nat]
  /\ wire \in [Calls -> BOOLEAN]
  /\ task \in [Calls -> TaskStates \union {None}] /\ read \in [Calls -> TaskStates \union {None}]
  /\ report \in [Calls -> Reports \union {None}]
  /\ gone \subseteq Calls

CallInit ==
  /\ pc = [c \in Calls |-> "idle"]
  /\ age = [c \in Calls |-> 0] /\ waited = [c \in Calls |-> 0]
  /\ wire = [c \in Calls |-> FALSE]
  /\ task = [c \in Calls |-> None] /\ read = [c \in Calls |-> None]
  /\ report = [c \in Calls |-> None]
  /\ gone = {}

-----------------------------------------------------------------------------
(* The handler                                                             *)

\* The next request or pause begins.
Enter(c, where) ==
  /\ pc' = [pc EXCEPT ![c] = where]
  /\ age' = [age EXCEPT ![c] = 0]
  /\ read' = [read EXCEPT ![c] = None]

Report(c, what) ==
  /\ Enter(c, "answered")
  /\ report' = [report EXCEPT ![c] = what]

\* The guards have passed: the request is sent.
Begin(c) ==
  /\ pc[c] = "idle"
  /\ Enter(c, "post")
  /\ wire' = [wire EXCEPT ![c] = TRUE]
  /\ UNCHANGED <<waited, task, report, gone>>

\* (mutant: a client without a time limit)
PostUnlimited(c) ==
  /\ pc[c] = "post"
  /\ \/ task[c] # None /\ c \notin Waits /\ Report(c, "initiated") /\ UNCHANGED waited
     \/ task[c] # None /\ c \in Waits /\ Enter(c, "poll") /\ waited' = [waited EXCEPT ![c] = 0] /\ UNCHANGED report
     \/ task[c] = None /\ ~wire[c] /\ Report(c, "error") /\ UNCHANGED waited
  /\ UNCHANGED <<wire, task, gone>>

\* The answer is the id of a task, for a caller that waits or does not; or an
\* error, also when it is lost, late, or nobody's any more.
PostReply(c) ==
  /\ pc[c] = "post"
  /\ \/ task[c] # None /\ c \notin Waits /\ Report(c, "initiated") /\ UNCHANGED waited
     \/ task[c] # None /\ c \in Waits /\ Enter(c, "poll") /\ waited' = [waited EXCEPT ![c] = 0] /\ UNCHANGED report
     \/ Report(c, "error") /\ UNCHANGED waited
  /\ UNCHANGED <<wire, task, gone>>

\* (mutant: a task that has ended counts as done)
PollEnded(c) ==
  /\ pc[c] = "poll"
  /\ \/ read[c] \in {"OK", "failed"} /\ Report(c, "success")
     \/ read[c] = "running" /\ waited[c] > WaitLimit /\ Report(c, "still running")
     \/ read[c] = "running" /\ waited[c] <= WaitLimit /\ Enter(c, "sleep") /\ UNCHANGED report
     \/ Report(c, "wait error")
  /\ UNCHANGED <<waited, wire, task, gone>>

\* (mutant: the limit of the wait is not looked at)
PollOn(c) ==
  /\ pc[c] = "poll"
  /\ \/ read[c] = "OK" /\ Report(c, "success")
     \/ read[c] = "failed" /\ Report(c, "failed")
     \/ read[c] = "running" /\ Enter(c, "sleep") /\ UNCHANGED report
     \/ Report(c, "wait error")
  /\ UNCHANGED <<waited, wire, task, gone>>

\* The limit is looked at after each poll; one failed poll ends the wait.
PollReply(c) ==
  /\ pc[c] = "poll"
  /\ \/ read[c] = "OK" /\ Report(c, "success")
     \/ read[c] = "failed" /\ Report(c, "failed")
     \/ read[c] = "running" /\ waited[c] > WaitLimit /\ Report(c, "still running")
     \/ read[c] = "running" /\ waited[c] <= WaitLimit /\ Enter(c, "sleep") /\ UNCHANGED report
     \/ Report(c, "wait error")
  /\ UNCHANGED <<waited, wire, task, gone>>

\* The pause ends after its second, or with the context of the call.
Wake(c) ==
  /\ pc[c] = "sleep"
  /\ \/ age[c] = Interval /\ Enter(c, "poll") /\ UNCHANGED report
     \/ c \in gone /\ Report(c, "wait error")
  /\ UNCHANGED <<waited, wire, task, gone>>

Handle(c) == PostReply(c) \/ PollReply(c) \/ Wake(c)

-----------------------------------------------------------------------------
(* Proxmox, the caller and the clock                                       *)

\* The request is carried out, as a task, or refused.
Perform(c) ==
  /\ wire[c]
  /\ wire' = [wire EXCEPT ![c] = FALSE]
  /\ \/ task' = [task EXCEPT ![c] = "running"]
     \/ UNCHANGED task
  /\ UNCHANGED <<pc, age, waited, read, report, gone>>

TaskEnds(c) ==
  /\ task[c] = "running"
  /\ \E exit \in {"OK", "failed"} : task' = [task EXCEPT ![c] = exit]
  /\ UNCHANGED <<pc, age, waited, wire, read, report, gone>>

\* A poll is answered, with what may have changed when the answer arrives.
ServePoll(c) ==
  /\ pc[c] = "poll" /\ read[c] = None
  /\ read' = [read EXCEPT ![c] = task[c]]
  /\ UNCHANGED <<pc, age, waited, wire, task, report, gone>>

\* The caller drops the connection on which its answer is to come.
Leave(c) ==
  /\ pc[c] \in Active /\ c \notin gone
  /\ gone' = gone \union {c}
  /\ UNCHANGED <<pc, age, waited, wire, task, read, report>>

\* No request is older than the client's limit, no pause longer than a second.
NothingDue ==
  \A c \in Calls :
    /\ pc[c] \in {"post", "poll"} => age[c] < Timeout
    /\ pc[c] = "sleep" => age[c] < Interval

Aging ==
  /\ NothingDue
  /\ age' = [c \in Calls |-> IF pc[c] \in Active THEN age[c] + 1 ELSE age[c]]
  /\ waited' = [c \in Calls |-> IF pc[c] \in {"poll", "sleep"} THEN waited[c] + 1 ELSE waited[c]]
  /\ UNCHANGED <<pc, wire, task, read, report, gone>>

\* The process ends and takes the handlers with it.
CutOff ==
  /\ pc' = [c \in Calls |-> IF pc[c] \in Active THEN "cut" ELSE pc[c]]
  /\ UNCHANGED <<age, waited, wire, task, read, report, gone>>
=============================================================================
