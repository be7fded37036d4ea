-------------------------- MODULE ServerProperties ---------------------------
(***************************************************************************)
(* What callers that wait for a task, and whoever stops the server, can    *)
(* rely on.                                                                *)
(***************************************************************************)
EXTENDS Server

\* Reports tell the truth about the task, although they may come from an
\* answer that was on its way: a success is one for good, a failure of the task
\* too, a task was started whenever an id is given, also when a poll failed,
\* and "still running" is only said when the time of the wait is over.  An
\* error of the request itself says nothing: the task may run (qemu.go:584-602,
\* common.go:312-343).
ReportIsTrue(c) ==
  /\ report[c] = "success" => task[c] = "OK"
  /\ report[c] = "failed" => task[c] = "failed"
  /\ report[c] \in {"initiated", "wait error", "still running"} => task[c] # None
  /\ report[c] = "still running" => waited[c] > WaitLimit

ReportsAreTrue == \A c \in Calls : ReportIsTrue(c)

\* A wait "of 30 s" may last longer, since its limit is looked at between polls
\* only, but not longer than one pause and one poll that is never answered
\* (common.go:320-342, client.go:91).
WaitsAreBounded == \A c \in Calls : waited[c] <= WaitLimit + Interval + Timeout

\* The process ends as GracefulStop promises (main.go:190-241): within the ten
\* seconds that start before the web UI's five, with an exit code that tells
\* whether a caller was cut off, calls being served until the MCP server's own
\* shutdown.
Caller(c) == c \in Posts /\ ~stdio
Pending == {c \in Calls : Caller(c) /\ pc[c] \in Active}
Broken == {c \in Calls : Caller(c) /\ pc[c] = "cut"}
State == IF phase \in {"up", "leaving"} THEN "serving"
         ELSE IF phase = "exited" THEN "stopped" ELSE "stopping"

GS == INSTANCE GracefulStop WITH
  Callers <- Posts, Limit <- ShutdownLimit, state <- State, elapsed <- spent,
  verdict <- code, pending <- Pending, broken <- Broken

ImplementsGracefulStop == GS!Spec

\* Every call that was accepted is answered, or cut off by the end of the
\* process, although Proxmox, the caller and the task may never move again.
CallsConclude == \A c \in Calls : pc[c] \in Active ~> pc[c] \in {"answered", "cut"}

-----------------------------------------------------------------------------
(* The inductive invariant.                                                *)

\* A handler's timers, and what it knows of its task.
CallInv(c) ==
  /\ pc[c] \in {"post", "poll"} => age[c] <= Timeout
  /\ pc[c] = "sleep" => age[c] <= Interval /\ waited[c] <= WaitLimit + age[c]
  /\ pc[c] = "poll" => waited[c] <= WaitLimit + Interval + age[c]
  /\ waited[c] <= WaitLimit + Interval + Timeout
  /\ task[c] # None => ~wire[c]
  /\ pc[c] = "idle" => ~wire[c] /\ task[c] = None
  /\ pc[c] \in {"poll", "sleep"} => task[c] # None
  /\ read[c] # None /\ read[c] # "running" => read[c] = task[c]
  /\ report[c] # None => pc[c] = "answered"

\* The shutdown's timers, and what each phase has put an end to.
StopInv ==
  /\ phase = "ui" => spent <= UILimit
  /\ phase = "leaving" => stdio
  /\ phase = "mcp" => ~stdio
  /\ phase \in {"up", "leaving"} => spent = 0
  /\ phase # "exited" <=> code = None
  /\ phase = "exited" => \A c \in Calls : pc[c] \notin Active
  /\ phase # "exited" => \A c \in Calls : pc[c] # "cut"

ServerInv ==
  /\ TypeOK
  /\ \A c \in Calls : CallInv(c)
  /\ ReportsAreTrue
  /\ StopInv
=============================================================================
