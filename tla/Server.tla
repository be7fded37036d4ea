------------------------------- MODULE Server --------------------------------
(***************************************************************************)
(* The process (cmd/pve-mcp/main.go) and its end.  Over HTTP it serves     *)
(* until a signal, then shuts down the web UI, which has five seconds, and *)
(* the MCP server, which has what is left of ten; over stdio it serves     *)
(* until Listen returns, then shuts down the web UI.  The calls it serves  *)
(* are those of TaskWait.tla, whose waits last longer than all that.       *)
(***************************************************************************)
EXTENDS TaskWait

CONSTANTS
  Posts,          \* calls whose answer comes on the connection of their request
                  \* (the others are made in an SSE session, which has a
                  \* connection of its own)
  UILimit,        \* time limit of the web UI's shutdown: 5 s
  ShutdownLimit   \* time limit of the shutdown as a whole: 10 s

ASSUME ServerAssumption ==
  /\ Posts \subseteq Calls
  /\ UILimit \in Nat /\ ShutdownLimit \in Nat /\ UILimit < ShutdownLimit
  /\ None \notin {"ok", "failure", "killed"}

VARIABLES
  stdio,     \* the transport, chosen at the start
  phase,     \* "up", "leaving" (stdio only), "ui", "mcp", "exited"
  spent,     \* ticks since the shutdown began
  code,      \* how the process ended
  page,      \* a page's event stream: "none", "streaming", "stalled"
  session    \* an SSE session is open

processVars == <<stdio, phase, spent, code, page, session>>
vars == <<callVars, processVars>>

Codes == {"ok", "failure", "killed"}

TypeOK ==
  /\ CallTypeOK
  /\ stdio \in BOOLEAN
  /\ phase \in {"up", "leaving", "ui", "mcp", "exited"}
  /\ spent \in 0 .. ShutdownLimit
  /\ code \in Codes \union {None}
  /\ page \in {"none", "streaming", "stalled"}
  /\ session \in BOOLEAN

Init ==
  /\ CallInit
  /\ stdio \in BOOLEAN
  /\ phase = "up" /\ spent = 0 /\ code = None
  /\ page = "none" /\ session = FALSE

-----------------------------------------------------------------------------
(* Connections                                                             *)

\* The MCP server's listener closes with its own shutdown, not the web UI's.
Listening == phase = "up" \/ (phase = "ui" /\ ~stdio)

Accept(c) ==
  /\ Listening
  /\ c \in Posts \/ stdio \/ session
  /\ Begin(c)
  /\ UNCHANGED processVars

\* The end of a connection cancels the context of a call that answers on it.
HangUp(c) ==
  /\ c \in Posts /\ ~stdio /\ phase # "exited"
  /\ Leave(c)
  /\ UNCHANGED processVars

\* A session is opened and closed by its client, or closed by Shutdown.
OpenSession ==
  /\ Listening /\ ~stdio /\ ~session
  /\ session' = TRUE
  /\ UNCHANGED <<callVars, stdio, phase, spent, code, page>>

CloseSession ==
  /\ session /\ phase # "exited"
  /\ session' = FALSE
  /\ UNCHANGED <<callVars, stdio, phase, spent, code, page>>

\* A page's event stream, whose browser may stop to take data.
PageMoves ==
  /\ \/ phase = "up" /\ page = "none" /\ page' = "streaming"
     \/ phase \in {"up", "ui"} /\ page = "streaming" /\ page' = "stalled"
     \/ phase \in {"up", "ui"} /\ page = "stalled" /\ page' = "streaming"
     \/ phase \in {"up", "ui"} /\ page # "none" /\ page' = "none"
  /\ UNCHANGED <<callVars, stdio, phase, spent, code, session>>

\* Buffer.Close ends a stream, unless a write to its browser blocks.
StreamEnds ==
  /\ phase = "ui" /\ page = "streaming"
  /\ page' = "none"
  /\ UNCHANGED <<callVars, stdio, phase, spent, code, session>>

-----------------------------------------------------------------------------
(* main                                                                    *)

Exit(how) ==
  /\ phase' = "exited" /\ code' = how
  /\ page' = "none" /\ session' = FALSE
  /\ CutOff
  /\ UNCHANGED <<stdio, spent>>

\* The signal, over HTTP; a second one stays in the channel.
Interrupt ==
  /\ ~stdio /\ phase = "up"
  /\ phase' = "ui" /\ spent' = 0
  /\ UNCHANGED <<callVars, stdio, code, page, session>>

\* The MCP server's listener fails: nothing is shut down.
ListenerFails ==
  /\ ~stdio /\ phase = "up"
  /\ Exit("failure")

\* Over stdio, a signal cancels the context of Listen and of its calls, and the
\* end of the input ends it.
StopListening ==
  /\ stdio /\ phase = "up"
  /\ phase' = "leaving"
  /\ gone' \in {gone, Calls}
  /\ UNCHANGED <<pc, age, waited, wire, task, read, report, stdio, spent, code, page, session>>

\* Listen returns, with or without waiting for the calls, or fails.
ListenReturns ==
  /\ phase = "leaving"
  /\ \/ /\ phase' = "ui" /\ spent' = 0
        /\ gone' = Calls
        /\ UNCHANGED <<pc, age, waited, wire, task, read, report, stdio, code, page, session>>
     \/ Exit("failure")

\* Signals have their default effect again.
Kill ==
  /\ stdio /\ phase = "ui"
  /\ Exit("killed")

\* stopUI returns: no stream is left, or its time is up.
StopUI ==
  /\ phase = "ui"
  /\ page = "none" \/ spent = UILimit
  /\ IF stdio THEN Exit("ok")
     ELSE phase' = "mcp" /\ page' = "none" /\ UNCHANGED <<callVars, stdio, spent, code, session>>

\* What http.Shutdown waits for: requests in flight, among them the sessions'.
Quiescent == ~session /\ \A c \in Posts : pc[c] \notin Active

\* (mutant: the error of Shutdown is dropped)
ShutdownRegardless ==
  /\ phase = "mcp"
  /\ Quiescent \/ spent = ShutdownLimit
  /\ Exit("ok")

\* srv.Shutdown returns.
Shutdown ==
  /\ phase = "mcp"
  /\ \/ Quiescent /\ Exit("ok")
     \/ spent = ShutdownLimit /\ Exit("failure")

Tick ==
  /\ phase # "exited"
  /\ phase = "ui" => spent < UILimit
  /\ phase = "mcp" => spent < ShutdownLimit
  /\ Aging
  /\ spent' = IF phase \in {"ui", "mcp"} THEN spent + 1 ELSE spent
  /\ UNCHANGED <<stdio, phase, code, page, session>>

-----------------------------------------------------------------------------
HandlerSteps(c) == phase # "exited" /\ Handle(c) /\ UNCHANGED processVars

\* What Proxmox does after the end of the process is nobody's concern here.
ProxmoxSteps(c) ==
  phase # "exited" /\ (Perform(c) \/ TaskEnds(c) \/ ServePoll(c)) /\ UNCHANGED processVars

Next ==
  \/ \E c \in Calls : Accept(c) \/ HangUp(c) \/ HandlerSteps(c) \/ ProxmoxSteps(c)
  \/ OpenSession \/ CloseSession \/ PageMoves \/ StreamEnds
  \/ Interrupt \/ ListenerFails \/ StopListening \/ ListenReturns \/ Kill \/ StopUI \/ Shutdown
  \/ Tick

Spec == Init /\ [][Next]_vars

\* The process and its handlers run, time passes, and Listen returns when it
\* has been told to; Proxmox, clients, browsers and signals owe nothing.
Fairness ==
  /\ \A c \in Calls : WF_vars(HandlerSteps(c))
  /\ WF_vars(ListenReturns) /\ WF_vars(StopUI) /\ WF_vars(Shutdown)
  /\ WF_vars(Tick)

FairSpec == Spec /\ Fairness
=============================================================================
