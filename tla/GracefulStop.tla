---------------------------- MODULE GracefulStop -----------------------------
(***************************************************************************)
(* What the process promises about its end: once it is told to stop it     *)
(* ends within Limit ticks; it says that all is well only if no caller is  *)
(* left without the answer it is waiting for, and it cuts callers off only *)
(* when that time is up, or when it could not serve in the first place.    *)
(***************************************************************************)
EXTENDS Naturals

CONSTANTS Callers, Limit, None

VARIABLES
  state,     \* "serving", "stopping", "stopped"
  elapsed,   \* ticks since it was told to stop
  verdict,   \* how it says it ended
  pending,   \* callers waiting for their answer
  broken     \* callers cut off

svars == <<state, elapsed, verdict, pending, broken>>

Init ==
  /\ state = "serving" /\ elapsed = 0 /\ verdict = None
  /\ pending = {} /\ broken = {}

Accept(c) ==
  /\ state # "stopped" /\ c \notin pending
  /\ pending' = pending \union {c}
  /\ UNCHANGED <<state, elapsed, verdict, broken>>

Finish(c) ==
  /\ state # "stopped" /\ c \in pending
  /\ pending' = pending \ {c}
  /\ UNCHANGED <<state, elapsed, verdict, broken>>

AskToStop ==
  /\ state = "serving"
  /\ state' = "stopping" /\ elapsed' = 0
  /\ UNCHANGED <<verdict, pending, broken>>

Pass ==
  /\ state = "stopping" /\ elapsed < Limit
  /\ elapsed' = elapsed + 1
  /\ UNCHANGED <<state, verdict, pending, broken>>

Stop(how) ==
  /\ state' = "stopped" /\ verdict' = how
  /\ broken' = pending /\ pending' = {}
  /\ UNCHANGED elapsed

StopCleanly == state = "stopping" /\ pending = {} /\ Stop("ok")

GiveUp == state = "stopping" /\ elapsed = Limit /\ Stop("failure")

\* A second signal, for a process that answers on its output only.
BeKilled == state = "stopping" /\ pending = {} /\ Stop("killed")

Fail == state = "serving" /\ Stop("failure")

Next ==
  \/ \E c \in Callers : Accept(c) \/ Finish(c)
  \/ AskToStop \/ Pass \/ StopCleanly \/ GiveUp \/ BeKilled \/ Fail

Safety == Init /\ [][Next]_svars

Spec == Safety /\ WF_svars(Pass \/ StopCleanly \/ GiveUp)
=============================================================================
