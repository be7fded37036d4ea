------------------------------ MODULE EventLog -------------------------------
(***************************************************************************)
(* What the server's activity log promises to those who watch it: entries  *)
(* are numbered one by one, and a watcher is shown a stretch of the log    *)
(* without a gap, a repetition or a disorder.  The stretch begins at most  *)
(* Capacity entries before the watcher came and ends where it ends.        *)
(***************************************************************************)
EXTENDS Integers, Sequences

CONSTANTS Watchers, Capacity

VARIABLES
  last,     \* number of the newest entry
  closed,   \* the server is shutting down
  base,     \* the newest entry the watcher is too late for
  shown,    \* the entries it was shown
  state     \* "away", "watching" or "ended"

vars == <<last, closed, base, shown, state>>

Init ==
  /\ last = 0
  /\ closed = FALSE
  /\ base = [w \in Watchers |-> 0]
  /\ shown = [w \in Watchers |-> <<>>]
  /\ state = [w \in Watchers |-> "away"]

Add ==
  /\ ~closed
  /\ last' = last + 1
  /\ UNCHANGED <<closed, base, shown, state>>

Watch(w) ==
  /\ state[w] = "away"
  /\ state' = [state EXCEPT ![w] = "watching"]
  /\ base'[w] \in last - Capacity .. last
  /\ base' = [base EXCEPT ![w] = base'[w]]
  /\ UNCHANGED <<last, closed, shown>>

Show(w) ==
  /\ state[w] = "watching"
  /\ base[w] + Len(shown[w]) < last
  /\ shown' = [shown EXCEPT ![w] = Append(@, base[w] + Len(@) + 1)]
  /\ UNCHANGED <<last, closed, base, state>>

End(w) ==
  /\ state[w] = "watching"
  /\ state' = [state EXCEPT ![w] = "ended"]
  /\ UNCHANGED <<last, closed, base, shown>>

Close == closed' = TRUE /\ UNCHANGED <<last, base, shown, state>>

Next == Add \/ Close \/ \E w \in Watchers : Watch(w) \/ Show(w) \/ End(w)

Spec == Init /\ [][Next]_vars
=============================================================================
