------------------------------ MODULE LogBuffer ------------------------------
(***************************************************************************)
(* The activity log of internal/webui: a ring of entries with subscriber   *)
(* channels (logbuffer.go) and the event streams of the web UI that read   *)
(* them (handleStream of server.go).  The buffer's methods hold its mutex  *)
(* and are one step each; a stream's receives, writes and return are not   *)
(* under the mutex.  An entry is its id.                                   *)
(***************************************************************************)
EXTENDS Naturals, Sequences

CONSTANTS
  Streams,           \* requests for the event stream, each made once
  BufferCapacity,    \* entries the ring holds
  subscriberQueue,   \* capacity of a subscriber's channel
  MaxID              \* bound: entries added

ASSUME LogAssumption ==
  /\ BufferCapacity \in Nat \ {0} /\ subscriberQueue \in Nat \ {0}
  /\ MaxID \in Nat

VARIABLES
  ring, start, count, nextID, closed, subs,   \* the fields of Buffer
  chan,       \* a stream's channel: what is queued in it, and whether it is open
  phase,      \* its handler: "idle", "open", "returned" (cancel is deferred) or "done"
  history,    \* what the handler has yet to write of the snapshot
  client,     \* the browser: "reading", "stalled" (takes no more data) or "gone"
  panicked,   \* a channel was closed twice or sent to after its close
  \* history variables
  sent,       \* what was written to the browser
  base        \* id of the newest entry older than the snapshot

bufferVars == <<ring, start, count, nextID, closed>>
vars == <<ring, start, count, nextID, closed, subs, chan, phase, history, client, panicked, sent, base>>

IDs == 0 .. MaxID
Channels == [queue : Seq(IDs), open : BOOLEAN]

TypeOK ==
  /\ ring \in [DOMAIN ring -> IDs] /\ DOMAIN ring \in {0 .. BufferCapacity - 1, {}}
  /\ start \in 0 .. BufferCapacity - 1 /\ count \in 0 .. BufferCapacity
  /\ nextID \in IDs /\ closed \in BOOLEAN
  /\ subs \subseteq Streams
  /\ chan \in [Streams -> Channels]
  /\ phase \in [Streams -> {"idle", "open", "returned", "done"}]
  /\ history \in [Streams -> Seq(IDs)] /\ sent \in [Streams -> Seq(IDs)]
  /\ client \in [Streams -> {"reading", "stalled", "gone"}]
  /\ panicked \in BOOLEAN
  /\ base \in [Streams -> IDs]

Init ==
  /\ ring = [i \in 0 .. BufferCapacity - 1 |-> 0]
  /\ start = 0 /\ count = 0 /\ nextID = 0 /\ closed = FALSE
  /\ subs = {}
  /\ chan = [s \in Streams |-> [queue |-> <<>>, open |-> FALSE]]
  /\ phase = [s \in Streams |-> "idle"]
  /\ history = [s \in Streams |-> <<>>]
  /\ client = [s \in Streams |-> "reading"]
  /\ panicked = FALSE
  /\ sent = [s \in Streams |-> <<>>]
  /\ base = [s \in Streams |-> 0]

-----------------------------------------------------------------------------
(* Buffer                                                                  *)

\* The slot n places after the oldest entry.
Slot(n) == (start + n) % BufferCapacity

HasRoom(ch) == Len(ch.queue) < subscriberQueue

\* (mutant: a channel that is full is forgotten and stays open)
ForgetWhenFull(ch, e) == IF HasRoom(ch) THEN [ch EXCEPT !.queue = Append(@, e)] ELSE ch

\* The non-blocking send: a channel that is full is closed.
Offer(ch, e) ==
  IF HasRoom(ch) THEN [ch EXCEPT !.queue = Append(@, e)] ELSE [ch EXCEPT !.open = FALSE]

\* (mutant: an entry that replaces the oldest one does not move the start)
StoreInPlace(e) ==
  /\ ring' = [ring EXCEPT ![IF count < BufferCapacity THEN Slot(count) ELSE start] = e]
  /\ count' = IF count < BufferCapacity THEN count + 1 ELSE count
  /\ start' = start

\* The entry takes the next free slot, or the oldest entry's.
Store(e) ==
  IF count < BufferCapacity
  THEN /\ ring' = [ring EXCEPT ![Slot(count)] = e]
       /\ count' = count + 1
       /\ start' = start
  ELSE /\ ring' = [ring EXCEPT ![start] = e]
       /\ count' = count
       /\ start' = (start + 1) % BufferCapacity

\* (mutant: a subscriber whose channel is full misses the entry)
AddSkipping ==
  /\ ~closed /\ nextID < MaxID
  /\ nextID' = nextID + 1
  /\ Store(nextID')
  /\ chan' = [s \in Streams |->
                IF s \in subs /\ HasRoom(chan[s]) THEN Offer(chan[s], nextID') ELSE chan[s]]
  /\ UNCHANGED <<closed, subs, phase, history, client, panicked, sent, base>>

\* After Close, Add does nothing.
Add ==
  /\ ~closed /\ nextID < MaxID
  /\ nextID' = nextID + 1
  /\ Store(nextID')
  /\ panicked' = (panicked \/ \E s \in subs : ~chan[s].open)
  /\ chan' = [s \in Streams |-> IF s \in subs THEN Offer(chan[s], nextID') ELSE chan[s]]
  /\ subs' = {s \in subs : HasRoom(chan[s])}
  /\ UNCHANGED <<closed, phase, history, client, sent, base>>

Snapshot == [n \in 1 .. count |-> ring[Slot(n - 1)]]

\* Ids go on after a Clear.
Clear ==
  /\ ring' = [i \in DOMAIN ring |-> 0]
  /\ start' = 0 /\ count' = 0
  /\ UNCHANGED <<nextID, closed, subs, chan, phase, history, client, panicked, sent, base>>

\* Called by Shutdown of the web UI's server.
Close ==
  /\ ~closed
  /\ closed' = TRUE
  /\ panicked' = (panicked \/ \E s \in subs : ~chan[s].open)
  /\ chan' = [s \in Streams |-> IF s \in subs THEN [chan[s] EXCEPT !.open = FALSE] ELSE chan[s]]
  /\ subs' = {}
  /\ ring' = [i \in {} |-> 0] /\ start' = 0 /\ count' = 0
  /\ UNCHANGED <<nextID, phase, history, client, sent, base>>

-----------------------------------------------------------------------------
(* A stream: subscribe, write the snapshot, then entries as they come.     *)

\* One lock covers the snapshot and the registration.
Subscribe(s) ==
  /\ phase[s] = "idle"
  /\ phase' = [phase EXCEPT ![s] = "open"]
  /\ history' = [history EXCEPT ![s] = Snapshot]
  /\ chan' = [chan EXCEPT ![s] = [queue |-> <<>>, open |-> ~closed]]
  /\ subs' = IF closed THEN subs ELSE subs \union {s}
  /\ base' = [base EXCEPT ![s] = nextID - count]
  /\ UNCHANGED <<bufferVars, client, panicked, sent>>

Return(s) == phase' = [phase EXCEPT ![s] = "returned"] /\ UNCHANGED sent

\* A write to a browser that has gone may fail, and then the handler returns.
Send(s, e) ==
  \/ sent' = [sent EXCEPT ![s] = Append(@, e)] /\ UNCHANGED phase
  \/ client[s] = "gone" /\ Return(s)

SendHistory(s) ==
  /\ phase[s] = "open" /\ history[s] # <<>>
  /\ history' = [history EXCEPT ![s] = Tail(@)]
  /\ Send(s, Head(history[s]))
  /\ UNCHANGED <<bufferVars, subs, chan, client, panicked, base>>

\* (mutant: live entries are taken while the snapshot is written)
InLoopAtOnce(s) == phase[s] = "open"

InLoop(s) == phase[s] = "open" /\ history[s] = <<>>

\* What is queued in a closed channel is received before its close is.
Receive(s) ==
  /\ InLoop(s)
  /\ IF chan[s].queue # <<>>
     THEN chan' = [chan EXCEPT ![s].queue = Tail(@)] /\ Send(s, Head(chan[s].queue))
     ELSE ~chan[s].open /\ Return(s) /\ UNCHANGED chan
  /\ UNCHANGED <<bufferVars, subs, history, client, panicked, base>>

\* The request's context ends, or the heartbeat cannot be written.
NoticeGone(s) ==
  /\ InLoop(s) /\ client[s] = "gone"
  /\ Return(s)
  /\ UNCHANGED <<bufferVars, subs, chan, history, client, panicked, base>>

\* (mutant: the channel is closed without asking whether it still is subscribed)
CancelAnyway(s) ==
  /\ phase[s] = "returned"
  /\ phase' = [phase EXCEPT ![s] = "done"]
  /\ panicked' = (panicked \/ ~chan[s].open)
  /\ chan' = [chan EXCEPT ![s].open = FALSE]
  /\ subs' = subs \ {s}
  /\ UNCHANGED <<bufferVars, history, client, sent, base>>

\* The deferred cancel: Add or Close may have closed the channel already.
Cancel(s) ==
  /\ phase[s] = "returned"
  /\ phase' = [phase EXCEPT ![s] = "done"]
  /\ IF s \in subs
     THEN /\ panicked' = (panicked \/ ~chan[s].open)
          /\ chan' = [chan EXCEPT ![s].open = FALSE]
          /\ subs' = subs \ {s}
     ELSE UNCHANGED <<panicked, chan, subs>>
  /\ UNCHANGED <<bufferVars, history, client, sent, base>>

Stream(s) == SendHistory(s) \/ Receive(s) \/ Cancel(s)

\* A browser stops reading, goes on, or leaves.
Browser(s) ==
  /\ phase[s] = "open" /\ client[s] # "gone"
  /\ \E c \in {"reading", "stalled", "gone"} \ {client[s]} : client' = [client EXCEPT ![s] = c]
  /\ UNCHANGED <<bufferVars, subs, chan, phase, history, panicked, sent, base>>

-----------------------------------------------------------------------------
Next ==
  \/ Add \/ Clear \/ Close
  \/ \E s \in Streams : Subscribe(s) \/ Stream(s) \/ NoticeGone(s) \/ Browser(s)

Spec == Init /\ [][Next]_vars

\* A handler whose writes do not block goes on, and one whose browser has gone
\* learns of it.  A browser that takes no data may block its handler for ever:
\* the server sets no time limit for writes.
FairSpec ==
  /\ Spec
  /\ \A s \in Streams :
       WF_vars(client[s] # "stalled" /\ Stream(s)) /\ WF_vars(NoticeGone(s))
=============================================================================
