---------------------------- MODULE LogProperties ----------------------------
(***************************************************************************)
(* What the log buffer and the event streams of LogBuffer.tla guarantee.   *)
(***************************************************************************)
EXTENDS LogBuffer

\* Whatever the order of Add, cancel and Close, each channel is closed once and
\* nothing is sent to it afterwards: either would panic the whole server
\* (logbuffer.go:84-91, 119-126, 139-152).
NoPanic == ~panicked

\* The entries of q are those that follow entry b, one by one.
Follow(q, b) == \A i \in 1 .. Len(q) : q[i] = b + i

\* What was sent to a stream and what is on its way to it, in order.
Pending(s) == sent[s] \o history[s] \o chan[s].queue

\* Snapshot, queue and what was sent fit together without a gap or a repetition,
\* and they reach up to the newest entry as long as the stream is subscribed: a
\* stream misses an entry only if it is cut off (logbuffer.go:84-91, 108-117).
SubscribersMissNothing ==
  \A s \in Streams :
    phase[s] = "open" =>
      /\ Follow(Pending(s), base[s])
      /\ s \in subs => base[s] + Len(Pending(s)) = nextID

WatcherState(s) ==
  CASE phase[s] = "idle" -> "away"
    [] phase[s] = "open" -> "watching"
    [] OTHER -> "ended"

Log == INSTANCE EventLog WITH
  Watchers <- Streams, Capacity <- BufferCapacity,
  last <- nextID, shown <- sent, state <- [s \in Streams |-> WatcherState(s)]

\* To each browser the ring, the channels and the handlers are one log of which
\* it is shown a stretch (server.go:325-375).
ImplementsEventLog == Log!Spec

\* A stream that was cut off by a full queue, that was closed at shutdown, or
\* whose browser has left, returns and gives up its channel - unless its browser
\* holds the connection and takes no data (server.go:356-374, logbuffer.go:139-152).
StreamsEnd ==
  \A s \in Streams :
    phase[s] # "idle" /\ (closed \/ s \notin subs \/ client[s] = "gone")
      ~> phase[s] = "done" \/ client[s] = "stalled"

-----------------------------------------------------------------------------
(* The inductive invariant.                                                *)

\* The ring holds the newest entries, oldest first.
RingInv ==
  /\ DOMAIN ring = IF closed THEN {} ELSE 0 .. BufferCapacity - 1
  /\ closed => count = 0
  /\ count <= nextID
  /\ \A n \in 0 .. count - 1 : ring[Slot(n)] = nextID - count + n + 1

\* A subscribed channel is open and its handler has not cancelled it.
SubsInv ==
  /\ ~panicked
  /\ closed => subs = {}
  /\ \A s \in subs : chan[s].open /\ phase[s] \in {"open", "returned"}

\* What was sent, what is left of the snapshot and what is queued follow one
\* another up to the point where the stream was cut off.
StreamInv(s) ==
  /\ phase[s] = "idle" => sent[s] = <<>>
  /\ phase[s] = "open" =>
       /\ Follow(sent[s], base[s])
       /\ Follow(history[s], base[s] + Len(sent[s]))
       /\ Follow(chan[s].queue, base[s] + Len(sent[s]) + Len(history[s]))
       /\ base[s] + Len(sent[s]) + Len(history[s]) + Len(chan[s].queue) <= nextID
       /\ s \in subs =>
            base[s] + Len(sent[s]) + Len(history[s]) + Len(chan[s].queue) = nextID

LogInv == TypeOK /\ RingInv /\ SubsInv /\ \A s \in Streams : StreamInv(s)
=============================================================================
