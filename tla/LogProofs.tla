------------------------------ MODULE LogProofs ------------------------------
(***************************************************************************)
(* Proofs about LogBuffer.tla for every number of streams and entries and  *)
(* every capacity of the ring and of the channels.                         *)
(***************************************************************************)
EXTENDS LogProperties, TLAPS

\* Moving the start by one moves every slot by one.
LEMMA Rotate ==
  ASSUME NEW cap \in Nat \ {0}, NEW st \in 0 .. cap - 1, NEW n \in 0 .. cap - 1
  PROVE  (((st + 1) % cap) + n) % cap = (st + (n + 1)) % cap
<1>1. CASE st + 1 < cap
  <2>1. (st + 1) % cap = st + 1
    BY <1>1
  <2> QED BY <2>1
<1>2. CASE st + 1 = cap
  <2>1. (st + 1) % cap = 0
    BY <1>2
  <2>2. n % cap = n
    OBVIOUS
  <2>3. (st + (n + 1)) % cap = n
    BY <1>2
  <2> QED BY <2>1, <2>2, <2>3
<1> QED BY <1>1, <1>2

\* The slots in use are slots, and different ones.
LEMMA Slots ==
  ASSUME TypeOK, NEW n \in 0 .. BufferCapacity
  PROVE  /\ Slot(n) \in 0 .. BufferCapacity - 1
         /\ Slot(n) = IF start + n < BufferCapacity THEN start + n ELSE start + n - BufferCapacity
<1>1. start \in Nat /\ start < BufferCapacity /\ BufferCapacity \in Nat \ {0}
  BY LogAssumption DEF TypeOK
<1>2. start + n \in Nat /\ start + n < 2 * BufferCapacity
  BY <1>1
<1>3. start + n < BufferCapacity => Slot(n) = start + n
  BY <1>1, <1>2 DEF Slot
<1>4. BufferCapacity <= start + n => Slot(n) = start + n - BufferCapacity
  BY <1>1, <1>2 DEF Slot
<1> QED BY <1>1, <1>2, <1>3, <1>4

\* Taking the first entry of a stretch leaves the rest of it.
LEMMA FollowTail ==
  ASSUME NEW q \in Seq(IDs), NEW b \in Nat, Follow(q, b), q # <<>>
  PROVE  /\ Head(q) = b + 1 /\ Head(q) \in IDs
         /\ Tail(q) \in Seq(IDs) /\ Len(q) = Len(Tail(q)) + 1 /\ Len(Tail(q)) \in Nat
         /\ Follow(Tail(q), b + 1)
<1>1. Len(q) \in Nat /\ Len(q) > 0 /\ Head(q) = q[1] /\ q[1] \in IDs
  OBVIOUS
<1>2. Tail(q) \in Seq(IDs) /\ Len(Tail(q)) = Len(q) - 1
  OBVIOUS
<1>3. \A i \in 1 .. Len(Tail(q)) : Tail(q)[i] = q[i + 1] /\ i + 1 \in 1 .. Len(q)
  OBVIOUS
<1> QED BY <1>1, <1>2, <1>3 DEF Follow

\* The next entry prolongs a stretch.
LEMMA FollowAppend ==
  ASSUME NEW q \in Seq(IDs), NEW b \in Nat, Follow(q, b), NEW e \in IDs, e = b + Len(q) + 1
  PROVE  /\ Append(q, e) \in Seq(IDs) /\ Len(Append(q, e)) = Len(q) + 1
         /\ Follow(Append(q, e), b)
<1>1. Append(q, e) \in Seq(IDs) /\ Len(Append(q, e)) = Len(q) + 1 /\ Len(q) \in Nat
  OBVIOUS
<1>2. \A i \in 1 .. Len(q) : Append(q, e)[i] = q[i]
  OBVIOUS
<1>3. Append(q, e)[Len(q) + 1] = e
  OBVIOUS
<1> QED BY <1>1, <1>2, <1>3 DEF Follow

\* Two stretches, one after the other, are one.
LEMMA FollowConcat ==
  ASSUME NEW p \in Seq(IDs), NEW q \in Seq(IDs), NEW b \in Nat,
         Follow(p, b), Follow(q, b + Len(p))
  PROVE  /\ p \o q \in Seq(IDs) /\ Len(p \o q) = Len(p) + Len(q)
         /\ Follow(p \o q, b)
<1>1. p \o q \in Seq(IDs) /\ Len(p \o q) = Len(p) + Len(q) /\ Len(p) \in Nat /\ Len(q) \in Nat
  OBVIOUS
<1>2. \A i \in 1 .. Len(p) : (p \o q)[i] = p[i]
  OBVIOUS
<1>3. \A i \in Len(p) + 1 .. Len(p) + Len(q) : (p \o q)[i] = q[i - Len(p)] /\ i - Len(p) \in 1 .. Len(q)
  OBVIOUS
<1> QED BY <1>1, <1>2, <1>3 DEF Follow

-----------------------------------------------------------------------------
(* The ring                                                                *)

\* The new entry finds its slot and the ring holds the newest entries again.
LEMMA StoreInv ==
  ASSUME TypeOK, RingInv, ~closed, nextID < MaxID, nextID' = nextID + 1, Store(nextID')
  PROVE  /\ ring' \in [DOMAIN ring' -> IDs] /\ DOMAIN ring' = 0 .. BufferCapacity - 1
         /\ start' \in 0 .. BufferCapacity - 1 /\ count' \in 0 .. BufferCapacity
         /\ count' <= nextID'
         /\ \A n \in 0 .. count' - 1 : ring'[Slot(n)'] = nextID' - count' + n + 1
<1>1. ring \in [0 .. BufferCapacity - 1 -> IDs] /\ nextID' \in IDs /\ DOMAIN ring = 0 .. BufferCapacity - 1
  BY LogAssumption DEF TypeOK, RingInv, IDs
<1>a. /\ BufferCapacity \in Nat \ {0} /\ start \in 0 .. BufferCapacity - 1
      /\ count \in 0 .. BufferCapacity /\ nextID \in Nat /\ count <= nextID
  BY LogAssumption DEF TypeOK, RingInv, IDs
<1>2. CASE count < BufferCapacity
  <2>1. ring' = [ring EXCEPT ![Slot(count)] = nextID'] /\ count' = count + 1 /\ start' = start
    BY <1>2 DEF Store
  <2>2. \A n \in 0 .. count : Slot(n)' = Slot(n)
    BY <2>1 DEF Slot
  <2>3. Slot(count) \in 0 .. BufferCapacity - 1
    BY Slots, <1>2 DEF TypeOK
  <2>4. \A n \in 0 .. count - 1 : Slot(n) # Slot(count) /\ Slot(n) \in 0 .. BufferCapacity - 1
    <3> SUFFICES ASSUME NEW n \in 0 .. count - 1
                 PROVE  Slot(n) # Slot(count) /\ Slot(n) \in 0 .. BufferCapacity - 1
      OBVIOUS
    <3>1. n \in 0 .. BufferCapacity /\ count \in 0 .. BufferCapacity
      BY LogAssumption DEF TypeOK
    <3> QED BY <3>1, Slots, <1>2, LogAssumption DEF TypeOK
  <2>5. \A n \in 0 .. count' - 1 : ring'[Slot(n)'] = nextID' - count' + n + 1
    <3> SUFFICES ASSUME NEW n \in 0 .. count' - 1 PROVE ring'[Slot(n)'] = nextID' - count' + n + 1
      OBVIOUS
    <3>1. CASE n = count
      BY <3>1, <1>1, <2>1, <2>2, <2>3 DEF TypeOK, IDs
    <3>2. CASE n # count
      <4>1. n \in 0 .. count - 1 /\ Slot(n)' = Slot(n)
        BY <3>2, <2>1, <2>2, LogAssumption DEF TypeOK
      <4>2. ring'[Slot(n)'] = ring[Slot(n)]
        BY <4>1, <2>1, <2>4, <1>1
      <4> QED BY <4>1, <4>2, <2>1 DEF RingInv, TypeOK, IDs
    <3> QED BY <3>1, <3>2
  <2> QED BY <1>1, <1>2, <2>1, <2>3, <2>5, LogAssumption DEF TypeOK, RingInv, IDs
<1>3. CASE ~(count < BufferCapacity)
  <2>1. ring' = [ring EXCEPT ![start] = nextID'] /\ count' = count /\ start' = (start + 1) % BufferCapacity
    BY <1>3 DEF Store
  <2>2. count = BufferCapacity
    BY <1>3, LogAssumption DEF TypeOK
  <2>3. \A n \in 0 .. BufferCapacity - 1 : Slot(n)' = Slot(n + 1)
    BY <1>a, <2>1, Rotate DEF Slot
  <2>4. start' \in 0 .. BufferCapacity - 1
    BY <1>a, <2>1
  <2>6. \A n \in 0 .. count' - 1 : ring'[Slot(n)'] = nextID' - count' + n + 1
    <3> SUFFICES ASSUME NEW n \in 0 .. BufferCapacity - 1 PROVE ring'[Slot(n)'] = nextID' - count' + n + 1
      BY <2>1, <2>2
    <3> n + 1 \in 0 .. BufferCapacity /\ Slot(n)' = Slot(n + 1)
      BY <1>a, <2>3
    <3>1. CASE n = BufferCapacity - 1
      <4>1. Slot(n + 1) = start
        BY <1>a, <3>1, Slots
      <4>2. ring'[Slot(n)'] = nextID'
        BY <1>a, <1>1, <2>1, <4>1
      <4> QED BY <1>a, <4>2, <3>1, <2>1, <2>2
    <3>2. CASE n # BufferCapacity - 1
      <4>1. n + 1 \in 0 .. count - 1
        BY <1>a, <3>2, <2>2
      <4>2. Slot(n + 1) # start /\ Slot(n + 1) \in 0 .. BufferCapacity - 1
        BY <1>a, <3>2, Slots
      <4>3. ring'[Slot(n)'] = nextID - count + (n + 1) + 1
        BY <4>1, <4>2, <2>1, <1>1 DEF RingInv
      <4> QED BY <1>a, <4>3, <2>1, <2>2
    <3> QED BY <3>1, <3>2
  <2> QED BY <1>1, <2>1, <2>2, <2>4, <2>6, LogAssumption DEF TypeOK, RingInv, IDs
<1> QED BY <1>2, <1>3

\* A snapshot is the stretch of the newest entries.
LEMMA SnapshotFollows ==
  ASSUME TypeOK, RingInv
  PROVE  /\ Snapshot \in Seq(IDs) /\ Len(Snapshot) = count
         /\ Follow(Snapshot, nextID - count) /\ nextID - count \in IDs
<1>1. count \in Nat /\ nextID \in 0 .. MaxID /\ count <= nextID /\ MaxID \in Nat
  BY LogAssumption DEF TypeOK, RingInv, IDs
<1>2. \A n \in 1 .. count : ring[Slot(n - 1)] = nextID - count + n
  <2> SUFFICES ASSUME NEW n \in 1 .. count PROVE ring[Slot(n - 1)] = nextID - count + n
    OBVIOUS
  <2>1. n - 1 \in 0 .. count - 1
    BY <1>1
  <2>2. ring[Slot(n - 1)] = nextID - count + (n - 1) + 1
    BY <2>1 DEF RingInv
  <2> QED BY <1>1, <2>2
<1>3. Snapshot = [n \in 1 .. count |-> nextID - count + n]
  BY <1>2 DEF Snapshot
<1>4. \A n \in 1 .. count : nextID - count + n \in IDs
  BY <1>1 DEF IDs
<1>5. Snapshot \in Seq(IDs) /\ Len(Snapshot) = count
  BY <1>1, <1>3, <1>4
<1>6. Follow(Snapshot, nextID - count)
  BY <1>3, <1>5 DEF Follow
<1> QED BY <1>1, <1>5, <1>6 DEF IDs

-----------------------------------------------------------------------------
(* The invariant                                                           *)

LEMMA InitInv == Init => LogInv
<1> SUFFICES ASSUME Init PROVE LogInv
  OBVIOUS
<1>1. <<>> \in Seq(IDs) /\ 0 \in IDs
  BY LogAssumption DEF IDs
<1>2. TypeOK
  <2>1. [queue |-> <<>>, open |-> FALSE] \in Channels
    BY <1>1 DEF Channels
  <2>2. /\ ring = [i \in 0 .. BufferCapacity - 1 |-> 0] /\ DOMAIN ring = 0 .. BufferCapacity - 1
        /\ start = 0 /\ count = 0 /\ nextID = 0
    BY DEF Init
  <2>3. ring \in [DOMAIN ring -> IDs] /\ start \in 0 .. BufferCapacity - 1 /\ count \in 0 .. BufferCapacity
    BY <1>1, <2>2, LogAssumption
  <2> QED BY <1>1, <2>1, <2>2, <2>3 DEF Init, TypeOK
<1>3. RingInv /\ SubsInv /\ \A s \in Streams : StreamInv(s)
  BY LogAssumption DEF Init, RingInv, SubsInv, StreamInv
<1> QED BY <1>2, <1>3 DEF LogInv

\* What Add does to one stream: the entry is queued behind the others, or the
\* channel is closed and the stream keeps the stretch it has.
LEMMA OfferInv ==
  ASSUME LogInv, Add, NEW s \in Streams
  PROVE  chan'[s] \in Channels /\ StreamInv(s)'
<1>1. chan[s] \in Channels /\ nextID \in Nat /\ nextID' = nextID + 1 /\ nextID' \in IDs
      /\ base[s] \in Nat /\ sent[s] \in Seq(IDs) /\ history[s] \in Seq(IDs)
  BY LogAssumption DEF LogInv, TypeOK, Add, IDs
<1>2. UNCHANGED <<phase, history, sent, base>>
  BY DEF Add
<1>3. /\ chan'[s] = IF s \in subs THEN Offer(chan[s], nextID') ELSE chan[s]
      /\ s \in subs' <=> s \in subs /\ HasRoom(chan[s])
  BY DEF Add
<1>4. StreamInv(s) /\ Len(sent[s]) \in Nat /\ Len(history[s]) \in Nat
  BY <1>1 DEF LogInv
<1> DEFINE q == chan[s].queue
           b == base[s] + Len(sent[s]) + Len(history[s])
<1>5. q \in Seq(IDs) /\ Len(q) \in Nat /\ b \in Nat /\ chan[s].open \in BOOLEAN
  BY <1>1, <1>4 DEF Channels
<1>6. CASE s \in subs /\ HasRoom(chan[s])
  <2> DEFINE q2 == Append(q, nextID + 1)
  <2>1. chan'[s] = [chan[s] EXCEPT !.queue = q2]
    BY <1>1, <1>3, <1>6 DEF Offer
  <2>2. q2 \in Seq(IDs)
    BY <1>1, <1>5
  <2>3. chan'[s] = [queue |-> q2, open |-> chan[s].open]
    BY <2>1, <1>1 DEF Channels
  <2>4. chan'[s].queue = q2 /\ chan'[s] \in Channels
    BY <2>2, <2>3, <1>5 DEF Channels
  <2>5. CASE phase[s] = "open"
    <3>1. b + Len(q) = nextID /\ Follow(q, b)
      BY <1>4, <1>6, <2>5 DEF StreamInv
    <3>2. Follow(q2, b) /\ b + Len(q2) = nextID + 1
      <4>1. nextID + 1 \in IDs /\ nextID + 1 = b + Len(q) + 1
        BY <1>1, <3>1
      <4>2. Len(q2) = Len(q) + 1 /\ Follow(q2, b)
        <5> HIDE DEF q, b
        <5> QED BY <1>5, <3>1, <4>1, FollowAppend
      <4> HIDE DEF q, b, q2
      <4> QED BY <1>1, <1>5, <3>1, <4>2
    <3> QED BY <1>1, <1>2, <1>4, <2>4, <2>5, <3>2 DEF StreamInv
  <2>6. CASE phase[s] # "open"
    BY <2>6, <1>2, <1>4, <2>4 DEF StreamInv
  <2> QED BY <2>4, <2>5, <2>6
<1>7. CASE ~(s \in subs /\ HasRoom(chan[s]))
  <2>1. chan'[s].queue = q /\ chan'[s] \in Channels /\ s \notin subs'
    BY <1>1, <1>3, <1>7 DEF Offer, Channels
  <2>2. phase[s] = "open" => b + Len(q) <= nextID'
    BY <1>1, <1>4, <1>5 DEF StreamInv
  <2> QED BY <1>2, <1>4, <2>1, <2>2 DEF StreamInv
<1> QED BY <1>6, <1>7

LEMMA AddInv == LogInv /\ Add => LogInv'
<1> SUFFICES ASSUME LogInv, Add PROVE LogInv'
  OBVIOUS
<1>1. /\ ~closed /\ nextID < MaxID /\ nextID' = nextID + 1 /\ Store(nextID')
      /\ UNCHANGED <<closed, phase, history, client, sent, base>>
      /\ subs' = {s \in subs : HasRoom(chan[s])}
  BY DEF Add
<1>2. TypeOK /\ RingInv /\ SubsInv
  BY DEF LogInv
<1>3. nextID' \in IDs
  BY <1>1, <1>2, LogAssumption DEF TypeOK, IDs
<1>4. chan' \in [Streams -> Channels] /\ \A s \in Streams : StreamInv(s)'
  <2>1. chan' = [s \in Streams |-> IF s \in subs THEN Offer(chan[s], nextID') ELSE chan[s]]
    BY DEF Add
  <2> QED BY <2>1, OfferInv
<1>5. ~panicked' /\ panicked' \in BOOLEAN
  BY <1>2 DEF Add, SubsInv
<1>6. TypeOK'
  <2>1. /\ ring' \in [DOMAIN ring' -> IDs] /\ DOMAIN ring' = 0 .. BufferCapacity - 1
        /\ start' \in 0 .. BufferCapacity - 1 /\ count' \in 0 .. BufferCapacity
    BY <1>1, <1>2, StoreInv
  <2>2. subs' \subseteq Streams
    BY <1>1, <1>2 DEF TypeOK
  <2> QED BY <1>1, <1>2, <1>3, <1>4, <1>5, <2>1, <2>2 DEF TypeOK
<1>7. RingInv'
  BY <1>1, <1>2, StoreInv DEF RingInv
<1>8. SubsInv'
  <2> SUFFICES ASSUME NEW s \in subs' PROVE chan'[s].open /\ phase'[s] \in {"open", "returned"}
    BY <1>1, <1>5 DEF SubsInv
  <2>1. s \in subs /\ HasRoom(chan[s]) /\ s \in Streams
    BY <1>1, <1>2 DEF TypeOK
  <2>2. chan'[s] = [chan[s] EXCEPT !.queue = Append(@, nextID')] /\ chan[s] \in Channels
    BY <1>2, <2>1 DEF Add, Offer, TypeOK
  <2>3. chan'[s].open = chan[s].open
    BY <2>2 DEF Channels
  <2> QED BY <1>1, <1>2, <2>1, <2>3 DEF SubsInv
<1> QED BY <1>4, <1>6, <1>7, <1>8 DEF LogInv

\* A step that leaves alone what belongs to stream t, or cuts it off.
LEMMA OthersInv ==
  ASSUME LogInv, NEW t \in Streams, nextID' = nextID,
         phase'[t] = phase[t], sent'[t] = sent[t], history'[t] = history[t], base'[t] = base[t],
         chan'[t].queue = chan[t].queue, t \in subs' => t \in subs
  PROVE  StreamInv(t)'
<1>1. StreamInv(t)
  BY DEF LogInv
<1> QED BY <1>1 DEF StreamInv

LEMMA ClearInv == LogInv /\ Clear => LogInv'
<1> SUFFICES ASSUME LogInv, Clear PROVE LogInv'
  OBVIOUS
<1>1. /\ ring' = [i \in DOMAIN ring |-> 0] /\ start' = 0 /\ count' = 0
      /\ UNCHANGED <<nextID, closed, subs, chan, phase, history, client, panicked, sent, base>>
  BY DEF Clear
<1>2. TypeOK /\ RingInv /\ SubsInv
  BY DEF LogInv
<1>3. TypeOK'
  BY <1>1, <1>2, LogAssumption DEF TypeOK, IDs
<1>4. RingInv'
  BY <1>1, <1>2, LogAssumption DEF RingInv, TypeOK, IDs
<1>5. SubsInv' /\ \A s \in Streams : StreamInv(s)'
  BY <1>1, <1>2, OthersInv DEF SubsInv
<1> QED BY <1>3, <1>4, <1>5 DEF LogInv

LEMMA CloseInv == LogInv /\ Close => LogInv'
<1> SUFFICES ASSUME LogInv, Close PROVE LogInv'
  OBVIOUS
<1>1. /\ closed' = TRUE /\ subs' = {}
      /\ chan' = [s \in Streams |-> IF s \in subs THEN [chan[s] EXCEPT !.open = FALSE] ELSE chan[s]]
      /\ ring' = [i \in {} |-> 0] /\ start' = 0 /\ count' = 0
      /\ UNCHANGED <<nextID, phase, history, client, sent, base>>
  BY DEF Close
<1>2. TypeOK /\ RingInv /\ SubsInv
  BY DEF LogInv
<1>3. ~panicked' /\ panicked' \in BOOLEAN
  BY <1>2 DEF Close, SubsInv
<1>4. \A s \in Streams : chan'[s] \in Channels /\ chan'[s].queue = chan[s].queue
  BY <1>1, <1>2 DEF TypeOK, Channels
<1>5. chan' \in [Streams -> Channels]
  BY <1>1, <1>4
<1>6. ring' \in [DOMAIN ring' -> IDs] /\ DOMAIN ring' = {}
  BY <1>1
<1>7. TypeOK'
  <2>1. start' \in 0 .. BufferCapacity - 1 /\ count' \in 0 .. BufferCapacity
    BY <1>1, LogAssumption
  <2> QED BY <1>1, <1>2, <1>3, <1>5, <1>6, <2>1 DEF TypeOK
<1>8. RingInv'
  BY <1>1, <1>2, <1>6 DEF RingInv, TypeOK, IDs
<1>9. SubsInv' /\ \A s \in Streams : StreamInv(s)'
  BY <1>1, <1>3, <1>4, OthersInv DEF SubsInv
<1> QED BY <1>7, <1>8, <1>9 DEF LogInv

LEMMA SubscribeInv == \A s \in Streams : LogInv /\ Subscribe(s) => LogInv'
<1> SUFFICES ASSUME LogInv, NEW s \in Streams, Subscribe(s) PROVE LogInv'
  OBVIOUS
<1>1. /\ phase[s] = "idle" /\ phase' = [phase EXCEPT ![s] = "open"]
      /\ history' = [history EXCEPT ![s] = Snapshot]
      /\ chan' = [chan EXCEPT ![s] = [queue |-> <<>>, open |-> ~closed]]
      /\ subs' = IF closed THEN subs ELSE subs \union {s}
      /\ base' = [base EXCEPT ![s] = nextID - count]
      /\ UNCHANGED <<ring, start, count, nextID, closed, client, panicked, sent>>
  BY DEF Subscribe, bufferVars
<1>2. TypeOK /\ RingInv /\ SubsInv /\ StreamInv(s)
  BY DEF LogInv
<1>3. [queue |-> <<>>, open |-> ~closed] \in Channels
  BY <1>2 DEF Channels, TypeOK
<1>4. /\ Snapshot \in Seq(IDs) /\ Len(Snapshot) = count
      /\ Follow(Snapshot, nextID - count) /\ nextID - count \in IDs
  BY <1>2, SnapshotFollows
<1>5. TypeOK'
  BY <1>1, <1>2, <1>3, <1>4 DEF TypeOK
<1>6. RingInv'
  BY <1>1, <1>2 DEF RingInv, Slot
<1>7. SubsInv'
  BY <1>1, <1>2 DEF SubsInv, TypeOK
<1>8. StreamInv(s)'
  <2>1. /\ phase'[s] = "open" /\ history'[s] = Snapshot /\ base'[s] = nextID - count
        /\ sent'[s] = <<>> /\ chan'[s].queue = <<>> /\ nextID' = nextID
    BY <1>1, <1>2 DEF TypeOK, StreamInv
  <2>2. nextID \in Nat /\ count \in Nat /\ nextID - count \in Nat
    BY <1>2, <1>4 DEF TypeOK, IDs
  <2>3. Follow(Snapshot, (nextID - count) + Len(<<>>)) /\ (nextID - count) + Len(<<>>) + Len(Snapshot) + Len(<<>>) = nextID
    BY <1>4, <2>2
  <2>4. Follow(<<>>, nextID - count) /\ Follow(<<>>, (nextID - count) + Len(<<>>) + Len(Snapshot))
    BY DEF Follow
  <2> QED BY <2>1, <2>2, <2>3, <2>4 DEF StreamInv
<1>9. \A t \in Streams \ {s} : StreamInv(t)'
  <2> SUFFICES ASSUME NEW t \in Streams \ {s} PROVE StreamInv(t)'
    OBVIOUS
  <2> QED BY <1>1, <1>2, OthersInv DEF TypeOK
<1> QED BY <1>5, <1>6, <1>7, <1>8, <1>9 DEF LogInv

\* The steps of a handler that writes or returns leave the buffer and the
\* subscriptions alone.
LEMMA HandlerInv ==
  ASSUME LogInv, NEW s \in Streams, phase[s] = "open",
         UNCHANGED <<ring, start, count, nextID, closed, subs, client, panicked, base>>,
         history' \in [Streams -> Seq(IDs)], sent' \in [Streams -> Seq(IDs)],
         chan' \in [Streams -> Channels], chan'[s].open = chan[s].open,
         phase' = phase \/ phase' = [phase EXCEPT ![s] = "returned"],
         \A t \in Streams \ {s} :
           history'[t] = history[t] /\ sent'[t] = sent[t] /\ chan'[t] = chan[t],
         StreamInv(s)'
  PROVE  LogInv'
<1>1. TypeOK /\ RingInv /\ SubsInv
  BY DEF LogInv
<1>2. phase' \in [Streams -> {"idle", "open", "returned", "done"}]
  BY <1>1 DEF TypeOK
<1>3. TypeOK'
  BY <1>1, <1>2 DEF TypeOK
<1>4. RingInv'
  BY <1>1 DEF RingInv, Slot
<1>5. SubsInv'
  <2> SUFFICES ASSUME NEW t \in subs PROVE chan'[t].open /\ phase'[t] \in {"open", "returned"}
    BY <1>1 DEF SubsInv
  <2> QED BY <1>1 DEF SubsInv, TypeOK
<1>6. \A t \in Streams \ {s} : StreamInv(t)'
  <2> SUFFICES ASSUME NEW t \in Streams \ {s} PROVE StreamInv(t)'
    OBVIOUS
  <2>1. phase'[t] = phase[t]
    BY <1>1 DEF TypeOK
  <2> QED BY <2>1, OthersInv
<1> QED BY <1>3, <1>4, <1>5, <1>6 DEF LogInv

\* A stream that has returned promises nothing any more.
LEMMA ReturnedInv ==
  ASSUME NEW s \in Streams, phase'[s] \in {"returned", "done"}
  PROVE  StreamInv(s)'
BY DEF StreamInv

LEMMA SendHistoryInv == \A s \in Streams : LogInv /\ SendHistory(s) => LogInv'
<1> SUFFICES ASSUME LogInv, NEW s \in Streams, SendHistory(s) PROVE LogInv'
  OBVIOUS
<1> DEFINE h == history[s]
           b == base[s] + Len(sent[s])
<1>1. /\ phase[s] = "open" /\ h # <<>> /\ history' = [history EXCEPT ![s] = Tail(@)] /\ Send(s, Head(h))
      /\ UNCHANGED <<ring, start, count, nextID, closed, subs, chan, client, panicked, base>>
  BY DEF SendHistory, bufferVars
<1>2. TypeOK /\ StreamInv(s)
  BY DEF LogInv
<1>3. /\ h \in Seq(IDs) /\ sent[s] \in Seq(IDs) /\ base[s] \in Nat /\ Len(sent[s]) \in Nat
      /\ chan[s].queue \in Seq(IDs) /\ Len(chan[s].queue) \in Nat /\ b \in Nat /\ nextID \in Nat
  BY <1>2, LogAssumption DEF TypeOK, Channels, IDs
<1>4. Follow(sent[s], base[s]) /\ Follow(h, b)
  BY <1>1, <1>2 DEF StreamInv
<1>5. /\ Head(h) = b + 1 /\ Head(h) \in IDs /\ Tail(h) \in Seq(IDs)
      /\ Len(h) = Len(Tail(h)) + 1 /\ Len(Tail(h)) \in Nat /\ Follow(Tail(h), b + 1)
  <2> HIDE DEF h, b
  <2> QED BY <1>1, <1>3, <1>4, FollowTail
<1>6. history' \in [Streams -> Seq(IDs)] /\ history'[s] = Tail(h)
  BY <1>1, <1>2, <1>5 DEF TypeOK
<1>7. CASE sent' = [sent EXCEPT ![s] = Append(@, Head(h))] /\ UNCHANGED phase
  <2> DEFINE p == Append(sent[s], Head(h))
  <2>1. p \in Seq(IDs) /\ Len(p) = Len(sent[s]) + 1 /\ Follow(p, base[s])
    BY <1>3, <1>4, <1>5, FollowAppend
  <2>2. sent' \in [Streams -> Seq(IDs)] /\ sent'[s] = p
    BY <1>2, <1>7, <2>1 DEF TypeOK
  <2>3. base[s] + Len(p) = b + 1
    BY <1>3, <2>1
  <2>4. /\ Follow(chan[s].queue, base[s] + Len(p) + Len(Tail(h)))
        /\ base[s] + Len(p) + Len(Tail(h)) + Len(chan[s].queue) <= nextID
        /\ s \in subs => base[s] + Len(p) + Len(Tail(h)) + Len(chan[s].queue) = nextID
    <3>1. base[s] + Len(p) + Len(Tail(h)) = b + Len(h)
      <4> HIDE DEF h, b, p
      <4> QED BY <1>3, <1>5, <2>3
    <3>2. /\ Follow(chan[s].queue, b + Len(h))
          /\ b + Len(h) + Len(chan[s].queue) <= nextID
          /\ s \in subs => b + Len(h) + Len(chan[s].queue) = nextID
      BY <1>1, <1>2 DEF StreamInv
    <3> QED BY <3>1, <3>2
  <2>5. StreamInv(s)'
    <3> HIDE DEF p, h, b
    <3> QED BY <1>1, <1>5, <1>6, <1>7, <2>1, <2>2, <2>3, <2>4 DEF StreamInv
  <2> QED BY <1>1, <1>2, <1>6, <1>7, <2>2, <2>5, HandlerInv DEF TypeOK
<1>8. CASE Return(s)
  <2>1. phase' = [phase EXCEPT ![s] = "returned"] /\ sent' = sent /\ phase'[s] = "returned"
    BY <1>2, <1>8 DEF Return, TypeOK
  <2>2. StreamInv(s)'
    BY <2>1, ReturnedInv
  <2> QED BY <1>1, <1>2, <1>6, <2>1, <2>2, HandlerInv DEF TypeOK
<1> QED BY <1>1, <1>7, <1>8 DEF Send

LEMMA ReceiveInv == \A s \in Streams : LogInv /\ Receive(s) => LogInv'
<1> SUFFICES ASSUME LogInv, NEW s \in Streams, Receive(s) PROVE LogInv'
  OBVIOUS
<1> DEFINE q == chan[s].queue
           b == base[s] + Len(sent[s])
<1>1. /\ phase[s] = "open" /\ history[s] = <<>>
      /\ UNCHANGED <<ring, start, count, nextID, closed, subs, history, client, panicked, base>>
  BY DEF Receive, InLoop, bufferVars
<1>2. TypeOK /\ StreamInv(s)
  BY DEF LogInv
<1>3. /\ q \in Seq(IDs) /\ Len(q) \in Nat /\ chan[s] \in Channels
      /\ sent[s] \in Seq(IDs) /\ Len(sent[s]) \in Nat
      /\ base[s] \in Nat /\ b \in Nat /\ nextID \in Nat
  BY <1>2, LogAssumption DEF TypeOK, Channels, IDs
<1>4. /\ Follow(sent[s], base[s]) /\ Follow(q, b)
      /\ b + Len(q) <= nextID /\ (s \in subs => b + Len(q) = nextID)
  <2>1. Len(history[s]) = 0 /\ b + 0 = b
    BY <1>1, <1>3
  <2> HIDE DEF b
  <2>2. /\ Follow(sent[s], base[s]) /\ Follow(q, b + Len(history[s]))
        /\ b + Len(history[s]) + Len(q) <= nextID
        /\ s \in subs => b + Len(history[s]) + Len(q) = nextID
    BY <1>1, <1>2 DEF StreamInv, b
  <2> QED BY <2>1, <2>2
<1>5. CASE q # <<>> /\ chan' = [chan EXCEPT ![s].queue = Tail(@)] /\ Send(s, Head(q))
  <2>1. /\ Head(q) = b + 1 /\ Head(q) \in IDs /\ Tail(q) \in Seq(IDs)
        /\ Len(q) = Len(Tail(q)) + 1 /\ Len(Tail(q)) \in Nat /\ Follow(Tail(q), b + 1)
    <3> HIDE DEF q, b
    <3> QED BY <1>3, <1>4, <1>5, FollowTail
  <2>2. /\ chan' \in [Streams -> Channels] /\ chan'[s].queue = Tail(q) /\ chan'[s].open = chan[s].open
        /\ \A t \in Streams \ {s} : chan'[t] = chan[t]
    <3>1. chan'[s] = [queue |-> Tail(q), open |-> chan[s].open]
      BY <1>2, <1>3, <1>5 DEF TypeOK, Channels
    <3>2. chan'[s] \in Channels
      BY <1>3, <2>1, <3>1 DEF Channels
    <3> QED BY <1>2, <1>5, <3>1, <3>2 DEF TypeOK
  <2>3. CASE sent' = [sent EXCEPT ![s] = Append(@, Head(q))] /\ UNCHANGED phase
    <3> DEFINE p == Append(sent[s], Head(q))
    <3>1. p \in Seq(IDs) /\ Len(p) = Len(sent[s]) + 1 /\ Follow(p, base[s])
      BY <1>3, <1>4, <2>1, FollowAppend
    <3>2. sent' \in [Streams -> Seq(IDs)] /\ sent'[s] = p
      BY <1>2, <2>3, <3>1 DEF TypeOK
    <3>3. base[s] + Len(p) + Len(<<>>) = b + 1
      BY <1>3, <3>1
    <3>4. /\ Follow(Tail(q), base[s] + Len(p) + Len(<<>>))
          /\ base[s] + Len(p) + Len(<<>>) + Len(Tail(q)) <= nextID
          /\ s \in subs => base[s] + Len(p) + Len(<<>>) + Len(Tail(q)) = nextID
      <4> HIDE DEF q, b, p
      <4> QED BY <1>3, <1>4, <2>1, <3>3
    <3>5. StreamInv(s)'
      <4>1. Follow(<<>>, base[s] + Len(p))
        BY DEF Follow
      <4> HIDE DEF p, q, b
      <4> QED BY <1>1, <2>2, <2>3, <3>1, <3>2, <3>4, <4>1 DEF StreamInv
    <3> QED BY <1>1, <1>2, <2>2, <2>3, <3>2, <3>5, HandlerInv DEF TypeOK
  <2>4. CASE Return(s)
    <3>1. phase' = [phase EXCEPT ![s] = "returned"] /\ sent' = sent /\ phase'[s] = "returned"
      BY <1>2, <2>4 DEF Return, TypeOK
    <3>2. StreamInv(s)'
      BY <3>1, ReturnedInv
    <3> QED BY <1>1, <1>2, <2>2, <3>1, <3>2, HandlerInv DEF TypeOK
  <2> QED BY <1>5, <2>3, <2>4 DEF Send
<1>6. CASE Return(s) /\ UNCHANGED chan
  <2>1. phase' = [phase EXCEPT ![s] = "returned"] /\ sent' = sent /\ phase'[s] = "returned"
    BY <1>2, <1>6 DEF Return, TypeOK
  <2>2. StreamInv(s)'
    BY <2>1, ReturnedInv
  <2> QED BY <1>1, <1>2, <1>6, <2>1, <2>2, HandlerInv DEF TypeOK
<1> QED BY <1>5, <1>6 DEF Receive

LEMMA NoticeGoneInv == \A s \in Streams : LogInv /\ NoticeGone(s) => LogInv'
<1> SUFFICES ASSUME LogInv, NEW s \in Streams, NoticeGone(s) PROVE LogInv'
  OBVIOUS
<1>1. /\ phase[s] = "open"
      /\ UNCHANGED <<ring, start, count, nextID, closed, subs, chan, history, client, panicked, base, sent>>
      /\ phase' = [phase EXCEPT ![s] = "returned"]
  BY DEF NoticeGone, InLoop, Return, bufferVars
<1>2. TypeOK
  BY DEF LogInv
<1>3. StreamInv(s)'
  BY <1>1, <1>2, ReturnedInv DEF TypeOK
<1> QED BY <1>1, <1>2, <1>3, HandlerInv DEF TypeOK

LEMMA CancelInv == \A s \in Streams : LogInv /\ Cancel(s) => LogInv'
<1> SUFFICES ASSUME LogInv, NEW s \in Streams, Cancel(s) PROVE LogInv'
  OBVIOUS
<1>1. /\ phase[s] = "returned" /\ phase' = [phase EXCEPT ![s] = "done"]
      /\ UNCHANGED <<ring, start, count, nextID, closed, history, client, sent, base>>
  BY DEF Cancel, bufferVars
<1>2. TypeOK /\ RingInv /\ SubsInv
  BY DEF LogInv
<1>3. /\ panicked' = FALSE /\ subs' = subs \ {s}
      /\ chan' = chan \/ chan' = [chan EXCEPT ![s].open = FALSE]
  BY <1>2 DEF Cancel, SubsInv, TypeOK
<1>4. chan' \in [Streams -> Channels] /\ \A t \in Streams \ {s} : chan'[t] = chan[t]
  <2>1. chan[s] \in Channels
    BY <1>2 DEF TypeOK
  <2>2. [chan[s] EXCEPT !.open = FALSE] \in Channels
    BY <2>1 DEF Channels
  <2> QED BY <1>2, <1>3, <2>2 DEF TypeOK
<1>5. TypeOK'
  BY <1>1, <1>2, <1>3, <1>4 DEF TypeOK
<1>6. RingInv'
  BY <1>1, <1>2 DEF RingInv, Slot
<1>7. SubsInv'
  BY <1>1, <1>2, <1>3, <1>4 DEF SubsInv, TypeOK
<1>8. StreamInv(s)'
  BY <1>1, <1>2, ReturnedInv DEF TypeOK
<1>9. \A t \in Streams \ {s} : StreamInv(t)'
  <2> SUFFICES ASSUME NEW t \in Streams \ {s} PROVE StreamInv(t)'
    OBVIOUS
  <2> QED BY <1>1, <1>2, <1>3, <1>4, OthersInv DEF TypeOK
<1> QED BY <1>5, <1>6, <1>7, <1>8, <1>9 DEF LogInv

LEMMA BrowserInv == \A s \in Streams : LogInv /\ Browser(s) => LogInv'
<1> SUFFICES ASSUME LogInv, NEW s \in Streams, Browser(s) PROVE LogInv'
  OBVIOUS
<1>1. UNCHANGED <<ring, start, count, nextID, closed, subs, chan, phase, history, panicked, sent, base>>
  BY DEF Browser, bufferVars
<1>2. TypeOK /\ RingInv /\ SubsInv
  BY DEF LogInv
<1>3. client' \in [Streams -> {"reading", "stalled", "gone"}]
  BY <1>2 DEF Browser, TypeOK
<1>4. TypeOK'
  BY <1>1, <1>2, <1>3 DEF TypeOK
<1>5. RingInv' /\ SubsInv' /\ \A t \in Streams : StreamInv(t)'
  BY <1>1, <1>2, OthersInv DEF RingInv, SubsInv, Slot
<1> QED BY <1>4, <1>5 DEF LogInv

LEMMA StutterInv == LogInv /\ UNCHANGED vars => LogInv'
<1> SUFFICES ASSUME LogInv, UNCHANGED vars PROVE LogInv'
  OBVIOUS
<1>1. RingInv' /\ SubsInv' /\ TypeOK'
  BY DEF LogInv, RingInv, SubsInv, TypeOK, Slot, vars
<1>2. \A t \in Streams : StreamInv(t)'
  BY OthersInv DEF vars
<1> QED BY <1>1, <1>2 DEF LogInv

LEMMA NextInv == LogInv /\ [Next]_vars => LogInv'
BY AddInv, ClearInv, CloseInv, SubscribeInv, SendHistoryInv, ReceiveInv, CancelInv,
   NoticeGoneInv, BrowserInv, StutterInv DEF Next, Stream

\* The invariant holds for every number of streams and entries and every
\* capacity of the ring and of the channels.
THEOREM LogInvariance == Spec => []LogInv
<1> QED BY InitInv, NextInv, PTL DEF Spec

\* No channel is closed twice or sent to after its close (logbuffer.go:84-91,
\* 119-126, 139-152).
THEOREM ChannelsAreSafe == Spec => []NoPanic
<1>1. LogInv => NoPanic
  BY DEF LogInv, SubsInv, NoPanic
<1> QED BY <1>1, LogInvariance, PTL

\* A subscribed stream misses no entry, and what it has is a stretch of the log
\* (logbuffer.go:84-91, 108-117).
THEOREM NothingMissed == Spec => []SubscribersMissNothing
<1>1. LogInv => SubscribersMissNothing
  <2> SUFFICES ASSUME LogInv, NEW s \in Streams, phase[s] = "open"
               PROVE  /\ Follow(Pending(s), base[s])
                      /\ s \in subs => base[s] + Len(Pending(s)) = nextID
    BY DEF SubscribersMissNothing
  <2> DEFINE p == sent[s]
             h == history[s]
             q == chan[s].queue
  <2>1. /\ p \in Seq(IDs) /\ h \in Seq(IDs) /\ q \in Seq(IDs) /\ base[s] \in Nat
        /\ Len(p) \in Nat /\ Len(h) \in Nat /\ Len(q) \in Nat
    BY LogAssumption DEF LogInv, TypeOK, Channels, IDs
  <2>2. /\ Follow(p, base[s]) /\ Follow(h, base[s] + Len(p)) /\ Follow(q, base[s] + Len(p) + Len(h))
        /\ s \in subs => base[s] + Len(p) + Len(h) + Len(q) = nextID
    BY DEF LogInv, StreamInv
  <2> HIDE DEF p, h, q
  <2>3. p \o h \in Seq(IDs) /\ Len(p \o h) = Len(p) + Len(h) /\ Follow(p \o h, base[s])
    BY <2>1, <2>2, FollowConcat
  <2>4. base[s] + Len(p) + Len(h) = base[s] + Len(p \o h)
    BY <2>1, <2>3
  <2>5. Len((p \o h) \o q) = Len(p \o h) + Len(q) /\ Follow((p \o h) \o q, base[s])
    BY <2>1, <2>2, <2>3, <2>4, FollowConcat
  <2>6. Pending(s) = (p \o h) \o q
    BY DEF Pending, p, h, q
  <2> QED BY <2>1, <2>2, <2>3, <2>5, <2>6
<1> QED BY <1>1, LogInvariance, PTL

-----------------------------------------------------------------------------
(* The refinement                                                          *)

LEMMA InitMaps == Init => Log!Init
BY DEF Init, Log!Init, WatcherState

\* A step that changes no more than buffers and channels shows nothing.
LEMMA SilentStep ==
  ASSUME UNCHANGED <<nextID, closed, base, sent>>, \A s \in Streams : WatcherState(s)' = WatcherState(s)
  PROVE  UNCHANGED Log!vars
BY DEF Log!vars

\* The state of the stream that moves, as EventLog sees it.
LEMMA StateMaps ==
  ASSUME TypeOK, NEW s \in Streams, NEW ph \in {"open", "returned", "done"},
         phase' = [phase EXCEPT ![s] = ph]
  PROVE  [t \in Streams |-> WatcherState(t)]' =
           [[t \in Streams |-> WatcherState(t)] EXCEPT ![s] = IF ph = "open" THEN "watching" ELSE "ended"]
BY DEF TypeOK, WatcherState

LEMMA EndMaps ==
  ASSUME TypeOK, NEW s \in Streams, phase[s] = "open",
         phase' = [phase EXCEPT ![s] = "returned"], UNCHANGED <<nextID, closed, base, sent>>
  PROVE  Log!End(s)
<1>1. [t \in Streams |-> WatcherState(t)]' = [[t \in Streams |-> WatcherState(t)] EXCEPT ![s] = "ended"]
  BY StateMaps
<1>2. WatcherState(s) = "watching"
  BY DEF WatcherState
<1> QED BY <1>1, <1>2 DEF Log!End

LEMMA ShowMaps ==
  ASSUME TypeOK, NEW s \in Streams, phase[s] = "open", NEW e,
         e = base[s] + Len(sent[s]) + 1, base[s] + Len(sent[s]) < nextID,
         sent' = [sent EXCEPT ![s] = Append(@, e)], UNCHANGED <<nextID, closed, base, phase>>
  PROVE  Log!Show(s)
<1>1. [t \in Streams |-> WatcherState(t)]' = [t \in Streams |-> WatcherState(t)]
  BY DEF WatcherState
<1>2. WatcherState(s) = "watching"
  BY DEF WatcherState
<1> QED BY <1>1, <1>2 DEF Log!Show

LEMMA NextMaps == LogInv /\ [Next]_vars => [Log!Next]_Log!vars
<1> SUFFICES ASSUME LogInv, [Next]_vars PROVE [Log!Next]_Log!vars
  OBVIOUS
<1>1. TypeOK /\ RingInv /\ \A s \in Streams : StreamInv(s)
  BY DEF LogInv
<1>2. CASE Add
  <2>1. Log!Add
    BY <1>2 DEF Add, Log!Add, WatcherState
  <2> QED BY <2>1 DEF Log!Next
<1>3. CASE Clear
  BY <1>3, SilentStep DEF Clear, WatcherState
<1>4. CASE Close
  <2>1. Log!Close
    BY <1>4 DEF Close, Log!Close, WatcherState
  <2> QED BY <2>1 DEF Log!Next
<1>5. ASSUME NEW s \in Streams, Subscribe(s) PROVE Log!Watch(s)
  <2>1. /\ phase[s] = "idle" /\ phase' = [phase EXCEPT ![s] = "open"]
        /\ base' = [base EXCEPT ![s] = nextID - count] /\ UNCHANGED <<nextID, closed, sent>>
    BY <1>5 DEF Subscribe, bufferVars
  <2>2. [t \in Streams |-> WatcherState(t)]' = [[t \in Streams |-> WatcherState(t)] EXCEPT ![s] = "watching"]
    BY <1>1, <2>1, StateMaps
  <2>3. WatcherState(s) = "away"
    BY <2>1 DEF WatcherState
  <2>4. base'[s] = nextID - count
    BY <1>1, <2>1 DEF TypeOK
  <2>5. nextID - count \in nextID - BufferCapacity .. nextID
    BY <1>1, LogAssumption DEF TypeOK, IDs
  <2> QED BY <2>1, <2>2, <2>3, <2>4, <2>5 DEF Log!Watch
<1>6. ASSUME NEW s \in Streams, SendHistory(s) PROVE Log!Show(s) \/ Log!End(s)
  <2> DEFINE h == history[s]
             b == base[s] + Len(sent[s])
             k == Len(chan[s].queue)
  <2>1. /\ phase[s] = "open" /\ h # <<>> /\ Send(s, Head(h)) /\ UNCHANGED <<nextID, closed, base>>
    BY <1>6 DEF SendHistory, bufferVars
  <2>2. h \in Seq(IDs) /\ b \in Nat /\ k \in Nat /\ nextID \in Nat
    BY <1>1, LogAssumption DEF TypeOK, Channels, IDs
  <2>3. Follow(h, b) /\ b + Len(h) + k <= nextID
    BY <1>1, <2>1 DEF StreamInv
  <2>4. Head(h) = b + 1 /\ b < nextID
    <3> HIDE DEF h, b, k
    <3>1. Head(h) = b + 1 /\ Len(h) = Len(Tail(h)) + 1 /\ Len(Tail(h)) \in Nat
      BY <2>1, <2>2, <2>3, FollowTail
    <3> QED BY <2>2, <2>3, <3>1
  <2> QED BY <1>1, <2>1, <2>4, ShowMaps, EndMaps DEF Send, Return
<1>7. ASSUME NEW s \in Streams, Receive(s) PROVE Log!Show(s) \/ Log!End(s)
  <2> DEFINE q == chan[s].queue
             b == base[s] + Len(sent[s])
  <2>1. phase[s] = "open" /\ history[s] = <<>> /\ UNCHANGED <<nextID, closed, base>>
    BY <1>7 DEF Receive, InLoop, bufferVars
  <2>2. CASE q # <<>> /\ Send(s, Head(q))
    <3>1. q \in Seq(IDs) /\ b \in Nat /\ nextID \in Nat
      BY <1>1, LogAssumption DEF TypeOK, Channels, IDs
    <3>2. Follow(q, b) /\ b + Len(q) <= nextID
      <4>1. Len(history[s]) = 0 /\ b + 0 = b
        BY <2>1, <3>1
      <4> HIDE DEF b
      <4>2. Follow(q, b + Len(history[s])) /\ b + Len(history[s]) + Len(q) <= nextID
        BY <1>1, <2>1 DEF StreamInv, b
      <4> QED BY <4>1, <4>2
    <3>3. Head(q) = b + 1 /\ b < nextID
      <4> HIDE DEF q, b
      <4>1. Head(q) = b + 1 /\ Len(q) = Len(Tail(q)) + 1 /\ Len(Tail(q)) \in Nat
        BY <2>2, <3>1, <3>2, FollowTail
      <4> QED BY <3>1, <3>2, <4>1
    <3> QED BY <1>1, <2>1, <2>2, <3>3, ShowMaps, EndMaps DEF Send, Return
  <2>3. CASE Return(s)
    BY <1>1, <2>1, <2>3, EndMaps DEF Return
  <2> QED BY <1>7, <2>2, <2>3 DEF Receive
<1>8. ASSUME NEW s \in Streams, NoticeGone(s) PROVE Log!End(s)
  BY <1>1, <1>8, EndMaps DEF NoticeGone, InLoop, Return, bufferVars
<1>9. ASSUME NEW s \in Streams, Cancel(s) PROVE UNCHANGED Log!vars
  <2>1. /\ phase[s] = "returned" /\ phase' = [phase EXCEPT ![s] = "done"]
        /\ UNCHANGED <<nextID, closed, base, sent>>
    BY <1>9 DEF Cancel, bufferVars
  <2>2. \A t \in Streams : WatcherState(t)' = WatcherState(t)
    BY <1>1, <2>1 DEF TypeOK, WatcherState
  <2> QED BY <2>1, <2>2, SilentStep
<1>10. ASSUME NEW s \in Streams, Browser(s) PROVE UNCHANGED Log!vars
  BY <1>10, SilentStep DEF Browser, bufferVars, WatcherState
<1>11. CASE UNCHANGED vars
  BY <1>11, SilentStep DEF vars, WatcherState
<1> QED BY <1>2, <1>3, <1>4, <1>5, <1>6, <1>7, <1>8, <1>9, <1>10, <1>11 DEF Next, Stream, Log!Next

\* To each browser the ring, the channels and the handlers are one log, of which
\* it is shown a stretch (server.go:325-375).
THEOREM RefinesEventLog == Spec => ImplementsEventLog
<1> QED BY InitMaps, NextMaps, LogInvariance, PTL DEF Spec, ImplementsEventLog, Log!Spec
=============================================================================
