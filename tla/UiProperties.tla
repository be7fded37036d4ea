---------------------------- MODULE UiProperties -----------------------------
(***************************************************************************)
(* What the page of UiPage.tla shows of the server's log.                  *)
(***************************************************************************)
EXTENDS UiPage

\* The ids that are known are those of the entries, each on the page once.
KnowsItsEntries(l) ==
  /\ l.seen = {e.id : e \in ToSet(l.entries)}
  /\ \A i, j \in DOMAIN l.entries : l.entries[i].id = l.entries[j].id => i = j

Ordered(l) == \A i, j \in DOMAIN l.entries : i < j => l.entries[i].id < l.entries[j].id

\* However often the stream replays the buffer, no entry is on the page twice,
\* and the page knows exactly the ids that it shows: an id that was forgotten
\* would come back, one that was kept would hide an entry (app.js:143-149).
SeenIsShown == KnowsItsEntries(list)

\* With one run of the server, the page shows entries in the order in which they
\* were logged, also when it was paused or reconnected, unless a clear overtook
\* entries, which a replay then appends late (app.js:143-149, 224-231).
InOrder == run = 1 /\ ~overtaken => Ordered(list)

\* Nothing is on its way to the page, which is neither paused nor about to be cleared.
Settled == es = "open" /\ wire = <<>> /\ ~paused /\ clear # "cleared"

\* The page ends with what the buffer holds.
ShowsTheBuffer == IsSuffix(Snapshot, list.entries)

\* A page that is settled has caught up with the buffer: no entry got lost between
\* replay, pause, eviction and clear - as long as the server did not restart and no
\* clear overtook an entry (app.js:143-166, 224-231).
CaughtUp == run = 1 /\ ~overtaken /\ Settled => ShowsTheBuffer

\* A live event stream of what the server logs, held in a buffer that a restart
\* empties (README.md:303): a settled page shows the buffer, whichever run of the
\* server it belongs to.  The page keeps the ids of the last run (app.js:144).
LiveEventStream == Settled /\ ~overtaken => ShowsTheBuffer

\* The answer that was to start a new stream was lost: no event will come.
Stranded == es = "closed" /\ retry = "lost"

\* A page comes to an open stream or to the login form in the end, whatever was
\* refused, lost or reordered in between, and only the loss of the status answer
\* after a refusal leaves it with neither (app.js:167-172, 178-193).
PageSettles == view = "app" ~> es = "open" \/ view = "login" \/ Stranded

-----------------------------------------------------------------------------
(* The inductive invariant: what the page would show if it were not        *)
(* paused, and how far that reaches.                                       *)

\* Pausing is transparent: a page that is resumed shows what it would have shown.
Unpaused == ingestAll(list, held)

\* Entries that arrived, or are being shown as if they had.
OnPage == ToSet(list.entries) \union ToSet(held)

\* The newest entry of the server that the stream has delivered.
Delivered == lastID - Len(wire)

\* The last entries of l are those after id `from`, one by one.
GapFreeFrom(l, from) ==
  LET n == Len(l.entries)
      newest == l.entries[n].id
  IN  n > 0 => \A id \in from + 1 .. newest :
                 n - (newest - id) \in 1 .. n /\ l.entries[n - (newest - id)].id = id

\* The buffer is not larger than its capacity, and what is on the way to the
\* page are the newest entries.
WireInv ==
  /\ lastID - oldest <= BufferCapacity
  /\ es = "open" => \A i \in DOMAIN wire : wire[i] = [run |-> run, id |-> Delivered + i]

HeldInv ==
  /\ ~paused => held = <<>>
  /\ Unpaused \in Lists
  /\ ToSet(Unpaused.entries) \subseteq OnPage
  /\ KnowsItsEntries(list) /\ KnowsItsEntries(Unpaused)

\* In the first run, unless a clear overtook entries, the page has what the
\* buffer holds up to where the stream has come, and no gap that a replay
\* could fill late.
ReachInv ==
  run = 1 =>
    /\ \A e \in OnPage : e.run = 1 /\ e.id <= lastID
    /\ ~overtaken =>
         /\ Ordered(list) /\ Ordered(Unpaused)
         /\ GapFreeFrom(Unpaused, oldest)
         /\ es = "open" =>
              /\ GapFreeFrom(Unpaused, Delivered)
              /\ Delivered > oldest => \E i \in DOMAIN Unpaused.entries : Unpaused.entries[i].id >= Delivered

PageInv == TypeOK /\ WireInv /\ HeldInv /\ ReachInv
=============================================================================
