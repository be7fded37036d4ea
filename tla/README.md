# pve-mcp in TLA+

pve-mcp is a Model Context Protocol server, written in Go, that lets an assistant
operate a Proxmox VE (PVE) cluster: it reads the cluster's state as resources and
changes it through tools. A tool call is a short program that talks HTTP to Proxmox
and keeps nothing afterwards; what is hard about it is that the guest it speaks of
belongs to Proxmox, that other people and programs change it at the same time, and
that a request may be performed without its answer ever arriving. Beside the tools the
server keeps a log of its own activity and streams it to browsers.

`PROJECT.json` lists, for a program to read, the components, the runs, the mutants (a
changed definition for every property, which the property's run rejects), the source
lines of every definition, the hazards, the findings and the theorems.

## The system

Paths are relative to `src/`. "Modelled" names the module.

| Component | State | Operations | Modelled |
| --- | --- | --- | --- |
| QEMU guest tools, `internal/tools/qemu.go` | none between calls; a call holds its arguments and what it read | power, update_hardware, resize_disk, update_network, clone, destroy, protection | `GuestTools` |
| LXC guest tools, `internal/tools/lxc.go` | the same | the same seven, and create | `GuestTools` |
| Helpers, `internal/tools/common.go` | none | gating, node allowlist, confirm and force, identity, digest, disk growth, network merge, waiting for a task | `Common`, `Arguments`, `DiskSizes`, `TaskWait` |
| Proxmox client, `internal/pve` | an http.Client with a time limit | Get, Post, Put, Delete, GetTaskStatus | the exchanges of `GuestTools`, `ToolCalls` and `TaskWait` |
| Node and task tools, `nodes.go`, `cluster.go` | none between calls | node reboot and shutdown, task status | `ToolCalls` |
| Registry, `registry.go` | the set of registered tools | RegisterAll | constants `Enabled`, `AllowedNodes`; `Registered` of `ToolCalls` |
| Resources, prompts | none | reads rendered as JSON, constant texts | no: no state changes |
| Configuration, `internal/config` | read once | LoadFromEnv | constants of `Common`; the switches in `Arguments` and `ToolCalls` |
| HTTP server and middleware, `internal/server` | connections and sessions | routing, filters, instructions to the assistant, shutdown | connections, sessions and shutdown in `Server` |
| Log buffer, `internal/webui/logbuffer.go` | ring of 250 entries, next id, subscriber channels of 64, closed | Add, Snapshot, Subscribe, cancel, Clear, Close | `LogBuffer` |
| Event stream and UI API, `internal/webui/server.go` | sessions with an expiry | login, logout, status, stream, clear, log level | stream and clear in `LogBuffer`; a page's session in `UiPage` |
| Observer, `internal/webui/observer.go` | calls in progress | classify and log each call | `ToolCalls` |
| Browser page, `internal/webui/static/app.js` | entries, ids seen, paused, held | ingest, connect, pause, clear | `UiPage` |
| Start-up and shutdown, `cmd/pve-mcp/main.go` | two HTTP servers, the transport, time limits | start, stop on a signal, exit | the end in `Server` |

How they interact. The assistant calls a tool through mcp-go, which runs each call in
its own goroutine. A handler checks the deployment's switches and its arguments, GETs
what it needs from Proxmox, shows a preview unless `confirm` was passed, compares
`expected_digest` with the digest it read, and sends one write (destroy: possibly
`PUT protection=0` and then `DELETE`). The observer's middleware
and mcp-go's hooks record each call in the log buffer, which offers the entry to every
open stream without waiting.

What is hard:

- *Races over a guest.* Between any two requests of a handler the guest may be edited,
  started, stopped, migrated, removed, or replaced by another under the same VMID.
  Handlers of concurrent calls race in the same way; there is no lock in the server.
- *Failed reads.* Several GETs ignore their error and go on with empty data.
- *Unknown outcomes.* A write that timed out may be performed later, and callers retry.
- *Channels with three closers.* Add, cancel and Close all close subscriber channels.
- *Slow readers.* A stream that does not keep up must cost the tools nothing.
- *Limits.* The ring, a subscriber's queue and the page's rows are bounded.
- *Waiting for a task* and *shutdown*, each with time limits of their own.

## The guest tools

### Modules

- `Proxmox` is the environment, as the code uses it: guests as records, the digest of a
  configuration, which paths serve which guest, the preconditions and effects of the
  writes. All of it is marked external.
- `Common` has the request record and the decisions of `common.go`.
- `GuestTools` has the handlers. `pc` is the request a handler is about to make:
  `status`, `config`, `read` (power's second GET), `unprotect` (the PUT of destroy is
  out), `post` (create), `sent` (the write is out), `done`. One action is what a handler
  does from one exchange to the next, every early return included. `wire[c]` is a
  write that was sent and not performed, `unprot[c]` the same for `PUT protection=0`.
  Proxmox performs a write (`Perform...`) or it is lost or refused (`DropWrite`) at any
  later moment, before or after the handler gave up on the answer.
  `hit[c]` and `disturbed[c]` are history: the guest the write found, and whether
  somebody else changed the call's guest before that.
- `GuestContract` is the abstract specification: a call takes effect at most once, in
  one step, only if confirmed; an edit of hardware, disk or network is a
  compare-and-set that reads, validates and rewrites the configuration whose digest was
  approved; the others promise only the path they name.
- `GuestProperties` states the properties and instantiates the contract;
  `GuestInvariant` has the inductive invariants; `MCGuest` the values for TLC. The
  theorems are in `GuestProofs` (what a write rests on), `GuestRefinement` (the contract)
  and `GuestHistory` (what is true of a guest over several requests and calls).

### What is abstracted, and why that is sound

- `expected_digest` is, at admission, nothing or the digest of a guest that exists
  then. A caller who holds an older digest is the same caller admitted earlier with a
  handler that is slow to read, so nothing is lost.
- SHA-1 is taken to be free of collisions, and to depend on the content only: a
  configuration that returns to an earlier content has its earlier digest. The latter
  matters for the protection flag, which destroy drops.
- cores, memory, sockets and the like are one value, a guest has one disk and one
  interface, the optional settings of an interface are one `tag`. No property tells more
  apart. A disk's entry may lack its size (`sized`), since the growth check behaves
  differently then.
- Malformed arguments are answered before the first request and leave no state, so a
  call that fails its guards is not admitted.
- Proxmox is more permissive than the real one: it performs an absolute resize to a
  smaller size. That the disk does not shrink is therefore the tools' doing.
- A handler that stops for ever (the server is killed) is a handler that takes no more
  steps; every safety run includes it. Nothing is stored, so there is no restart.
- The digest a preview shows is not part of the state. Node names are compared exactly,
  where the code folds case on both sides.
- The wait of clone and create for their task belongs to `Return`; `TaskWait` has it.

### Runs

Deadlock is not checked: calls are one-shot and a system whose calls are done may stop.

| Run | Calls | What happens | What it shows |
| --- | --- | --- | --- |
| `guest_destroy` | one power, destroy or protection call | eight initial guests of either name, flag and status; others edit, start, stop, migrate over two nodes, of which one is allowed, remove and recreate | no effect without confirmation, off the allowed node or with a soft `stop` (`EffectsWereAllowed`); the named and approved guest where nobody interfered (`UndisturbedBinding`); every effect is a step of the contract; `IInv` and `BindingInv`, invariants of the proofs |
| `guest_config` | one hardware or network call | others edit; two hardware profiles, hardware addresses and bridges, which are interchangeable (`ConfigSymmetry`), and an optional tag | an edit lands on the approved configuration only (`EditsHitWhatWasApproved`); a merge keeps what it does not name (`NetworkKeepsTheRest`); the contract; `IInv`, the invariant of the proofs |
| `guest_storage` | two of resize, clone, create | the disk grows by others' hand from 1 to at most 3, sizes "1" to "3" and "+1" | a retried resize grows the disk once (`RetryGrowsOnce`), no resize shrinks it (`ResizeGrows`), the contract with two calls; `GrowthInv`, an invariant of the proofs |
| `guest_ends` | one call of any tool | every reply may be lost; fairness of the handlers only | every call that is admitted is answered (`CallsEnd`) |
| `guest_dry_run` | as `guest_destroy` | | violated: see the findings |
| `guest_no_digest` | as `guest_destroy` | | violated |
| `guest_stale` | as `guest_destroy` | | violated |

Why the bounds are enough. One handler against clients that may do anything to its
guest meets every state between two requests that another handler could cause, since
handlers share nothing but Proxmox. Two calls are needed where the property relates
two calls, as for retries and for the two VMIDs of a clone; there `AskedInEarnest`
leaves out the dry runs the other runs have. Two names, addresses, bridges and profiles
suffice to tell "the same" from "another"; three disk sizes to shrink, stay and grow.

Fairness. `FairSpec` asks weak fairness of each handler and of nothing else. The code
justifies it: every exchange ends with a reply or with the http.Client's `Timeout`
(`client.go:89-92`), the wait for a task ends after 30 seconds (`common.go:312-343`),
and a goroutine that can run is run. Proxmox, the callers and the network promise
nothing.

### Findings

- *A dry run that changes the guest.* `destroy` with `unprotect` and without `confirm`
  sends `PUT protection=0` before it looks at `confirm` (`qemu.go:672-675`,
  `lxc.go:800-803`). `server.go:29` says a preview makes no changes.
- *A confirmed call without digest.* An empty live digest is accepted, and some tools
  ignore the error of the GET that reads it, so the call goes through when that GET fails.
  `README.md:250` says all guest mutation tools require the digest.
- *A stale approval.* Power, clone and destroy verify the digest and then send a write
  without one, so a change in between goes unnoticed; `README.md:250` promises
  otherwise. `UndisturbedBinding` says what holds instead.

One more disagreement has no run of its own. `README.md:252` says that a target size is
validated to exceed the disk's capacity; the growth check passes every well-formed target
when the disk's entry records no size (`common.go:414`), which is why the properties of a
resize except such a disk.

### Proofs

`GuestProofs` proves, for every number of calls, guests, nodes and values, and from the
assumptions on the constants alone (`None` is no other value, sizes are positive
numbers, tools and actions are the known ones):

- `Invariance`: `Spec => []IInv`. `TypeOK` is not inductive by itself in what matters:
  when Proxmox performs a write, the handler's knowledge is gone and only the digest
  remains. `IInv` says what is known of a write in flight (`GoodWrite`): it was
  confirmed and, for an edit, there is a configuration that had the approved digest,
  was validated, and from which the written interface was merged. That the digest
  determines the configuration (`DigestInjective`) makes this configuration the one the
  write finds (`EditFindsWhatWasRead`), which gives the rest.
- `TypeCorrect`, `EditsAreBound`, `EffectsAllowed`: the invariants that follow.
- `ResizesGrow`, `NetworkUpdatesMerge`: the action properties, by the step that performs
  an edit (`EditStep`).

The proof of a step has one lemma per handler, which says that it either reads, answers,
or sends a good write (`HandlerStepEffect`), so that the invariant is argued once for
all tools.

`GuestRefinement` proves `RefinesContract`: `Spec => ImplementsContract`, by step
simulation under `IInv`. A step of a handler maps to a stutter, whatever it reads or
sends; a step of another client to a step of the contract's environment; and the step in
which Proxmox performs a write to the contract's operation of that tool, since `GoodWrite`
says that the configuration the write finds is the one that was read, validated and
merged. An edit spread over three exchanges is thereby one atomic compare-and-set.

`GuestHistory` proves the two properties that compare a guest over several steps:

- `UndisturbedCallsAreBound`, from `BindingInvariance`. `UndisturbedBinding` speaks of
  calls whose write took effect; the invariant has to say, for each request a call may be
  about to make, what it already relied on and that it is still so (`Undisturbed`). Other
  calls are clients like any other: their effect on the guest sets `disturbed`. The one
  change the call itself may make first is destroy's removal of the protection flag,
  which `OwnChanges` allows for, also when that `PUT` arrives late.
- `RetriesGrowOnce`, from `GrowthInvariance`: a disk stays larger than a resize that was
  to enlarge it found it, since no step of any client shrinks one (`GuestsGrow`, which
  holds only where nobody destroys guests). A retry with the same digest would have to
  find the configuration the first one found.

Only model-checked: `CallsEnd`, which is liveness under fairness.

## The log buffer and its streams

### Modules

- `LogBuffer` has the ring (`ring`, `start`, `count`, `nextID`), the subscriber set, the
  channels, and the handlers of `/api/stream`. Add, Clear, Close, Subscribe and cancel
  hold the buffer's mutex from their first line to their last, and are one step each. A
  handler's receive, write and return are not under the mutex: `SendHistory`, `Receive`
  and `NoticeGone` are steps of their own, and so is the deferred `Cancel`, so that Add
  and Close may close the channel between them. An entry is its id: nothing depends on
  its text. `panicked` is set where Go would panic: a send to a closed channel or a
  second close.
- A browser may stop taking data (`stalled`) or leave (`gone`). A write to one that has
  left succeeds or fails, as the kernel has noticed or not.
- `EventLog` is the abstract specification: a watcher starts at most `BufferCapacity`
  entries back, and is shown the entries that follow one another until it ends.
- `LogProperties` has the properties, the refinement mapping (forget the ring, the
  channels and the snapshots; keep the newest id and what was written) and `LogInv`;
  `LogProofs` the theorems.

Left out: truncation of long messages, entries that cannot be marshalled, the text of a
heartbeat. A browser's reconnection is a further stream here; what the page makes of the
two is for the page's module.

### Run

| Run | Instance | What it shows |
| --- | --- | --- |
| `log_buffer` | two streams, a ring of 2, channels of 1, four entries | no panic (`NoPanic`), no gap and no repetition between snapshot and channel (`SubscribersMissNothing`), the refinement of the abstract log (`ImplementsEventLog`), the end of every stream that is cut off (`StreamsEnd`), and `LogInv` |

`MaxID` bounds the entries; a system that has used them up may stop, so deadlock is not
checked. Four entries go round a ring of two twice, a channel of one is full after one
entry and overflows with the next while the snapshot is still being written, and with
two streams one is cut off while the other goes on. Clear and Close may come at any
moment.

Fairness. A handler whose browser takes data goes on, and a handler whose browser has
left learns of it: the request's context ends or the heartbeat, sent every 20 seconds,
fails. Nothing is asked of Add, Clear, Close or the browsers. A browser that keeps its
connection and takes no data can block its handler for ever, since the web UI's server
sets no write time limit; `StreamsEnd` makes the exception.

### Proofs

`LogProofs` proves, for all capacities, streams and numbers of entries:

- `LogInvariance`: `Spec => []LogInv`. No property above is inductive: that a snapshot
  fits to the channel needs that the ring holds the newest `count` entries in order
  (`RingInv`, which is modular arithmetic over `start`), and that nothing is closed
  twice needs that a subscribed channel is open and an unsubscribed one is never touched
  again (`SubsInv`).
- `ChannelsAreSafe` and `NothingMissed`: the invariants that follow.
- `RefinesEventLog`: every behaviour is one of the abstract log, by step simulation
  under `LogInv`.

`StreamsEnd` is a liveness property and only model-checked.

## The page of the web UI

### Modules

- `UiPage` has one page of `app.js` with its server. The server's log is reduced to what
  `LogBuffer` shows it to be to a stream: the ids it holds (`oldest` to `lastID`), a
  replay of them, then every entry until the connection ends. `run` counts the starts of
  the server; an entry is its run and its id, of which the page sees the id.
- `es` is the page's EventSource. A connection that fails is made again by the browser
  (`connecting`); one that is refused calls `onerror` (`refused`) and stays `closed`
  until `GET /api/status` is answered (`retry`). `showLogin` and `connect` are the
  functions of that name. Requests that wait (`retry`, `clear`) are answered and handled
  in separate steps, with login, logout, expiry, restart and other pages of the browser
  (`LoginElsewhere`, which share the cookie) between them. A request carries the cookie
  it was sent with (`Stale`).
- `list` is `state.entries` with `state.seen`. `overtaken` is history: a clear emptied
  the page of entries that came after the buffer was cleared.
- `UiProperties` has the properties and the inductive invariant `PageInv`, `UiProofs` the
  theorems.

Left out: rendering, filters, search, counters and the log level; a second status or
clear request while one is out; the poll of the status is one step, and so are the request
of a logout and the `showLogin` that follows its answer.

### Runs

Deadlock is not checked: the bounds on entries, runs, losses and logins add up to an end.

| Run | Instance | What it shows |
| --- | --- | --- |
| `ui_page` | a buffer and a page of two entries, three ids, two runs of the server, one loss, two logins | at most `MAX_ROWS` entries (`TypeOK`), no entry twice and no id forgotten or kept (`SeenIsShown`), in order (`InOrder`), caught up with the buffer (`CaughtUp`), in the end a live stream or the login form (`PageSettles`), and `PageInv` |
| `ui_restart` | the same | violated: a page that stays open over a restart hides new entries with old ids (`LiveEventStream`) |

Two and two is the tightest case of the assumption `BufferCapacity <= MAX_ROWS` (250 and
500 in the code), on which everything rests: a page with fewer rows than the buffer would
take replayed entries for new ones. Three ids push one entry out of each. Two logins are
needed for a request that outlives the session it was sent with.

Fairness: the server answers, the page handles what arrived, and polls. Failures, expiry
and what users do are bounded and not fair, so `PageSettles` is about what follows when
they stop; a page whose status request was lost is the exception it names (`Stranded`).

Finding. *Ids of another run.* The page drops entries whose id it knows (`app.js:144`) and
does not forget the ids at a new login or when the server restarts, after which ids start
at 1: new entries do not appear, contrary to the live stream of `README.md:303`.

### Proofs

`UiProofs` proves, for every capacity of the buffer and the page with
`BufferCapacity <= MAX_ROWS`, and any number of entries, restarts, losses and logins:

- `PageInvariance`: `Spec => []PageInv`. `CaughtUp` says something only of a settled page
  and is far from inductive. Three ideas make it so. Pausing is transparent: the
  invariant speaks of `Unpaused`, the list the page would have if it resumed now, so
  Pause and Resume change nothing and a held entry counts as shown. The stream has a
  position, `Delivered`, and what is on the way follows it without a gap (`WireInv`). And
  the list has no gap after the oldest entry the buffer holds, nor after that position
  (`GapFreeFrom`), so a replay from the buffer's oldest entry either repeats what is
  known or continues at its end. That an eviction does not make a gap below the newest
  `BufferCapacity` entries is where `BufferCapacity <= MAX_ROWS` is needed.
- `PageTypeCorrect`, `PageKnowsWhatItShows`, `PageShowsInOrder`, `PageCatchesUp`: the
  invariants that follow; the last one also needs that a gap-free list with the same end
  has the buffer as its suffix, which is a lemma on sequences.

Resuming ingests what was held, one entry after the other (`ingestAll`, a recursive
function). What it computes is proved by induction on the length, in the form of an
induction over sets of numbers: a set of numbers that has 0 and the successor of each of
its members is all of them (`NatSetInduction`, from the library's theorem that `<` on the
naturals is well founded).

`PageSettles` is liveness under fairness and only model-checked.

## Tool calls and the activity log

### Modules

- `Arguments` has the readings of an argument: `ParseOptionalBool` and `IsConfirmed` of
  the tools, `parseBoolEnv` of the configuration, and `classifyTool` of the observer,
  which looks at the same `confirm` with other eyes. An argument is one of the forms that
  these functions tell apart (`BoolForms`), never a text.
- `DiskSizes` has the sizes of a resize: a sign, a number of any size and a unit. The
  server multiplies in an int64, which wraps (`Wrap`); Proxmox takes the text for what it
  says (`Bytes`). `Word` and `Kilo` are parameters.
- `ToolCalls` follows a call from its arguments to its entry in the log: the node tools,
  the status tool and `pve_qemu_resize_disk`, each inside the observer's middleware. `pc`
  is the request the handler is about to make; `CallTool` is everything before the first
  one (registration, node, allowed nodes, `confirm`). A preview's two lists are two steps
  (`ListQEMU`, `ListLXC`), and guests start and stop at any moment. A write is on its way
  (`wire`) and is performed or refused whenever Proxmox pleases, also after its caller was
  told of an error. `Log` is the middleware's entry, made after the handler returned; a
  tool that is not registered never reaches it and is entered by the error hook.
  `atStart`, `since` and `effect` are history.
- `CallProperties` has the properties and the inductive invariant `CallInv`, `CallProofs`
  the theorems, `MCCalls` the values for TLC.

The tools return every failure as a result, never as a Go error, so the hook
and the middleware do not both see a call. Modelled with the observer present, that is
with the web UI on; without it nothing is logged. Left out: the other arguments of a
resize and its digest, which `GuestTools` has (here the digest is the caller's or it is
not); the text of an entry and its redaction; the hooks for resources and prompts and the
copy of the server's own log, which add an entry and do nothing else. A listed guest is
its id.

### Run

| Run | Instance | What it shows |
| --- | --- | --- |
| `tool_calls` | two calls, two nodes of which one is allowed, a virtual machine and a container on it, words of 6 bits with a kilo of 2 | what an entry of the log says was done was done (`EntriesTellWhatHappened`), one entry for each call that ended (`OneEntryPerCall`), no guest left out of a preview (`PreviewsAreTruthful`), no node goes down without a confirmation, its switches and an allowed node (`CommandsWereAllowed`), no disk shrinks by a product that overflows (`DiskNeverShrinks`), and `CallInv` |

The scenarios (`AllScenarios`) pair a call in every form of `confirm` with another of each
kind, under every setting of the two switches. One guest of each kind is enough for a
guest that starts or stops between the two lists and for a list that fails. A disk of 8
bytes in words of 6 bits, with a kilo of 2, meets a target whose product overflows to a
small one (5T is 80, of which 16 is left), a number that does not fit a word (40K) and
sizes that are larger in another unit. Calls are one-shot, so deadlock is not checked.

What the properties leave open, because the code does. An entry `TOOL_ERROR` says nothing
of the write. A call confirmed with the text "true" is entered as `TOOL_DRY_RUN` although
it is carried out, and the property makes that exception: the schema of the tools declares
a boolean. A confirmed node command reads no list, so what started after the preview goes
down unannounced. A disk whose entry records no size is not compared with anything.
`pve_node_shutdown` needs the switch of the node operations (`nodes.go:52`) beside its own,
the only one that `README.md:106` names; `Registered` asks for both, as the code does.

### Proofs

`CallProofs` proves, for any number of calls, guests and nodes and words of any even width
that holds the largest factor twice:

- `AcceptedTargetsAreLarger`: if the growth check accepts a target for a disk of at most
  `MaxInt64` bytes, the target stands for more bytes. A wrapped product is never larger
  than the true one, which is the whole argument; the check errs only by refusing.
- `CallsInvariant`: `Spec => []CallInv`. The invariant adds, for each property, what the
  handler must remember: which guards a write has passed, what an answer rests on, what a
  preview knows after its first list.
- `EntriesComplete`, `EntriesTell`, `CommandsAllowed`, `PreviewsTruthful`,
  `DisksNeverShrink`: what follows.

## Waiting for a task, and the end of the process

### Modules

- `TaskWait` is a confirmed clone or create from its POST to its report: `PostReply`,
  then, for a caller that waits, `PollReply` and `Wake` in turn, as `WaitForTask` does.
  The answer to a poll (`read`) is made at Proxmox and may be stale when it arrives, and
  every exit status but OK, warnings included, is the failure that the code reports; the
  POST may be carried out although its answer is lost. `gone` are the calls whose context
  is cancelled.
- `Server` is the process around these calls: the transport, the connections and sessions
  that carry calls, one page of the web UI, and `main` from serving to `os.Exit`. Over
  HTTP: a signal (`Interrupt`), `stopUI` with five seconds, `srv.Shutdown` with the rest
  of ten; a second signal stays in its channel. Over stdio: `Listen` is told to stop and
  returns, then the deferred `stopUI`; the signal's default effect is restored before, so
  a second one kills (`Kill`). A listener that fails ends the process at once.
- `GracefulStop` is the abstract specification: once told to stop, the process stops
  within its limit; it says "ok" only if no caller waits; it cuts callers off only when
  the time is up or it could not serve.
- `ServerProperties` has the properties, the refinement mapping and `ServerInv`;
  `ServerProofs` the theorems.

Time passes in ticks, for everybody at once, and a tick does not pass while a time limit
is due: nobody is more than one tick late. What mcp-go and net/http do is taken from how
the code uses them, and weakly: `Listen` may or may not wait for its calls, sessions may
or may not be closed by `Shutdown`, and `http.Shutdown` waits for requests in flight. The
caller of a POST gets its answer on that connection and cancels its call by closing it;
the answer of a call made in an SSE session goes to the session, whose end nothing
records, so the promise of `GracefulStop` is about the former (`Posts`). Left out:
progress notifications, which are sent and forgotten; the status request of the web UI,
which has a limit of three seconds of its own; start-up, which is a straight line; and
what Proxmox does after the process ended.

### Run

| Run | Instance | What it shows |
| --- | --- | --- |
| `server_stop` | a call that waits and answers on its connection, and one of a session (or both over stdio); a wait of 2, a pause of 1 and a request of 1 tick; shutdown limits of 1 and 3 | a report is true of the task (`ReportsAreTrue`), a wait outlasts its limit by one pause and one request at most (`WaitsAreBounded`), the process keeps `GracefulStop` with its liveness (`ImplementsGracefulStop`), every call is answered or cut off by the end of the process (`CallsConclude`), and `ServerInv` |

The wait with its request lasts longer than the three ticks of the shutdown, as 30 s do
than 10, so calls are cut off; and the web UI's limit is less than the whole, so that
calls accepted during `stopUI` exist. Deadlock is not checked: the process ends.

Fairness. Handlers, `StopUI`, `Shutdown` and time go on, and `Listen` returns once it is
told to stop. Proxmox, the task, callers, browsers and signals owe nothing: a Proxmox that
never answers is one that takes no step, and the calls conclude because of the client's
time limit.

### Proofs

`ServerProofs` proves, for any calls and time limits: `ServerInvariant`
(`Spec => []ServerInv`), `TrueReports`, `BoundedWaits` and `RefinesGracefulStop`
(`Spec => GS!Safety`, by step simulation). `BoundedWaits` needs the age of the request or
pause a wait is in: only `waited <= WaitLimit + Interval + age` is preserved by a tick.
`TrueReports` needs that a task that has ended does not change any more, so that a stale
answer other than "running" is not stale. The liveness of `GracefulStop` and
`CallsConclude` are model-checked.

## Plan

In this order:

1. *Done*: the guest tools, their contract, invariant and first theorems.
2. *Done*: `LogBuffer` over an abstract log: what a stream shows is a gap-free,
   duplicate-free stretch of the log until the stream ends; no channel is sent to after
   its close or closed twice; Close ends every stream. Proofs of all but the last.
3. *Done*: `UiPage`: the page's seen set, its rows, pause and clear, reconnection, its
   session, and a server that restarts and numbers its entries from 1 again.
4. *Done*: `TaskWait`: what clone and create report against the task's fate.
5. *Done*: `ToolCalls` and `Arguments`: the node tools' preview against what they do; the
   observer's classification against what the tools take for a confirmation.
6. *Done*: `Server`: shutdown of the two servers under their limits, over both transports,
   and the abstract `GracefulStop` it implements.
7. *Done*: `DiskSizes`: sizes in machine words against the bytes they stand for.
8. *Done*: the proofs of the refinement of `GuestContract`, of `UndisturbedBinding` and
   `RetryGrowsOnce`, and of the page.
9. Proofs: lemmas on the readings of arguments and on the abstract specifications
   themselves (what `GuestContract`, `EventLog` and `GracefulStop` guarantee by themselves).

## What is proved and what is not

Every invariant and every action property that a passing run checks is a theorem, and so
are the refinements `ImplementsContract` and `ImplementsEventLog`; of
`ImplementsGracefulStop` the safety part is. The properties that are only model-checked
are those of liveness, which the proof system cannot prove under fairness: `CallsEnd`,
`StreamsEnd`, `PageSettles`, `CallsConclude` and the fairness part of `GracefulStop`. The
properties of the runs that expect a violation are refuted by TLC's counterexample.

## Not modelled

- Resources and prompts: they read, or are constant texts, and change nothing.
- TLS set-up, certificate pinning and the redaction of secrets in messages: functions of
  strings, without state.
- The filters for token, origin, host and the custom header: each is a decision about one
  request, without state, and would be a restatement of its own guard.
- Flags, environment and start-up, beyond the switches of the node tools: a straight line
  that ends in serving or in an exit.
- The parsing of texts, integers and network strings, and all wording.
