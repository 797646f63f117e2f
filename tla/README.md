# ServerLynx: specifications and proofs

ServerLynx is a TCP service library in C on top of libuv. One *IO thread* per
service runs a libuv loop; the application's *main thread* (a Unity script, a
server, a load generator) queues commands to it and collects events from it.
This directory holds TLA+ models of that library, TLC configurations that check
them on small instances, and TLAPS proofs that hold for every instance.

## 1. Inventory

| Part (source) | State it keeps | Operations | Modelled in |
|---|---|---|---|
| Service lifecycle (`service.c`, timer and signal callbacks of `service_internal.c`) | atomic `state`, `thread_io`, `priv`, `host_listen` | setup, listen, start, stop, stop_signal, cleanup; the IO thread from start to end | `Lifecycle` |
| Commands and events (`service.c`) | free and ready lists of commands and events, `event_updates`, `pool_read` | cmd_open, cmd_close, cmd_send, events_acquire, events_release | `Datapath` |
| IO callbacks (`service_internal.c`) | per link: `state`, stream, `read_buffer`; `send_req_list` | inbound and outbound connection, receive, send, close, check, timer | `Datapath`, `ConnectFailure` |
| Link list (`link.c`) | `client_map`, `client_list_free` | setup, open, close, get | `Datapath` |
| Plugin interface (`plugin.c`) | the service pointer | servlynx_setup, _start, _stop, _cleanup | `Plugin` |
| Link framing (`link.c`: read_header, read_payload, buffer_swap) | read state, next payload length | no callers today | no |
| Configuration (`service.c`: config_setup) | sizes and counts | arithmetic whose result nothing reads | no |
| Managed helpers (`Util.cs`) | none | byte order, MemCpy, MemSet, MemCmp | `Util` |
| Applications (`svlynx_sv.c`, `svlynx_lg.c`) | frame counter, ids, the batch of events | the main-thread loop: acquire, dispatch, echo or learn, release, open, send | `Application` |
| Managed bindings (`Native.cs`, `ServLynx.cs`, `SockLynx.cs`), Unity assets, build files | none | declarations | no |
| tn, libuv, socklynx | queues, pools, threads, loop | not in the repository | as used |

How they interact. Main calls `svl_service_start`, which launches the IO
thread; both load and store `service->state`, the only thing that tells either
what the other wants. Main's commands go through a single-producer queue that
`on_check_cb` drains once per loop iteration; the callbacks' events go back
through another, which main empties in batches. Links, events, commands, read
buffers and write requests come from pools of fixed size (all
`4 * max_clients`, links `max_clients`), and every callback has a path for an
empty pool. A read buffer travels link -> event -> main -> pool. A link is
reused, with the same id, as soon as its stream's close callback has put it
back.

What is hard: the unsynchronised test-then-store of `state` on both threads;
SIGINT, a third actor that stops the service from inside the loop; stopping
while peers are connected; pools that run dry in the middle of a callback; the
gap between closing a stream and its close callback; reuse of ids; failures
half way through a callback's clean-up; time limits in the plugin.

What makes each part correct:

* lifecycle: memory outlives the thread that uses it, one thread at a time,
  STARTED means served, a stop returns, a start resolves;
* data path: nothing in a pool is lost or in two places, commands meet live
  streams only, the application sees a well-formed stream of events per id, a
  stop drains the loop;
* applications: they release what they acquire, once, what they send is not
  overwritten before it is sent, and they leave the IO thread room to run. Neither
  sends only to a connection it means: the server echoes to an id it never set, and
  the load generator keeps its id when its frame counter wraps and it connects
  again. What holds for both is that a write reaches connections they are told of;
* plugin: every call returns, success means stopped, memory is freed only when
  the thread is gone.

`PROJECT.json` lists the hazards line by line, with the properties aimed at
each; those without a property say why.

## 2. Modules

### Datapath

One service with its links, pools and queues. All callbacks run on the IO
thread, so a callback is one action; main's calls interleave with them.
`phase` follows a `uv_run` iteration (timers, poll, check, closing), because
which callbacks may come between a `uv_close` and its close callback is what
several properties depend on. `on_check_cb` is one action per command, and
`svl_service_events_release` one action per event: main and the IO thread really
do interleave there. Calls that return an error before changing anything are
stuttering steps.

Data is abstracted: an endpoint is not represented, a message is a number of
bytes (1 to what is left of the buffer), ids are the links themselves, counters
of statistics are left out. Lists whose order nothing depends on
(`client_list_free`, `pool_read`, `send_req_list`) are sets; the queues of events
and commands are sequences. `event_updates` is the prefix of `events` that main
has popped, so order is visible across the batch boundary. Write requests belong
to a loop (they are allocated and freed by the IO thread); everything else
survives a restart. `app_open` is a history variable: what an application that
believes the events thinks is open.

External parts: a queue or pool operation of tn is atomic and FIFO; libuv walks
its phases in order, cancels a stream's pending writes before its close callback,
and ends `uv_run` when no handle is left.

Here start, stop and the signal are single steps: `Lifecycle` looks inside them.
`joining` says that main is inside `svl_service_stop`; a SIGINT stores STOPPING
without it, main goes on collecting events, and once the loop has ended the
service can only be cleaned up (`Finished`).

### Sessions, DatapathSessions

`Sessions` is what the library promises an application, with no thread, phase,
pool or stream in it: each id goes through sessions, and a bounded queue tells the
application of them. A session is announced by OPEN, gives READs and ends with
CLOSE; one that failed before its OPEN could be queued gives a CLOSE alone; one
whose CLOSE finds the queue full is lost, and its id with it. These two are part
of the specification because they are what the code does on an empty event pool.
`DatapathSessions` holds the refinement mapping (`SessionOf`: the stream of a link
and its place on the free list) and `ImplementsSessions`.

### Application

`svlynx_sv.c` and `svlynx_lg.c`: one main loop, two roles, on Datapath's IO thread
(`IO == INSTANCE Datapath`). Main is taken apart into the steps between which the
IO thread can run: the loop's test, acquire, each event of the dispatch, each
event of the release, the end of the frame. `event_updates` and its count are
modelled as they are: release walks the array and does not clear the count, and
it is called in every frame, also after an acquire that failed.

The server's `handle_client_read` uses `link` uninitialised (the lookup is
commented out), so the id it sends to is any id, known or not, or the process ends
there (`pc = "crashed"`). The load generator connects in frame 0, learns
its `client_id` from the OPEN event, and sends in every 64th frame
(`SendEvery`); it never forgets the id. `frame` is a `uint32_t`: it wraps
(`FrameMod`, 2^32 in the code), and in frame 0 the program connects again. Ids of
commands are not modelled, so an OPEN event may be the answer to the last
`svl_service_cmd_open`, from which the id is learnt, or not, and then it is only
logged. A command remembers the read buffer its
message points into, and so does the pending write made from it.

`DP == INSTANCE Datapath WITH events <- Unreleased \o ready, ...` is the
refinement mapping back: the part of the batch not yet released, then the queue.
With `ImplementsDatapath` every theorem about `Datapath` is one about the programs.

### Util

The managed helpers of `Util.cs`. An integer is the set of its one bits, so shifts
move positions and `|` and `&` are set operations; memory is a function from
addresses to bytes. `Accesses` lists the words and the overlapping narrower
accesses that MemCpy, MemSet and MemCmp share.

### ConnectFailure

`Datapath` plus the two failures of an outbound connection that touch memory
nobody initialised. `on_outbound_connection_cb` with `status < 0` jumps over its
initialisers and leaves `link` and `client_handle` indeterminate; the model chooses
any link, or none, for what they hold. `handle_cmd_open` closes its handle also
when `uv_tcp_init` failed (`handle_is_init` is set and never tested): the process
ends there. It is a module of its own so that the
other results are not about a process whose memory is already undefined.

### Lifecycle

`service->state`, main's position in `svl_service_stop`, and the IO thread's
position in `svl_service_io_thread`. Each load and each store that can race is a
step: `svl_service_stop` loads, stores STOPPING, joins, stores STOPPED;
the IO thread tests for STARTING and then stores STARTED; `svl_service_stop_signal`
loads and then stores. `svl_service_start` is one step, which
`StoppedMeansJoined` justifies: nobody else runs when it is let through.
Connections are a count, bounded by the links.

Constants choose the environment: `Faults` (`svl_service_setup`, thread launch,
initialisation, `tn_endpoint_string_get`), `Sigint`, and `Patient`, a caller that
stops only when the IO thread is through its start-up or gone, and frees only when
the thread has ended. `Patient` is not what the code enforces: the runs with it and without it show what depends on it.

After the second `uv_loop_close` fails (a handle closed by `uv_walk` stays in the
loop until it is run again) the thread stores ERROR and ends.

### Plugin

`Lifecycle` with the plugin's polling `service_stop` as the caller.
`service_state_wait` tests its time limit before the state it has just loaded,
as the code does. `servlynx_cleanup` frees the service whatever stop returned and
never calls `svl_service_cleanup`. `servlynx_setup` hands out the service also when
`svl_service_setup` failed: it then has no `priv`, a thread started on it ends at
once, and its state stays STARTING. After a clean-up that left a thread behind
(finding 5), `servlynx_setup` makes a new service, and the old thread, which runs in
freed memory, is not followed any further.

### MC modules

`DatapathMC`, `LifecycleMC`, `PluginMC` and `ApplicationMC` instantiate the modules
for TLC. `PluginMC` also takes in `Util`, the managed code on the other side of the
plugin. `DatapathMC` declares links, buffers and write requests symmetric; the liveness
run does not use symmetry.

Operators named `X_Something` placed before `X` are deliberately wrong variants
of `X` (a dropped guard, an off-by-one, a missing reset), each listed in
`PROJECT.json` with the property that notices it.

## 3. Runs

| Run | Instance | Shows |
|---|---|---|
| `datapath` | 2 links, 2 buffers, 1 write request, 2 events, 1 command, buffers of 1 | 1.3 million states: all safety properties of `Datapath` below, and `ImplementsSessions` |
| `datapath_live` | 1 link, 2 buffers, 1 write request, 2 events, 2 commands, buffers of 1 | `StopCompletes` |
| `link_leak` | 1 link, 4 of everything else (the code's ratio) | finding: `CapacityKept` fails |
| `connect_refused` | 2 links, 1 buffer, 2 events | finding: `ClosesOwnHandle` fails |
| `lifecycle` | 3 connections, all faults, impatient caller, no SIGINT | safety |
| `lifecycle_live` | 3 connections, all faults, SIGINT, patient caller | `StopReturns`, `StartResolves` |
| `lost_stop` | 3 connections, no faults, impatient caller, no SIGINT | finding: `StopReturns` fails |
| `sigint_cleanup` | 3 connections, impatient caller, SIGINT | finding: `PrivLive` fails |
| `plugin` | 2 connections, all faults, SIGINT, 10 polls; helpers on 0 to 23 bytes | safety and `PluginReturns`; `ByteOrderReversed`, `MemoryExact`, `MemSetRepeats` |
| `plugin_timeout` | 2 connections, no faults, SIGINT, 10 polls | finding: `ServiceLive` fails |
| `application` | both programs; 1 link, 2 buffers, 1 write request, 2 events, 1 command, a send every 2nd frame, a counter that wraps after 4 | 784 thousand states: `ImplementsDatapath`, `EchoDrains` |
| `echo_buffer` | the same, sending in every frame but the first, wrapping after 2 | finding: `SentMemoryStable` fails |

Properties of `Datapath`:

* `BufferExclusive`, `BuffersConserved`: a read buffer is in exactly one of the
  pool, a link, an undelivered or unreleased event;
* `ListsConserved`: so is every event and command, by count;
* `HandleLive`: an OPEN link has a live stream, the condition on which
  `handle_cmd_close` and `handle_cmd_send` dereference `link->priv`;
* `WritesLive`: a write in flight is on a stream that exists;
* `FreeLinkQuiescent`: a free link has nothing left over;
* `AppOrder`, `CloseWillBeSeen`: per id, events alternate OPEN, READ*, CLOSE for
  the application, and if a link is free again while the application believes it
  open, its CLOSE is on the way;
* `WritesAnnounced`: a write in flight, whatever id its command carried and however
  stale, is on a connection the application was told of or will be by the events
  already queued;
* `LostOnlyWithoutEvents`: a link is lost only by a close with no free event;
* `ImplementsSessions`: the events are those of `Sessions`;
* `StopCompletes`: a stop, by main or by SIGINT, drains the loop, if the peers leave.

Properties of `Lifecycle` and `Plugin`:

* `PrivLive`, `StoppedMeansJoined`, `StartedMeansServed`, `ListenNotRaced`: without
  SIGINT, memory outlives the thread, a restart finds no thread, STARTED means a
  running loop, the address is not rewritten under set-up;
* `StopReturns`: a stop returns, if the caller is patient and the peers leave;
* `StartResolves`: the service leaves STARTING, except in two cases in which it stays
  there until somebody stops it: the thread could not be launched
  (`service.c:282` returns without restoring the state), or it is a listening service
  whose thread ended because `tn_endpoint_string_get` failed (`service.c:98` leaves
  `ret` at success, so ERROR is not stored). All faults are on in the run, which
  shows that there is no third case. Nothing in the repository says what the state
  should be then, so these two are reported here and not as findings;
* `SuccessMeansJoined`, `FreedOnlyByTimeout`: with SIGINT and all faults, a successful
  `servlynx_stop` leaves no thread, and only a time-out frees a service in use;
* `PluginReturns`: every call of the plugin returns, if the peers leave: the join
  inside `svl_service_stop` has no time limit.

Properties of `Application` and `Util`:

* `ImplementsDatapath`: no event or buffer is put back twice, although release
  keeps its count, because acquire clears it even when it fails;
* `EchoDrains`: the server cannot keep its own IO thread in `on_check_cb`, which
  drains the command queue until it finds it empty while main may go on queueing.
  Each command of the server answers a READ, and READs come from the poll phase the
  IO thread is kept from. It is not claimed of the load generator, which sends by
  its frame counter: only the time a frame takes bounds it;
* `ByteOrderReversed`, `MemoryExact`, `MemSetRepeats`: the helpers against
  reference definitions (`ReversesBytes`, `CopiesAndCompares`, `FillsRepeatedly` of
  `Util`); they keep no state and are tried once, before `servlynx_start`. `MemSetRepeats` leaves out negative shorts and ints: their
  sign is extended over the rest of the pattern before the shifts are or-ed in
  (`Util.cs:206`, `:214`), and nothing in the repository says what they should write.

Bounds. In `datapath` every pool is small enough to run dry while two
connections compete for it: two events hold the CLOSE of one connection and the
OPEN of the next with the same id, or leave the second connection without one.
One command suffices for safety because it is free again as soon as it has been
handled, so main can queue the next one while `on_check_cb` is still draining;
the liveness run has two. (Three events, 5.1 million states, and two commands,
7.2 million, were checked as well.) The pools of the code are four times the links; the
smaller ratios only make more error paths reachable, and `link_leak` uses the
code's own. Buffers of 1 unit separate an empty read from a full one; the proofs hold
for every BufCap. One
link suffices in `application`: its questions are about the batch and the command
queue, and two events make batches in which a CLOSE follows a READ or an
OPEN. A wrap after 4 frames gives two sending periods between one connect and the
next; the load generator then asks for a second connection while the first is open,
closing or gone. MemCpy copies 23 bytes by two words and the longest tail, and every bit of a
value moves independently, so values of two one bits are enough for the helpers
(`UtilProofs` has every length and value). In
`lifecycle` three connections allow one to close while others stay. The plugin's
10 polls are the code's 500 ms in steps of 50 ms; a poll may find any progress of
the IO thread, so slow start-up is included. All constants are unbounded in the
proofs.

Fairness. The IO thread and main are scheduled (weak fairness of their steps
inside a call or a loop iteration); the repeating 100 ms timer fires again and
again, also when other callbacks intervene (strong fairness of `on_timer_cb`
in `Datapath`, where a loop iteration may find it not yet due). Peers disconnect
and connects are answered in the end (`PeerProgress`, `ConnClose`): the code
cannot enforce this, since its timer closes no links, so the stop results are
conditional on it. Nothing obliges main to call anything in
`Datapath` and `Lifecycle`; in `Application` its loop is scheduled (weak fairness of
`Main`), and of the IO thread it is only assumed that it does not stop inside
`on_check_cb` (weak fairness of `IoDrain`). In `plugin` the only
fairness is the same: both threads are scheduled and peers leave.

Deadlock is checked in every passing run: a service at rest can always be called.

### Findings

1. `lost_stop`: `svl_service_stop` during start-up stores STOPPING between the IO
   thread's test for STARTING and its store of STARTED. The stop is lost, the timer
   never closes the handles, and the join waits for ever. The test
   `svl_service_start_stop_immediately` expects it to return.
2. `sigint_cleanup`: after SIGINT, `svl_service_stop` sees STOPPING and returns
   success without a join; both applications then clean up while the loop runs.
3. `link_leak`: a close that finds no free event never returns its link.
4. `connect_refused`: a failed outbound connect cleans up through uninitialised
   variables.
5. `plugin_timeout`: `servlynx_cleanup` frees the service after a stop that timed
   out, either because start-up took longer than 500 ms or because SIGINT left
   STOPPING for nobody to turn into STOPPED.
6. `echo_buffer`: the echo server sends out of the read buffer that it releases in
   the same frame; `svl_service_cmd_send` copies the pointer only, so the buffer is
   back in the receive pool while the send is queued. `pool_write`, meant for
   sending, is allocated and never used.

## 4. Proofs

Six modules are checked by TLAPS: `DatapathProofs`, `SessionsProofs`,
`LifecycleProofs`, `PluginProofs`, `ApplicationProofs` and `UtilProofs`. Between them they prove every invariant, every
action property and every refinement that a passing run checks. The assumptions are
those named in the modules (`DatapathAssumption`, `LifecycleAssumption`,
`PluginAssumption`, `ApplicationAssumption`, `UtilAssumption`):
pool sizes are natural numbers, a buffer holds at least one unit, the markers for
"none" are not links or buffers, the load generator sends every n-th frame for some
n > 0 and its frame counter wraps after some m > 0. In particular nothing
relates the sizes of the pools.

**Datapath.** All eleven safety properties are theorems of `Spec`. They rest on one
inductive invariant, built in layers so that each layer's proof assumes only the
ones before:

* `TypeInv`: types, conservation of events and commands (the pool counts are
  bounded only because they are conserved), and `EventShape`: exactly READ events
  carry a buffer;
* `HandleInv`: `HandleLive`, with `FreeIdle` (a free link has no stream) and
  `OffQuiet` (with the loop not running no stream is left). The last one is what
  makes a restart safe;
* `WritesLive`, inductive given the two above;
* `BufInv`: exclusive, conserved, and `IdleNoBuffer`: a link without a reading or
  closing stream holds none, without which taking a link from the list would drop
  a buffer;
* `OrderInv`: `Told(l)`, what the application will believe of `l` once it has
  consumed the events in flight, relates the queue to the link: the events of each
  link are in order, a reading link has been told, an unopened one has not. `AppOrder`
  alone is not inductive, as it says nothing of events behind the first;
* `WritesAnnounced`: a send is only made on an open link, which by `OrderInv` has
  been told; a link is only told otherwise by its CLOSE, which `on_close_link_cb`
  queues after libuv has cancelled its writes.

`LostOnlyWithoutEvents` follows action by action from the same invariant.

**Sessions.** `DatapathImplementsSessions`: every action of `Datapath` is, under
the mapping, a step of one id in `Sessions`, a consumption, or a stutter. The same
invariant is needed: that a free link has no stream makes taking it start from
"idle", and conservation of events turns an empty free list into a full queue.

**Lifecycle.** Types hold always. The safety properties are proved under
`Sigint = FALSE`, and run `sigint_cleanup` shows the assumption is needed for
`PrivLive`. The invariant `LifeInv` adds: STOPPING means main is in
`svl_service_stop` and will join (`StoppingJoins`), a cleanup is only allowed when
nothing was started since (`OkMeansIdle`), the state during set-up is STARTING or
STOPPING (`InitState`), and the handles are open before the loop runs
(`HandlesReady`).

**Plugin.** With SIGINT, faults and any time limit: types, `SuccessMeansJoined` and
`FreedOnlyByTimeout`. The invariant says where the caller can be while inside
`svl_service_stop`, that ERROR is stored only by a thread on its way out or when
there is none (`ErrorMeansGone`), and that success keeps STOPPED until the next start.

**Application.** Both programs at once. `AppInv` says that the batch is within its
array while it is walked (`BatchInv`), that there is one pointer for each queued
command (`PointerInv`), where main is in its loop (`LoopInv`), and that Datapath's
`TypeInv` holds of the batch and queue together. The last part is what makes an event
that main gives back fit into the free list. From it:

* `ProgramsTyped`, the types;
* `ProgramsImplementDatapath`: acquire, release and the commands of the loop are
  Datapath's, the rest of the loop is a stutter, and a step of the IO thread, which
  pushes to the end of the queue, does the same to batch and queue together;
* `ProgramsKeepPools`, `ProgramsKeepStreams`, `ProgramsSeeOrder` and
  `ProgramsSeeSessions`: Datapath's theorems about the programs, by instantiating
  `SessionsProofs` (and with it `DatapathProofs`) under the refinement mapping. Nothing
  is proved twice. The last one composes the two refinements.

**Helpers.** HtoN is proved bit by bit for every value. MemCmp, MemCpy and MemSet are
about exactly the bytes asked for because the accesses cover them: words, then one of
the eight tails (`AccessesCover`), and no access leaves the word it belongs to
(`InWord`), which is why MemSet's tail continues the pattern. MemCpy and MemSet fold
over the accesses. The induction theorems of the library cannot be instantiated here,
but the principle of the least natural number can (`LeastNatural`, from the
well-foundedness of <): the memory after a set of accesses is known in closed form
(`CopiedBy`, `FilledBy`), it solves the equation that defines the fold, and a second
solution would differ first somewhere (`FoldInduction`). For MemCpy the closed form
needs the regions apart: what an access loads has not been written to.

Only model-checked: the liveness properties (`StopCompletes`,
`StopReturns`, `StartResolves`, `PluginReturns`, `EchoDrains`), which need
fairness and ENABLED and so are out of this prover's reach; and the six violated
properties.

## 5. Not modelled

* Link framing (`svl_link_read_header`, `_read_payload`, `_buffer_swap`),
  `svl_link_list_reset`: no caller, and their effect is decided by `tn_buffer`, which
  is not in the repository.
* The configuration (`svl_service_config_setup`, `_setup_default`): products and sums
  that wrap unchecked in `size_t`. `svl_service_setup` does not read them, and the
  heap estimate depends on the sizes of tn's records, so there is nothing in the
  repository to compare them with.
* `socklynx_*` of the plugin: each forwards to the socklynx library, which is not in
  the repository; `servlynx_events_acquire` and `_release` forward to the calls that
  `Datapath` and `Application` model.
* Managed bindings: struct layouts and declarations.
* Thread safety inside tn's queues and pools; contents of messages and endpoints,
  ids of commands, statistics, logging; which of the allocations in
  `svl_service_setup` failed (they leave the same state, and leak what came before);
  times and sleeps.
* Which of STOPPED and a failing thread's ERROR should win, and whether commands
  left over from one run should be executed by the next: both behaviours are in the
  models, but nothing in the repository says what is wanted.

## 6. Plan

Done, in this order: `Datapath`, `ConnectFailure`, `Lifecycle`, `Plugin` and their
proofs; `Sessions` with its refinement and proof; `Application` and `Util`.
Then the proofs about the programs (`ApplicationProofs`) and about the
helpers (`UtilProofs`), and `WritesAnnounced` with its proof. With these no safety property of a passing run is left without
a theorem. Next, where the prover allows: the safety parts of the liveness arguments,
such as what an iteration of a stopping loop must have closed before it can exit.
