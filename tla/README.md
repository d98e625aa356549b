# A verification development for XIOS

XIOS is the I/O server of climate models: the model's processes (clients) send
the fields they compute to dedicated processes (servers), which process and
write them while the model goes on. This directory specifies in TLA+ how that
program coordinates its processes, and the algorithms by which each process
works out alone what it must have in common with the others. Each module is
translated from the source; the comment that opens it names the files.

Parse with `tlasany M.tla`, check with `tlc -config X.cfg MCM.tla`, prove with
`tlapm M_proofs.tla`. `PROJECT.json` maps every definition to the lines it
models, lists the runs, and gives for every property mutations of the code
that the property catches.

Contents: 1 inventory, 2 modules, 3 runs, 4 proofs, 5 what the checks show,
6 divergences, 7 not modelled, 8 plan.

## 1. Inventory

### The system

A **client rank** runs the model and calls XIOS between its time steps. It
holds a *context* (`CContext`), the workflow of filters, and a *context client*
per connected server context. A **server rank** runs event loops only: a
resource loop, a pool loop, service loops, context loops. On a server each of
them is a thread and the threads take turns (`CThreadManager`); on a client
there are no threads and `yield` runs the event loops nested in the caller.
Every inter-rank message is an *event*: it has a *timeline* (its number on the
connection), and each client rank sends its part of it to each server rank
that is concerned. A server rank collects the parts, and once the event is full
it agrees with the other ranks on when to handle it, because handlers make
collective calls. A server context may be a *gatherer*, which is in turn a client
of *writers*; contexts may be *coupled*, one sending fields to another.

A run goes: codes and servers meet (by files or in the global communicator);
the ranks are divided into pools and services; clients ask for their contexts; each context declares its fields and closes its definition,
coupled ones exchanging grids; then time steps, in which fields flow through
the workflow to files and to other contexts; contexts end, tier after tier;
registries are saved for the next run; the servers end.

| Component (source under `src/src/`) | State | Operations | Hard behaviour | Status |
|---|---|---|---|---|
| Window lock, `manager/window_base.hpp`, `window_dynamic.hpp` | a 64-bit lock word per window, a payload | lock, unlock, exclusive and shared; put, get, flush | readers register while a writer holds; half-word release; puts land late | modelled, proved |
| Server ring, `buffer_server.cpp` | `first`, `current`, `end`, `used` | get, free, pop, tests | wrap-around, off-by-one, unsigned underflow | modelled, proved |
| Thread manager, `manager/thread_manager.hpp` | ring of threads, notified flags, one mutex | spawn, initialize, yield, join, finalize | wake-ups before waits, spurious ones, links changed by both neighbours | modelled, proved |
| Legacy transport, `buffer_client.cpp`, `transport/legacy_*` | two windows, step of a resize, pending request; ring, current window | send, one-sided take, resize dialogue, finalize | two paths for the same bytes; toggles on both sides; addresses that change | partly: one client rank, one server rank; proved |
| Peer-to-peer and one-sided transports, `transport/p2p_*`, `one_sided_*` | chains of circular buffers on both sides, blocs, control words | write, grow, transfer, free, finalize | a mirror kept without talking; addresses put back late | partly: idem |
| Events, `event_client.cpp`, `event_server.cpp`, `legacy_context_server.cpp` | parts of an event, number of senders | push, isFull, check | clients that disagree; parts in any order | modelled |
| Event scheduler, `event_scheduler.cpp` | tree of ranks, counts of children, stack of events | register, check, query, pop; split | messages in any order through a tree; a key used again; split with events in flight | modelled |
| Event processing, `legacy_context_server.cpp`, `node/context.cpp` | current timeline, barrier, handler | processEvents, synchronize | collectives of several contexts; sends from within a handler | partly: not what a handler computes; proved |
| Managers of resources, pools, services and contexts, `manager/*` | tables, notification windows, split schedulers | create, notify, split, end | ranks that learn of a creation at different times; a rank in a collective call runs none of its threads | partly: the server side |
| Coupler manager, `manager/coupler_manager.cpp` | list of whose turn it is | register, turn | circular waits of contexts | modelled, proved |
| Contexts, `node/context.cpp`, `manager/server_context.cpp` | flags of the definition and the end | closeDefinition, finalize | decisions each rank makes alone before a collective call | partly |
| Entry points, `server.cpp`, `client.cpp` | files the codes exchange, whose turn it is to merge, orders to end the OASIS definition | initialize by files or by the global communicator, `oasis_enddef`, finalize | files read while they are written, left by an earlier run, or waited for too shortly; the end announced before the start is over | partly |
| Registry, `registry.cpp`, `manager/registry_manager.cpp` | key-value maps, a file | gather, merge, save, broadcast | recursion over split communicators; a run that saves nothing | modelled |
| Workflow, `filter/*` | packets, triggers, collection | connect, trigger, invalidate | a part of the graph asked for twice | partly: not the arithmetic |
| Temporal operations, `functor/*`, `filter/temporal_filter.cpp` | counts, next sampling | sample, result, reset | steps and offsets that do not divide each other; missing values | partly: average, instant, once |
| Reading ahead, `filter/client_from_server_source_filter.cpp`, `node/field.cpp`, `node/context.cpp` | requests, last date, end of file | request, reply, end | ranks that hear of the end at different times | partly |
| Output, `node/file.cpp`, `filter/file_server_writer_filter.cpp`, `io/nc4_data_output.cpp` | files, records, registry | split, append, write | restart, crash, files that exist | partly: not NetCDF |
| Time, `date*`, `calendar*`, `duration*` | current date, origin | arithmetic on dates | months, leap years, time steps of any length | partly: not text, not fractions |
| Distribution, `distribution/*`, `node/domain.cpp`, `axis.cpp`, `grid.cpp` | bands, connectors, distributed table | compute, exchange | each rank computes alone what the others rely on | partly |
| Notification windows, `manager/window_manager.hpp` | shared buffer under a lock | update, push, pop | writers and readers on many ranks | partly: as atomic queues |
| Context, fields, grids and files as data, `node/*` | attributes, references | inheritance, geometry | volume of data, sequential | partly, see the modules that use them |
| Token manager, `manager/token_manager.hpp` | two counters | get, check, update | | not modelled: no caller |
| Online transport, transformations, parsing, serialization and diagnostics | | | | not modelled, section 7 |

### Hazards

`PROJECT.json` lists forty, at their lines, with the properties that would catch
each, or why none does. They fall in five families.

* **Two sides that keep the same state without talking**: windows turned on both
  sides (`legacy_context_server.cpp:213`), mirrored chains
  (`p2p_server_buffer.hpp:107`), addresses kept while a get is in flight
  (`one_sided_server_buffer.cpp:99`), occupancy counted by a leader and by its ranks
  (`pool_ressource.cpp:348`), bands and levels worked out from ranks alone
  (`client_client_dht_template_impl.hpp:602`).
* **Collective calls made in an order each rank finds alone**: handlers
  (`legacy_context_server.cpp:330`), `closeDefinition` (`context.cpp:787`), splits
  of schedulers (`pool_ressource.cpp:337`), couplings (`coupler_manager.cpp:71`),
  gathering of registries (`registry.cpp:266`).
* **Stale values**: a local count (`buffer_client.cpp:246`), an address that was processed
  long ago (`one_sided_client_buffer.cpp:179`), the end of a file heard of at
  different times (`client_from_server_source_filter.cpp:76`), a file of an earlier
  run (`client.cpp:265`).
* **Limits and boundaries**: rings and chains that fill exactly, unsigned tests
  that cannot fail (`legacy_context_server.cpp:242`), periods, offsets, months
  (`temporal_filter.cpp:84`, `calendar_util.cpp:91`).
* **Starts and ends**: lock words and condition variables
  (`window_base.hpp:51`, `thread_manager.hpp:69`), contexts that end before those that
  feed them (`context.cpp:957`), restarts (`file.cpp:236`), codes that give up
  waiting or read too soon (`client.cpp:256`, `server.cpp:459`), clients that hold
  nothing of a grid (`grid_remote_connector.cpp:772`).

## 2. The modules

    RmaLock             the window lock                     proved: RmaLock_proofs
    ServerRing          the server's ring of bytes          proved: ServerRing_proofs
    ThreadManager       the turns of a rank's threads       proved: ThreadManager_proofs
    EventChannel        what a transport promises           (abstract)
    LegacyChannel       the legacy transport, implements EventChannel
                                                            proved: LegacyChannel_proofs
    BufferChain         the circular buffers of the next two (operators)
    P2pChannel          the peer-to-peer transport, implements EventChannel
    OneSidedChannel     the one-sided transport, implements EventChannel
    EventOrder          what the scheduler promises         (abstract)
    EventScheduler      the tree of ranks, implements EventOrder
                                                            proved: EventScheduler_proofs
    EventAssembly       the parts of events, of several clients on several servers
                                                            proved: EventProcessing_proofs
    EventProcessing     server contexts on top of EventOrder (INSTANCE)
                                                            proved: EventProcessing_proofs
    Startup             how codes and servers come to one communicator
    Deployment          pools, services and contexts on the servers, split schedulers
    Coupling            the channels between coupled contexts
                                                            proved: Coupling_proofs
    CoupledDefinition   the close of the definition of coupled contexts
                                                            proved: ContextEnd_proofs
    ContextEnd          the end of contexts over clients, gatherers and writers
                                                            proved: ContextEnd_proofs
    Registry            what a run leaves to the next one
    Workflow            the graph of filters
    Averaging           the temporal filter
    ReadAhead           the records of a file, asked for in advance
    FileSeries          the files a writer makes, over several runs
    Calendar            dates, durations, steps and splits
    Leaders             who leads a server, chunks (operators)
    ServerBands         the bands of domains and axes that clients describe
    RemoteConnector     who sends which points of a grid to whom
    GridDistribution    how a grid gets to the servers, and its values there and back
    HashGroups          the levels of the distributed table (operators)
    CommLevels          what each process works out of them alone
    DistributedTable    the exchanges through the levels

    MCTransports, MCEventScheduler, MCEvents, MCDeployment, MCContexts, MCData,
    MCCoupledDefinition the instances TLC checks of several components at once, or of
                        one with values a .cfg cannot write; the runs of RmaLock,
                        ServerRing and ThreadManager need no such module

How they rest on one another: `LegacyChannel`, `Coupling` and `Deployment` take
a section under a window's lock as one step, which is what `RmaLock` shows of it.
`LegacyChannel` counts the ring's bytes, and accepting is fair only when the ring is
empty, which `ServerRing` shows to be always possible (`EmptyRingFits`).
`EventAssembly`, `EventProcessing`, `ContextEnd`, `CoupledDefinition` and
`ReadAhead` take a channel as exact and in order (`EventChannel`), and take events in
one order on all ranks (`EventOrder`). `Deployment` takes each of its chained schedulers
as `EventOrder` too. The contexts of a rank interleave only where they
yield, the discipline of `ThreadManager`.

### Composite instances

A run checks several components at once where they answer one question. Such an
`MC` module declares the variables of all of them and a variable `part`; the
initial state chooses the part, the variables of the others are `Off`, and the
next-state relation is, for each part, the component's own `Next` with the rest
unchanged. The instances come from `INSTANCE ... WITH`, so that the same
component appears with several values of its constants (two trees, two
calendars, clients that agree and clients that do not). `MCTransports`, `MCEvents`,
`MCDeployment` and `MCContexts` extend the one component of theirs that is proved
about (`LegacyChannel`, `EventProcessing`, `Coupling`, `ContextEnd`), whose constants the `.cfg`
gives and whose variables stay as they begin in the other parts: the run then checks
the very invariant that the theorem states. `MCEventScheduler` extends `EventScheduler`
for three ranks and takes five ranks by `INSTANCE`; `MCEvents` takes the three instances of
`EventAssembly`, whose theorems are about an instance too. TLC takes a fairness
condition on the component's `Spec` apart only when it is written in the composite,
so each `WF_v(A)` of a component is restated as `WF_v(part = ... /\ A)`, for the
component's `v`. Where a part never comes back to a state, one condition on all the fair
actions together says the same: a behaviour goes on for ever only by stopping,
and then none of them may be enabled. A property of the composite is a conjunction, part by
part, of named invariants of the components; the component's module states
each of them with the code it is about.

### RmaLock (`manager/window_base.hpp`)

One lock word, a record of its low and high `int`; one payload value. Each MPI
call is one action: the compare-and-swap of the whole word (`TryLockExclusive`),
the fetch-and-add of the first shared attempt, which registers the reader even
while a writer holds (`LockSharedFirst`), the re-reads that follow
(`LockSharedRetry`), the half-word compare-and-swap of the release
(`UnlockExclusive`), the half-word decrement (`UnlockShared`). A put lands at
any time between its call and the flush. An exclusive section reads, computes
and puts back, as the users of the lock do; the ghost `commits` counts
sections. The spin loops' back-off is left out: a failed attempt changes
nothing. *Assumption*: MPI operations of 64 and of 32 bits on the same word are
atomic with respect to each other; MPI promises that only for equal types.

### ServerRing (`buffer_server.cpp`)

The four members of `CServerBuffer`, every branch of `isBufferFree`,
`getBuffer`, `freeBuffer`, `popBuffer` (with their errors, `failed`), and the
calls the transport makes: a reception with or without the test for room, the
one-sided take into an empty ring, the end of a reception (all of it becomes
sub-events, or a control message is popped), the end of a sub-event. The ghost
`q` remembers which bytes are live. A count of 0 is an early return everywhere
and is left out. Messages have 1 to `BuffSize` bytes: a message is what a window of
the client holds, and the ring is three times that size.

### ThreadManager (`manager/thread_manager.hpp`)

The ring's links, `isNotified`, and where each thread is with respect to the
mutex and to its wait. `notify_one` reaches a thread only if it waits. Any
thread may spawn or finish on any turn of its own, more than the program does;
the id of a joined thread may be used again. A spurious wake-up may happen at
any time. `yield` tests the address of `isMasterThread`, which is never null,
so every thread that yields joins the finished ones; the model does what the
code does.

### EventChannel and LegacyChannel

`EventChannel`: events accepted in the order of their timelines are processed
once each and in that order, all of them, and only then are the client's
buffers released.

`LegacyChannel` is one client rank and one server rank, once the windows exist.
On the client: `sendEvent` with its three outcomes (room, no room, no room on
another server), `checkBuffer` (send and turn to the other window; or the steps
of a resize), `setBufferSize` at the end of the definition, `finalize` with its
two loops. On the server: probe, receive, process the message (events,
NotifyChangeBufferSize, ChangeBufferSize), look in the client's window and take
what starts with the current event, start and end an event, the
acknowledgement of finalize. `plan` chooses the event sizes of the client,
0 where it has nothing for this server; such timelines are handled by the server
on the parts of others (`OtherEvent`), at any time. What a window or a message
holds is a set of items, each an event or a control message at its offset; the
server's `events` is the set `held` of the items in its ring. The history variable
`offset` is the place of each event in the whole stream of the client's bytes: it makes
the number of bytes of any stretch of events a difference of two values. Left out: latencies (every
delay is possible), the creation of the buffers, windows that do not exist
(`hasWindows` false), the processing of a part by the context. The growth factor
1.2 is `* 12 \div 10`, a control message has size 1.

### BufferChain, P2pChannel and OneSidedChannel

`BufferChain` has the two circular buffers, the client's `write` (contiguous
room, two calls per buffer) and the server's `reserve` and `remain`, as the
code computes them, and the growth of the chain.

`P2pChannel`: the client copies an event (`WriteEvent`) into its chain, making a
buffer when the last is full and a larger one when it may grow; `EventLoop`
posts the synchronous sends, at most `MaxSent`, tests them and frees the oldest
blocs. The server receives headers (`ReceivedRequest`), makes the mirror of the new
buffers when their resize messages say so, posts a receive for each bloc while
its own buffer has room (`CheckBuffers`), and frees at the end of the event. A send is
complete when its receive is posted. `fault` is what `transferEvent` would do
wrong.

`OneSidedChannel`: the same chain, attached to windows used in turn; the server
gets blocs by their addresses, keeps the address of the last bloc of an event that is
over (`lastBlocToFree_`) and puts it in the client's control word when no get is
in flight; the client frees up to it. An address is a window, the buffer's offset and,
where memory may be used again, not the buffer.

In both, timelines in which this client has nothing for this server send
nothing and are left out, and the end is the finalize event and the notification
that answers it.

### EventOrder and EventScheduler (`event_scheduler.cpp`)

`EventOrder`: one sequence, extended by an event only when all ranks have
registered it (once more than it has been chosen), that all ranks follow.

`EventScheduler` builds the tree as `initialize` does (fan-out, parts, levels;
pure operators) and passes messages up without order (`up` counts those on their way
for each key, since they come from several senders and are drained by `MPI_ANY_SOURCE`;
`recvEvent` counts those received, as `recvEvent_` does) and down as one queue per
pair of ranks (MPI keeps the order between a pair). Three variables are history and no
action reads them to decide anything: `order`, to which an event complete at the root is
appended; `ahead`, the events a rank has announced at a level and the root has not
broadcast since; `got`, the number of events a rank has had at a level, which a message
carries as its third field. `schedulerLevel` and
`splitScheduler` are in `Deployment`.

### EventAssembly (`legacy_context_server.cpp`, `event_server.cpp`, `legacy_context_client.cpp`)

Several clients write their parts of a script of events, each from what *it*
believes the events to be; a buffer leaves as a message when the client calls
the library, or is copied by the server (`Pull`), which looks at one client after the
other. The server makes an event of a timeline with the first part, adds the
others with the checks of `push`, registers it when it is full and it is next, and
handles it. With `CheckSync` the clients send together, after the collective comparison
that `check_event_sync` makes (`SendChecked`). A client may call the library no more after
its last event.

### EventProcessing (`legacy_context_server.cpp`, `node/context.cpp`)

For each rank and context: the current timeline, whether it is registered,
whether the barrier has been entered, and how far the handler is. Entering a
barrier does not block (`MPI_Ibarrier`); a collective call of a handler blocks the whole
rank, all its threads. A forwarding context sends from its handler and
synchronizes in a loop of yields, during which the other contexts of the rank
go on. Servers always run with threads (`cxios.cpp`), which is what `Looping`
says. When a rank has received all parts of an event is left to chance:
`RegisterEvent` may happen at any time.

### Startup (`client.cpp`, `server.cpp`)

The root of each code leaves its global rank in a file (opened, then written: two
steps) and polls for the files of those it meets; the ranks of the servers read the
files each for itself; then the intercommunicators are made and merged one after
the other, each a collective call of two groups that starts when the roots of both are
there. Without `clients_code_id` the global communicator is split instead. Then the
end of the OASIS definition: each code's root tells the servers' root, which tells its
ranks, which register an event and end the definition together. `Left` are
files of an earlier run, `Torn` lets a file be read between its opening and its
closing, `Patient` says that no client gives up before the servers are there.

### Deployment (`server.cpp`, `client.cpp`, `manager/servers_ressource.cpp`, `pool_ressource.cpp`, `server_context.cpp`, the managers)

`Script` is what the server leader asks for: pools, services with a number of
partitions, services onto another service. Requests travel as notifications,
each window a queue. A rank has three kinds of loops (`srv`, `pool`, `svc`),
each with its own place in its code, and one chain of schedulers; an event is
announced at the rank's own group and decided at the level it is of. A
collective split stops all threads of the rank until the group is there
(`SplitPool`, `SplitService`). `lost` collects what a replaced scheduler still held.
Contexts are asked for by clients (`Contexts`) at any time after the barrier, and the
servers end when the clients do.

### Coupling (`manager/coupler_manager.cpp`, `node/context.cpp`)

A context stands for its rank 0, which registers each coupling it declares and then polls
them in the order of their names, first those it sends on, then those it receives
on; the manager's two lists say whose turn it is; creating a channel takes both. The
maps of a context are the set of its couplings, from which `FirstOf` takes the next in
the order of the code (`Before`).

### CoupledDefinition (`node/context.cpp`)

Every rank of every context through `closeDefinition`: it waits for the
receivers to be ready while its event loops run, decides alone which are, then
makes the collective calls that build and exchange grids, tells its senders,
and waits for its receivers to close. Events are announced, decided and
processed as `EventOrder` orders them, with the barrier of `processEvents`.

### ContextEnd (`node/context.cpp`, the contexts' clients and servers)

Client ranks of several contexts, gatherers and writers that have them all. A
client writes the finalize event and waits; a gatherer takes it, forwards it to
the writers and waits for their notification *without yielding*, so that its
other contexts stop; writers close the files. A context that sends to another
ends after it (`gone`). A gatherer announces its part of the forwarded event to its
own scheduler and takes it from the front, so that gatherers which end several contexts
do so in one order.

### Registry (`registry.cpp`, `manager/registry_manager.cpp`)

`calls` holds, per rank, the collective calls that `hierarchicalGatherRegistry`
makes from its own arithmetic (splits in halves rounded up); a gathering takes place when all
the ranks it names have it as their next call. A run may be stopped before its end and
then saves nothing; the next one reads the file.

### Workflow (`filter/*`)

Nodes, slots, connections made in any order, packets kept per date in an input
pin, triggers that ask upstream for what is missing, sources that keep their
packets until asked, the store the model reads, and the garbage collector. A
packet is the set of the source packets it was made from, so that a filter that
mixes dates or computes twice shows.

### Averaging, ReadAhead, FileSeries

Dates are counted in time steps (or output periods). `Averaging` runs two copies
of the temporal filter: `full` is sent every date, `lazy` only what
`isDataExpected` asks for. A sample is named by its date. `ReadAhead` has the
ranks of a client (each decides alone whether to send a collective request), the
server's record counter and its replies. `FileSeries` has a disk that outlives runs:
`checkWriteFile`'s split, append and restart logic and the record numbers of each field.

### Calendar (`date*`, `calendar*`, `duration*`)

Dates as `[y, m, d, s]`, durations field by field, the operators `+`, `-`,
`resolve`, the conversion to seconds since the origin, the calendars'
leap rules, and the calendar as it is created and stepped. `ExactSeconds`
compares the date reached by adding steps with the count of the seconds.

### Leaders, ServerBands, RemoteConnector (`distribution/*`, `node/domain.cpp`, `axis.cpp`)

What each client works out alone from its rank and the sizes: the servers it
leads, the bands it describes to each, and, given the views of the elements on all
clients, which clients send which points of a grid (`computeConnectorOut`, the
elements that are distributed, the clients left out because another has the same
block) and which points they read back.

### GridDistribution (`node/grid.cpp`, `distribution/*connector*`, `filter/*_filter.cpp`)

A grid from its clients to its servers by the events the code sends, in their order:
the view of each element and its attributes, what each server gathers of them, the
mask of the grid, the values of a field, and the values of a file back to the clients.
A client holds its elements in an order of its own, the servers sort theirs; scatterers
and gatherers are functions between the cells of views. The value of a point is the
point, so that a value put in a wrong place or from two places shows.

### HashGroups, CommLevels, DistributedTable (`client_client_dht_template_impl.hpp`, `policy.cpp`)

The groups the processes are cut in, level after level, the part of the hash
values each holds, the two searches for whom to write to and whom to hear from
(operators); each process's own result (`CommLevels`); and the exchanges: counts,
then elements, in messages whose tags are the same at all levels, matched by
their order between two processes (`DistributedTable`).

## 3. Runs

| Run | Parts and instance | Distinct states | Questions |
|---|---|---|---|
| `rma_lock` | 3 ranks, values mod 3 | 9.6 k | exclusion, release, no lost update, readers served |
| `server_ring` | ring of 15, messages of 1..5 | 215 k | live bytes disjoint, empty ring fits, no error |
| `thread_manager` | 5 threads | 25 k | no lost wake-up, one ring, everyone runs |
| `transports` | legacy: 3 timelines, sizes 0..2, window of 2, fixed to 1; p2p and one-sided: 5 timelines, sizes 8 and 13, fixed to 28, 2 windows | 145 k | both ends agree, nothing read after it is freed, resizes end, each refines `EventChannel` |
| `event_scheduler` | 3 ranks, 2 events, 2 rounds; 5 ranks, 1 event, 2 rounds | 33 k | prefixes of one order, each event with its owner, counts complete, refines `EventOrder` |
| `server_events` | processing: 3 ranks, 2 contexts, 2 timelines; assembly: 3 clients, 2 servers, 3 events; 2 clients that differ, unchecked and checked | 74 k | no crossing, whole events, disagreement caught, all handled |
| `deployment` | 4 ranks: two pools and a service onto another, or three partitions; 3 contexts coupled in a ring; registries of 4 ranks over 2 runs, tree of 7; 3 codes and 2 server ranks meet by files or globally, 1 code alone | 36 k | ranks in step, start together, couplings in order, registry kept, all ends |
| `contexts` | 2 contexts of 2 ranks closing; 2 contexts of a client each ending over 2 gatherers and a writer | 51 k | collective calls meet, closed after the receivers, end in order, all over |
| `data` | the twelve instances of `MCData` | 122 k | workflow, averages, reads, files, dates, grids, lookups |
| `query_removes` | as `server_events` | | violation, section 6 |
| `p2p_full_ring` | p2p, events of 6 bytes in buffers they fill | | violation, section 6 |
| `coupled_definition_both_ways` | 2 contexts that send to each other | | violation, section 6 |

**Bounds.** Every bound is a constant or a value in an `INSTANCE`. Three lock
ranks give a writer, a second writer and a reader (or two readers) at once. A
ring of 15 bytes with messages up to 5 reaches wraps at every offset and gap,
popped messages included. In the legacy transport two windows hold two events of
size 1 or one of size 2, so that a window is shared by events or filled by one,
a resize by growth and one by `fixBufferSize` may both happen, and the one-sided
path may interleave with each of their steps. In the other two transports sizes 8
and 13 are unequal enough to wrap buffers at several offsets, to split an event in two blocs and
over two buffers, and to grow the chain once; with two windows the third buffer
takes the first window again. Three timelines of the legacy transport are the least with a
resize by an event, one that follows it through the new windows and one of other clients.
Two rounds in the scheduler use a key again while the
first use is on its way; five ranks have a fan-out of 3 and branches of unequal
depth. Three ranks and two contexts are the least in which ranks may wait for
one another in a cycle through two contexts and a third rank that is in neither
call. Four server ranks allow a pool of several services of which one has two
ranks, a rank left out of each split, and partitions of unequal size; seven
ranks are the least tree of gatherings with unequal halves at two levels. Three coupled contexts in a
ring with one pair both ways are the least circle that is not of one channel.
Two gatherers with two contexts are the least that may wait for each other; a second
client of a context adds only another who writes its part, which the theorem covers.
Sampling periods up to 3, output periods up to 4 and an offset include those that do not
divide each other; six dates are a period and a half of the longest. The short
calendar has a leap month, and steps of seconds, days, months, years and their
mixtures; grids of one or two elements over up to 3 clients and 4 servers have
every overlap and every mask; the grids sent to servers (`SentGrids`) have one or two
elements over 2 or 3 clients and 1 to 4 servers; three codes are the least for which
the merges of intercommunicators are chained; the levels of the table are computed for every
number of processes up to 40, which makes three levels.

**Fairness.** Weak fairness per step, where the code loops: spin loops of locks
(`window_base.hpp:85,105`), `getBuffers` and `finalize`, the event loops of
servers, `checkEvent_` in each turn, the loops of `closeDefinition` and
`CContext::finalize`. Nothing obliges a rank to start a section, a context to
register an event, a thread to spawn or to end, a client to call the library
after its last event. A message is sure to be accepted only when the ring is
empty. Strong fairness is used twice, each time for a loop that polls while other
steps of the same rank disable it for a while: the event loops inside `closeDefinition`,
and the model's time step between two reads. `EveryoneRuns` assumes that every event
loop yields again, which holds as every one of them is a loop around `yield` with
non-blocking calls.

**Deadlock** is checked except in `event_scheduler`, where all events popped is the
end, and in two of the violation runs. Elsewhere the end is an explicit
stuttering step under the condition that everything is over (`Finished`, or a disjunct of
the composite's `Next`), so that any other state without successor is found.

## 4. Proofs

All are for every value of the constants, under the named assumptions the
modules state (`ProcsFinite`, `ModulusPositive`, `BuffSizePositive`,
`MainAssumption`, `SizesAssumption`, `SchedulerAssumption`, `ContextsAssumption`,
`AssemblyAssumption`, `LinksAssumption`, `TiersAssumption`, `CouplingsAssumption`), which say
what the code guarantees. Each proof module has the
same shape: the invariant holds initially, each action preserves it, each
property follows from it.

* **RmaLock_proofs.** `LockInv` adds to the types that the high half counts
  exactly the ranks registered as readers (`CountInv`, a cardinality: hence the
  finite set of ranks), that the low half is 1 exactly when there is one owner,
  and how far the payload is ahead of the completed sections at each stage of an
  owner (`DataInv`). It is needed because exclusion alone is not inductive: a release
  is safe only because registered readers are counted in the other half. From it:
  `MutualExclusion`, `UnlockSucceeds`, `UpdatesKept`, `SharedReadsStable` (an
  action property).
* **ServerRing_proofs.** `RingInv` adds the geometry of the indices (one live
  stretch, or two with the wrap and the gap) and that the live regions tile it,
  oldest first. The key arithmetic fact is that a wrapped ring has more than two
  messages' worth of bytes below `end` (`Geometry`), which is why the ring is three
  times the client's buffer. From it: no error is ever raised, live bytes
  are disjoint and inside, `isBufferEmpty` is exact, and an empty ring takes any
  message (`EmptyNeverStuck`), on which the transport relies in two places
  without testing.
* **ThreadManager_proofs.** `TurnInv` joins the properties (turn, wake-ups, ring) and
  that the parent of a starting thread waits for it. They hold one another up: a notified
  thread is in its wait because there is one turn, and it is a linked thread
  because the ring is closed. That no part of the ring is closed under `next` is
  stated over sets of threads, so that no induction is needed.
* **LegacyChannel_proofs.** `LegacyInv` follows the client's bytes through three stages, the
  window, the way to the server and its reception. Each holds at most one message
  (`StagesKept`): the client tests the last send complete before it sends again, and
  a take needs the other two stages empty. A message is events or one control message
  alone, and the events of a stage all come before those of the stages behind it; an
  accepted event that the server has not received is in one of them (`NoneLost`). Which window each
  side uses is a matter of how many stages are occupied (`TurnsKept`), and so is where a
  resize has got to: a notification or a change has nothing before it or nothing
  behind it, and the addresses differ exactly while a change is on its way
  (`DialogueKept`). `OffsetsRight` says what the history variable `offset` is, with the facts
  about stretches of events that would otherwise need an induction; with it the used bytes
  of the ring are those of the events held (`RingAccounted`). The properties alone are not
  inductive: that both sides use the same window when nothing is on the way, say, rests
  on every message that can be on the way. From it: `EndsAlwaysAgree`, `RingEmptyWhenDeleted`,
  and, with what the histories record (`HistoryKept`), `FollowsTheChannel`: the safety
  part of the refinement of `EventChannel`. `SizesAssumption`: there is a finalize event and
  sizes are positive. Neither the size of an event nor that of the buffer is bounded by
  the other.
* **EventScheduler_proofs.** Two arguments, one about the tree and one about what moves in
  it. `TreeHasShape` is about `initialize` alone, for every number of ranks: the fan-out
  exists (`FanOut`, from `PowerCovers`), the parts of a branch follow one another and leave
  out no rank (`PartEnds`, `SomePart`, `OnePart`), a branch of several ranks is cut into
  smaller ones (`BranchNarrows`), so that each rank is alone at a level of at most `N`
  (`LevelFacts`), and parents and children answer each other (`ParentShape`, `ChildShape`).
  Recursive functions are unfolded one step at a time, and what needs an induction over
  levels or parts is an argument from the least counterexample (`Least`).
  `SchedulerInv` rests on that shape. A node that has not announced an event has counted
  exactly the children that have, and one that has announced it has forgotten its count
  (`CountsRight`); below it everyone has announced it (`AheadBelow`), which is why the root
  broadcasts what all have registered; whoever waits for an event has either announced it
  and not seen it chosen, or has it among the events due (`WaitingRight`), which is
  why a key that is used again never meets what is left of its first use. On the way
  down, a node has had at most as many events as its parent (`GotRight`), and the channel
  between a pair holds, for each level, just those between the two, in order (`Channels`): one channel
  carries several levels, since a rank stands at several, so the queue of a pair is not
  itself a stretch of the order. The properties alone are not inductive: that a stack is a prefix
  says nothing of what the channels will add to it. From it: `SchedulerExact`, and
  `SchedulerKeepsOrder`, the safety part of the refinement of `EventOrder`.
  `SchedulerAssumption`: there is a rank and a bound on registrations.
* **EventProcessing_proofs.** `ProcessingInv` says where every rank is from what it has
  announced and popped: an event is announced once, exactly when the rank's flags say so
  (`AnnouncedExactly`), and popped exactly when its handler is past it (`TakenExactly`);
  what is popped is a prefix of one order, in which every event was announced by all
  (`ChosenByAll`); the counts of barriers and collective calls follow from the timeline and
  the phase (`InStep`); a rank that is in a collective call popped the event of that call last
  (`BlockedByLast`), and is in a handler only once all have entered its barrier
  (`BarrierPassed`). No crossing is then an argument on positions in the order: if two
  ranks were each blocked in what the other has yet to come to, each would have popped
  its event before the other popped its own. `FollowsOneOrder` is the refinement of
  `EventOrder`, one step at a time.
  The same module proves about `EventAssembly`, of which it makes an instance with
  constants and variables of its own. Two invariants, since the clients may disagree.
  `MeantInv` holds of any clients: what is in a buffer or on the way is a part of an event
  its client has sent (`PartsOwn`), and as long as no error was raised what a server knows
  of an event is what each client meant that sent a part (`EventsMeant`), and stays so once
  handled (`HandledMeant`); with `check_event_sync` the clients have sent the same
  types, so that two servers cannot differ (`SentAlike`). From it: `DisagreementIsCaught`.
  `AgreedInv` holds of clients that agree: the parts of a client come in the order of its
  events, buffer behind message behind what was received (`InTurn`), so that a server that
  copies a buffer never overtakes a message on its way; nothing is left in a buffer or on
  the way of an event that was handled (`NothingLate`), because an event is full only with
  the parts of all of its clients (`HandledWhole`: as many parts as announced, each from one
  of them, are all of them). A client that sends late has no part of an event that a server
  has already handled: else it would be among those that event was handled with. From it:
  `EventsAreWhole`. `AssemblyAssumption`: there is a client, clients are numbered, and
  their scripts have one length; they need not agree, and an event may have no part at
  all for a server.
* **Coupling_proofs.** `CouplingInv` adds to the counts of the list (`TurnsCounted`) that
  only the coupling at its front has been taken by one side (`HalfAtFront`), that
  channels are made on both sides at once, and that a context asks only about what it
  has not made. A circle of contexts would need two couplings taken by one side each, and
  both would be at the front. `LinksAssumption` only says that contexts are numbered in
  the order of their names and that no context couples with itself.
* **ContextEnd_proofs.** `EndInv` follows an end down the tiers. `ComesDown`: what a rank
  has done tells what all of the tier above and all receivers have done. `PendingOnce`
  and `PendingWhere`: an event waits in a scheduler once, and only while its rank is where it
  asked for it. `OneOrder`: of two ranks of a tier, one's stack is the end of the
  other's. `StaysAtFront`: a rank in a barrier keeps that event at the front of its stack,
  and nobody leaves before all have entered. With the last two, two gatherers cannot stop in the
  ends of different contexts: each would have its own context at the front and the other's
  behind it or gone, against the one order. `TiersAssumption`: the tiers are disjoint,
  there is a gatherer, every context has a client, and receivers are contexts.
  The same module proves about `CoupledDefinition`, again of an instance with constants and
  variables of its own. `DefinitionInv`: a `closed` message, wherever it is (in a channel,
  asked for, in the order, seen), is of a context whose ranks are all past their rest
  (`ClosedHeard`), from which no step brings one back, and where the graph is built
  (`RanksPlaced`); a rank in its last round that found all receivers done, or closed, waited
  for each of them (`WaitedFor`). The answer a rank takes into its round is old when the
  round ends: it stays right because being past the rest is for ever. From it:
  `ClosesAfterReceivers`, for any couplings, circles included (there contexts may never
  close, section 6, but none closes early). `CouplingsAssumption`: a context's couplings are
  a sequence of contexts, and the two lists of a coupling agree.

Type correctness, `StableWhileShared`, `LiveRegionsInside`, `EmptyMeansNoneLive`
and `OneTurn` are proved and no longer named by a run: a run checks what depends on
them.

**Only model-checked.** Liveness (`ReaderServed`, that of `AllReliable`,
`ResizeEnds`, the liveness of `AgreedOrders`, `AllEventsHandled`, `AllEnd`, `AllOver`,
`RunEnds`, `EveryoneAnswered`, `EveryoneRuns`) is out of the prover's reach. What sums
over a sequence or a fold (the chains of `BufferChain`, the sorted
couplings) needs an induction over data, which the installed provers cannot do.
`Together` is no theorem about all couplings: section 6 tells which break it. The runs
of `MCEvents` and `MCContexts` state `EventsWhole`, `DisagreementCaught` and
`ClosedAfterReceivers` of one part each; the theorems state what they state of it, the
definitions of `EventAssembly` and `CoupledDefinition`, for all constants.
The invariants of the other modules are checked on the instances above;
section 8 says which proofs are planned.

## 5. What the checks show

What holds on the instances checked, and is not obvious from the code:

* an empty ring always has room for a full window, although three places in the
  code accept bytes on the word of `isBufferEmpty` alone;
* the local count of `checkBuffer`, when stale, is stale in a harmless way: the shared count is
  then 0 and nothing is sent;
* a control message is always alone in its message, so that popping "what remains" of it is right;
* a resize started by `fixBufferSize` while another may be under way ends, and
  the windows agree afterwards;
* the peer-to-peer server places every bloc at the client's own offset without
  being told it, as long as no event fills a buffer exactly and no buffer is fixed
  below the size of an event (section 6);
* an address put back twice, or overwritten by a later one, frees exactly the blocs
  processed: the client frees *up to* it, and an address cannot be used again
  before it is freed;
* the order of the scheduler survives the reuse of keys, on which pools and
  contexts rely, and the replacement of a rank's schedulers finds nothing on its way;
* codes that meet by files need not wait for each other around the removal of the files: the
  merges, which are collective, already keep a file until all have read it;
* the count of occupied ranks a leader keeps is the set of ranks that consider
  themselves occupied at every split;
* `servers_ressource.cpp:209,213` registers with one scheduler and queries another; they
  always share the base that holds the stack;
* the unsigned test at `legacy_context_server.cpp:242`, always true, loses no event;
* with `check_event_sync` clients that disagree never have different events handled at one
  timeline on two servers; without it they may, and only a disagreement that meets on one
  server is reported;
* gatherers that wait without yielding do not wait for each other, because all
  clients write their parts before they wait;
* the tree of gatherings of the registry never calls a split some rank does not
  call, for a number of ranks that is not a power of two;
* a filter that samples lazily (`isDataExpected`) gives the results of one that is sent everything;
* splits, restarts and crashes leave files whose records have increasing times, each
  with the data of every field;
* the distributed table's two searches agree for every number of processes up to 40, and
  messages with equal tags are not confused.

A notification never comes before the wait it is for, although the waits
do not test first.

## 6. Divergences

Three are runs of their own; the others are reproduced by hand, by giving the
constants below to the component's module, and are kept out of the passing runs by the
choice of constants, which says so.

| Where | What happens | How to see it |
|---|---|---|
| `event_scheduler.hpp:53` | `queryEvent` is documented to remove the event it finds; `queryEvent_` only looks (`event_scheduler.cpp:168-177`), `popEvent` removes. The callers know: `processEvents` queries an event several times before it pops it. | run `query_removes` |
| `p2p_server_buffer.hpp:113` | a full server buffer has `end_ = start_`, and `remain()` is then `size_-end_` and not 0: an event for which there is no room is let through and `transferEvent` does not end, or overflows a bloc | run `p2p_full_ring` |
| `context.cpp:789` | the event loops of couplers process events while the context is locked; ranks of one context decide differently whether a receiver is ready and stop in different collective calls. With two contexts it takes couplings both ways; with three, a chain or a fork one way is enough. | run `coupled_definition_both_ways` |
| `context.cpp:1170` | what a context sends back, made of what it receives, is built before the grid it depends on has come | `CoupledDefinition`, `Uses = {<<"b","a","a">>}`, both ways: `SentWhenBuilt` |
| `p2p_client_buffer.cpp:217` | a fixed buffer is made without the resize message the server waits for when an event is as large as it | `P2pChannel`, `FixSizes` with the size of an event: `BuffersMirrored` |
| `server.cpp:298`, `client.cpp:518` | clients that use no context may announce their end while the leader still asks for services; ranks that have ended never answer and it waits for ever | `Deployment`, `EarlyFinalize <- TRUE`: `AllCreated` |
| `client_from_server_source_filter.cpp` | with `freq_offset`, the date that follows the last record is not the one the end of the file is expected at: a rank that asks then is not answered | `ReadAhead`, `Offset = 1, Records = 1, First = 0, LastDate = 7`: `ReadsAnswered` |
| `file.cpp` | a `record_offset` is not kept in the files that follow a split or a restart, whose records may begin before it | `FileSeries`, `RecordOffset = 1, LastDate = 6, Runs = 1`: `OffsetKept` |
| `date/user_defined.cpp:117` | a leap year is one whose sum of drifts equals a day within fractions: some drifts never meet it | `Calendar`, `Drift = 2, DriftDen = 5`: `LeapWhenDriftIsADay` |
| `calendar.cpp` | the drift at the start is taken at the year of the time origin: a start date that exists in the calendar may be refused, and one that is accepted may not exist | `Calendar`, origin of year 1: `StartExists` |
| `grid_remote_connector.cpp:823` | the hash of index 0 is 0: parts that differ by their first point count as the same and one of the clients is left out | `RemoteConnector`, views `{1}` and `{0,1}`: `GridComplete` |
| `grid_remote_connector.cpp:35` | an element behind one whose parts have different sizes is judged distributed or not from blocks of different lengths | `RemoteConnector`, first element uneven: `ViewsJudged` |
| `grid_remote_connector.cpp:648-790` | a client that holds nothing of a grid it reads is not answered: it waits for values no server sends, although the call is meant to be collective (line 353) | `GridDistribution`, points `{3}` of a grid over 2 clients, of which one has none, read from 2 servers: `EveryClientAnswered` |
| `server_from_client_source_filter.cpp:27` | the values are put in without a missing value: a cell of the servers' block that no client has sent holds 0, when the clients' parts are not a product | `GridDistribution`, 2x2 points on 1 server, clients with `{0}x{0}` and `{1}x{1}`: `NoHole` |
| `scatterer_connector.hpp:109-113` | with a missing value, the position in the source also advances for points outside the mask; harmless while a client is sent only to those that own the points (`OwnedOnly`) | read from the code |
| `client.cpp:325` | without servers the loop over the codes starts behind the code's own place: a code that is not the first makes one intercommunicator too few, and the first waits for the last one | `Startup`, several codes, `ServerRanks = {}`, `Patient = FALSE`: `OneXiosComm` |
| `client.cpp:256` | a client gives up on servers that are late and goes on without them, while they wait for it | `Startup`, `Patient = FALSE`: `OneXiosComm` |
| `client.cpp:265` | the file of a code may be read before its rank is in it, or be one of an earlier run | `Startup`, `Torn = TRUE`, or `Left` with a file: `AllStart` |

## 7. Not modelled

* **Token manager** (`manager/token_manager.hpp`): a ticket lock whose one
  caller is commented out (`legacy_context_client.cpp:134`); it runs in no build.
* **Online transport** (`transport/online_context_client.hpp`): its source file is
  empty and every function of its header raises an error; a context creates one and
  never calls it.
* **Transformations** (`transformation/`, `extern/remap`): numerical algorithms on
  grids, floating-point weights and geometry, for which TLC has no values.
* **Configuration parsing** (`parse_expr/`, `xml_*`, attributes): sequential
  parsing; a large part of its lines is generated.
* **NetCDF output** (`io/`): calls of an external library in a fixed order; the
  control that decides which file and which record is in `FileSeries`.
* **Serialization, arrays, logs, timers, Fortran and Python interfaces**: the
  content of messages, which every module abstracts.
* **Geometry of domains, meshes and grids** (`node/mesh.cpp`, most of
  `node/domain.cpp`): data algorithms over floating-point coordinates.

These are most of the lines of the repository: the map covers the control of
the program, a small share of its lines, because the bulk of it is numerical data code,
attribute declarations, generated parsers and interfaces.

## 8. Plan

Proved so far: `RmaLock`, `ServerRing`, `ThreadManager`, `LegacyChannel`,
`EventScheduler`, `EventAssembly` (safety), `EventProcessing`, `Coupling`, `ContextEnd`,
`CoupledDefinition` (`ClosedAfterReceivers`).
What is left, in this order:

1. The arithmetic of `Leaders` (one leader per server, for all sizes) and of the levels of
   `HashGroups`.
2. The invariants of `P2pChannel` and `OneSidedChannel`, as far as they do not sum over
   chains; of `Deployment` and `Startup`.
3. `ContextEnd` over more tiers of contexts.
