# libvmem in TLA+

A formal model of this repository's memory system: `libvmem`, which places GPU
allocations on device or host memory and moves them while their address stays
fixed, and `vmemd`, the broker that accounts for several processes sharing one
GPU. The modules here are translated from the code; the README files of the
repository are used only as a source of claims to check.

## 1. Inventory

| Component | Source | State | Operations | Correct when |
|---|---|---|---|---|
| Broker `vmemd` | `libvmem/daemon/vmemd.cpp` | tenant map (hello, chunks, granted move, running counts), global counts | start-up on the socket path, connect, disconnect, seven message handlers, one epoll loop | counts equal what the tables add up to (K1, K2); requests granted only within limits (K3); facts recorded (K4); no counter underflows; one broker owns the socket path |
| Protocol | `libvmem/src/protocol.h` | none | seven messages, three of them answered | a reply answers the request its client waits for |
| vmem backend | `libvmem/src/backends/vmem.h` | chunk table, `used_`, link | open, create, destroy, move, reconnect, close | B1-B5 of `daemon/README.md`: one handle per chunk, failed calls undo themselves, no call blocks for long, broker's table matches the client's |
| Backend interface | `libvmem/src/backend.h` | none | the same calls, with statuses | - |
| uvm, cuda backends | `libvmem/src/backends/{uvm,cuda}.h` | one counter | one CUDA call each | counter equals live bytes |
| Allocator | `libvmem/src/libvmem.cuh` | regions, partial slabs, `dead_` | alloc, free, evict, prefetch, reconnect, init, shutdown | slots handed out once; slab in `partial_` iff it has a free slot; empty regions returned |
| v0 manager | `primitives/src/vmem.cuh` | reservations, chunks | reserve, create, map, unmap, remap, release, free, queries, destructor | its records are the driver's; remap keeps contents and leaves nothing behind; tokens go stale for good |
| v0 runner | `primitives/src/runner/`, `primitives/src/pattern.cuh` | kinds and values of a program's variables, error count, broken context | parse, run a statement, fill, check, shut down | what the parser says of a variable is what the program finds; exit code 0 means all is well |
| VMMVector | `experiments/VMMVector/vmm_vector.cuh` | size, mapped chunks | push, pop, grow | mapped range covers the size |
| VMMRemapVector | `experiments/VMMRemapShared/vmm_remap.cuh` | VMMVector's, a handle and a flag per chunk | push, reserve, remap | flag and memory agree; elements kept across moves |
| VMMRemapShared | `experiments/VMMRemapShared/` | shared table, handles at owner and subscribers | attach, revoke, remap, ack | no subscriber maps a handle the owner has replaced |
| tests, workloads | `libvmem/tests/` | - | clients of the above | - |
| measurements, notes | other `experiments/`, `libvmem/analysis/`, `notes/`, `report/` | - | - | - |

How they interact. An application calls the allocator, which calls one backend.
The vmem backend calls CUDA and, over one `SOCK_SEQPACKET` connection per
process, the broker. `Hello`, `Alloc` and `Move` are answered and the client
blocks on the answer for at most 3 s; `AllocFail`, `Free`, `MoveDone` and
`Resync` are reports without an answer. The broker is one thread: each
`epoll_wait` returns the descriptors that are ready and it handles one event of
each before it polls again. It learns that a process is gone from its socket.
Nothing is persistent: a broker that restarts is told the live chunks again, by
`Hello` and one `Resync` per chunk on a new connection.

What is hard here: messages of one process on two connections after a
reconnect; a reply that comes after its timeout; the order in which reports of
different processes arrive; a crash between a request and its report; each of
the exits of `create` and `move`; a driver call that fails half way through `remap`;
brokers started on one path at a time; counts adjusted by hand in seven handlers;
blocking calls to a broker that hangs. `PROJECT.json` lists these hazards at
their lines, with the properties that watch them.

## 2. Modules

| Module | Models |
|---|---|
| `Totals` | the sum of a function into the naturals, as the cardinality of a disjoint union (so that it can be reasoned about without recursion) |
| `Vmemd` | the broker: one action per handler of `vmemd.cpp`, for any raw messages |
| `Ledger` | the abstract promise of the broker: bytes per tenant and location, and when they may change |
| `MCVmemd` | TLC instances of `Vmemd`; the refinement mapping to `Ledger` |
| `VmemSystem` | `Vmemd` composed with the vmem backend in every client, the sockets, the event loop's batches, crash and restart |
| `MCVmemSystem` | TLC instances of `VmemSystem` |
| `VmemdStartup`, `MCVmemdStartup` | how a broker process comes to own the socket path, with races and deaths; TLC instance |
| `VmemBackend` | create, move and destroy of the vmem backend, one step per CUDA call |
| `MCVmemBackend` | its TLC instance |
| `Heap` | the abstract promise of the allocator to the application |
| `Allocator` | the allocator over each of the three backends, which may refuse or fail; the refinement mapping to `Heap` |
| `MCAllocator` | its TLC instance |
| `RemapShared`, `MCRemapShared` | the owner and subscribers of `experiments/VMMRemapShared`; TLC instances |
| `VMMVector` | the growing vector of `experiments/VMMVector` |
| `VMMRemapVector`, `MCVMMVector` | the vector with chunks that move, on top of `VMMVector`; TLC instance of both |
| `Manager` | the first prototype's Manager over the CUDA driver |
| `Runner`, `MCRunner` | the program runner, which drives `Manager`; TLC instance |
| `Totals`, `TotalsProofs` | a sum as a cardinality; lemmas about it |
| `VmemSystemProofs` | the broker's types, accounts and promise, for any tenants, chunks and limits; then the broker with its clients, for any number of them and any crashes |
| `VmemBackendProofs` | the backend, at every CUDA call and whatever fails |
| `AllocatorProofs` | the allocator's tables and its promise, for any addresses and requests |
| `RemapSharedProofs` | the shared segment, for any number of subscribers, chunks and exits |
| `VmemdStartupProofs` | who owns the socket path, for any number of brokers |
| `RunnerProofs` | the manager's records and contents, the runner's variables and exit code, for every program and any driver failures |
| `VMMVectorProofs` | the elements of both vectors, for any chunk size and capacity; the one that moves implements the one that does not |

### Vmemd

`tenants`, `hello`, `chunks`, `moving`, `used` are the fields of the tenant map
(keyed by descriptor), `total` the global counts, and `last` the line the
handler logs with its reply, and the size that an `Alloc` asked for. `TypeOK` is the
types and `Vacant`: a descriptor without a tenant has an empty record. One action is one iteration of the event loop's
body: `Connect` is `on_connect`, `Disconnect` is `on_disconnect` (end of file, a
receive error or a message of the wrong size), and `Hello`, `Alloc`,
`AllocFail`, `MoveRequest`, `MoveDone`, `Resync`, `Free` are the handlers, early
returns included. The `update_count` calls of a handler are one `UpdateCount`
with their sum. Per-tenant quotas exist in the code but are never set, so only
the global limits bind. Byte counts are in an arbitrary unit; `size_t`
subtraction is integer subtraction, and that no count goes negative is proved for
messages that keep to `SameSize` (below). Additions that wrap near 2^64 are not modelled.

`Next` lets any tenant send any message at any time, except that a `Resync`
which meets a granted move of the same chunk carries the size the broker knows
(`SameSize`): a chunk's size is fixed for life. `RawNext` drops that condition.

`Ledger` forgets chunks and grants. It shares `last`, so a grant is of the size asked
for, to a location with room for that size, and a refusal means that neither has
such room. `MCVmemd` maps its `bytes` to what the
broker's tables add up to (`Held`), not to the running counts, so the
refinement says that decisions taken from the running counts are right by the
tables.

### VmemdStartup

`pc` is the next system call of `listen_on` in each broker process, `path` whose
socket the path names. The probe is refused by a socket whose process is gone,
and by one that is bound and does not listen yet: two starts that overlap can
both get past it, and the later `unlink` takes the other's socket away. The
first one then runs on with the tenants it has and gets no new ones, each broker
with the whole limit. `Alone` says that only overlapping starts (`raced`) can do
this, and `Served` that even they leave someone who answers. Processes may be
started again without bound and die at any call; a failing `socket`, `listen` or
`epoll_create1` is such a death. `VmemSystem` starts where this ends: its `up` is
that the path names a broker that listens.

### VmemSystem

A client is a process making one blocking backend call at a time. `proc` says
where in which call it is and what link it has, `held` is `chunks_`. A call is
cut where the code sends, waits or calls CUDA:

- `Begin` starts `open`, `create`, `destroy`, `move` or `reconnect`; `FirstStep`
  is `maybe_reconnect`.
- `Dial`, `HelloAnswered`, `HelloLost`, `ResyncChunk`, `Resynced` are
  `connect_broker` and the rest of `reconnect`. `open` fails when Hello is lost
  and falls back to local mode when nobody listens.
- `Ask`, `Answered`, `AnswerLost` are `decide_place` and the request of `move`.
- `Create`, `Swap`, `Destroy` are the CUDA part with the report that follows, one
  disjunct per exit of the code.
- `Exit` is `close` or the death of the process.

`net` holds a connection per descriptor number: messages towards the broker,
replies towards the client, and how the client's end stands. A closed
connection lives on until the broker has read it; closing with an unread reply
resets it, as Linux does for Unix sockets. `backlog` is the accept queue, and
`batch` the events of the last `epoll_wait` not yet handled. `Receive` is
`on_readable` with the handler it calls and its reply; `Crash` and `Restart`
are the broker process's. CUDA is an oracle: any call may fail in any way the
code distinguishes. A receive may fail whenever no reply is there (the 3 s
timeout, with no clock).

The size a `Resync` carries is the chunk's (`SizeOf`), so `VmemSystem` stays
within `Next`.

### VmemBackend

The same three operations one level down. `reserved`, `memory`, `backing` and
`access` are the driver's: address ranges, handles with their location and
contents, mappings, and which addresses the device may use. `chunks`, `used`
and `linked` are the backend's members, `recorded` what the broker has for this
tenant. `pc` and `k` are the place in the running call and its local variables;
each action is one CUDA call, or one exchange with the broker, with all that the
code does up to the next. Every call whose result the code looks at may fail,
for lack of memory or otherwise; those whose result it ignores (the clean-up
after a failure, the release of the old handle, the end of the scratch range)
are taken to succeed. Contents are the name of the chunk that wrote them, so
that a copy which is forgotten or goes the wrong way shows. After `Fatal` no
call begins, as the allocator sees to.

The link is a flag here: it may break at any step, and reconnecting reports the
live chunks at once. What happens to the messages in between is `VmemSystem`'s
subject.

### Allocator

`regions`, `partial` and `life` (`dead_`, and whether the singleton exists) are
the members of `Allocator`; `backend` is the kind that `init` chose, `held` what it
really has and `bytes` its `used_`. The uvm and cuda backends are these few
operators: `Places` (only vmem falls back to the host), `CanMove`, `Created`,
`Destroyed`, `MovedTo`, `OpenFails`. `init` over an open allocator opens the new one
before the old one's destructor runs, so one that fails leaves the old one in
place; then every pointer into the old one is foreign. One action is
one API call, since the allocator is single-threaded. The three outcomes of the
last free of a region (all done, destroy failed, synchronization failed) are the
disjuncts of `FreeRegion`. Addresses are numbers because `lookup` compares them,
and the application may pass any of `Address` to `free` and to the hints.
`Live` reads the application's allocations off the tables, and with it as the
refinement mapping the allocator implements `Heap`. `last` has the size an `alloc`
asks for, so `Heap`'s allocation is no smaller than the call that got it.

`AllocatorAssumption` says more than the constructor checks: that no object size is
above the slab size. The constructor compares only `small_max` with
`small_chunk`; a `min_obj` above `small_chunk` passes it and gives slabs without a
slot. The defaults satisfy the assumption. That `std::bit_ceil(n)` is no less than
`n` is stated there too, although `BitCeil` has it by definition: the provers know
nothing of powers.

### RemapShared

Two programs with program counters: the owner's (`owner`) and each
subscriber's (`pc`). `chan` and `acks` are the two directions of a connection,
`waiting` and `cs` the listen queue and the accepted connections, `shm` the
shared state with its lock. `broadcast` and `barrier` take one subscriber at a
time, so that any process may act in between. `memory` is every allocation ever
made, with its contents region by region; `maps` says which one each process
has mapped for each chunk and `fds` which ones it holds a descriptor of. A
message carries descriptors as SCM_RIGHTS does. `remap_backing` is two steps,
`CopyOut` and `SwapIn`, so that a write that slipped in between would be lost.
A failing call ends the process (`CU_CHECK`, `die`): `Dies` does so at any
point but inside `alloc_and_tag`'s critical section, and unmaps and closes
what the process had; it does not unlock. `RemapAssumption` asks for one
subscriber at least and one chunk: with an argument of 0 the owner would skip
`accept`, or share nothing. Left out: shared memory left over from a crashed run, and
the size of the allocation table and that of the control message (64 descriptors).

`AllVerified` needs two subscribers. `verify` wants four regions ("2 tenants x 2 passes",
`subscriber.cu:153`), so with one the test program fails although all is well.

The README (`experiments/VMMRemapShared/README.md:114`) says that a dead tenant
stalls the handshake. In the code the end of its connection makes the owner
exit instead, and with it everyone; `Ends` states that.

### VMMVector

`chunks` holds the chunks in order with their contents, so that a chunk given
back too early shows when it is mapped again with new contents; `pushed` is
what the caller knows. `resize` is its `reserve` (`Resize`) and then one `push_back`
or `pop_back` a step (`ResizeOne`) until `size` is `target`, when the next call may
come; so what it has reserved must last for all its pushes.

`VMMRemapVector` adds `handles_`, `chunk_on_host_`, and of the driver `mapped`, the handle
at each chunk's address, and `memory`, where each handle's memory is and what it
holds. `push_back` writes through the mapping and `reserve` maps new handles; `chunks`
is what is read at `d_ptr` (`Seen`), and no action sets it otherwise. `Remap` copies to
new memory, releases what the caller's handle names, maps the new memory at the
chunk's address and updates handle and flag. `IsVector` says that with all this the
vector is `VMMVector`: a move is a stutter of it. A failed CUDA call ends the process.

### Manager and Runner

`reservations`, `chunks`, `next` are the Manager's members and `driver` the state of
the CUDA driver: address ranges, allocations by handle with their contents, and
what is mapped at each granule, with or without access. A driver call is an
operator that gives the next state or `Nil`, and a method is the sequence of
states its calls go through (`RemapCalls` is `remap`'s eleven): `Works` takes the
last one, `Stops` any earlier one whose next call is refused, or fails for no
reason in the model (`Fault`, at most `MaxFault` times). So an exception in the
middle of `remap` leaves exactly what the code leaves. Handles are reused as the
driver may, so a record that keeps a released one (`remap` failing after
`cuMemRelease`) can meet another chunk's memory. Access is given to what is mapped
only. The destructor goes on over failed calls: `DropChunk` and `FreeRange` are one
round each of its two loops, in the order of the maps; a record is taken away when
the loop has been there, and a failure makes the end unclean.

`Runner` drives these methods with every program. The parser looks only backwards,
so a program that parses is any sequence of statements that each pass its check
against `kinds`; `Statement` picks the next one and runs it. `vals` is `Ctx::vals`.
`Pattern` stands for the words that `fill` writes and `check` compares, and
touching an address without access breaks the context (`broken`), after which
statements are skipped. `phase` is where `run` is: constructing the Manager, at a
statement (`running`), in the destructor (`Shutdown`, then `CleanUp` for each round),
or at its exit (`End`). `info`, `print_state` and `sleep` change nothing. A sequence
of calls that no program can make, such as a token of another Manager, is out of
`Runner`'s reach and refused by `get` before anything happens. Sizes and offsets are
counted in granules, so `round_up` and the alignment check of `map` (`vmem.cuh:211`)
are not modelled. `CleanExit` speaks only of runs that end with code 0 and a clean
destructor: it says that a leak is always reported, not that none happens.

## 3. Runs

| Run | Instance | Shows |
|---|---|---|
| `broker` | 2 tenants, 2 chunks each, sizes 1 and 2, VRAM 3, DRAM 1, overhead 1 | `TypeOK`, `TenantAccounts` (K1), `GlobalAccounts` (K2), `MovingTracked`, `KeepsPromise` (K3, K4) |
| `broker_raw` | 2 tenants, sizes 1 and 2, `RawSpec` | violation of `TenantAccounts` |
| `startup` | 4 brokers | `Alone`, `Served` |
| `system` | 2 clients with 1 chunk each, or 1 with 2 chunks of sizes 1 and 2; 2 connections, 1 crash | `SysTypeOK`, `TableMatches` (B5), `ClientsBehave`, `GrantsClosed`, `AnswersMatch`, `NoOrphans` |
| `system_live` | 1 client, 2 connections, 1 chunk, 1 crash, fairness | `CallsReturn`, `SharesReturned` |
| `hung_send` | 1 client, 2 chunks, connection of 2 messages, no fairness for the broker | violation of `SendsReturn` |
| `reconnect_order` | 1 client, 2 connections, connection of 3 messages | violation of `OwnOrder` |
| `backend` | 3 addresses, 3 handles, sizes 1 and 2 | `TypeOK`, `MappingsLive`, `ChunksExact` (B1-B3), `BrokerExact` (B5 at each exit) |
| `allocator` | the 3 backends; granules of 4 at 4, 8 and 12; requests 1, 3, 6 for objects of 2 and 4 and regions of 8 | `TypeOK`, `SlotsExact`, `PartialExact`, `RegionsMatch`, `KeepsHeap` |
| `remap` | 2 subscribers, 2 initial chunks of 1 or 2 regions, 2 early exits, fairness | `TypeOK`, `OwnerAlone`, `SameMemory`, `RegionsApart`, `AllVerified`, `Ends` |
| `vector` | either vector; 3 chunks of 2 elements, 4 handles, 2 values, `retain_last` -1, 0, 1 | `TypeOK`, `ElementsKept`, `Located`, `IsVector` |
| `runner` | 2 variables, 2 chunks of 1 or 2 granules, 2 granules of addresses, 2 allocations, 1 failure | `RunTypeOK`, `Exact`, `Placed`, `CleanExit`, `StaleStays`, `ContentsKept` |

Bounds. The broker's state is finite without further bounds once descriptors,
addresses and sizes are. Two tenants and limits below their joint demand give
refusals, host placement and over-limit facts; two sizes give
reservations of a size other than the other chunk's. `Cap` (messages a
connection takes; a few hundred in Linux) and `Backlog` (64 in the code) bound
the queues and are the points where `send` and `connect` block; `MaxCrash`
bounds the broker's deaths. One crash is enough to reach every link state and to
meet a queue of each length with a dead or a fresh broker; a second starts
from the same states. In `backend` three addresses and handles allow two chunks
and the scratch copy of a move, or three chunks and a move that finds no handle
left. In `allocator` three granules allow two slabs of one size, of which
either may be full, a slab between a slab and a region, and a region where a
slab was; slots go to and come back from a slab in both orders. In
`remap` the two chunk sizes make the initial chunks just large enough and
larger, and the grown chunk too small for the second subscriber or large
enough; two exits let one process die on its own and another while the first
death is still unnoticed. Programs run once to their end, so nothing else needs
a bound. In `vector` three chunks are the least capacity that doubling oversteps, and a fourth
handle is the new memory of a move when all are there.
In `runner` two granules are a mapped chunk and
a remap's scratch range, or two adjacent reservations and a chunk that would
span them; two allocations are a chunk's old and new memory, or two chunks; one
failure may come at any driver call, with every later call on what it left. The
same module with three allocations and no failure, where a remap meets a second
live chunk, passes as well (182,000 states); with both it is too large to keep.
The number of statements has no bound. In `startup` nothing is bounded but the
brokers; three suffice for one to be displaced by a second while a third probes.
In `system` the constraint `EitherTwo` leaves out the states in which both
processes are there and the second chunk too: their union is too large.
`View` leaves the log line out of the fingerprint in the
safety runs of the system, where nothing depends on it.

Symmetry is used where the sets are model values the specification treats
alike: descriptors and addresses in `broker`, descriptors and clients in
`system`, addresses and handles in `backend`, brokers in `startup`, handles in
`vector`, variables in `runner`. No liveness run uses it.

Fairness. `HungSpec` asks only that a client's process is scheduled:
`WF(Progress(c))`, which includes that a receive times out. `FairSpec` adds
`WF(Serve)`: the broker's loop runs while it has something to do. No fairness is
assumed per descriptor; that each gets its turn follows from the batches. In
`RemapShared`, `FairSpec` says that every process is scheduled, and nothing
makes one die. Nothing
makes a client begin a call, a broker crash or restart.

Deadlock is checked except in the run of `RemapShared`, whose programs end and
whose owner does wait for ever in `accept` when a subscriber died before
connecting, and of `Runner`, where nothing follows the exit.

### Disagreements between the documentation and the code

- **A Resync during a move with another size** (`broker_raw`). `handle_resync`
  leaves the grant alone, and the release then uses the new size. K1 fails.
  Only a client that changes a chunk's size can do this; the library's does not.
- **A hung broker blocks calls for longer than 3 s** (`hung_send`). `send` has no
  timeout. Neither has `connect`, which waits when the listen backlog is full;
  the model has that too (`Dial`), without a run of its own.
- **A tenant's next request overtaking its earlier messages** (`reconnect_order`).
  After a reconnect the old connection may still have messages queued while the
  new connection's `Alloc` is decided, with the old context overhead still
  counted, so the chunk may go to host though there is room on the device.
Noted while modelling, without a run:

- The comment at `vmemd.cpp:305` says that a report over a limit is possible only
  without a granted move; a raw client that sends `AllocFail` in the middle of a
  move reaches it too.
- `pop_back` gives back one chunk at most, so after a `reserve`, or a smaller
  `retain_last`, more whole chunks are spare than "retain atmost last
  `retain_last_` chunks" (`vmm_vector.cuh:125`) says; the code keeps at least
  that much.
- `push_back` reserves twice the size and so throws `max_capacity exceeded` when
  one more chunk would still fit (`vmm_vector.cuh:108`).
- The owner never closes the descriptors of the initial chunks (`owner.cu:117`)
  nor a subscriber those it receives (`subscriber.cu:129`). CUDA keeps memory
  with an open exported descriptor, so what was moved away from stays allocated.
- A destructor that fails to give something back is reported in the log as
  `ERROR`, and the runner still exits with 0 (`run.cuh:155`), which
  `primitives/README.md:107` calls clean; `CleanExit` asks for both.
- After a failed `map` or `remap` of the `Manager`, the destructor leaves memory
  or a range behind, though it "unmaps, releases and frees what is left"
  (`primitives/README.md:78`); line 43 there lists the repair as to do.

## 4. Proofs

For every set of descriptors and addresses that is finite, every set of sizes
in the naturals, and all limits and overheads (`VmemdAssumption`), the broker
alone, in the first part of `VmemSystemProofs`:

- `TypeCorrect`: `RawSpec => []TypeOK`, so for unrestricted messages. `Typed` is
  inductive, and `Vacant` with it.
- `AccountsInvariant`: `Spec => []Accounts`, the inductive invariant. It joins
  `TypeOK`, `MovingTracked`, `TenantAccounts` and `GlobalAccounts`. `TenantAccounts`
  alone is not
  inductive: `handle_free` and `handle_move_done` release the reservation by the
  chunk's present size, which is right only if the grant names a tracked chunk,
  and `GlobalAccounts` needs the departing tenant's counts to be right.
- `TenantAccountsCorrect`, `GlobalAccountsCorrect`, `MovingTrackedCorrect`,
  `UnsignedCorrect` follow from it. `Unsigned` is a consequence of the accounts:
  each count equals a sum of naturals. All of these are about `Spec`, that is, about
  any messages that keep to `SameSize`. Without it K1 fails, as `broker_raw` shows, and a
  `Free` after such a `Resync` takes a counter below zero.
- `PromiseKept`: `Spec => KeepsPromise`, the implementation of `Ledger`. By the
  accounts the running counts are the ledger's sums (`ShareIsUsed`, `RoomFits`), so
  a decision the handlers take from the counts is one the ledger allows for the size
  asked; each
  handler's step is then a grant, a refusal, a release, a departure or a stutter.

For every set of processes and descriptors, any chunks, and any number of
crashes, in the rest of `VmemSystemProofs`:

- `SystemInvariant`: `SysSpec => []Inv`. `Inv` is `Types`, which includes the
  broker's `TypeOK`; `InOrder`, which ties a client's `pc` to the one request
  that may be under way on its connection, the reply to it, and what may stand in
  the queue behind it; `Owned`, which gives each open connection its live client;
  `Tables`, by which a descriptor is a tenant exactly when its connection is
  accepted; and `Sized`, that a tracked chunk has the size it was created with, by
  which a step of the broker here is one of `Vmemd`'s `Next` and not only of its
  `RawNext`. A crash leads to a
  state in which the broker's part is `Init`.
- `SystemTypes`, `NoConnectionOrphaned`, `RepliesMatch` follow from it, and
  `SystemAccounts`: what the first part shows of the broker alone holds here too. Real clients keep to
  `SameSize` (`Sized`), so `SystemUnsigned` needs no such condition.
- `ReportsInvariant`: `SysSpec => []Reports`. The three properties about what the
  messages say are not inductive, separately or together, since a request under
  way changes the broker's table before the client knows. `Reports` says that the
  messages in a queue lead (`Leads`) from the tenant's entry at the broker to what
  the client believes: there is a path of views, one for each message, and each
  message is one its handler expects in the view it will meet. A handler takes
  the first step off the path, a report of the client adds one at its end; a
  request stands only at the end, and its answer makes the view (`Outcome`).
- `EveryMessageExpected` (`ClientsBehave`) is the first step of the path;
  `EveryGrantClosed` (`GrantsClosed`) is its other end, where a grant that the
  idle client does not know of must have been closed on the way; and `TablesAgree`
  (`TableMatches`, B5) is the path for one chunk. `TableMatches` says which report
  is the last instead of folding the queue over the table, for a fold could
  only be followed by induction.

For every set of address ranges and handles and any chunk sizes, in
`VmemBackendProofs`:

- `ChunksInvariant`, `BrokerInvariant`, `TypeInvariant`: `ChunksExact` and
  `BrokerExact` speak of the moments between calls. `Working` says at each `pc`
  what the running call owns: which reservation, handle and mapping it has made
  or undone, what was written where, and what the broker was told. It is kept by
  each CUDA call, its failure paths included, and is `ChunksExact` when idle.
- `MappingsInvariant`: `MappingsLive` follows from `Working`, and is kept by itself
  once a call has been fatal and left things as they were.

For every finite set of addresses, and any requests, granularity and object and
slab sizes (`AllocatorAssumption`), in `AllocatorProofs`:

- `AllocatorInvariant`: `Spec => []IInv`, the four invariants of the run with two
  more: `Shapes`, that a region has memory and a slab room for an object, and
  `Apart`, that the chunks of the backend do not overlap. `SlotsExact` and
  `PartialExact` hold each other up: a slot is taken only from a slab `partial_`
  lists, and listed means that one is free; and a slab with nothing in use is one
  `free` has returned. `TablesTyped`, `SlotsCorrect`, `PartialCorrect` and
  `RegionsCorrect` follow.
- `HeapKept`: `Spec => KeepsHeap`, the implementation of `Heap`. A slot or a region is no
  smaller than the request that got it (`bit_ceil`, `round_up`). Every allocation lies
  inside its region (`BlockInside`) and two of a region are apart (`BlocksApart`), so
  regions apart give allocations apart. What `free` accepts is an allocation
  (`LiveGood`), so a pointer it refuses is none of the application's, and each call
  is then an allocation, a release, a refusal, the loss of everything or a stutter.

For every finite set of subscribers that is not empty, any number of chunks, any
chunk sizes and any number of exits (`RemapAssumption`), in `RemapSharedProofs`:

- `SegmentInvariant`: `Spec => []IInv`. `OwnerAlone` and `SameMemory` hold because of
  the protocol, so `IInv` is about the protocol. At most one message is under way to
  each subscriber (`Post`). While the owner lives, `Link(k)` says for the k-th
  connection whether its turn in the owner's round is over: then it has been asked
  (`AskedHeader` ... `AskedGo`: the message is sent, or acted on, or answered) or its
  ack has been read, and it rests (`Rest`) with exactly the chunks mapped that the
  owner has, or all but the one that moves. The rounds are proved at once: a `Turn`
  moves one subscriber from `Due` to `Over`, and the end of a round is the beginning of
  the next (`NextRound`). An ack says that a tag is written (`Done`) in the owner's
  memory, and neither the growth nor the copy loses it.
- The other parts need no living owner: `Offsets`, the bump pointer and the table;
  `Before`, which says by a subscriber's place which of its regions are in the table;
  and `Ready`: who has been told to go finds every tag, and from then on nobody writes.
- `Typed`, `OwnerAloneCorrect`, `SameMemoryCorrect`, `RegionsApartCorrect` follow.
- `AllVerifiedCorrect`: with two subscribers or more, `Spec => []AllVerified`, by `Ready`
  for a subscriber and `AllTagged` for the owner. `FourRegions` is where two are needed.

For every set of brokers, in `VmemdStartupProofs`:

- `AloneCorrect`: `Spec => []Alone`. `Alone` speaks of brokers that serve; the
  inductive invariant `OneAtATime` says of the one that is starting that from
  its refused probe on nobody serves, and that the path is free when it binds and
  its own when it listens.
- `ServedCorrect`: `Spec => []Served`, by `Promised`: since the last start began,
  the path has a live owner, or someone has still to unlink it, or it is free and
  someone is about to bind. A bind fails only on a path with an owner.

For every set of addresses, all sizes in the naturals and any number of
chunks, allocations, variables and failures (`ManagerAssumption`,
`RunnerAssumption`), in `RunnerProofs`, all six properties of the run:

- Each driver call has a lemma that says what it does to a state that is `Sound`
  (`CreateState`, `MapState` and so on): well typed, mappings inside their memory,
  access to mapped granules only, ranges inside the address space.
- `TypeCorrect` (the Manager's types and, by `KindsCorrect`, the parser's kinds),
  `PlacedCorrect` and `StaleCorrect` hold whatever fails.
  `Placed` alone is not inductive: a `reserve` at the base of a range on record would
  overwrite its size. So the invariant `IInv` adds `Fits(driver)`: the driver's state is
  sound and holds every range on record. The converse fails after a failed `remap`,
  whose scratch range stays with the driver, and is not needed. `CallsFit` turns "each
  driver call keeps `Fits`" into "wherever a sequence of them stops, it does", which
  covers every failure at once; for `remap` it also needs that the scratch range was
  free when the call began, hence not on record. `StaleStays` follows because a chunk
  variable holds an id below `next`, and a new chunk takes `next`.
- `ExactCorrect`: `RunSpec => []Exact`, by `Exactly`: until a driver call fails without
  cause the driver is `Linked` to the chunks. That is, each chunk has memory of its own,
  of its size and place, no memory is anyone else's, and every mapped granule
  belongs to a mapping on record (`Tidy`). `Exact` does not say that two chunks have
  two handles, without which a `release` or an `unmap` could take another's memory.
  No call of the Manager's is then refused half way: of `map`, only the first can be,
  when another chunk is in the way, and of `remap` none (`NoneRefused`), so the eleven
  calls end in a state linked to the moved chunk (`RemapCopy` to the end of the copy,
  `RemapSwap` for the rest).
- `ContentsCorrect`: `RunSpec => ContentsKept`, of runs in which no driver call fails. The same steps keep what each chunk
  holds: the copy in `remap` reads through the chunk's mapping and writes through the
  scratch one, and `fill` writes through one mapping, which reaches no other memory.
- `ExitCorrect`: `RunSpec => []CleanExit`, by `Reported`: a failure has failed a statement
  or has been reported by the destructor. So at a clean end none has happened,
  `Exactly` applies, and with no record left the driver has nothing (`EmptiedNothing`).
  The destructor takes one step a chunk or range, so no induction over its loops is needed.

For every set of elements, any whole number of chunks of any size, and any values of
`retain_last` (`VectorAssumption`), in `VMMVectorProofs`, both vectors:

- `TypeCorrect`, `ElementsCorrect`: `Spec => []TypeOK`, `Spec => []ElementsKept`, by
  `IInv`: the two, with what a chunk is and `target` within the chunks. An element is
  at its position divided by the chunk size, so one push overwrites no other
  (`PlaceIn`, `PlaceOf`); a chunk that a pop gives back lies wholly beyond the
  elements that stay, for any `retain_last` (`SparedChunks`); and a push of a
  `resize` finds room without a `reserve` of its own, for `target` stays within the chunks.
- `RemapImplements`: `RemapSpec => IsVector`. `RemapInv` has `Placed`: each chunk has one
  memory of its own, mapped at its place and named in `handles_`, and `chunks` is what is
  read there. A `reserve` maps handles nobody uses, so what is read before stays
  (`Growth`); a store reaches one chunk only, as two chunks never share memory
  (`RemapPushStep`); and a move ends with memory that reads as the old one did, the
  others being untouched (`RemapKeeps`). So the first two are the vector's steps and
  the last a stutter.
- `LocatedCorrect`: `RemapSpec => []Located`, from `Placed` too.

The argument about sums is in `TotalsProofs`. `Total(f)` is the number of
elements of the disjoint union of `1 .. f[x]`; `TotalChange` says that changing
`f` at one point by `d` changes the total by `d`, from the library's facts on
finite cardinalities, without induction.

Every safety property of every passing run is thus a theorem. Only model-checked:
liveness under fairness (`CallsReturn`, `SharesReturned`, `Ends`), which is out of
the prover's reach.

## 5. Not modelled, and the plan

Order of the work that is left:

1. The allocation table of `experiments/lookups/2B` (`argshim.cpp`,
   `cupti_shim.cpp`), kept by callbacks around other threads' calls.
2. `RemapShared` from what a crashed run has left in shared memory.
3. Integer widths: `used + size` near 2^64 from a raw client.

Left out for good: log lines and their wording, configuration parsing, the
layout of the wire structs, the contents of memory in the broker's model, the
measurement experiments, the notes and the plots.
