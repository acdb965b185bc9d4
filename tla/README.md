# A TLA+ model of mini-atomas

mini-atomas (namespace `mith`) is a C++ runtime for robots of a swarm. Each
robot is a `World`: an entity registry with one robot's components, a scheduler
that runs *systems* over them at a fixed rate, transports that carry beacons and
messages, and a set of built-in systems. This directory holds a model of its
core: TLA+ modules, the TLC runs that check them on small instances, and proofs
that TLAPS checks for every value of the constants.

Paths below are relative to the repository; `PROJECT.json` has the line-by-line
correspondence (`map`), the runs, the mutants, the hazards and the findings.

## 1. Inventory

| Component | State it keeps | Operations | What is hard, what must hold |
|---|---|---|---|
| **Scheduler and thread pool** `src/core/scheduler.cpp` | systems, hazard graph, per-tick counters, task queue, workers | `register_system`, `build_graph`, `tick`, destruction | Workers, caller and condition variables interleave. Conflicting systems never overlap and run in name order; a tick runs each system once and returns; destruction ends. |
| **Bounded queue** `core/bounded_queue.h` | ring, head, tail, size, two counters | `push`, `pop` under three overflow policies | Wrap-around at capacity. It is a bounded FIFO. |
| **Binary trace sink** `core/binary_trace_sink.cpp` | power-of-two ring of frames, counters | `emit`, `peek_oldest`/`pop_oldest`, `clear` | Rounding at the edges of the word, overflow while reading. It holds the latest frames. |
| **Action pipeline and fault monitor** `src/behaviour/`, `systems/fault_monitor_system.cpp` | action queue, validated buffer, permission mask, health, degraded flag | one tick of each of five systems; pushes, faults | Order of the systems within a tick, stale buffers, hysteresis. Each action meets one fate; the mask follows the degraded state. |
| **Neighbour table** `comms/neighbour_table.cpp` | entries, hash grid of indices | `upsert`, `age_out`, `clear`, `set_cell_size_m`, `for_each_within` | Indices move when entries go. The grid agrees with the entries; queries agree with a scan. |
| **World** `core/world.cpp` | context, identity, key pair, certificate, fault count, merge window, clock offset | `init`, `tick`, `run`, `rotate_identity`, `report_fault`, `dump_state` | Mission code calls back at any point, another thread stops `run()`, ticks overrun. `run()` keeps its pace and ends. |
| **Beacons, discovery, peer keys** `comms/beacon_system.cpp`, `systems/discovery_system.cpp`, `comms/peer_key_registry.cpp` | timers, pinned keys, captured identity, bootstrap state | tick of each, message handler | Packets delayed across rotations, timers that race. Honest beacons are accepted, tables converge, bootstrap ends. |
| **Simulated bus** `src/sim/` | participants, inboxes, grid, clock | `create_world`, `advance`, delivery | The grid is stale within a step. |
| **Task allocation, partition merge, clock sync** `src/systems/` | role and time since the last switch, peer count and merge window, clock offset | tick of each | The merge window and the clock offset are shared without being declared, so writers and readers are not ordered. A heal is acted upon, the window closes, clocks stay among those of the swarm, a role is not overfilled. |
| **Serial transport** `comms/serial_framing.cpp`, `comms/serial_transport.cpp`, `comms/udp_wire.cpp` | parser state, two inboxes | send, poll, feed | Frames cut anywhere by writes and reads, noise, writes that fail midway. Undisturbed packets arrive intact; the parser finds the frames again. |
| **UDP multicast transport** `comms/udp_multicast_transport.cpp` | socket, two inboxes | open, send, poll | Robots end and start again, datagrams are lost, delayed and echoed across a rotation. Tables come to hold live robots only; discovery comes to rest. |
| **Entity registry** `core/registry.*`, `core/component.h` | component stores by hash, policy, lock, sink | register (two paths), `lock`, `emplace`, `remove`, `get` | Colliding hashes and an unchecked cast; registrations again, late or refused. A store has the type its user was promised; the audit trail is true. |
| **JSON writer** `core/json_writer.cpp`, `core/trace_sink.cpp` | text, stack of scopes | begin, end, key, write, take | Commas and escapes at any nesting. What is written is JSON. |

Interaction: `World::run` or `SimBus::advance` calls `World::tick`, which calls
`SystemScheduler::tick`. Systems share the registry's components and a few
resources; their descriptors declare what they read and write, and the scheduler
derives the hazard graph from that. `BeaconSystem` drains both inboxes and calls
the message handlers that other systems have registered (`DiscoverySystem`'s is
one) from within its own tick. Faults are reported from any thread through an
atomic counter. Every component's registration, the clock offset and the merge
window go through `World`; its stop flag belongs to another thread.

## 2. Modules

Definitions keep the source's names where TLA+ allows. A definition whose comment
begins with "Mutant" is a plausible bug and is used only to show that a property
can fail.

### HazardGraph, Scheduler

`HazardGraph` has `have_hazard` and the edges between conflicting systems, from
the lesser name to the greater. `Scheduler` models `SystemScheduler` and
`ThreadPool`. The caller's program counter is `mainPc`, a worker's is `pc[w]`.
Every access outside a mutex is a step of its own: the seed loop's read of a
counter (`seed`), the decrement (`drop`), the dispatch (`submit_dep`), the
increment of `completed` (`count`), the notification (`notify_done`). Condition
variables wake one sleeper, and may wake it for nothing (`spurious_wakeup`).

A worker that uses the locals of `tick_parallel_` after it has returned has
undefined behaviour. It sets `ub`, and goes on with the memory as it finds it or
hangs on the dead mutex (`hang`); both are explored.

The seed loop has a race (section 5). The history variable `orderly` says that
every parallel tick so far began with a registration order for which the race
cannot happen (`SeedSafe`: each system with predecessors has, among the
predecessor-free systems it depends on, one registered after it, so the loop has
always passed a system before it can become ready by the work of others). The
properties that the race breaks are stated under `orderly`. That an order is not
`SeedSafe` does not mean the bug must show; that it can show is the subject of
the violation runs.

### BoundedFifo, BoundedQueue

`BoundedFifo` is the abstract specification: a sequence and two answers to a push
on a full queue. `BoundedQueue` is the ring; the refinement maps the ring's
`Contents` to the sequence. The overflow policy is a template argument: a
variable that is chosen initially and never changes. `CountMod` stands for the
width of the 32-bit counter.

### BinaryTraceSink

The ring, the rounding of the capacity (`floor_pow2`, with the shift modulo the
word), the masks, and the length of a frame, with names and fields cut to fit.
`Word` is the number of values of `size_t`, and `bit_and` is the code's `&`, written
bit by bit: that it is a remainder when the capacity is a power of two is proved and
not built in. The bytes in the frame are left out; a frame is its sequence number,
length and whether fields were cut.

### ActionPipeline

`ActionValidatorSystem`, the Move, Hover and Transmit handlers and
`FaultMonitorSystem` of one robot. A system's tick is one action, enabled once the
conflicting systems of lesser name have run: this is what `Scheduler` shows for
seed-safe orders. The descriptors are those of the source. Between ticks the application
sets the mask (outside the degraded state, as the saved mask would otherwise
overwrite its change) and repairs health. It pushes actions between ticks and, from
systems of its own, before, between and after the built-in systems of a tick; faults
are reported at any moment. An action is named by its place among the accepted ones;
`repaired` remembers health as it was last set and the faults charged by then.

`Filter` has the one helper of this module and of `Swarm`: the elements of a
sequence that are in a set, in their order, as the loops with a `continue` or an
`if` leave them. It is `SelectSeq` as a function on prefixes, which the proofs can
follow.

### NeighbourTable

Entries and grid. Coordinates are integers, with cells found by floor division, as
`floor(x / size)` does; rounding of floats is not modelled. The set of axes is a
parameter.

### Swarm

`SimBus`, `SimClock`, `BeaconSystem`, `DiscoverySystem`, `PeerKeyRegistry` and
`World::rotate_identity`, for robots that appear between steps of the simulation.
`turn` and `step` say which world is being ticked and which system is next; the
simulated bus always schedules sequentially. An identity is the pair of a robot
and the number of its rotations, so a UUID never collides; a key pair is named
likewise, and signatures of honest robots verify. `auth` is chosen initially and
stands for `MITH_AUTH_ENABLED`. Time is counted in ticks, a table's entry by its
age. Rotation is enabled at any moment, as a mission's system, the periodic policy
or the application may call it. With a period of zero the timers are never
compared and are kept at zero.

### SerialLink

One direction of a serial line: `write_framed` writes a frame in pieces, as the
kernel takes them, or gives it up midway; the line alters, loses or adds a byte;
`poll_beacons` and `poll_messages` read all there is, up to a failing `read`, and
feed it to the parser. The parser is a function on its state, one definition per
`case` of `Parser::feed`. Bytes are digits to a small base and the header of
`udp_wire` is two of them; what decides a decoding (tag, stated length, actual
length) is kept. `LinkAssumption` says that a packet fits into a payload and that two
digits hold every allowed length; in the code the longest packet has well under 200
bytes, the largest payload has 1500, and the length has 16 bits. The history variable
`owed` holds the packets that were sent since the parser was known to be at the end
of a frame.

### Registry, World

`Registry` is `EntityRegistry`: a store for each hash, with the type it was made
with, its origin, and whether it has a value. Any types may have the same hash, except
two of the runtime's own, whose ten names have ten hashes (`RegistryAssumption`).
Mission code may register any type by either path, as both are public. `accepted` are
the types whose registration the caller was told has succeeded, and `TypeSafe` is a
promise to those. One caller does not look at what it is told: `World::init`, which
goes on to emplace its components by an unchecked cast. Where it meets the store of
another type, that store is left with a value or without (`filled`). Mission code that
goes on after `TypeIdCollision` is left out.

`World` extends it with the life of a world. `pc` is where
its thread is; the load of the stop flag and the tick that follows are two steps.
Mission code (`MissionRuns`) acts between ticks and inside them. Misuse aborts: one
aborted state for each policy stands for the end of the process. `run()` is
entered with the clock at zero and at most once, and `begun` counts its ticks.

### Coordination, ClockSync

`Coordination` has `PartitionMergeSystem`, `TaskAllocSystem`, and `BeaconSystem` as
far as it fills the neighbour table, for one robot among peers that send any beacon at
any time. The systems run in name order, or, in Parallel mode, as `HazardGraph` allows
with the descriptors of the source. Two systems that touch the merge window at the
same time are a data race in the code; an access is a single float, and the model
takes it as atomic, so that a reader sees the value before or after. Ratios and
thresholds are integers in `Whole`-ths.

`ClockSync` has `ClockSyncSystem`, which writes the clock offset,
`TransmitActionHandler`, which stamps messages with the time that results, and
`BeaconSystem` as far as it brings in the stamps of neighbours, for one robot and any
neighbours: they may run the same system and be drawn along, or send anything. The
race on the offset is treated like that on the merge window. Times are told relative
to the robot's own `elapsed_time_s`, so a stamp in the table falls by one with each
tick and a clock that merely runs on stands still. `adjustment_rate` is any fraction
up to one: every step towards the mean of the gaps is explored. The history variable
`known` holds the clocks the robot began with or heard of.

### Multicast

Robots on a multicast group: processes with a tick of three steps (beacons,
messages, discovery), each at its own pace. `open` and `close` are the start and the
end of a process, at any point of its tick; a robot that starts again has a new
identity and empty tables. Each datagram is lost or not, for each socket separately,
and comes back to its sender. `config.self_id` is nil, or the identity at the time of
`open`. Sockets and inboxes are sets, which covers reordering and not duplication
(a duplicate would be handled like the original). With a HELLO in every tick of
the bootstrap, discovery is at its noisiest.

### JsonWriter

The writer's stack and, in place of its text, the state of a reader of JSON that
has read it (`Reading`), so that texts of any length are covered. Punctuation goes by
its name ("quote", "lbrace"). Mission code makes the calls
the header allows; `JsonTraceSink::format` and `World::dump_state` are sequences of
calls. The characters of a number are not modelled.

## 3. Runs

| Run | Question | Instance |
|---|---|---|
| `scheduler` | `SchedulerInv` (the invariant the proofs use), `HazardExclusion`, `LexOrder`, `ExactlyOnce`, `TickTerminates`, `PoolJoins` | 4 systems (a diamond), 2 workers, up to 2 ticks |
| `scheduler_once` | what the header promises; violated | a chain of 3 hazards, 1 tick |
| `queue` | `ImplementsFifo` | 3 slots, 3 items, counters modulo 4, all policies |
| `sinks` | `HoldsLatest`, `FramesFit` | words of 4 bits, 7 requested sizes, events that fit and that are cut |
| | `Readable`, `TakenWhole` | nesting of 3, 2 items, strings with each kind of character |
| `pipeline` | `OneFate`, `MaskFollowsState`, `FaultsCharged`, `MaskHonoured`, `InOrder`, `QueueDrains`, `HealthDecides` | 4 kinds of action, queue of 2, 2 actions, 1 fault, health 0..3 |
| `pipeline_order` | `FaultThenValidator`, what ARCHITECTURE.md says of a tick; violated | the same |
| `comms` | `GridInSync`, `VisitsExactly`, `OneFreshEntry` | 2 identities, 2 axes, coordinates -2..1, cells of -1, 2 and 3 |
| | `BytesAccounted`, `Intact`, `Resynchronises` | base 7, payloads of 3 and 4 bytes, a buffer smaller than the longest frame, 1 fault |
| `swarm` | `NoFalseReject`, `PinsOwn`, `CertVerifies`, `TablesConverge`, `BootstrapEnds` | 2 robots, 2 places, 1 rotation each |
| `world` | `TypeSafe`, `AuditTrue`, `Paced`, `StopEnds` | 1 built-in type and 2 of the mission, all of one hash, 3 ticks of 2 clock units, 6 clock units |
| `world_alias` | `OwnStores`, what `world.cpp` says of init's registrations; violated | the same |
| `coordination` | `WindowFelt`, `MergeCloses`, `NoOverfill` | 3 peers, 2 tracked roles and the others, windows of 2 ticks |
| | `StaysAmong`, `StampsSteady` | 2 senders, stamps off by up to 2 ticks either way, steps of up to 2, entries that last 2 ticks |
| `multicast` | `GhostsFade`, `DiscoveryRests` | 2 robots, one with 2 identities, sockets for 2 and for 1 datagram |

`sinks`, `comms` and `coordination` each hold two components that share no variable:
`subject` is chosen initially, that component is run and the other rests in an initial
state, with the fairness of its own specification. Interleaving the two would add
nothing that a property of either could see.

A type invariant is stated in the other modules too (`TypeOK`), for their readers
and for proofs; the scheduler's is a part of `SchedulerInv`. `RingInv` of the queue and
`AllAccounted` of the binary sink are proved (section 4) and not among the runs.

*Bounds.* A diamond is the least graph with both a fork and a join, so that two
workers race to release the same system; two workers suffice for a race between
workers, and the caller is a third thread. A second tick, which `MaxRuns` grants to
schedulers of one or two systems, lets a task outlive its tick. Larger sets of
systems are explored in Parallel mode unless the system registered last has
predecessors (`LastWaits`): such an order is never `SeedSafe`, its race shows with
two systems already, and `scheduler_once` explores it with three. The proofs remove
these bounds. Three slots
distinguish head, tail and the one between; the proof is for every capacity. Four
bits of word have the same edges as 64 (zero, one, the top power of two). In
`pipeline` two actions are enough for an order, to fill the queue and to be split
over two ticks, and health 0..3 with threshold 2 and hysteresis 1 has values
below, in and above the hysteresis band; one fault of two points takes the robot
through it. Two sides of the origin and sizes that do and do not divide the range
are the edge cases of the cell arithmetic; a size that is not positive disables
the grid. In `swarm` the two places are in non-adjacent cells, so a robot can be
in range, out of range, or in range but binned far away. A beacon period of two
ticks and a timeout of one are the tightest pair for which a neighbour is not
forgotten: the entry expires in the very tick that brings the next beacon.
The quorum of one and the bootstrap timeout of three ticks let either end the
bootstrap. Adjacency in three dimensions is not in this module, but the cell
arithmetic is the neighbour table's. For the serial link the base leaves room for
lengths that are oversize, the longest packet is the largest allowed payload, and
the buffer is one byte short of its frame, so that a frame may always be cut; the
bodies are either plain data or made of the two sync bytes. One fault is enough to
take the parser to any of its states at any place of a frame.

In `world` six units of clock are three periods: a tick may end early, late, or so
late that the next two are overdue; rotation falls due every second tick; with all
types under one hash, whichever is registered first refuses the others. In
`coordination` two peers that appear together are a heal, one alone is not; the merge window of
two ticks is the shortest that the property allows; the desired shares sum to more
than the swarm, so roles compete; one threshold is a whole robot, as by default, the
other is less. For the clock two senders are enough for a mean of stamps of
different ages, gaps are wider than the largest step, and an entry is used fresh, old
and at its limit. In `multicast` the second identity of one robot is either a rotation
or a new start; sockets this small overflow.

*Deadlock* is checked except for `Scheduler`, where the caller may be done
(`gone`), an assertion may have ended the process, or a thread may hang; for
`World`, which may be aborted or at the bound of its ticks; and for `Multicast`,
where all robots may be off for good. The temporal properties cover what must not
stop.

*Fairness.* `Scheduler`: weak fairness of each worker and of the caller inside a
call: the operating system runs every runnable thread. Calls of the user and
spurious wake-ups are not fair. `ActionPipeline`: the tick and the systems in it,
since `World::run` ticks until it is told to stop. `Swarm`: `advance` and the
steps within it, since a simulation goes on advancing. `SerialLink`: sending,
writing and polling, which every tick does; faults are not fair. `World`: the thread
in `run()`, the end of a tick, and the clock; nobody need ever set the stop flag. That
a tick ends presumes that the scheduler's does, which holds in the default Sequential
mode, and in Parallel mode as long as the first two defects of section 5 do not show.
`Coordination`: that some step is taken, since the world keeps ticking.
`Multicast`: each robot that is on keeps taking the steps of its tick; nothing is
assumed of the network, so the properties must hold even if every datagram is
lost. Movement is arbitrary, and
rotation, creation, faults and pushes never have to happen.

*Liveness* properties and their premises: `TickTerminates` and `PoolJoins` except
when undefined behaviour has occurred, in which case nothing can be promised;
`QueueDrains`; `HealthDecides`; `TablesConverge`, for robots that in the end stay
in range or stay apart; `BootstrapEnds`, without premise; `Resynchronises`, for
bodies free of the first sync byte; `StopEnds`; `MergeCloses`, once no robot joins the
neighbourhood any more; `GhostsFade`, once no robot starts, ends or rotates;
`DiscoveryRests`, once all robots are Active and stay so. The premise of
`Resynchronises` is needed: without a checksum or
escaping, a stream of equal packets that hold a sync pair and a long length after
it can keep a parser that is out of step where it is.

## 4. Proofs

Assumptions, each named in the module that declares the constants and evaluated by
TLC in every run that uses it: `SchedulerAssumption` (finitely many systems, at
least one worker, names in a totally ordered set, here the naturals);
`QueueAssumption`; `TableAssumption` (finitely many axes, coordinates and cell
sizes are integers); `SinkAssumption` (a header and the longest name fit into a
frame); `LinkAssumption` (section 2); `JsonAssumption` (strings are made of the five
classes of characters that `escape` tells apart); `RegistryAssumption` (finitely many
types, and no two of the runtime's own have the same hash); `WorldAssumption`;
`CoordinationAssumption` (finitely many peers, a merge window of at least two
ticks); `ClockSyncAssumption` (finitely many senders); `PipelineAssumption`; `SwarmAssumption` (finitely many robots, a positive
range). Bounds such as `MaxActions` or
`MaxRotations` are any natural number, so the theorems hold however far one
explores.

* **`SchedulerProofs`**. `SchedulerTypeOK` by a typing argument over all actions.
  `SchedulerInvariant` proves `SchedulerInv`, and from it follow
  `SchedulerHazardExclusion`, `SchedulerLexOrder` and `SchedulerExactlyOnce`, for
  any number of systems, workers and ticks and any descriptors. None of the three
  is inductive: that two conflicting systems do not overlap depends on the
  counters. The parts of the invariant are
  - `GraphInv`: the graph in use is that of the systems registered;
  - `CountersInv`: a system's counter is the number of predecessors whose run has
    not been subtracted yet (`Waiting`), nothing that is submitted waits, and
    `completed` is the number of systems that have been counted;
  - `QueueInv`, `WorkersInv`: a system is queued, about to be dispatched, or
    started, at most one of these, and at most once;
  - `SeedInv`: for each system at index k, as long as the seed loop has not passed
    its witness W[k], the system is not submitted. So when the loop meets a
    counter at zero, nobody else has dispatched that system. This part needs
    `SeedSafe`, and is where the proof fails for other orders;
  - `QuietInv`, `SequentialInv`, `HandInv`: what holds between ticks and in the
    sequential loop.
  The proof has one lemma per action that disturbs the counters (`TakeStep`,
  `FinishStep`, `DropStep`, `SubmitStep`, `CountStep`, `SeedStep`, `StartStep`),
  and framing lemmas for the others.
* **`BoundedQueueProofs`**. `RingInvariant`: `tail = (head + size) % N` and the
  slots between hold items. `QueueImplementsFifo`: every step of the ring maps to
  a step of `BoundedFifo`. The lemmas on remainders (`WrapOnce`, `RingWraps`) do
  the arithmetic; the rest has one lemma per case of `push` and `pop`.
* **`CommsProofs`**. The neighbour table. `TableGridInSync`: the incrementally
  maintained grid equals a rebuild; `TableOneFreshEntry`: one entry per identity, as fresh as the
  last beacon, there until the timeout. `TableVisitsExactly`: `for_each_within`
  through the grid visits what a scan would. It rests on `GridInSync` and on the
  arithmetic of cells: a point within the radius differs by at most the radius on
  every axis (`NearOnAxes`, from a sum of squares), so its cell is within the span
  that the query walks (`CellsApart`).
  The serial link. `Sound` says of a parser that its buffer is shorter than the length
  it expects and that its counters add up; each `case` of `Parser::feed` keeps it
  (`FromSync2`, `FromLenLo`, `FromLenHi`, `FromPayload`), so `BytesAccounted` holds
  whatever the line does. `Intact` compares inboxes with `owed` when all is read, and
  is not inductive. `LinkInv` says of every state without a fault since a frame's
  end: *if the parser were fed the bytes on the wire and those that `write_framed` has
  yet to write, it would be at a frame's end, with `owed` in its inboxes.* A `write`
  moves bytes from the one to the other and a `poll` feeds a prefix, so all cuts are
  covered by `FeedJoins` (feeding two pieces is feeding their concatenation); taking
  packets out of the inboxes commutes with feeding (`FeedAhead`); and `PacketFed`
  follows the parser through one whole packet, whose body may hold sync bytes.
* **`DataLemmas`**. The facts about data that several components need. The library's
  induction rules take an operator as parameter, which the provers cannot
  instantiate; `LeastNumber` (a non-empty set of naturals has a least element) and
  `InductiveSet` take a set instead, and everything else follows from them: that the
  recursive functions behind `SumFunction` and `Only` exist and unfold, bounds of a
  sum (`SumBounds`, `SumCovers`), the candidate a maximising loop ends with
  (`FirstLargest`), and what a filtered sequence contains and keeps in order
  (`OnlyFilters`, `OnlyIncreases`).
* **`ActionPipelineProofs`**. `PipelineInv` adds to the properties what holds inside
  a tick. `OneFate` speaks of the state between ticks only and is not inductive; the
  invariant says for each action whether its handler is still to run in this tick
  (`Due`, `Fates`), that the validator comes first (`Phases`, from the descriptors by
  `ValidatorFirst`), that no action is rejected and on its way (`Apart`), and that
  positions in queue, buffer and what was moved or sent increase (`Ordered`).
  An action pushed after the validator has run stays in the queue, so nothing is said
  of the queue being empty in a tick. `MaskHonoured` needs that a tick that began
  degraded has validated nothing that moves or sends (`Quiet`), which rests on
  `MaskFollowsState`; `FaultsCharged` is inductive, as charges in two portions add up
  to the charge of both, also when health is at zero in between (`ChargesAdd`);
  `InOrder` needs `Ordered`.
* **`SwarmProofs`**. A message may bring a later key than the identity of its sender:
  `DiscoverySystem` captures its identity once, and `keypair` follows rotations. So
  "the key pinned to an identity is its own" is false, and `NoFalseReject` holds for a
  subtler reason, which `SwarmInv` states: wherever another key than an identity's own
  is pinned to it, the robot has rotated and no beacon of that identity is in the inbox
  any more (`Settled`), since beacons are drained before messages. What is listed was
  therefore pinned by its own beacon (`ListedPinned`), and `CertVerifies` follows.
  One lemma per action (`CreateKeeps`, `RotateKeeps`, `BeaconKeeps`,
  `DiscoveryKeeps`, `TurnKeeps`), over `TryPin` and `Delivered`.
* **`WorldProofs`**. The world, and the two ways it reports. `RegistryInv`
  strengthens `TypeSafe` and `AuditTrue` by the place of a store (`Homed`) and by its presence, as a store of another type may
  have the same hash; every call of mission code keeps it, and so does `World::init`,
  which writes into stores of other types and changes the type of none.
  `WorldPaced` relates the clock, the ticks begun and the next deadline at each point
  of `run()`.
  The JSON writer. What the reader makes of a text is followed by parts
  (`ReadingJoins`); every string, escaped, leaves the reader where it should
  (`QuotedRead`). `IsPlaced` is what holds between two calls: the reader's brackets are
  the scopes of `stack_`, only the innermost scope can still be at its first element,
  and what the reader waits for goes by that scope and by whether a key waits for its
  value. `Step` is the protocol of the header seen from outside, and `PerformStep`
  shows that each call keeps `IsPlaced` and follows `Step`. `Readable` follows for
  mission code. For the clients, `JsonInv` adds that the calls still to be made form a
  path of `Step` (`Goes`); `DumpGoes` and `FormatGoes` build that path from the way the
  calls are nested (members, elements, values), with any number of neighbours,
  timings and fields. `JsonInv` quantifies over all paths, so TLC does not check it;
  it checks the two properties that follow.
  The trace sink. `floor_pow2` returns a power of two, at the edges of the word too
  (`CapacityIsPower`), and the bitwise and with a power of two less one is the
  remainder (`MaskWraps`, by induction on the exponent). `HoldsLatest` is not
  inductive: it speaks of the frames held, and the next `emit` writes relative to
  `head_`. `SinkInv` relates `head_`, the sequence number and every slot, and has the
  balance of the counters; one lemma per action keeps it.
* **`CoordinationProofs`**. `CoordinationInv`: an unfelt window is open, and lasts
  beyond the next decrement if `TaskAllocSystem` is over for this tick (`Pending`);
  `NoOverfill` uses `FirstLargest` for the role the loop chooses.
  The clock. `SyncInv` strengthens `StaysAmong` by `Heard`: a stamp in the table is a
  clock that was heard of, less the age of its entry. The step is towards the mean of
  the gaps, which lies between the least and the largest of them by `SumBounds`
  (`StepAmong`). For `StampsSteady` it adds `Near`: the offset has moved from the last
  message's stamp by one clamp for each adjustment that may lie between (`Slack`),
  which in Parallel mode is one more.

Only model-checked, and why:

* all liveness properties, which are beyond the prover;
* `Multicast`, which has liveness properties only, and `Resynchronises` of the serial
  link for the same reason;
* that the systems run in the order of `HazardGraph` in `ActionPipeline` and
  `Coordination` is taken from `Scheduler`, where it is proved for seed-safe orders;
  the modules are not composed.

## 5. Where the code and its documentation disagree

1. **A system may run twice in one tick** (`scheduler_once`,
   `scheduler.cpp:281`). The seed loop tests `in_degree[i] == 0` while workers
   decrement the counters, so both may dispatch a system.
   `completed` then steps past N, the waiter tests for equality, and the tick may
   never return.
2. **A worker may lock a destroyed mutex** (`scheduler.cpp:273`): `completed` is
   incremented before `done_mtx` is taken, so the caller can return in between, and
   the wait "for all systems in this tick to finish" (line 286) does not cover the
   tasks. In `Scheduler` the state with `ub` is reached, and `hang` with it.
3. **The validator runs before the fault monitor** (`pipeline_order`), as edges follow
   the names; ARCHITECTURE.md:1144-1146 says the contrary. In the tick that degrades
   the robot, actions are let through by the mask of before, and in the tick of
   recovery they are refused; `MaskHonoured` says that no other tick does either.
4. **A WELCOME may carry the nil identity** (`discovery_system.cpp:150`;
   `discovery_system.h:17` says it contains the sender's), when a
   HELLO waits in the inbox at the first tick: the identity is captured by
   `DiscoverySystem`'s tick, which comes after `BeaconSystem`'s.
5. **The registrations of `World::init` can fail** (`world_alias`; `world.cpp:58-60`
   says they cannot): if a type of the mission with the hash of a built-in one is
   registered first, `init()` ignores the refusal and writes the built-in component
   into the mission's store, the aliasing that `registry.h:29` excludes; if the mission
   has locked the registry first under `LockAfterInit`, the emplacement of the first component aborts; if it
   has registered a built-in type itself, that type keeps the origin User.
6. **Late registrations are possible** (`world.cpp:89` says "No more component
   registrations"): the lock binds under `LockAfterInit` only.
7. A merge window of one tick would never be felt in Parallel mode when
   `TaskAllocSystem` happens to run first each time: the next tick has taken it away.
   `CoordinationAssumption` asks for two.
8. **User code can claim the origin Built_In** (`component.h:132` says it cannot):
   `register_builtin_component` is public (`registry.h:138-141`).
9. `scheduler.h:11`, 43 and 97 still say that Parallel mode is not implemented and that
   `tick()` aborts in it.

Items 1, 3 and 5 have runs of their own, which expect the violation; 2, 4, 6 and 8 are
part of the behaviour of the passing runs. Others worth knowing: peers
whose beacons arrive one per tick never count as a heal of more than one, and
clocks that synchronise by stamps run slow, as a stamp is older than the clock it
is compared with: `StaysAmong` bounds a robot by the slowest clock it has *heard of*,
and in a swarm where all synchronise that one may fall back further with each round,
while none gets ahead of the fastest. On multicast a directed message reaches everyone, a robot answers
its own HELLO, and the echo of an identity it has given up counts towards the
bootstrap quorum until it fades.

## 6. Not modelled

The cryptographic primitives and UUIDs (published algorithms; the model takes from
them that identities are distinct and honest signatures verify), kinematics and
flocking (floating-point formulas without control state), the set-up of sockets and
serial devices (I/O), the visualiser, examples and tools. Counters that only observe
(timings, hello counts) are left out of the modules, and so are the digits of
numbers in JSON. Float rounding is left out throughout: times are ticks and
positions integers. In `Swarm`: messages of the mission, a range of zero (which
disables the grid), worlds without a transport; packet loss and latency are
configuration that the code reserves and does not implement. In `SerialLink`: the
line in the other direction, where `write_framed` spins on `EAGAIN` as long as the
peer does not read. In `Multicast`: datagrams that do not decode, and the read of an
empty datagram, which ends a drain early. In `Registry`: component values, archetype
views, and users other than `World::init` of a type whose registration was refused. `World`s with two
separate transports.

## 7. Plan

Every invariant that a run checks is proved. What could be added is model rather than
proof: a two-way serial link (two ends that spin on `EAGAIN` against each other), and
several robots running `Coordination` or `ClockSync` against one another (do roles
settle, how slow do clocks become?).
