# Verification of Multi2Sim: memory hierarchy, interconnect, OpenCL runtime

This directory holds TLA+ models of the core of this repository (Multi2Sim, a
simulator of CPUs and GPUs), the TLC configurations that check them, and proofs
for TLAPS.  Paths below are relative to the repository; `src/` there holds the
simulator, so that the memory system is in `src/src/mem-system/` as seen from
the parent of this directory, and the runtimes are in `src/runtime/`.

The simulator is one thread.  Its concurrency is *simulated*: thousands of
memory accesses and packets are in flight at once, each a chain of events in a
global event queue, and they interact through locks, queues and messages that
exist only in the simulation.  A protocol error does not crash a thread; it stops
an access for ever, fires an assertion after hours of simulation, or quietly
gives wrong statistics.

The OpenCL runtime, which is linked into the programs that are simulated, is
concurrent in the usual sense: threads of the program, a thread for each command
queue and a thread for each core of the x86 device share lists, counters and
reference counts under mutexes and condition variables.

## The system

| component | state | operations | interacts with |
|---|---|---|---|
| access queue of a module (`module.c`, `mod-stack.c`) | access list, coalesced accesses, waiting lists hung on accesses, MSHR count | `mod_access`, the `*_LOCK` and `*_FINISH` events | processors call it; it calls find-and-lock |
| find and lock (`nmoesi-protocol.c`, `directory.c`) | ports and their queue, lock and lock queue of each directory entry, transient tags | `FIND_AND_LOCK*` events, `dir_entry_lock`, `dir_entry_unlock` | every access and request; calls evictions |
| cache sets (`cache.c`) | tag, transient tag and state of each block, replacement order | `cache_set_block`, `cache_access_block`, `cache_replace_block`, ... | find-and-lock and the protocol |
| NMOESI protocol (`nmoesi-protocol.c`) | block states, owner and sharers in each directory, stacks (frames) of requests | loads, stores, non-coherent stores, prefetches, evictions, read and write requests in both directions, invalidations, messages | modules of a tree, through the network |
| write-through protocol (`nmsi.c`, `nmoesi-wt.c`), local memory (`local-mem-protocol.c`) | as above | a variant of the handlers | as above |
| prefetcher, MMU, emulated memory (`prefetcher.c`, `mmu.c`, `memory.c`) | history buffer, page tables, pages | lookups and updates | the protocol, the emulators |
| network (`src/network`) | packets in the buffers of nodes, lists of events that wait for room, links, buses and lanes with the last decision of their arbiters | send, link, bus and buffer events, receive | carries the protocol's messages |
| routing tables (`routing-table.c`) | cost, next node and output buffer for each pair of nodes | one-hop routes, Floyd-Warshall, search for cycles | computed once, read by every packet |
| event engine (`src/lib/esim`) | heap of events, simulated time | schedule, execute, process a cycle | drives all the others |
| DRAM (`src/dram`) | request queues, banks | scheduling of commands | stand-alone tool |
| processors and GPUs (`src/arch`) | pipelines, emulated contexts | one cycle at a time | call `mod_access`, poll witnesses and event queues |
| OpenCL command queues and events (`runtime/opencl/command-queue.c`, `command.c`, `event.c`) | list and flag of each queue, reference counts and status of events, what each thread waits for | enqueue, flush, finish, wait, retain, release; the loop of the queue's thread | called by the program; runs commands on a device |
| OpenCL x86 device (`x86-device.c`, `x86-kernel.c`) | the ND-range that runs, counters of work ready and cores done, stacks of work-items | run an ND-range, take a work-group, barrier | called by the thread of a command queue |
| union device, partition strategies | parts of an ND-range on several devices | split by measured times | calls the other devices |
| compilers, drivers, visualisation, other runtimes | | | outside these parts |

How an access goes: a processor calls `mod_access`; the access joins the access
list of its first-level module, is coalesced with an older one or waits for
older ones; it calls find-and-lock, which takes a port, finds a way, locks its
directory entry and evicts what is there; the protocol sends a read or write
request to the lower level, which locks its own entry, invalidates or reads
other copies above (requests down-up), asks its own lower level in turn, and
replies; the access unlocks its entry, and wakes who waited for it.

How a message goes: it is cut in packets that enter the output buffer of the
node; each packet crosses a link, a bus or a photonic link into an input buffer,
goes through a switch into the next output buffer, and at its destination is put
together with the others.  Where a buffer is full it waits in the buffer's list
until a packet leaves.

How a command goes: a thread of the program creates it with its event and the
events it waits for, retains those, and appends it to a queue; a flush or a wait
starts the queue's thread, which waits for the events, runs the command on its
device, completes the event and gives the references back.

What is hard here:

* *Interleaving.*  Every step of one access can meet any step of another: between
  the lookup and the lock, between the lock and the directory latency, between an
  eviction's request and its reply.
* *Waiting and giving up.*  Requests up-down give up on a locked entry and are
  retried by the access; requests down-up wait.  The distinction is what prevents
  deadlock, and each error path must unlock exactly what it locked.
* *Wake-ups.*  Unlocking an entry wakes one waiter and leaves the lock free.
* *Order of replies.*  A level combines replies of several others, and decides
  ownership by flags set in whatever order they come.
* *Stale reads.*  States are read when an entry is locked and used many events
  later.
* *Back-pressure.*  A full buffer stops packets, which keep other buffers full; a
  circle of such waits never ends, and the routing tables are searched for them.
* *Signals between real threads.*  A queue's thread sleeps until it is told to
  process; a waiter must start the queue it waits for, and no signal may be lost.
* *Lifetimes.*  Events, queues and ND-ranges are freed by whoever comes last; who
  that is depends on the order of several threads.

The components with their status, and the hazards line by line with the
properties that cover them, are in `PROJECT.json`.

## The modules

| module | what it is |
|---|---|
| `Cache` | pure operators: replacement order of a set for LRU, FIFO and random replacement |
| `FindAndLock` | one set of one module: ports, entry locks and queues, transient tags, victims |
| `Nmoesi` | the protocol over a tree of modules |
| `Coherence` | abstract specification: what any protocol for these states must look like to processors |
| `AccessQueue` | the accesses of processors to one module: order, coalescing, waiting, witnesses |
| `RoutingTable` | pure operators: routes of a network and the search for cycles in them |
| `Network` | packets, buffers, arbiters and events of a network |
| `CommandQueue` | command queues, events and the threads that use them |
| `InOrder` | abstract specification: what command queues promise |
| `X86Device` | an ND-range on the threads of the x86 device |
| `MCFindAndLock`, `MCNmoesi`, `MCNetwork` | instances for TLC |
| `FindAndLock_proofs` (with the theorems about `Cache`), `AccessQueue_proofs`, `X86Device_proofs`, `CommandQueue_proofs`, `Network_proofs` | theorems |
| `Nmoesi_proofs`, `NmoesiLevels_proofs`, `NmoesiSystem_proofs` | theorems about `Nmoesi`: frames, locks and the entries of a module, the levels of the tree, the tree as a whole |

The state machines of the memory system are layers of one system, cut where the code has a
narrow interface.  `AccessQueue` shows the order in which accesses reach
find-and-lock (`ServedApart`), which `FindAndLock` and `Nmoesi` assume
(`MayStart`).  `FindAndLock` shows that locking an entry behaves as one step: one
holder, one way per block, nothing forgotten, and states that stay as read;
`Nmoesi` takes find-and-lock without an eviction as one action.  `Nmoesi`
implements `Coherence` under a refinement mapping.  `Network` extends
`RoutingTable`, whose result steers its packets; `CommandQueue` implements
`InOrder`; `X86Device` is what a command that runs an ND-range does on that device.

### Events and time

A pending event of `esim` is an enabled action.  Latencies, of caches, of
directories, of the network and of retries, are configurable and partly random,
so the models of the memory system let any pending event come next.  Two things
of the event loop are kept there.  In `Nmoesi`, events that follow each other without delay and touch
nothing but an entry their frame has locked are one action.  In `AccessQueue`,
processors start accesses only between cycles (`esim_process_events` runs all
events of a cycle first), that is, when no coalesced access is about to finish
because its master did (`NobodyFinishing`).

In `Network` the exact order matters, because arbiters decide once per cycle and
woken events try again in the same cycle.  `agenda` holds the events of this cycle
and of the next ones, each in the order of scheduling, which is the order in which
the heap of `esim` gives them out (`heap_less_than` prefers the one inserted
first).

### Cache

`order` maps each way to its place in the linked list of the set; moving a way
to the head or replacing the tail follows `cache_update_waylist` and its callers.
LRU touches on access, FIFO when the tag changes, random replacement may choose
any way.

### FindAndLock

One action per event of `mod_handler_nmoesi_find_and_lock`, split by outcome:
`FindAndLock` (ask for a port), `PortError`, `PortWait`, `PortLock` (the entry is
locked and the caller does not block; blocks; is free), `Action` (release the
port; evict or not), `EvictDone`, `EvictError`, `Finish`.  What the caller does
with the entry is reduced to its effects: `Fill`, `Invalidate`, `Unlock`,
`MissError`.  Kinds of accesses: `access` (of a processor, blocks and retries),
`prefetch` (gives up), `updown` (request of a higher level, gives up), `downup`
(request of a lower level, blocks).  A null tag stands for both the tag -1 and
the tag 0 with which the code clears a block; both mean "no block" since the
state is invalid.

### Nmoesi

A frame is a `mod_stack_t`, a record under a name made of its access, the name of
the frame that called it, its kind and a module (`Call`); its `ev` is the event to
come, and it runs when all frames it has called have returned.  The sections of the module follow the handlers: invalidations, find
and lock, evictions, read requests up-down and down-up, write requests up-down
and down-up, messages, and the accesses.  `Init` is the state after reset.

Abstractions: one set per module; one block size, so that a block has a single
directory entry (the code handles several sub-blocks per block); find-and-lock
without an eviction is one action; random replacement (which includes every
choice LRU and FIFO may make); peer transfers are modelled by what they change
in states, replies and directories, not by the path the data takes; no flush
requests (nothing but test commands sends them); no data, only states.

### AccessQueue

`older[s]` is the part of the access list before `s`, which stands for the list
links.  Start actions are the first events of the four kinds of access:
`StartCoalesced`, `StartAlone`, `StartPrefetch`; `Wait` and `FindAndLock` are
the `*_LOCK` events; `LockPort`, `EntryBusy`, `LockEntry`, `Fail` and `Succeed`
are what coalescing and witnesses can see of find-and-lock and the protocol;
`Finish` is the `*_FINISH` event with everything it wakes.  A prefetcher may
start a prefetch at any time.  `mod_can_access` is the guard of processors; its
other condition, a free port, is left out, which allows more.

### RoutingTable

A network is a record of its nodes, buffers, links and buses.  `Initiate` sets the
one-hop routes, `Costs` has the rounds of Floyd-Warshall, and `FloydWarshall` is the
pass after them that replaces the node in between by the first hop and its output
buffer (the code overwrites its matrix in both; the entries it still reads do not
change by that).  `Configured` has the table after each step of the Routes section: the
steps update the one-hop routes in the order in which the configuration file is asked
for them (`Steps`: by the node they start from, then by the destination), and the last
table is the one that is used.  `FindsCycle` is the depth-first search over the
dependences between output buffers, with the colours and parents the code uses; the
recursion of the code is a recursive function over what the search knows and the buffer
it comes to.  The code searches once for shortest paths, but after every step of a
configuration, and keeps what it found: `HasCycle` holds when a search of any of these
tables (`Searched`) finds a cycle.

### Network

Clocks are relative to the current cycle: a resource that the code marks busy
until `cycle + lat - 1` has the value `lat`, one less after each cycle, and is
free at 0.  Actions: `Send` and `Retry` (`net_try_send_ev`), `Stalled` (a packet
that is not at the head of its buffer, or whose buffer is busy), `OverLink`,
`OverBus`, `AtDestination`, `ThroughSwitch`, `Receive`, `Received`, and
`NextCycle` when no event of this cycle is left.  Each has the outcomes of the
handler: busy (try again later), full (wait in the list of the buffer), not
chosen by the arbiter (try again in the next cycle), and passed on.  Left out:
`net_ignore_buffer_busy`, statistics, and the random traffic of the stand-alone
simulator.  Messages come from components at any time, as the memory system sends
them.

`NetsAssumption` says what networks are, and TLC evaluates it for those of the runs.
`Wired`: a buffer has one node and one direction, and links and buses lead from output
to input buffers, by the way they are created.  The rest are the conditions under which the program
does not end with a fatal error, for the nodes that a message comes by (`Way`):
`Routed`, the table leads on to its destination (`network.c:592`, `message.c:160`, `414`,
`580`, `789`), and `Roomy`, a message is not larger than its first buffer, nor a packet
than those that it comes to (`network.c:598`, `message.c:327`, `446`, `612`, `819`).
`Timed` has the types of sizes and delays, and that `MaxDelay` is large enough.

### CommandQueue and InOrder

Each action is what a thread does under one lock, with what it does before and
after that no other thread can tell.  Threads of the program: `EnqueueCommand`,
`Finish` and `ReleaseLast` (`clFinish`), `Flush`, `WaitForEvents`, `Release`,
`SetUser`, and `ReleaseQueue`, `FlushEnd`, `Join` (the release of a queue, which
ends its thread).  The thread of a queue: `Idle`, `Dequeue`, `Verify` (the
events of the command, as `clWaitForEvents` does), `Run`, `FreeCommand`.  Both wait
with `StartWait` and `EndWait`, which flush the queue of the event first.

The program keeps rules that the code counts on: its threads share one reference
to each event and queue; the array of events to wait for is left alone until the
command has ended; user events are set to `CL_COMPLETE`, by a thread that waits for
nothing; a queue is released when none of its events is used any more.  Where the
code itself departs from what OpenCL allows a program to do is listed with the
findings.

`InOrder` has neither threads nor counts: commands of a queue are executed in the
order of enqueueing, each after its events, and a call that waits for events goes
on only when they are complete.  In the mapping `finished` is the set of completed
events and `blocked` what a thread of the program has yet to wait for.

### X86Device

The thread of the command queue stands for the last core, as in the code.
`sync_wait` and `sync_post` are a guard on a counter and its increment; the spinning
and sleeping in between are left out.  A work-group is taken with one atomic
addition to `next_group`.  Barriers switch between the stacks of the work-items;
`current_item`, `num_started`, `num_done` and `hit_barrier` are kept as in the
code, and `at` and `ran` say how far each work-item has got.  One command queue uses
the device, and an ND-range is run in one part; the union device, which splits
one, is not modelled.

## What the runs check

With two workers every run finishes within a few minutes.

**`FindAndLock_first`** (two processor accesses and one request down-up, three
blocks, two ways LRU, one port, symmetry over blocks).  `EntryMutex`: an entry is
locked exactly while one access holds it.  `PortsConsistent`, `NoIdlePort`:
ports are neither lost nor shared, nor idle while somebody waits.
`HeldStateCurrent`: what was read under the lock is still so when used.
`NoLostWakeup`: while accesses queue for an entry, it is locked or somebody is on
the way to it.  Three accesses are the smallest number with a holder and two
waiters, which is where waking only one matters; three blocks in two ways force
evictions.

**`FindAndLock_memory`** (main memory, three requests up-down, one port, under
fairness).  `UniqueCopy`: no block in two ways, here with requests for one block
at once, which only transient tags keep apart.  `PortServed`: whoever waits for a
port gets it.

**`Nmoesi_shared`** (two caches over a second level over main memory, one way
each so that every level evicts, loads and stores of two blocks, no peer transfers,
under fairness).  `AssertionsHold`: the assertions in the handlers, which are the
authors' view of what can arrive where.  `SingleWriter`; `DirectoryCovers`:
whatever is cached above is present and recorded below; `OwnerHas`: the recorded
owner has the block or is getting it.  `AccessesEnd`: accesses that conflict and
retry come to an end, unless processors start new ones for ever.

**`Nmoesi_private`** (two caches with a second level each over main memory, one
way each, loads, stores and prefetches of two blocks, peer transfers).
`EntryMutex` and `NoLostWakeup` as above, across the frames of requests, and
`AssertionsHold`.  `NoCircularWait`: no set of frames waits for entries whose holders
wait, themselves or for a frame they have called, for frames of the set.  `SingleOwner`, `OwnerKnown`: an owner two levels above
is found.  `ImplementsCoherence`: the states of the first levels, under the
refinement mapping `Permission`, implement `Coherence`.

**`Nmoesi_noncoherent`** (two caches over main memory; loads, stores and
non-coherent stores of two blocks).  `AssertionsHold` and `ImplementsCoherence`
with the N state, which several caches may have, and with ownership that is given
up by a message.  In the runs of `Nmoesi` processors sit on caches; a processor on main
memory is covered by the theorems about locks.  A store there to a block that is N would
send a request to a module below main memory: the code has none to dereference, and in
the model the request finds no entry and its access stops.  Deadlock is not checked: the system really may stop, because of
the finding `Nmoesi_nc_retry`.

**`Nmoesi_nc_retry`, `Nmoesi_data`** (violations).  See the findings.

**`AccessQueue`** (three accesses, two blocks, loads, stores, non-coherent stores, a
prefetcher, two MSHRs, under fairness).  `ServedApart`: a store is served alone,
and accesses to one block one after the other.  `WaitsForOlder`: an access hangs
on an older one that is in flight, never on one that was freed.  `LeavesInOrder`:
an access that finishes leaves no older store and no older access to its block
behind.  `WitnessedOnce`: the processor's witness is incremented once per access
although stores report early and retry.  `MshrsSuffice`: the separate count of
coalesced accesses never lets in more than there are MSHRs.
`EveryAccessFinishes`, with new accesses coming for ever.

**`Network`** (under fairness; `Init` chooses among a switch with buffers that hold
two bytes and messages of one and two, the same nodes in a network of fixed
delay, a link with two virtual channels, two buses with configured routes, a bus, a
photonic link with two lanes, and all 64 directed graphs of three switches).  `OneEventEach`: a packet in a
buffer has exactly one event, scheduled or in a list of waiters, and so has a
message that is waiting to be sent.  `WaitersHaveCause`: nobody waits for a buffer
that nothing will ever leave.  `Delivered`: every message is received if the table has no
cycle.  `RoutesAreShortest`: the table leads to every node in as few hops as there
are, and the search finds a cycle exactly when an output buffer depends on itself, in
the table of shortest paths or in one of the tables on the way to the configured routes.
`Detour`, the network with two buses, is there for the latter: the third of its four
steps closes a cycle and the fourth opens it again, so that the code warns of a cycle
that the table in use does not have.

**`Network_bus`** (violation).  See the findings.

**`CommandQueue`** (two threads of the program, two queues, two commands, a user
event, under fairness).  `NothingFreedInUse`: an event that somebody waits for,
completes or refers to has references left, and a queue that is used exists.
`ImplementsInOrder`.  `WaitsEnd`: every call that waits returns, though each
waiter starts only the queue of the event it waits for, whose commands may wait
for another queue.  Two commands on two queues are the least for a wait across
queues; the theorems cover any number.  Deadlock is not checked: the program may
release its queues and stop.

**`X86Device`** (two threads of cores and that of the queue, up to three
work-groups of two work-items, up to two barriers, two ND-ranges, under
fairness).  `ExecAlive`: no thread works on an ND-range that was freed.
`BarrierHolds`: no work-item passes a barrier that another one of its group has
not reached.  `EachItemOnce`: every work-item of a finished ND-range was run once,
and none was run twice.  `LaunchEnds`: every ND-range ends.  Deadlock is not
checked: after the last ND-range everybody sleeps.

Each property of a passing run has a mutant in `PROJECT.json`: a plausible
mistake in the code (a waiter not woken, a lock kept, an owner forgotten, ...)
for which TLC finds the property violated.  The mutated operators stand next to
the real ones in the modules.

### Bounds

Two blocks that compete for one way, two accesses at two caches, and levels of
one or two ways are enough for each of the conflicts of the protocol: a request
that meets an eviction, an invalidation, or another request for the block, at
each level and in each direction.  With two accesses at most two chains of
frames exist; what needs three chains in different caches (three sharers, or a
third access that overtakes a pair in conflict) is not covered by the runs of
`Nmoesi`.  Waiting lists with several waiters are covered by `FindAndLock`, in the
runs for three accesses and in the proofs for any number.  The state spaces of the
memory system are finite as they are, and no counter in them is cut off.

The named bounds are those of the other modules: `MaxCommands`, how many commands
are created; `MaxGroups`, `MaxBarriers` and `Launches`, the size and number of
ND-ranges (two, so that what the first leaves behind meets the second); and
`MaxDelay`, how far ahead an event of the network is scheduled, which is no
restriction but the length of `agenda` for the latencies of these networks: an
event scheduled beyond it would be missing, which `OneEventEach` would report.
Buffers of the networks hold one or two bytes, so that messages meet full ones.

### Fairness

`FindAndLock!Fairness` and `AccessQueue!Fairness` have weak fairness for every
access: an event that is scheduled is run.  `Nmoesi!Fairness` has weak fairness
for every frame and strong fairness for requests down-up that find their entry
free.  The latter stands for the random latency of a retry
(`mod_get_retry_latency`, of which the comment says that it avoids livelock): an
access that fails again and again does not do so in lock-step with the request it
conflicts with, which is woken when the entry is free and gets it at some point.
`AccessQueue` adds strong fairness for getting the entry and for success, which is
what `AccessesEnd` shows of the protocol.

`Network` has weak fairness for `Simulate`, one condition for the whole loop: the
simulator goes on while there are events.  `CommandQueue` has weak fairness for the
thread of each queue, for the steps of a call that has started, and for setting
user events, which the program must do; nothing forces a thread of the program to
start a call.  Condition variables need no strong fairness here, since a thread
that was signalled stays at a place of its own.  `X86Device` has weak fairness for
the queue's thread and each worker: the operating system schedules them, and the
counters they wait for stay at the awaited value until they have gone on.

## Findings

1. `Nmoesi_nc_retry`: a non-coherent store whose eviction fails retries without
   unlocking its entry (`nmoesi-protocol.c:967`), then waits for itself for ever.
2. `Nmoesi_data`: an eviction of a block that is exclusive at its level and
   modified above takes the data back, leaves the block exclusive
   (`nmoesi-protocol.c:3506`) and sends an acknowledgement without data below.
3. `Network_bus`: all who send to a node over a bus share its input buffer there, so
   that a packet for elsewhere at its head stops the others, a dependence that the
   search for cycles in the routing table does not see (`routing-table.c:44`): the
   simulation stalls without a warning.

Met on the way, without a run of their own:

* In a module that serves a processor *and* modules above, the one waiter that is
  woken may hit in another way, and the other waiters of the entry stay asleep
  (`nmoesi-protocol.c:1511`).  `NoMixedKinds` in `FindAndLock_proofs` excludes this.
* A store may be coalesced with one that is already being served (`module.c:643`).
* A load that follows a useless prefetch of its block is coalesced with the
  prefetch, which is over at once, and so finishes before an older store to the
  block (`module.c:617`).  `LeavesInOrder` leaves out the accesses whose master is a
  prefetch for this reason; without the exception TLC finds this behaviour in five
  steps.
* `net_can_send_ev` rounds a message up to whole packets, the fatal error before it
  does not (`network.c:598`, `612`): a message that fits only unrounded waits for an
  empty buffer.  `Whole` excludes it.
* `wait_events` of a command is the caller's array, not a copy (`command.c:207`); an
  event has a bare pointer to its queue, which may be gone (`event.c:118`); a user
  event set to an error status wakes nobody (`event.c:288`).  The assumptions on the
  program in `CommandQueue` exclude the three.
* `next_group` is not reset between the parts of an ND-range on a union device
  (`x86-kernel.c:443`).

## What is proved

All for every value of the constants that the named assumptions allow: any number
of accesses, ways, ports, blocks, and any replacement policy.

* `FindAndLock_proofs`.  `MoveToHeadKeepsOrder`: the replacement order of `Cache`
  stays a permutation of the ways, from which follows that every operation on the
  list keeps it whole.  `Typing`, `EntriesAreLocks`, `PortsAreConserved`,
  `PortsAreUsed`, `CopiesAreUnique`, `HeldStateIsCurrent`: the safety properties
  of `FindAndLock`.  None is inductive alone.  `IInv` adds to them: the queue of
  an entry has each waiter once and only waiters (`EntryQueues`), the queue of the
  ports likewise (`PortQueueOK`), and an access past the lookup has its way and
  tag (`FramesAssigned`).  There is one lemma per action; lemmas for
  `UnlockPort` and `UnlockEntry` carry most of the work.
  `WaitersAreNotForgotten`: `NoLostWakeup` holds if a module
  does not serve both processors and modules above it (`NoMixedKinds`), which is
  exactly the case in which it fails (see the findings).  The invariant
  `WakeInv` says that the way a woken access has kept is still the right one: in a
  first-level module because accesses to one block are serialised, in a lower
  level because only requests down-up wait, and these are for blocks that are
  present.
* `AccessQueue_proofs`.  `Typing`, `ConflictsAreServedApart`, `WaitersFollow`,
  `MshrsAreEnough`, `ConflictsLeaveInOrder`, `WitnessesComeOnce`: every safety
  property of `AccessQueue`, for any number of accesses, blocks and MSHRs, with
  and without a prefetcher.  `StackAssumption` (finitely many accesses) makes the
  first and last access of a part of the list exist (`OldestIsFirst`,
  `YoungestIsLast`, from the well-foundedness of strict inclusion).  `IInv` has:
  the list is a total order (`ListOrder`); whoever waits is in a list of an older
  access, a slave in that of its master, which has none itself and is gone when
  the slave finishes (`Waiting`, `Masters`); what an access has waited for stays
  away until it leaves (`ServedClear`, `PrefetchClear`); what conflicts with a
  slave is older than its master or shares it (`Joined`, the part that makes
  leaving in order inductive); how far a witness has got (`Witnesses`); and that
  `access_list_coalesced_count` counts the slaves (`Counting`).
* `X86Device_proofs`.  `Typing`, `ExecsAreAlive`, `BarriersHold`, `ItemsRunOnce`: the
  safety properties of `X86Device`, for any number of workers, groups, work-items,
  barriers and ND-ranges.  `Counting` relates the two counters to the places of the
  threads, from which follows that the queue's thread frees an ND-range only when
  every worker has left it; an exact picture of the stacks of a group gives the
  barriers; and `Sharing` and `Counted` say that the groups taken from the counter
  are different and that what has run belongs to them.
* `CommandQueue_proofs`.  `NothingIsFreedInUse`, and `Implements`: `CommandQueue`
  implements `InOrder`, every step a step of it or a stutter.  The two depend on
  each other, since the thread of a queue skips the wait for an event that it finds
  freed.  `IInv` has `TypeOK`, `Numbered` and `Hosts`, `Targets` and `Waits` (what
  each thread is in the middle of), `Order` (how far each queue has got in the
  commands it was given), `Counts` (the count of an event is the number of its
  holders) and `Closed` (a released queue has no event in use).
  `CommandQueueAssumption` says that the threads of the program are finitely many,
  for counting, and that the sets of names are disjoint.  Most actions are quiet,
  they change no count; `QuietKeeps` and `ThreadsKeep` serve all of them, and those
  that enqueue, release and free add or take one holder.

* `Network_proofs`.  `EveryPacketHasItsEvent` and `WaitersHaveTheirCause` are
  `OneEventEach` and `WaitersHaveCause`, for any networks with `NetsAssumption`, any
  messages, sizes and delays.  The agenda and the lists of waiters are lists of events, the
  buffers lists of packets, and a step takes some things from a function to lists and
  brings others, which is what `Effect` says, whatever list and place they were in: popping an
  event, scheduling one, letting it wait, waking all who wait, shifting the agenda, and
  passing a packet on are effects (`PopEffect` to `ShiftEffect`, `Goes`), and effects
  compose (`Effects`).  The invariant `Sound` speaks of `One` and `Absent` only, so that
  one lemma per kind of effect shows that it is kept (`KeptSound`, `TransferSound`,
  `ArrivesSound`, `TakenSound`, `StartedSound`, `TriedSound`, `ReceivedSound`).  It says more than
  `OneEventEach`, which is not inductive: a packet is in one buffer and has one event,
  or neither (`Carried`); a packet with a receive event is at the head of its buffer,
  and one with an input event in an input buffer (`Stands`), since `AtDestination` does not
  look at whether the buffer can be read and `Receive` takes the head, whatever it is; a buffer
  that has a packet is on the packet's way (`Onward`), so that the destination the
  handler looks up exists; and a message has events of its own only in the states that
  go with them (`Asked`).
  For `WaitersHaveTheirCause` every step is `Considerate`: it takes a packet from one
  buffer at most and wakes all who wait for that one, and an event comes to wait only
  for a buffer that is not empty.  The latter needs `Whole`, that a message fits its
  first buffer when it is rounded up to whole packets, since `net_can_send_ev` rounds up
  when it tests the room but not in the fatal error before (`network.c:598` and `612`).
  Without it a message may wait for an empty buffer.  The code does not see to `Whole`,
  so it is a hypothesis of this theorem and no part of `NetsAssumption`; the networks of
  the runs have it (`MessagesFit`).

* `Nmoesi_proofs`.  `Typing`, `NeverUnlockedTwice` and `Locking`, for any tree of
  modules, any number of ways, blocks and accesses.  `Locking` is `EntryMutex`, for
  processors without non-coherent stores, which are known to break it (see the
  findings); with them, an entry still has one frame at most that will unlock it.
  Processors may sit on any module, main memory included, where a non-coherent store
  unlocks its entry without a message (`NcAction`).
  `TreeAssumption` says of the tree that no two modules are each other's lower level.
  The code refuses longer circles as well: `mem_config_check_route_to_main_memory`
  (`config.c:1064`) stops with `fatal` when the way down from a module is longer than
  `MEM_SYSTEM_MAX_LEVELS`.  That is `LevelAssumption`, which numbers the levels from
  main memory upwards, and which only the last module of proofs needs.  An entry is unlocked
  by the frame that locked it, by the eviction that this frame has called, or, after
  an error, by a frame that passes it on, so the invariant `IInv` has to know what
  each frame is in the middle of: `CallOK`, which event a caller waits with for each
  kind of call and how their entries are related; `FrameOK`, what a frame knows by
  itself; `QueueOK`, the queue of an entry has the frames that wait for it, each
  once; `HeldOnce`; and, because it depends on the block whether a request goes on
  to other modules, `EntryOK` and `ReliesOn`, what is true of a block and its
  directory entry and what a frame relies on in the entry it has locked.  The
  lemma `StepInv` says once what it takes that a step of some frames keeps all of
  it; there is one lemma per action.

* `Nmoesi_proofs` (from `Like` on) and `NmoesiLevels_proofs`.  `WritersAlone`, `OwnersAlone`,
  `Inclusion`, `OwnersKnown`, `OwnersHave` and `Assertions` are the invariants
  `SingleWriter`, `SingleOwner`, `DirectoryCovers`, `OwnerKnown`, `OwnerHas` and
  `AssertionsHold`, each for any tree of modules, any number of ways, blocks and
  accesses, with and without peer transfers.  All have the hypothesis that no
  processor does non-coherent stores: with them, an eviction that fails leaves an
  entry locked (see the findings), and the N state belongs to several modules.  The
  invariant, `LevelsInv` of theorem `LevelsInvariant`, has three layers; the upper two
  were model-checked as well, on the instances of the runs without non-coherent stores:
  - `IInv`, above: frames, locks and queues.
  - `Entries`: an entry is locked for the block of its holder (`Tagged`), a module has
    one entry for a block, counting transient tags (`OneEntry`), what a frame has read
    in its entry is still there (`Current`), and a frame does what its caller needs
    (`CalledFor`).  It is inductive because an event changes one entry at most, which
    nobody else counts on (`FootprintOne`, `Untouched`).
  - `Levels`: for each module and block, the modules above it and its entry are
    consistent (`Family`).  The property alone says too little while a block is on its
    way, so `HasCopy` counts a block as soon as the lower level has granted it (the
    directory names the module from then on, `Grants`) and no longer when the lower
    level has accepted its eviction (`Gone`).  With these, whoever has a copy is covered
    by the entry below (`Covered`) or about to lose it to a request that is on its way
    (`Claimed`); writers are alone (`Together`); and whom the directory names has a copy
    (`SharersHave`, `OwnerHasIt`).  `DownUp` says that a request to a module above finds
    its block, and `Answer` what the owner's answer to a read means for all modules
    above.  Layer by layer the lemmas say what a step does to a copy (`CopyStays` and
    those before it), to what a module has (`HasCopyStays`), to a family
    (`FamilyStep`), and to the requests (`OwnDownUp`, `OtherDownUp`, `NewDownUp`,
    `OwnAnswer`, `DataAnswer`).

  `Peers` are modules with the same lower level.  Modules without one are main memories,
  which the code gives different ranges of addresses; the model has no ranges.

* `NmoesiSystem_proofs`.  `FirstLevelMemory` is `ImplementsCoherence`: the protocol,
  over a tree of any height, implements `Coherence`.  `FirstLevelCoherent` says that
  its states are coherent at every moment.  The invariants of the level below relate modules
  with the same lower level; two first-level modules may meet much further down.
  `Apart` shows that they do not clash: two modules of one level that have a block
  lead down to two modules that have it, with at least the same right, until they meet
  (`LevelAssumption`, induction over the level; two of different levels lead down to
  two of one level).  The library's rules of induction cannot be used here, so `Reaches`
  derives what is needed for sets of numbers from the pigeonhole principle.  A step of
  the protocol changes one permission at most (`StepImplements`), upwards only with the
  block locked by the access, and then no other module clashes with the right it gets.
  Hypotheses besides the absence of non-coherent stores: `AtTheTop`, first-level modules
  have a lower level and are nobody's lower level, and `OneMemory`, there is one main
  memory.  Both are needed: a first-level module below another one has the blocks of
  that one too, so the two cannot be caches of one memory side by side; main memory
  replaces a block by another in one step, which would change two permissions at once;
  and two main memories both have every block, since the model does not give them
  ranges of addresses.  `Unasked`
  is the additional invariant: a read from below is answered by a first-level module
  alone.

  `NothingIsMissed` is `NoLostWakeup`.  An unlock wakes one waiter, so the queue depends
  on the way that this one takes: it must come by the entry again.  `Woken` is the
  invariant; what it needs is that a frame that waits with a way has its block in no
  other entry (`Keeping(WaitKind)`), so that it looks at the same entry again, and that
  only loads, stores and requests down-up wait (`Orderly`).  `AtTheTop` is needed here too: in a
  module that processors access and that is somebody's lower level, a request up-down
  may bring the block into another way while an access waits, which is what
  `FindAndLock` shows as well.

  `NobodyWaitsInCircles` is `NoCircularWait`, and needs no hypothesis about the tree
  but that it has finitely many levels.  A set of frames that wait for each other is a
  `Circle`.  Requests up-down never wait for an entry, and each waits for one of the
  next level down at most, so a circle has a request down-up (`DownInvolved`: the
  lowest level is reached otherwise).  Such a request waits for a request down-up to a
  module right above its own (`WaitsAbove`): either it has sent that itself, or the frame that
  holds the entry it waits for has, or an invalidation for that frame has.
  The highest module of the circle refutes that.  The case that takes the invariants
  is the holder that itself waits for the level below: it would be served in the very
  entry, of the lower level, from which the request down-up came.  `NotBoth`
  excludes it: that entry has one holder, a frame evicts another block than the one it
  needs (`Victim`), and an invalidation for a write spares the module that writes
  (`Spared`).  TLC checked both on the run `Nmoesi_private` before they were proved.

Only model-checked: of `Nmoesi`, with non-coherent stores, `EntryMutex`,
`AssertionsHold` and `ImplementsCoherence`; of `Network`, `RoutesAreShortest`, which is
about what recursive functions compute (induction over data), and what the theorems
take from the routes instead is `Routed`; and all liveness properties.  Liveness and
induction over data are out of the prover's reach.

## What is not modelled

Messages of `Nmoesi` take any time and overlap freely, which is more than the
network does, except that a full network may also stop; the two are not composed.
Of the event engine only the order of events is modelled, in `Network`; domains of
different frequencies are not.  Not modelled at all: the write-through protocol,
local memories, the MMU, the prefetcher's choice of addresses, DRAM, the union
device and its partition strategies, the pipelines and emulators of processors and
GPUs (semantics of instructions, far too large), the compilers, the other
runtimes, which forward calls to drivers, and the visualisation.  `PROJECT.json`
gives the reason for each.

## Plan

Done, in this order: `Cache`, `FindAndLock`, `Coherence`, `Nmoesi`, `AccessQueue`,
`X86Device`, `CommandQueue` with `InOrder`, `RoutingTable`, `Network`.

Next, in order of weight:

1. `X86Device` with several parts of an ND-range, for the union device.
2. `Nmoesi` with data: a ghost variable for the latest copy of each block.
3. `Esim` with domains of different frequencies: events in order of time, and the
   rounding of the current time to a cycle of the domain.
4. The write-through protocol and `LocalMemory`, as variations of what is here.
5. `VectorMemory`: the GPU unit that issues one access per work-item and counts
   them down on a witness.
6. The MMU, the prefetcher and the queues of the DRAM controller.

Theorems to prove: for `Network` that a message is put together from all of its
packets, each once; for `Nmoesi` that a circle of frames remains impossible with
non-coherent stores.
