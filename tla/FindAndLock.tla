----------------------------- MODULE FindAndLock -----------------------------
(***************************************************************************)
(* How accesses reach a block of one memory module: the ports of the       *)
(* module, the lock and the lock queue of each directory entry, transient  *)
(* tags and the choice of a victim.  This is mod_handler_nmoesi_find_and_  *)
(* lock with mod_lock_port, mod_unlock_port, mod_find_block,               *)
(* dir_entry_lock and dir_entry_unlock.                                    *)
(*                                                                         *)
(* A Stack is an access (mod_stack_t) together with the find-and-lock      *)
(* frame it creates.  Every pending event of the event queue is an enabled *)
(* action, so that all interleavings that any choice of latencies gives    *)
(* are explored.  What an access does with the entry once it has locked it *)
(* is reduced to its effects on the entry: EvictDone, EvictError, Fill,    *)
(* Invalidate and the two ways of leaving.  Module Nmoesi has the protocol *)
(* itself.                                                                 *)
(***************************************************************************)
EXTENDS Cache, Sequences, FiniteSets

CONSTANTS
  Stack,       \* accesses that may be in flight in the module
  Tag,         \* blocks of memory that map to the set that is modelled
  NumPorts,    \* mod->num_ports
  MainMemory,  \* mod->kind == mod_kind_main_memory
  Kind,        \* what each access is, see KindAssumption
  None         \* a null pointer, and the way -1

\* "access":   load, store or nc_store of a processor: blocking, retried;
\* "prefetch": non-blocking, never retried;
\* "updown":   request of a higher-level module: non-blocking;
\* "downup":   request of a lower-level module: blocking.
ASSUME KindAssumption ==
  Kind \in [Stack -> {"access", "prefetch", "updown", "downup"}]
ASSUME PortsAssumption == NumPorts \in Nat \ {0}
ASSUME MemoryAssumption == MainMemory \in BOOLEAN
ASSUME NoneAssumption == None \notin Way /\ None \notin Stack
                         /\ None \notin Tag /\ None \notin 1 .. NumPorts

Port == 1 .. NumPorts

VARIABLES
  blk,        \* blk[w]: tag, transient tag and validity of the block in way w
  order,      \* replacement order of the ways
  lock,       \* dir_lock->lock
  lockQueue,  \* dir_lock->lock_queue
  ports,      \* mod->ports[i].stack
  numLocked,  \* mod->num_locked_ports
  portQueue,  \* mod->port_waiting_list
  pc,         \* the event that is scheduled for the access, or where it waits
  tag,        \* block the access is for
  port,       \* stack->port
  way,        \* stack->way of the find-and-lock frame
  retWay,     \* ret->way: the way kept across retries
  hit,        \* stack->hit
  state       \* stack->state is not invalid

cacheVars == <<blk, order>>
lockVars  == <<lock, lockQueue>>
portVars  == <<ports, numLocked, portQueue>>
frameVars == <<tag, way, retWay, hit, state>>
vars == <<cacheVars, lockVars, portVars, pc, port, frameVars>>

Block == [tag : Tag \cup {None}, transient : Tag \cup {None}, valid : BOOLEAN]

Blocking(s) == Kind[s] \in {"access", "downup"}

Init ==
  /\ blk = [w \in Way |-> [tag |-> None, transient |-> None, valid |-> FALSE]]
  /\ order = InitialOrder
  /\ lock = [w \in Way |-> FALSE]
  /\ lockQueue = [w \in Way |-> <<>>]
  /\ ports = [p \in Port |-> None]
  /\ numLocked = 0
  /\ portQueue = <<>>
  /\ pc = [s \in Stack |-> "idle"]
  /\ tag = [s \in Stack |-> None]
  /\ port = [s \in Stack |-> None]
  /\ way = [s \in Stack |-> None]
  /\ retWay = [s \in Stack |-> None]
  /\ hit = [s \in Stack |-> FALSE]
  /\ state = [s \in Stack |-> FALSE]

-----------------------------------------------------------------------------
(***************************************************************************)
(* Lookup, ports and locks.                                                *)
(***************************************************************************)

\* Mutated form of Matches: transient tags are not looked at.
MatchesValidOnly(w, t) == blk[w].valid /\ blk[w].tag = t

\* Mutated form of Matches: a transient tag counts after the entry is unlocked.
MatchesOldTransient(w, t) ==
  (blk[w].valid /\ blk[w].tag = t) \/ blk[w].transient = t

\* mod_find_block: a valid block with the tag, or a locked entry that is being
\* filled with it.
Matches(w, t) ==
  \/ blk[w].valid /\ blk[w].tag = t
  \/ lock[w] /\ blk[w].transient = t

Hit(t) == \E w \in Way : Matches(w, t)

\* The loop over the ways stops at the first match.
HitWay(t) ==
  CHOOSE w \in Way : Matches(w, t) /\ \A v \in Way : Matches(v, t) => w <= v

FreePorts == {p \in Port : ports[p] = None}

\* Mutated form of UnlockPort: nobody is woken.
UnlockPortSilently(s, next) ==
  /\ ports' = [ports EXCEPT ![port[s]] = None]
  /\ numLocked' = numLocked - 1
  /\ portQueue' = portQueue
  /\ port' = [port EXCEPT ![s] = None]
  /\ pc' = [pc EXCEPT ![s] = next]

\* Mutated form of UnlockPort: a port that is handed over is counted as free.
UnlockPortTwice(s, next) ==
  IF portQueue = <<>>
  THEN UnlockPortSilently(s, next)
  ELSE LET u == Head(portQueue) IN
       /\ ports' = [ports EXCEPT ![port[s]] = u]
       /\ numLocked' = numLocked - 1
       /\ portQueue' = Tail(portQueue)
       /\ port' = [port EXCEPT ![s] = None, ![u] = port[s]]
       /\ pc' = [pc EXCEPT ![s] = next, ![u] = "port"]

\* mod_unlock_port by access s, which goes on to place next: the port passes
\* to the access at the head of the waiting list, if there is one.
UnlockPort(s, next) ==
  IF portQueue = <<>>
  THEN /\ ports' = [ports EXCEPT ![port[s]] = None]
       /\ numLocked' = numLocked - 1
       /\ portQueue' = portQueue
       /\ port' = [port EXCEPT ![s] = None]
       /\ pc' = [pc EXCEPT ![s] = next]
  ELSE LET u == Head(portQueue) IN
       /\ ports' = [ports EXCEPT ![port[s]] = u]
       /\ numLocked' = numLocked
       /\ portQueue' = Tail(portQueue)
       /\ port' = [port EXCEPT ![s] = None, ![u] = port[s]]
       /\ pc' = [pc EXCEPT ![s] = next, ![u] = "port"]

\* Mutated form of UnlockEntry: the lock stays set for the waiter that is woken.
UnlockEntryHandingOver(s, w, next) ==
  IF lockQueue[w] = <<>>
  THEN /\ lock' = [lock EXCEPT ![w] = FALSE]
       /\ lockQueue' = lockQueue
       /\ pc' = [pc EXCEPT ![s] = next]
  ELSE /\ lock' = lock
       /\ lockQueue' = [lockQueue EXCEPT ![w] = Tail(@)]
       /\ pc' = [pc EXCEPT ![s] = next, ![Head(lockQueue[w])] = "find"]

\* dir_entry_unlock of way w by access s, which goes on to place next: only
\* the first waiter is woken, and the lock is left free for whoever comes
\* first.
UnlockEntry(s, w, next) ==
  /\ lock' = [lock EXCEPT ![w] = FALSE]
  /\ IF lockQueue[w] = <<>>
     THEN /\ lockQueue' = lockQueue
          /\ pc' = [pc EXCEPT ![s] = next]
     ELSE /\ lockQueue' = [lockQueue EXCEPT ![w] = Tail(@)]
          /\ pc' = [pc EXCEPT ![s] = next, ![Head(lockQueue[w])] = "find"]

-----------------------------------------------------------------------------
(***************************************************************************)
(* The access arrives.  Accesses and prefetches of a module to one block   *)
(* are serialised before they come here (LOAD_LOCK, STORE_LOCK,            *)
(* NC_STORE_LOCK and mod_can_coalesce).  A lower-level module sends a      *)
(* request down-up only to a module that has the block, one at a time      *)
(* since its own entry is locked meanwhile.                                *)
(***************************************************************************)
Own(s) == Kind[s] \in {"access", "prefetch"}

\* Mutated form of MayStart: accesses to one block are not serialised.
MayStartTogether(s, t) ==
  Kind[s] = "downup" =>
    /\ \E w \in Way : blk[w].valid /\ blk[w].tag = t
    /\ \A u \in Stack :
         Kind[u] = "downup" /\ pc[u] # "idle" => tag[u] # t

MayStart(s, t) ==
  /\ Own(s) =>
       \A u \in Stack : Own(u) /\ pc[u] # "idle" => tag[u] # t
  /\ Kind[s] = "downup" =>
       /\ \E w \in Way : blk[w].valid /\ blk[w].tag = t
       /\ \A u \in Stack :
            Kind[u] = "downup" /\ pc[u] # "idle" => tag[u] # t

Start(s, t) ==
  /\ pc[s] = "idle"
  /\ MayStart(s, t)
  /\ tag' = [tag EXCEPT ![s] = t]
  /\ retWay' = [retWay EXCEPT ![s] = None]
  /\ pc' = [pc EXCEPT ![s] = "find"]
  /\ UNCHANGED <<cacheVars, lockVars, portVars, port, way, hit, state>>

\* EV_MOD_NMOESI_FIND_AND_LOCK and mod_lock_port.  The priority for down-up
\* requests tests stack->request_dir, which find-and-lock frames never set:
\* every access joins the tail.
FindAndLock(s) ==
  /\ pc[s] = "find"
  /\ way' = [way EXCEPT ![s] = retWay[s]]
  /\ IF numLocked >= NumPorts
     THEN /\ portQueue' = Append(portQueue, s)
          /\ pc' = [pc EXCEPT ![s] = "portWait"]
          /\ UNCHANGED <<ports, numLocked, port>>
     ELSE \E p \in FreePorts :
          /\ \A q \in FreePorts : p <= q
          /\ ports' = [ports EXCEPT ![p] = s]
          /\ numLocked' = numLocked + 1
          /\ port' = [port EXCEPT ![s] = p]
          /\ pc' = [pc EXCEPT ![s] = "port"]
          /\ UNCHANGED portQueue
  /\ UNCHANGED <<cacheVars, lockVars, tag, retWay, hit, state>>

\* EV_MOD_NMOESI_FIND_AND_LOCK_PORT: the ways the access may go for, and the
\* replacement order once one has been chosen.
Candidates(s) ==
  IF Hit(tag[s]) THEN {HitWay(tag[s])}
  ELSE IF way[s] # None THEN {way[s]}
  ELSE Victims(order)

OrderAfterLookup(s) ==
  IF ~Hit(tag[s]) /\ way[s] = None THEN OrderAfterReplace(order) ELSE order

\* ... the entry is locked and the access does not block: error.
PortError(s) ==
  /\ pc[s] = "port"
  /\ ~Blocking(s)
  /\ \E w \in Candidates(s) :
       /\ lock[w]
       /\ way' = [way EXCEPT ![s] = w]
  /\ order' = OrderAfterLookup(s)
  /\ hit' = [hit EXCEPT ![s] = Hit(tag[s])]
  /\ UnlockPort(s, "idle")
  /\ UNCHANGED <<blk, lockVars, tag, retWay, state>>

\* ... the entry is locked and the access blocks: it leaves its port and
\* queues, keeping the way.
PortWait(s) ==
  /\ pc[s] = "port"
  /\ Blocking(s)
  /\ \E w \in Candidates(s) :
       /\ lock[w]
       /\ way' = [way EXCEPT ![s] = w]
       /\ retWay' = [retWay EXCEPT ![s] = w]
       /\ lockQueue' = [lockQueue EXCEPT ![w] = Append(@, s)]
  /\ order' = OrderAfterLookup(s)
  /\ hit' = [hit EXCEPT ![s] = Hit(tag[s])]
  /\ UnlockPort(s, "lockWait")
  /\ UNCHANGED <<blk, lock, tag, state>>

\* ... the entry is free: lock it, record the transient tag, touch the block.
PortLock(s) ==
  /\ pc[s] = "port"
  /\ \E w \in Candidates(s) :
       /\ ~lock[w]
       /\ way' = [way EXCEPT ![s] = w]
       /\ lock' = [lock EXCEPT ![w] = TRUE]
       /\ blk' = [blk EXCEPT ![w].transient = tag[s]]
       /\ state' = [state EXCEPT ![s] = blk[w].valid]
       /\ order' = OrderAfterAccess(OrderAfterLookup(s), w, blk[w].valid)
  /\ hit' = [hit EXCEPT ![s] = Hit(tag[s])]
  /\ pc' = [pc EXCEPT ![s] = "action"]
  /\ UNCHANGED <<lockQueue, portVars, port, tag, retWay>>

\* EV_MOD_NMOESI_FIND_AND_LOCK_ACTION, after the latency of the directory.
Action(s) ==
  /\ pc[s] = "action"
  /\ UnlockPort(s, IF ~hit[s] /\ state[s] THEN "evict" ELSE "finish")
  /\ UNCHANGED <<cacheVars, lockVars, frameVars>>

\* The eviction of the victim succeeds (EVICT_REPLY_RECEIVE invalidates the
\* block).  A request down-up for the victim locks it at the lower level, which
\* makes the eviction fail there.
EvictDone(s) ==
  /\ pc[s] = "evict"
  /\ \A u \in Stack : Kind[u] = "downup" /\ pc[u] # "idle"
                        => tag[u] # blk[way[s]].tag
  /\ blk' = [blk EXCEPT ![way[s]].tag = None, ![way[s]].valid = FALSE]
  /\ order' = OrderAfterSet(order, way[s], blk[way[s]].tag # None)
  /\ state' = [state EXCEPT ![s] = FALSE]
  /\ pc' = [pc EXCEPT ![s] = "finish"]
  /\ UNCHANGED <<lockVars, portVars, port, tag, way, retWay, hit>>

\* The eviction fails: FIND_AND_LOCK_FINISH unlocks the entry and returns an
\* error.  ret->way is not assigned.  A processor access retries.  Main memory
\* has nowhere to evict to and never fails.
EvictError(s) ==
  /\ pc[s] = "evict"
  /\ ~MainMemory
  /\ UnlockEntry(s, way[s], IF Kind[s] = "access" THEN "find" ELSE "idle")
  /\ UNCHANGED <<cacheVars, portVars, port, frameVars>>

\* EV_MOD_NMOESI_FIND_AND_LOCK_FINISH without error.  In main memory the block
\* is present: the miss was one of the directory only.
Finish(s) ==
  /\ pc[s] = "finish"
  /\ retWay' = [retWay EXCEPT ![s] = way[s]]
  /\ pc' = [pc EXCEPT ![s] = "locked"]
  /\ IF MainMemory /\ ~state[s]
     THEN /\ blk' = [blk EXCEPT ![way[s]].tag = tag[s], ![way[s]].valid = TRUE]
          /\ order' = OrderAfterSet(order, way[s], blk[way[s]].tag # tag[s])
          /\ state' = [state EXCEPT ![s] = TRUE]
     ELSE UNCHANGED <<cacheVars, state>>
  /\ UNCHANGED <<lockVars, portVars, port, tag, way, hit>>

-----------------------------------------------------------------------------
(***************************************************************************)
(* The holder of the entry.                                                *)
(***************************************************************************)

\* cache_set_block when the missing block has come (LOAD_MISS, UPDOWN_MISS,
\* STORE_UNLOCK, PREFETCH_MISS).
Fill(s) ==
  /\ pc[s] = "locked"
  /\ ~state[s]
  /\ blk' = [blk EXCEPT ![way[s]].tag = tag[s], ![way[s]].valid = TRUE]
  /\ order' = OrderAfterSet(order, way[s], blk[way[s]].tag # tag[s])
  /\ state' = [state EXCEPT ![s] = TRUE]
  /\ UNCHANGED <<lockVars, portVars, pc, port, tag, way, retWay, hit>>

\* A request down-up takes the block away (WRITE_REQUEST_DOWNUP_FINISH).
Invalidate(s) ==
  /\ pc[s] = "locked"
  /\ Kind[s] = "downup"
  /\ state[s]
  /\ blk' = [blk EXCEPT ![way[s]].tag = None, ![way[s]].valid = FALSE]
  /\ order' = OrderAfterSet(order, way[s], blk[way[s]].tag # None)
  /\ state' = [state EXCEPT ![s] = FALSE]
  /\ UnlockEntry(s, way[s], "idle")
  /\ UNCHANGED <<portVars, port, tag, way, retWay, hit>>

\* The access is over and unlocks the entry.
Unlock(s) ==
  /\ pc[s] = "locked"
  /\ state[s]
  /\ UnlockEntry(s, way[s], "idle")
  /\ UNCHANGED <<cacheVars, portVars, port, frameVars>>

\* The missing block could not be had: the entry is unlocked and a processor
\* access retries, keeping the way it had.
MissError(s) ==
  /\ pc[s] = "locked"
  /\ Kind[s] # "downup"
  /\ ~state[s]
  /\ UnlockEntry(s, way[s], IF Kind[s] = "access" THEN "find" ELSE "idle")
  /\ UNCHANGED <<cacheVars, portVars, port, frameVars>>

Event(s) ==
  \/ FindAndLock(s)
  \/ PortError(s)
  \/ PortWait(s)
  \/ PortLock(s)
  \/ Action(s)
  \/ EvictDone(s)
  \/ EvictError(s)
  \/ Finish(s)
  \/ Fill(s)
  \/ Invalidate(s)
  \/ Unlock(s)
  \/ MissError(s)

Next == \E s \in Stack : (\E t \in Tag : Start(s, t)) \/ Event(s)

Spec == Init /\ [][Next]_vars

\* The event queue runs every event that has been scheduled: an access that
\* does not wait moves on.
Fairness == \A s \in Stack : WF_vars(Event(s))

FairSpec == Spec /\ Fairness

-----------------------------------------------------------------------------
(***************************************************************************)
(* Properties.                                                             *)
(***************************************************************************)
Place == {"idle", "find", "portWait", "port", "lockWait", "action", "evict",
          "finish", "locked"}

TypeOK ==
  /\ blk \in [Way -> Block]
  /\ IsOrder(order)
  /\ lock \in [Way -> BOOLEAN]
  /\ lockQueue \in [Way -> Seq(Stack)]
  /\ ports \in [Port -> Stack \cup {None}]
  /\ numLocked \in 0 .. NumPorts
  /\ portQueue \in Seq(Stack)
  /\ pc \in [Stack -> Place]
  /\ tag \in [Stack -> Tag \cup {None}]
  /\ port \in [Stack -> Port \cup {None}]
  /\ way \in [Stack -> Way \cup {None}]
  /\ retWay \in [Stack -> Way \cup {None}]
  /\ hit \in [Stack -> BOOLEAN]
  /\ state \in [Stack -> BOOLEAN]

HoldsEntry(s, w) ==
  pc[s] \in {"action", "evict", "finish", "locked"} /\ way[s] = w

\* An entry is locked exactly while one access holds it: no two accesses hold
\* it together, and no return path forgets to unlock it.
EntryMutex ==
  \A w \in Way :
    /\ lock[w] <=> \E s \in Stack : HoldsEntry(s, w)
    /\ \A s, u \in Stack : HoldsEntry(s, w) /\ HoldsEntry(u, w) => s = u

\* Way w has block t or is being filled with it.
HasOrGets(w, t) ==
  \/ blk[w].valid /\ blk[w].tag = t
  \/ lock[w] /\ blk[w].transient = t

\* A block is in at most one way of the set, counting the way it is being
\* brought into: two accesses that miss on it never both allocate a way.
UniqueCopy ==
  \A t \in Tag : \A v, w \in Way : HasOrGets(v, t) /\ HasOrGets(w, t) => v = w

\* Ports are neither lost nor shared: the counter is the number of locked
\* ports, each is held by an access that knows it, and an access holds one only
\* while it looks up the directory.  In particular no access waits for an entry
\* with a port in hand.
PortsConsistent ==
  /\ numLocked = Cardinality({p \in Port : ports[p] # None})
  /\ \A p \in Port : ports[p] # None => port[ports[p]] = p
  /\ \A s \in Stack :
       IF pc[s] \in {"port", "action"}
       THEN port[s] \in Port /\ ports[port[s]] = s
       ELSE port[s] = None

\* An access waits for a port only while all of them are taken.
NoIdlePort == portQueue # <<>> => numLocked = NumPorts

\* dir_entry_unlock wakes one waiter only.  The others are not forgotten: while
\* accesses queue for an entry, the entry is locked or an access is on its way
\* to it.
NoLostWakeup ==
  \A w \in Way : lockQueue[w] # <<>> =>
    \/ lock[w]
    \/ \E s \in Stack : pc[s] \in {"find", "portWait", "port"} /\ retWay[s] = w

\* stack->state and stack->hit are read when the entry is locked and used after
\* the latency of the directory, after an eviction and by the access itself:
\* nobody else changes the block in between, and an access that believes to hold
\* the block it asked for does.
HeldStateCurrent ==
  \A s \in Stack, w \in Way : HoldsEntry(s, w) =>
    /\ blk[w].transient = tag[s]
    /\ state[s] = blk[w].valid
    /\ pc[s] = "action" /\ hit[s] => state[s] /\ blk[w].tag = tag[s]
    /\ pc[s] \in {"finish", "locked"} /\ state[s] => blk[w].tag = tag[s]

\* An access that waits for a port gets one.
PortServed ==
  \A s \in Stack : (pc[s] = "portWait") ~> (pc[s] = "port")
==============================================================================
