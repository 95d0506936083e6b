---------------------------- MODULE AccessQueue -----------------------------
(***************************************************************************)
(* The accesses of the processors to one memory module: the access list    *)
(* of mod_t, coalescing, and the waiting lists of mod_stack_t.  These are  *)
(* the handlers of loads, stores, non-coherent stores and prefetches       *)
(* before they call find-and-lock and after the block is there, with       *)
(* mod_access_start, mod_access_finish, mod_can_coalesce, mod_coalesce,    *)
(* mod_can_access, mod_in_flight_address and mod_in_flight_write.          *)
(*                                                                         *)
(* What happens in between is reduced to the port (which coalescing looks  *)
(* at) and to success or failure; modules FindAndLock and Nmoesi have it,  *)
(* and assume the order of accesses that is shown here (ServedApart).      *)
(***************************************************************************)
EXTENDS Naturals, FiniteSets

CONSTANTS
  Stack,      \* accesses that may be in flight
  Block,      \* blocks of memory
  Ops,        \* what processors do: "load", "store", "nc", "prefetch"
  Prefetcher, \* whether the module has a prefetcher
  MshrSize,   \* mod->mshr_size, 0 when there is no limit
  None        \* a null pointer

ASSUME StackAssumption == IsFiniteSet(Stack)
ASSUME OpsAssumption ==
  Ops \subseteq {"load", "store", "nc", "prefetch"}
ASSUME MshrAssumption == MshrSize \in Nat
ASSUME NoneAssumption == None \notin Stack

VARIABLES
  pc,          \* the event that is scheduled for the access, or where it is
  op,          \* stack->access_kind
  block,       \* block of stack->addr
  older,       \* the accesses before it in mod->access_list
  waitsFor,    \* the access in whose waiting list it is
  master,      \* stack->master_stack
  portLocked,  \* stack->port_locked
  witnessPtr,  \* who has the witness pointer: the access, find-and-lock or none
  witness,     \* how often the access has incremented its witness
  coalesced    \* mod->access_list_coalesced_count

vars == <<pc, op, block, older, waitsFor, master, portLocked, witnessPtr,
          witness, coalesced>>

InFlight == {s \in Stack : pc[s] # "idle"}

Init ==
  /\ pc = [s \in Stack |-> "idle"]
  /\ op = [s \in Stack |-> None]
  /\ block = [s \in Stack |-> None]
  /\ older = [s \in Stack |-> {}]
  /\ waitsFor = [s \in Stack |-> None]
  /\ master = [s \in Stack |-> None]
  /\ portLocked = [s \in Stack |-> FALSE]
  /\ witnessPtr = [s \in Stack |-> "none"]
  /\ witness = [s \in Stack |-> 0]
  /\ coalesced = 0

-----------------------------------------------------------------------------
(***************************************************************************)
(* The access list.                                                        *)
(***************************************************************************)

\* The last and the first access of a non-empty part A of the list.
Youngest(A) == CHOOSE s \in A : A \ {s} \subseteq older[s]
Oldest(A) == CHOOSE s \in A : older[s] \cap A = {}

\* The accesses of list A that are to block b.
SameBlock(A, b) == {s \in A : block[s] = b}

Stores(A) == {s \in A : op[s] = "store"}

Reads(A) == {s \in A : op[s] \in {"load", "prefetch"}}

\* The accesses of list A at its tail that are all loads or prefetches.
ReadTail(A) ==
  {s \in A : \A u \in A : u = s \/ s \in older[u] => u \in Reads(A)}

MasterOf(s) == IF master[s] = None THEN s ELSE master[s]

\* mod_can_coalesce: the master of an access that starts when A is in flight,
\* None if it cannot be coalesced.
CanCoalesce(o, b, A) ==
  LET reads == SameBlock(ReadTail(A), b)
      tail == Youngest(A)
  IN
  IF o = "load" /\ reads # {} THEN MasterOf(Youngest(reads))
  ELSE IF /\ o \in {"store", "nc"} /\ A # {}
          /\ op[tail] = o /\ block[tail] = b /\ ~portLocked[tail]
       THEN MasterOf(tail)
  ELSE None

\* mod_can_access; that a port must be free is left out.
CanAccess == MshrSize = 0 \/ Cardinality(InFlight) - coalesced < MshrSize

-----------------------------------------------------------------------------
(***************************************************************************)
(* An access starts.                                                       *)
(***************************************************************************)

\* Mutated form of Insert: the access goes to the head of the list.
InsertAtHead(s) ==
  older' = [u \in Stack |->
    IF u = s THEN {} ELSE IF u \in InFlight THEN older[u] \cup {s} ELSE {}]

Insert(s) == older' = [older EXCEPT ![s] = InFlight]

\* mod_access_start, with a new stack: no other access refers to it.
Enter(s, o, b) ==
  /\ pc[s] = "idle" /\ \A u \in InFlight : master[u] # s
  /\ op' = [op EXCEPT ![s] = o]
  /\ block' = [block EXCEPT ![s] = b]
  /\ Insert(s)
  /\ portLocked' = [portLocked EXCEPT ![s] = FALSE]

\* Coalesced accesses whose master has finished finish in the same cycle, in
\* which the processors do nothing.
NobodyFinishing ==
  \A s \in InFlight : master[s] # None => master[s] \in older[s]

\* LOAD, STORE and NC_STORE: the access becomes a slave of a master ...
StartCoalesced(s, o, b) ==
  LET m == CanCoalesce(o, b, InFlight) IN
  /\ o # "prefetch" /\ CanAccess /\ NobodyFinishing
  /\ m # None
  /\ Enter(s, o, b)
  /\ pc' = [pc EXCEPT ![s] = "wait"]
  /\ waitsFor' = [waitsFor EXCEPT ![s] = m]
  /\ master' = [master EXCEPT ![s] = m]
  /\ coalesced' = coalesced + 1
  /\ witnessPtr' = [witnessPtr EXCEPT ![s] = "access"]
  /\ witness' = [witness EXCEPT ![s] = IF o = "store" THEN 1 ELSE 0]

\* ... or goes its own way.
StartAlone(s, o, b) ==
  /\ o # "prefetch" /\ CanAccess /\ NobodyFinishing
  /\ CanCoalesce(o, b, InFlight) = None
  /\ Enter(s, o, b)
  /\ pc' = [pc EXCEPT ![s] = "lock"]
  /\ master' = [master EXCEPT ![s] = None]
  /\ witnessPtr' = [witnessPtr EXCEPT ![s] = "access"]
  /\ witness' = [witness EXCEPT ![s] = 0]
  /\ UNCHANGED <<waitsFor, coalesced>>

\* PREFETCH, by a processor or, at any time, by the prefetcher.  It has no
\* witness, and is over when the block is being accessed anyway.
StartPrefetch(s, b) ==
  /\ Prefetcher \/ ("prefetch" \in Ops /\ CanAccess /\ NobodyFinishing)
  /\ Enter(s, "prefetch", b)
  /\ pc' = [pc EXCEPT
       ![s] = IF SameBlock(InFlight, b) = {} THEN "lock" ELSE "finish"]
  /\ master' = [master EXCEPT ![s] = None]
  /\ witnessPtr' = [witnessPtr EXCEPT ![s] = "none"]
  /\ witness' = [witness EXCEPT ![s] = 0]
  /\ UNCHANGED <<waitsFor, coalesced>>

-----------------------------------------------------------------------------
(***************************************************************************)
(* LOAD_LOCK, STORE_LOCK, NC_STORE_LOCK and PREFETCH_LOCK.                 *)
(***************************************************************************)

\* Mutated form of Blocker: a load or a non-coherent store does not wait for
\* accesses to the same block.
BlockerStoresOnly(s) ==
  IF op[s] = "store" /\ older[s] # {} THEN Youngest(older[s])
  ELSE IF Stores(older[s]) # {} THEN Youngest(Stores(older[s]))
  ELSE None

\* The older accesses that s waits for: those of the first non-empty set.  A
\* store waits for the access before it, the others for the youngest store
\* (mod_in_flight_write) and then for the oldest access to the same block
\* (mod_in_flight_address), which does not matter to a prefetch.
Blocker(s) ==
  IF op[s] = "store" /\ older[s] # {} THEN Youngest(older[s])
  ELSE IF Stores(older[s]) # {} THEN Youngest(Stores(older[s]))
  ELSE IF op[s] # "prefetch" /\ SameBlock(older[s], block[s]) # {}
       THEN Oldest(SameBlock(older[s], block[s]))
  ELSE None

Wait(s) ==
  /\ pc[s] = "lock" /\ Blocker(s) # None
  /\ pc' = [pc EXCEPT ![s] = "wait"]
  /\ waitsFor' = [waitsFor EXCEPT ![s] = Blocker(s)]
  /\ UNCHANGED <<op, block, older, master, portLocked, witnessPtr, witness,
                 coalesced>>

\* Mutated form of PassWitness: the access keeps the pointer for its retries.
PassWitnessAgain(s) ==
  witnessPtr' = [witnessPtr EXCEPT
    ![s] = IF op[s] = "store" THEN "frame" ELSE @]

\* A store gives the witness pointer to its find-and-lock frame, once.
PassWitness(s) ==
  witnessPtr' = [witnessPtr EXCEPT
    ![s] = IF op[s] = "store" /\ @ = "access" THEN "frame" ELSE @]

FindAndLock(s) ==
  /\ pc[s] = "lock" /\ Blocker(s) = None
  /\ pc' = [pc EXCEPT ![s] = "find"]
  /\ PassWitness(s)
  /\ UNCHANGED <<op, block, older, waitsFor, master, portLocked, witness,
                 coalesced>>

-----------------------------------------------------------------------------
(***************************************************************************)
(* Find and lock, and the coherence protocol.                              *)
(***************************************************************************)

\* FIND_AND_LOCK_PORT begins: the witness of a store is incremented.
LockPort(s) ==
  /\ pc[s] = "find"
  /\ pc' = [pc EXCEPT ![s] = "port"]
  /\ portLocked' = [portLocked EXCEPT ![s] = TRUE]
  /\ witness' = [witness EXCEPT ![s] = IF witnessPtr[s] = "frame" THEN @ + 1 ELSE @]
  /\ witnessPtr' = [witnessPtr EXCEPT ![s] = IF @ = "frame" THEN "none" ELSE @]
  /\ UNCHANGED <<op, block, older, waitsFor, master, coalesced>>

\* The directory entry is locked by somebody else: the port is given back.  A
\* prefetch gives up.
EntryBusy(s) ==
  /\ pc[s] = "port"
  /\ pc' = [pc EXCEPT ![s] = IF op[s] = "prefetch" THEN "finish" ELSE "find"]
  /\ portLocked' = [portLocked EXCEPT ![s] = FALSE]
  /\ UNCHANGED <<op, block, older, waitsFor, master, witnessPtr, witness,
                 coalesced>>

\* FIND_AND_LOCK_ACTION: the entry is locked and the port is given back.
LockEntry(s) ==
  /\ pc[s] = "port"
  /\ pc' = [pc EXCEPT ![s] = "service"]
  /\ portLocked' = [portLocked EXCEPT ![s] = FALSE]
  /\ UNCHANGED <<op, block, older, waitsFor, master, witnessPtr, witness,
                 coalesced>>

\* An eviction or a request fails: the access retries, a prefetch gives up.
Fail(s) ==
  /\ pc[s] = "service"
  /\ pc' = [pc EXCEPT ![s] = IF op[s] = "prefetch" THEN "finish" ELSE "lock"]
  /\ UNCHANGED <<op, block, older, waitsFor, master, portLocked, witnessPtr,
                 witness, coalesced>>

\* The block is there.
Succeed(s) ==
  /\ pc[s] = "service"
  /\ pc' = [pc EXCEPT ![s] = "finish"]
  /\ UNCHANGED <<op, block, older, waitsFor, master, portLocked, witnessPtr,
                 witness, coalesced>>

-----------------------------------------------------------------------------
(***************************************************************************)
(* LOAD_FINISH, STORE_FINISH, NC_STORE_FINISH and PREFETCH_FINISH.         *)
(***************************************************************************)
Waiters(s) == {u \in Stack : waitsFor[u] = s}

\* Mutated form of Woken: only the oldest waiter is woken.
WokenFirst(s) == {u \in Waiters(s) : older[u] \cap Waiters(s) = {}}

\* mod_stack_wakeup_stack
Woken(s) == Waiters(s)

\* Mutated form of Uncount: the counter is left alone.
UncountNever(s) == coalesced' = coalesced

Count(s) == IF master[s] = None THEN 0 ELSE 1

\* Mutated form of Uncount: every access is taken for a coalesced one.
UncountAlways(s) == coalesced' = coalesced - 1

Uncount(s) == coalesced' = coalesced - Count(s)

\* mod_access_finish and mod_stack_return: coalesced waiters finish, the others
\* try again.
Finish(s) ==
  /\ pc[s] = "finish"
  /\ pc' = [u \in Stack |->
       IF u = s THEN "idle"
       ELSE IF u \notin Woken(s) THEN pc[u]
       ELSE IF master[u] = None THEN "lock" ELSE "finish"]
  /\ waitsFor' = [u \in Stack |-> IF u \in Woken(s) THEN None ELSE waitsFor[u]]
  /\ older' = [u \in Stack |-> IF u = s THEN {} ELSE older[u] \ {s}]
  /\ witness' = [witness EXCEPT
       ![s] = IF op[s] # "store" /\ witnessPtr[s] = "access" THEN @ + 1 ELSE @]
  /\ Uncount(s)
  /\ block' = [block EXCEPT ![s] = None]
  /\ master' = [master EXCEPT ![s] = None]
  /\ witnessPtr' = [witnessPtr EXCEPT ![s] = "none"]
  /\ UNCHANGED <<op, portLocked>>

-----------------------------------------------------------------------------
Start(s) ==
  \E b \in Block :
    \/ \E o \in Ops : StartCoalesced(s, o, b) \/ StartAlone(s, o, b)
    \/ StartPrefetch(s, b)

Event(s) ==
  \/ Wait(s)
  \/ FindAndLock(s)
  \/ LockPort(s)
  \/ EntryBusy(s)
  \/ LockEntry(s)
  \/ Fail(s)
  \/ Succeed(s)
  \/ Finish(s)

Next == \E s \in Stack : Start(s) \/ Event(s)

Spec == Init /\ [][Next]_vars

\* Every event that is scheduled runs.  An entry is not busy for ever, nor does
\* the protocol fail for ever (run Nmoesi_shared).
Fairness ==
  \A s \in Stack :
    /\ WF_vars(Event(s))
    /\ SF_vars(LockEntry(s))
    /\ SF_vars(Succeed(s))

FairSpec == Spec /\ Fairness

-----------------------------------------------------------------------------
(***************************************************************************)
(* Properties.                                                             *)
(***************************************************************************)
Place == {"idle", "lock", "wait", "find", "port", "service", "finish"}

TypeOK ==
  /\ pc \in [Stack -> Place]
  /\ op \in [Stack -> Ops \cup {"prefetch", None}]
  /\ block \in [Stack -> Block \cup {None}]
  /\ older \in [Stack -> SUBSET Stack]
  /\ waitsFor \in [Stack -> Stack \cup {None}]
  /\ master \in [Stack -> Stack \cup {None}]
  /\ portLocked \in [Stack -> BOOLEAN]
  /\ witnessPtr \in [Stack -> {"access", "frame", "none"}]
  /\ witness \in [Stack -> 0 .. 1]
  /\ coalesced \in 0 .. Cardinality(Stack)

Served(s) == pc[s] \in {"find", "port", "service"}

\* A store is served alone, and accesses to the same block are served one after
\* the other.  The protocol relies on it (MayStart in FindAndLock and Nmoesi).
ServedApart ==
  \A s, u \in Stack : s # u /\ Served(s) /\ Served(u) =>
    op[s] # "store" /\ op[u] # "store" /\ block[s] # block[u]

\* An access hangs on the waiting list of an older access that is in flight,
\* which is never a coalesced one when the waiter is: waiting lists go with the
\* stack that is freed, and whoever waits for a younger access waits for ever.
WaitsForOlder ==
  /\ \A s \in Stack : pc[s] = "wait" => waitsFor[s] \in older[s]
  /\ \A s \in InFlight :
       master[s] \in InFlight => master[master[s]] = None

\* A prefetch that is a master may be given up, or be over at once.
Prefetched(s) == op[s] = "prefetch" \/ op[MasterOf(s)] = "prefetch"

\* Accesses leave in order: when one finishes there is no older store, and no
\* older access to the same block, but those with which it is coalesced.
LeavesInOrder ==
  [][\A s \in InFlight : pc'[s] = "idle" /\ ~Prefetched(s) =>
       \A u \in older[s] : op[u] = "store" \/ block[u] = block[s] =>
         MasterOf(u) = MasterOf(s)]_vars

\* The processor counts on its witness: it is incremented once by every access
\* that has one, at the latest when the access finishes.
WitnessedOnce ==
  [][\A s \in InFlight : pc'[s] = "idle" /\ op[s] # "prefetch" =>
       witness'[s] = 1]_vars

\* The accesses that go their own way, which are those that need an MSHR, are
\* never more than there are; the prefetcher does not ask.
MshrsSuffice ==
  MshrSize # 0 =>
    Cardinality({s \in InFlight : master[s] = None /\ op[s] # "prefetch"})
      <= MshrSize

\* Every access finishes, however many others come.
EveryAccessFinishes == \A s \in Stack : pc[s] # "idle" ~> pc[s] = "idle"
=============================================================================
