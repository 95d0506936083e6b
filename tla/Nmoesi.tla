------------------------------- MODULE Nmoesi --------------------------------
(***************************************************************************)
(* The NMOESI coherence protocol: the handlers of mem-system/nmoesi-       *)
(* protocol.c over a tree of modules, each with the blocks of one set, its *)
(* directory and the locks of its directory entries.                       *)
(*                                                                         *)
(* A frame is a mod_stack_t.  Frames call each other: a frame whose event  *)
(* is set waits while a frame it has called (ret) exists, and its event    *)
(* runs some time after the last of them has returned.  A message is a     *)
(* frame on its way: any latency and any order of delivery is possible.    *)
(* Events that follow each other without delay and that touch nothing but  *)
(* an entry locked by their own frame are one action; so is the whole of   *)
(* find-and-lock when there is nothing to evict (module FindAndLock has    *)
(* its ports, queues and latencies).  All modules have one block size, so  *)
(* that a block has one directory entry.                                   *)
(***************************************************************************)
EXTENDS Naturals, Sequences, FiniteSets

CONSTANTS
  Mod,            \* modules
  Low,            \* the lower-level module of each; None for main memory
  Assoc,          \* ways of the set of each module
  Tag,            \* blocks
  Access,         \* accesses that may be in flight
  Home,           \* the first-level module of each access
  Ops,            \* what processors do: "load", "store", "nc", "prefetch"
  PeerTransfers,  \* mem_peer_transfers
  None

ASSUME TreeAssumption ==
  /\ Low \in [Mod -> Mod \cup {None}]
  /\ \A m \in Mod : Low[m] \in Mod => Low[Low[m]] # m
  /\ None \notin Mod \cup Tag
  /\ Assoc \in [Mod -> Nat \ {0}]
  /\ Home \in [Access -> Mod]
  /\ Ops \subseteq {"load", "store", "nc", "prefetch"}
  /\ PeerTransfers \in BOOLEAN

\* No module is below itself: every way down ends in main memory.
ASSUME LevelAssumption ==
  /\ IsFiniteSet(Mod)
  /\ \E level \in [Mod -> 0 .. Cardinality(Mod)] :
       \A m \in Mod :
         level[m] = IF Low[m] = None THEN 0 ELSE level[Low[m]] + 1

VARIABLES
  blk,     \* tag and state of every block
  dir,     \* owner and sharers of every directory entry
  lock,    \* dir_lock->lock: None, or the block the entry is locked for (the
           \* transient tag, which is looked at only while the lock is set)
  queue,   \* dir_lock->lock_queue: frames that wait for the entry
  frames   \* the frames in flight, by access, kind and module

vars == <<blk, dir, lock, queue, frames>>

State == {"I", "N", "M", "O", "E", "S"}
Entry == UNION {{<<m, w>> : w \in 1 .. Assoc[m]} : m \in Mod}
MainMemory(m) == Low[m] = None

\* Kinds of frames: an access, a read or write request up-down ("UD") or
\* down-up ("DU"), an eviction, an invalidation, a message.
AccessKind == {"load", "store", "nc", "prefetch"}
Kind == Ops \cup {"readUD", "readDU", "writeUD", "writeDU",
                  "evict", "invalidate", "message"}

\* What a frame does next: look up and lock an entry, or wait for that entry or
\* for an eviction; act on the entry or on an error; go on when the frames it
\* has called are back; or tell its caller.
EventKind == {"lock", "lockWait", "evicting", "action", "invalid", "exclusive",
              "miss", "finish", "unlock", "ncAction", "ncMiss", "reply"}

\* mod_stack_create: way is unknown, every flag is clear.  at is the module
\* where the frame looks for the block, from the one that sent it.
NewFrame(kind, from, at, t, ret, ev) ==
  [kind |-> kind, from |-> from, at |-> at, tag |-> t, ret |-> ret, ev |-> ev,
   way |-> 0, src |-> 0, state |-> "I", err |-> FALSE, shared |-> FALSE,
   reply |-> "none", retain |-> FALSE, peer |-> FALSE, nc |-> FALSE]

Init ==
  /\ blk = [e \in Entry |-> [tag |-> None, state |-> "I"]]
  /\ dir = [e \in Entry |-> [owner |-> None, sharers |-> {}]]
  /\ lock = [e \in Entry |-> None]
  /\ queue = [e \in Entry |-> <<>>]
  /\ frames = [k \in {} |-> None]

-----------------------------------------------------------------------------
(***************************************************************************)
(* Frames.                                                                 *)
(***************************************************************************)
InFlight == DOMAIN frames

\* A frame is named by its access, the frame that called it (None for the frame
\* of the access itself), its kind and a module; this one is called by frame k.
Call(k, kind, m) == <<k[1], k, kind, m>>

Children(k) ==
  {c \in InFlight : frames[c].kind \notin AccessKind /\ frames[c].ret = k}

\* The event ev of frame k is in the event queue.
Scheduled(k, ev) == frames[k].ev = ev /\ Children(k) = {}

\* mod_stack_create: the frames N are new.
Adding(N, F) ==
  [j \in DOMAIN N \cup DOMAIN F |-> IF j \in DOMAIN N THEN N[j] ELSE F[j]]

\* mod_stack_return
Without(F, k) == [j \in DOMAIN F \ {k} |-> F[j]]

\* mod_stack_set_reply: the reply with the highest precedence stays.
Precedence ==
  [none |-> 0, ack |-> 1, ack_data |-> 2, ack_data_sent_to_peer |-> 3,
   ack_error |-> 4]

HigherReply(old, new) == IF Precedence[new] > Precedence[old] THEN new ELSE old

\* mod_stack_set_peer
SetPeer(state) == state = "O" \/ PeerTransfers

\* Mutated form of Wake: nobody is woken.
WakeNobody(F, e) == F

\* dir_entry_unlock: the first waiter retries, the lock is free meanwhile.
Wake(F, e) ==
  IF queue[e] = <<>> THEN F ELSE [F EXCEPT ![Head(queue[e])].ev = "lock"]

\* Mutated form of Unlock: the waiter that is woken stays in the queue.
UnlockKeepingWaiter(e) ==
  /\ lock' = [lock EXCEPT ![e] = None]
  /\ queue' = queue

Unlock(e) ==
  /\ lock' = [lock EXCEPT ![e] = None]
  /\ queue' = [queue EXCEPT ![e] = IF @ = <<>> THEN @ ELSE Tail(@)]

\* The entry frame k has locked.
Locked(k) == <<frames[k].at, frames[k].way>>

\* cache_set_block
SetBlock(e, t, state) ==
  blk' = [blk EXCEPT ![e].tag = t, ![e].state = state]

-----------------------------------------------------------------------------
(***************************************************************************)
(* Invalidations.                                                          *)
(***************************************************************************)

\* EV_MOD_NMOESI_INVALIDATE for frame k: a write request down-up to every sharer
\* of entry e but except.  Without any, it returns at once ...
Victims(e, except) == dir[e].sharers \ {except}

Invalidation(k, e, except) ==
  LET inv  == Call(k, "invalidate", e[1])
      reqs == {Call(inv, "writeDU", m) : m \in Victims(e, except)}
  IN
  [c \in IF reqs = {} THEN {} ELSE reqs \cup {inv} |->
     IF c = inv
     THEN [NewFrame("invalidate", e[1], e[1], blk[e].tag, k, "finish")
             EXCEPT !.way = e[2], !.state = blk[e].state]
     ELSE NewFrame("writeDU", e[1], c[4], blk[e].tag, inv, "lock")]

\* Mutated form of ClearSharers: an owner stays recorded.
ClearSharersOnly(e, except) ==
  dir' = [dir EXCEPT ![e].sharers = @ \ Victims(e, except)]

\* ... and the sharers are cleared at once.
ClearSharers(e, except) ==
  dir' = [dir EXCEPT
    ![e].sharers = @ \ Victims(e, except),
    ![e].owner = IF @ \in Victims(e, except) THEN None ELSE @]

\* EV_MOD_NMOESI_INVALIDATE_FINISH, when all requests are back.
InvalidateFinish(k) ==
  LET f == frames[k]
      e == Locked(k)
  IN
  /\ f.kind = "invalidate" /\ Scheduled(k, "finish")
  /\ IF f.reply = "ack_data" /\ f.state = "N" THEN SetBlock(e, f.tag, "N")
     ELSE IF f.reply = "ack_data" /\ f.state \in {"M", "O"}
          THEN SetBlock(e, f.tag, "M")
     ELSE UNCHANGED blk
  /\ frames' = Without(frames, k)
  /\ UNCHANGED <<dir, lock, queue>>

-----------------------------------------------------------------------------
(***************************************************************************)
(* Find and lock.                                                          *)
(***************************************************************************)
\* Mutated forms of Blocking: requests up-down queue as well; requests down-up
\* do not.
BlockingRequests(f) == f.kind # "prefetch"
BlockingAccesses(f) == f.kind \in {"load", "store", "nc"}

Blocking(f) == f.kind \in {"load", "store", "nc", "readDU", "writeDU"}

Matches(e, t) ==
  \/ blk[e].state # "I" /\ blk[e].tag = t
  \/ lock[e] = t

\* The entry of the block, the way kept from before, or any victim (random
\* replacement).
Candidates(f) ==
  LET here == {e \in Entry : e[1] = f.at}
      hits == {e \in here : Matches(e, f.tag)}
  IN IF hits # {} THEN hits
     ELSE IF f.way # 0 THEN {e \in here : e[2] = f.way}
     ELSE here

\* Find and lock ends with entry e locked for frame k.  Main memory has every
\* block.
EndLock(F, k, e) ==
  [F EXCEPT
    ![k].way = e[2],
    ![k].err = FALSE,
    ![k].ev = "action",
    ![k].state = IF blk[e].state = "I" \/ blk[e].tag # frames[k].tag
                 THEN IF MainMemory(e[1]) THEN "E" ELSE "I"
                 ELSE blk[e].state]

\* The entry is locked: a request that does not block gets an error, another
\* one queues and keeps the way.
LockBusy(k) ==
  LET f == frames[k] IN
  /\ Scheduled(k, "lock")
  /\ \E e \in Candidates(f) :
       /\ lock[e] # None
       /\ IF Blocking(f)
          THEN /\ queue' = [queue EXCEPT ![e] = Append(@, k)]
               /\ frames' = [frames EXCEPT ![k].way = e[2], ![k].ev = "lockWait"]
          ELSE /\ frames' = [frames EXCEPT ![k].err = TRUE, ![k].ev = "action"]
               /\ UNCHANGED queue
  /\ UNCHANGED <<blk, dir, lock>>

\* The entry is free and has the block, or nothing.
LockFree(k) ==
  LET f == frames[k] IN
  /\ Scheduled(k, "lock")
  /\ \E e \in Candidates(f) :
       /\ lock[e] = None
       /\ blk[e].state = "I" \/ blk[e].tag = f.tag
       /\ lock' = [lock EXCEPT ![e] = f.tag]
       /\ IF MainMemory(f.at) /\ blk[e].state = "I"
          THEN SetBlock(e, f.tag, "E") ELSE UNCHANGED blk
       /\ frames' = EndLock(frames, k, e)
  /\ UNCHANGED <<dir, queue>>

\* EV_MOD_NMOESI_EVICT of entry e, called by frame k.
Eviction(k, e) ==
  LET ev == Call(k, "evict", e[1]) IN
  Adding([c \in {ev} |->
            [NewFrame("evict", e[1], Low[e[1]], blk[e].tag, k, "invalid")
               EXCEPT !.way = e[2], !.src = e[2]]],
         Invalidation(ev, e, None))

\* The entry is free and has another block, which is evicted.
LockEvict(k) ==
  LET f == frames[k] IN
  /\ Scheduled(k, "lock")
  /\ \E e \in Candidates(f) :
       /\ lock[e] = None
       /\ blk[e].state # "I" /\ blk[e].tag # f.tag
       /\ lock' = [lock EXCEPT ![e] = f.tag]
       /\ ClearSharers(e, None)
       /\ frames' = Adding(Eviction(k, e), [frames EXCEPT ![k].ev = "evicting"])
  /\ UNCHANGED <<blk, queue>>

-----------------------------------------------------------------------------
(***************************************************************************)
(* Evictions.                                                              *)
(***************************************************************************)
Source(k) == <<frames[k].from, frames[k].src>>

\* EV_MOD_NMOESI_EVICT_FINISH, and FIND_AND_LOCK_FINISH when find-and-lock had
\* called: an error unlocks the entry and is passed on.
EvictFinish(k, err, state) ==
  LET p == frames[k].ret
      e == Source(k)
      F == Without(frames, k)
  IN
  IF frames[p].ev # "evicting"
  THEN /\ frames' = [F EXCEPT ![p].err = err]
       /\ blk' = [blk EXCEPT ![e].state = state,
                             ![e].tag = IF state = "I" THEN None ELSE @]
       /\ UNCHANGED <<lock, queue>>
  ELSE IF err
  THEN /\ frames' = Wake([F EXCEPT ![p].err = TRUE, ![p].ev = "action"], e)
       /\ Unlock(e)
       /\ UNCHANGED blk
  ELSE /\ frames' = [F EXCEPT
            ![p].way = e[2], ![p].err = FALSE, ![p].ev = "action",
            ![p].state = IF MainMemory(e[1]) THEN "E" ELSE "I"]
       /\ blk' = [blk EXCEPT
            ![e].tag = IF MainMemory(e[1]) THEN frames[p].tag ELSE None,
            ![e].state = IF MainMemory(e[1]) THEN "E" ELSE "I"]
       /\ UNCHANGED <<lock, queue>>

\* EV_MOD_NMOESI_EVICT_INVALID and EVICT_ACTION: main memory drops the block;
\* the others send it down, with data if it is modified.
EvictAction(k) ==
  LET f == frames[k] IN
  /\ f.kind = "evict" /\ Scheduled(k, "invalid")
  /\ IF MainMemory(f.from) \/ blk[Source(k)].state = "I"
     THEN EvictFinish(k, FALSE, "I")
     ELSE /\ frames' = [frames EXCEPT
               ![k].state = blk[Source(k)].state,
               ![k].reply = IF blk[Source(k)].state \in {"M", "O", "N"}
                            THEN "ack_data" ELSE "ack",
               ![k].nc = blk[Source(k)].state = "N",
               ![k].ev = "lock"]
          /\ UNCHANGED <<blk, lock, queue>>
  /\ UNCHANGED dir

\* EV_MOD_NMOESI_EVICT_PROCESS and EVICT_PROCESS_NONCOHERENT, at the lower
\* level: the state of the block when data has come.
StateAfterData(f) ==
  IF f.state = "E" THEN "M"
  ELSE IF f.nc /\ f.state \in {"S", "N"} THEN "N"
  ELSE f.state

\* fatal(): the block must be able to take the data.
CanTakeData(f) ==
  /\ f.reply = "ack_data" => f.state \in
       (IF f.nc THEN {"E", "O", "M", "S", "N"} ELSE {"E", "M"})
  /\ f.nc => f.reply = "ack_data"

\* Mutated form of Forget: the other sharers are forgotten too.
ForgetAll(d, m) == [owner |-> None, sharers |-> {}]

\* dir_entry_clear_sharer and dir_entry_set_owner when module m drops the block.
Forget(d, m) ==
  [owner |-> IF d.owner = m THEN None ELSE d.owner, sharers |-> d.sharers \ {m}]

EvictProcess(k) ==
  LET f == frames[k]
      e == Locked(k)
  IN
  /\ f.kind = "evict" /\ Scheduled(k, "action")
  /\ IF f.err
     THEN /\ frames' = [frames EXCEPT ![k].ev = "reply"]
          /\ UNCHANGED <<blk, dir, lock, queue>>
     ELSE /\ CanTakeData(f)
          /\ IF f.reply = "ack_data"
             THEN SetBlock(e, f.tag, StateAfterData(f)) ELSE UNCHANGED blk
          /\ dir' = [dir EXCEPT ![e] = Forget(@, f.from)]
          /\ frames' = Wake([frames EXCEPT ![k].ev = "reply"], e)
          /\ Unlock(e)

\* EV_MOD_NMOESI_EVICT_REPLY_RECEIVE
EvictReplyReceive(k) ==
  LET f == frames[k] IN
  /\ f.kind = "evict" /\ Scheduled(k, "reply")
  /\ EvictFinish(k, f.err, IF f.err THEN blk[Source(k)].state ELSE "I")
  /\ UNCHANGED dir

-----------------------------------------------------------------------------
(***************************************************************************)
(* Read requests.                                                          *)
(***************************************************************************)

\* EV_MOD_NMOESI_READ_REQUEST up-down for block t, called by frame k at m.
\* What the caller goes on with is its event ev.
ReadUpDown(k, m, t, ev, nc) ==
  LET c == Call(k, "readUD", m) IN
  Adding([j \in {c} |->
            [NewFrame("readUD", m, Low[m], t, k, "lock") EXCEPT !.nc = nc]],
         [frames EXCEPT ![k].ev = ev, ![k].err = FALSE, ![k].shared = FALSE])

\* The same down-up, to the owner of the block.
ReadDownUp(k, m, owner, t, ev, peer) ==
  LET c == Call(k, "readDU", owner) IN
  Adding([j \in {c} |->
            [NewFrame("readDU", m, owner, t, k, "lock") EXCEPT !.peer = peer]],
         [frames EXCEPT ![k].ev = ev, ![k].err = FALSE, ![k].shared = FALSE])

\* EV_MOD_NMOESI_READ_REQUEST_ACTION and _UPDOWN
ReadUpdown(k) ==
  LET f == frames[k]
      owner == dir[Locked(k)].owner
  IN
  /\ f.kind = "readUD" /\ Scheduled(k, "action")
  /\ IF f.err
     THEN frames' = [frames EXCEPT ![k].ev = "reply", ![f.ret].err = TRUE]
     ELSE IF f.state = "I"
     THEN frames' = ReadUpDown(k, f.at, f.tag, "miss", FALSE)
     ELSE /\ owner # f.from
          /\ frames' =
               IF owner = None THEN [frames EXCEPT ![k].ev = "finish"]
               ELSE ReadDownUp(k, f.at, owner, f.tag, "finish",
                               SetPeer(f.state))
  /\ UNCHANGED <<blk, dir, lock, queue>>

\* EV_MOD_NMOESI_READ_REQUEST_UPDOWN_MISS
ReadUpdownMiss(k) ==
  LET f == frames[k] IN
  /\ f.kind = "readUD" /\ Scheduled(k, "miss")
  /\ IF f.err
     THEN /\ frames' = Wake([frames EXCEPT ![k].ev = "reply",
                                           ![f.ret].err = TRUE], Locked(k))
          /\ Unlock(Locked(k))
          /\ UNCHANGED blk
     ELSE /\ SetBlock(Locked(k), f.tag, IF f.shared THEN "S" ELSE "E")
          /\ frames' = [frames EXCEPT ![k].ev = "finish"]
          /\ UNCHANGED <<lock, queue>>
  /\ UNCHANGED dir

\* Mutated forms of OwnerAfterRead: a module that keeps the block owned is
\* forgotten; one that does not is remembered.
OwnerForgotten(f, owner) == IF owner = f.from THEN owner ELSE None
OwnerRemembered(f, owner) == owner

\* The owner of a block that is shared: a module that keeps it owned stays.
OwnerAfterRead(f, owner) ==
  IF f.retain \/ owner = f.from THEN owner ELSE None

\* Mutated forms of SharedAfterRead: the other sharers, or non-coherent stores,
\* are not looked at.
SharedIfOwned(f, sharers) == f.nc \/ f.shared \/ f.state \in {"O", "N", "S"}
SharedIfCoherent(f, sharers) ==
  Cardinality(sharers) > 1 \/ f.shared \/ f.state \in {"O", "N", "S"}

\* The requester may not have the block exclusive.
SharedAfterRead(f, sharers) ==
  \/ Cardinality(sharers) > 1
  \/ f.nc \/ f.shared
  \/ f.state \in {"O", "N", "S"}

\* EV_MOD_NMOESI_READ_REQUEST_UPDOWN_FINISH: the requester becomes a sharer,
\* and the owner if nobody else has the block.
ReadUpdownFinish(k) ==
  LET f == frames[k]
      e == Locked(k)
      sharers == dir[e].sharers \cup {f.from}
      shared == SharedAfterRead(f, sharers)
  IN
  /\ f.kind = "readUD" /\ Scheduled(k, "finish")
  /\ dir' = [dir EXCEPT ![e].sharers = sharers,
                        ![e].owner = IF shared THEN OwnerAfterRead(f, @)
                                     ELSE f.from]
  /\ frames' = Wake([frames EXCEPT ![k].ev = "reply",
                                   ![f.ret].shared = shared], e)
  /\ Unlock(e)
  /\ UNCHANGED blk

\* EV_MOD_NMOESI_READ_REQUEST_DOWNUP: the block must be there and not shared.
ReadDownup(k) ==
  LET f == frames[k]
      owner == dir[Locked(k)].owner
  IN
  /\ f.kind = "readDU" /\ Scheduled(k, "action")
  /\ f.state \notin {"I", "S", "N"}
  /\ frames' = IF owner = None THEN [frames EXCEPT ![k].ev = "finish"]
               ELSE ReadDownUp(k, f.at, owner, f.tag, "finish", FALSE)
  /\ UNCHANGED <<blk, dir, lock, queue>>

\* Mutated form of StateAfterRead: the owner stays in its state.
StateKept(f) == f.state

\* EV_MOD_NMOESI_READ_REQUEST_DOWNUP_FINISH: the state the block is left in ...
StateAfterRead(f) ==
  CASE f.reply = "ack_data" -> IF f.peer THEN "O" ELSE "S"
    [] f.reply = "ack"      -> "S"
    [] f.reply = "none"     ->
         IF f.peer /\ f.state \in {"M", "O"} THEN "O" ELSE "S"

\* ... what the caller is told ...
ReadReply(f) ==
  CASE f.peer               -> "ack_data_sent_to_peer"
    [] f.reply = "ack_data" -> "ack_data"
    [] f.reply = "ack"      -> "ack"
    [] f.reply = "none"     -> IF f.state \in {"E", "S"} THEN "ack"
                               ELSE "ack_data"

\* ... and whether the lower level keeps this module as the owner.
ReadRetains(f) ==
  /\ f.peer
  /\ f.reply = "ack_data" \/ (f.reply = "none" /\ f.state \in {"M", "O"})

ReadDownupFinish(k) ==
  LET f == frames[k]
      e == Locked(k)
  IN
  /\ f.kind = "readDU" /\ Scheduled(k, "finish")
  /\ SetBlock(e, f.tag, StateAfterRead(f))
  /\ dir' = [dir EXCEPT ![e].owner = IF f.reply = "none" THEN @ ELSE None]
  /\ frames' = Wake([frames EXCEPT
       ![k].ev = "reply",
       ![f.ret].reply = HigherReply(@, ReadReply(f)),
       ![f.ret].retain = @ \/ ReadRetains(f)], e)
  /\ Unlock(e)

\* The reply of a request or a message is received: EV_MOD_NMOESI_READ_REQUEST_
\* FINISH, WRITE_REQUEST_FINISH, MESSAGE_FINISH.
Reply(k) ==
  /\ frames[k].kind \in {"readUD", "readDU", "writeUD", "writeDU", "message"}
  /\ Scheduled(k, "reply")
  /\ frames' = Without(frames, k)
  /\ UNCHANGED <<blk, dir, lock, queue>>

-----------------------------------------------------------------------------
(***************************************************************************)
(* Write requests.                                                         *)
(***************************************************************************)
WriteUpDown(k, m, t, ev) ==
  LET c == Call(k, "writeUD", m) IN
  Adding([j \in {c} |-> NewFrame("writeUD", m, Low[m], t, k, "lock")],
         [frames EXCEPT ![k].ev = ev, ![k].err = FALSE])

\* EV_MOD_NMOESI_WRITE_REQUEST_ACTION: the sharers of the block but the
\* requester are invalidated.
WriteAction(k) ==
  LET f == frames[k]
      e == Locked(k)
  IN
  /\ f.kind \in {"writeUD", "writeDU"} /\ Scheduled(k, "action")
  /\ IF f.err
     THEN /\ frames' = [frames EXCEPT ![k].ev = "reply", ![f.ret].err = TRUE]
          /\ UNCHANGED dir
     ELSE /\ frames' = Adding(Invalidation(k, e, f.from),
                              [frames EXCEPT ![k].ev = "exclusive"])
          /\ ClearSharers(e, f.from)
  /\ UNCHANGED <<blk, lock, queue>>

\* EV_MOD_NMOESI_WRITE_REQUEST_EXCLUSIVE and _UPDOWN.  The state is the one
\* read when the entry was locked.
WriteUpdown(k) ==
  LET f == frames[k] IN
  /\ f.kind = "writeUD" /\ Scheduled(k, "exclusive")
  /\ frames' = IF f.state \in {"M", "E"} THEN [frames EXCEPT ![k].ev = "finish"]
               ELSE WriteUpDown(k, f.at, f.tag, "finish")
  /\ UNCHANGED <<blk, dir, lock, queue>>

\* EV_MOD_NMOESI_WRITE_REQUEST_UPDOWN_FINISH
WriteUpdownFinish(k) ==
  LET f == frames[k]
      e == Locked(k)
  IN
  /\ f.kind = "writeUD" /\ Scheduled(k, "finish")
  /\ IF f.err
     THEN /\ frames' = Wake([frames EXCEPT ![k].ev = "reply",
                                           ![f.ret].err = TRUE], e)
          /\ UNCHANGED <<blk, dir>>
     ELSE /\ dir[e].sharers \subseteq {f.from}
          /\ dir' = [dir EXCEPT ![e] = [owner |-> f.from, sharers |-> {f.from}]]
          /\ SetBlock(e, f.tag, "E")
          /\ frames' = Wake([frames EXCEPT ![k].ev = "reply"], e)
  /\ Unlock(e)

\* EV_MOD_NMOESI_WRITE_REQUEST_DOWNUP and _DOWNUP_FINISH: the block goes away.
\* Invalidations never name a peer.
WriteDownup(k) ==
  LET f == frames[k]
      e == Locked(k)
  IN
  /\ f.kind = "writeDU" /\ Scheduled(k, "exclusive")
  /\ f.state # "I"
  /\ dir[e] = [owner |-> None, sharers |-> {}]
  /\ SetBlock(e, None, "I")
  /\ frames' = Wake([frames EXCEPT
       ![k].ev = "reply",
       ![f.ret].reply = HigherReply(@, IF f.state \in {"E", "S"} THEN "ack"
                                       ELSE "ack_data")], e)
  /\ Unlock(e)
  /\ UNCHANGED dir

-----------------------------------------------------------------------------
(***************************************************************************)
(* Messages: a module gives up the ownership of a block it has exclusive.  *)
(***************************************************************************)
ClearOwner(k, m, t, ev) ==
  LET c == Call(k, "message", m) IN
  Adding([j \in {c} |-> NewFrame("message", m, Low[m], t, k, "lock")],
         [frames EXCEPT ![k].ev = ev, ![k].err = FALSE])

\* EV_MOD_NMOESI_MESSAGE_ACTION
MessageAction(k) ==
  LET f == frames[k]
      e == Locked(k)
  IN
  /\ f.kind = "message" /\ Scheduled(k, "action")
  /\ IF f.err
     THEN /\ frames' = [frames EXCEPT ![k].ev = "reply", ![f.ret].err = TRUE]
          /\ UNCHANGED <<dir, lock, queue>>
     ELSE /\ dir[e].owner = f.from
          /\ dir' = [dir EXCEPT ![e].owner = None]
          /\ frames' = Wake([frames EXCEPT ![k].ev = "reply"], e)
          /\ Unlock(e)
  /\ UNCHANGED blk

-----------------------------------------------------------------------------
(***************************************************************************)
(* Accesses of processors.                                                 *)
(***************************************************************************)
Root(a) == {k \in InFlight : k[1] = a /\ frames[k].kind \in AccessKind}
\* LOAD_LOCK, STORE_LOCK, NC_STORE_LOCK, PREFETCH_LOCK: a store is alone in its
\* module, the others only wait for accesses to the same block.
MayStart(op, m, t) ==
  \A k \in InFlight :
    frames[k].kind \in AccessKind /\ frames[k].from = m
      => op # "store" /\ frames[k].kind # "store" /\ frames[k].tag # t

Start(a, op, t) ==
  /\ Root(a) = {}
  /\ MayStart(op, Home[a], t)
  /\ frames' = Adding([j \in {<<a, None, op, Home[a]>>} |->
                         NewFrame(op, Home[a], Home[a], t, None, "lock")], frames)
  /\ UNCHANGED <<blk, dir, lock, queue>>

\* The access is over: its entry is unlocked.
Done(k) ==
  /\ frames' = Wake(Without(frames, k), Locked(k))
  /\ Unlock(Locked(k))

\* Find and lock once more, with the way the access had.  What else it remembers
\* is assigned before it is looked at.
Retry(k) ==
  LET f == frames[k] IN
  [frames EXCEPT ![k] =
     [NewFrame(f.kind, f.from, f.at, f.tag, f.ret, "lock") EXCEPT !.way = f.way]]

\* Mutated form of Fail: the entry stays locked.
FailWithoutUnlock(k) ==
  /\ frames' = IF frames[k].kind = "prefetch" THEN Without(frames, k) ELSE Retry(k)
  /\ UNCHANGED <<lock, queue>>

\* The access failed: its entry is unlocked, and it is tried again, unless it
\* is a prefetch.
Fail(k) ==
  /\ frames' = IF frames[k].kind = "prefetch"
               THEN Wake(Without(frames, k), Locked(k))
               ELSE Wake(Retry(k), Locked(k))
  /\ Unlock(Locked(k))

\* The entry could not be locked.
LockError(k) ==
  /\ frames[k].kind \in AccessKind /\ Scheduled(k, "action") /\ frames[k].err
  /\ frames' = IF frames[k].kind = "prefetch" THEN Without(frames, k)
               ELSE Retry(k)
  /\ UNCHANGED <<blk, dir, lock, queue>>

\* EV_MOD_NMOESI_LOAD_ACTION and PREFETCH_ACTION
LoadAction(k) ==
  LET f == frames[k] IN
  /\ f.kind \in {"load", "prefetch"} /\ Scheduled(k, "action") /\ ~f.err
  /\ IF f.state # "I" THEN Done(k)
     ELSE /\ frames' = ReadUpDown(k, f.at, f.tag, "miss", FALSE)
          /\ UNCHANGED <<lock, queue>>
  /\ UNCHANGED <<blk, dir>>

\* EV_MOD_NMOESI_LOAD_MISS and PREFETCH_MISS
LoadMiss(k) ==
  LET f == frames[k] IN
  /\ f.kind \in {"load", "prefetch"} /\ Scheduled(k, "miss")
  /\ IF f.err THEN Fail(k) /\ UNCHANGED blk
     ELSE /\ SetBlock(Locked(k), f.tag, IF f.shared THEN "S" ELSE "E")
          /\ Done(k)
  /\ UNCHANGED dir

\* EV_MOD_NMOESI_STORE_ACTION
StoreAction(k) ==
  LET f == frames[k] IN
  /\ f.kind = "store" /\ Scheduled(k, "action") /\ ~f.err
  /\ frames' = IF f.state \in {"M", "E"} THEN [frames EXCEPT ![k].ev = "unlock"]
               ELSE WriteUpDown(k, f.at, f.tag, "unlock")
  /\ UNCHANGED <<blk, dir, lock, queue>>

\* EV_MOD_NMOESI_STORE_UNLOCK
StoreUnlock(k) ==
  LET f == frames[k] IN
  /\ f.kind = "store" /\ Scheduled(k, "unlock")
  /\ IF f.err THEN Fail(k) /\ UNCHANGED blk
     ELSE SetBlock(Locked(k), f.tag, "M") /\ Done(k)
  /\ UNCHANGED dir

\* EV_MOD_NMOESI_NC_STORE_WRITEBACK: modified data is evicted first.
NcWriteback(k) ==
  LET f == frames[k]
      e == Locked(k)
  IN
  /\ f.kind = "nc" /\ Scheduled(k, "action") /\ ~f.err
  /\ IF f.state \in {"M", "O"}
     THEN /\ frames' = Adding(Eviction(k, e), [frames EXCEPT ![k].ev = "ncAction"])
          /\ ClearSharers(e, None)
     ELSE frames' = [frames EXCEPT ![k].ev = "ncAction"] /\ UNCHANGED dir
  /\ UNCHANGED <<blk, lock, queue>>

\* EV_MOD_NMOESI_NC_STORE_UNLOCK
NcUnlock(k) == SetBlock(Locked(k), frames[k].tag, "N") /\ Done(k)

\* EV_MOD_NMOESI_NC_STORE_ACTION.  When the eviction failed, the access is tried
\* again and its entry stays locked.  Main memory has nobody below to ask.
NcAction(k) ==
  LET f == frames[k] IN
  /\ f.kind = "nc" /\ Scheduled(k, "ncAction")
  /\ IF ~f.err /\ (MainMemory(f.at) \/ f.state \in {"S", "N"}) THEN NcUnlock(k)
     ELSE /\ frames' =
               IF f.err THEN Retry(k)
               ELSE IF f.state = "E" THEN ClearOwner(k, f.at, f.tag, "ncMiss")
               ELSE ReadUpDown(k, f.at, f.tag, "ncMiss", TRUE)
          /\ UNCHANGED <<blk, lock, queue>>
  /\ UNCHANGED dir

\* EV_MOD_NMOESI_NC_STORE_MISS
NcMiss(k) ==
  /\ frames[k].kind = "nc" /\ Scheduled(k, "ncMiss")
  /\ IF frames[k].err THEN Fail(k) /\ UNCHANGED blk ELSE NcUnlock(k)
  /\ UNCHANGED dir

-----------------------------------------------------------------------------
Event(k) ==
  \/ LockBusy(k) \/ LockFree(k) \/ LockEvict(k) \/ LockError(k)
  \/ InvalidateFinish(k)
  \/ EvictAction(k) \/ EvictProcess(k) \/ EvictReplyReceive(k)
  \/ ReadUpdown(k) \/ ReadUpdownMiss(k) \/ ReadUpdownFinish(k)
  \/ ReadDownup(k) \/ ReadDownupFinish(k)
  \/ WriteAction(k) \/ WriteUpdown(k) \/ WriteUpdownFinish(k)
  \/ WriteDownup(k)
  \/ MessageAction(k) \/ Reply(k)
  \/ LoadAction(k) \/ LoadMiss(k)
  \/ StoreAction(k) \/ StoreUnlock(k)
  \/ NcWriteback(k) \/ NcAction(k) \/ NcMiss(k)

Next ==
  \/ \E a \in Access, op \in Ops, t \in Tag : Start(a, op, t)
  \/ \E k \in InFlight : Event(k)

Spec == Init /\ [][Next]_vars

\* The event queue runs every event.  An access that unlocks an entry to retry
\* does so after a random latency (mod_get_retry_latency), so that it does not
\* get ahead of the request down-up that it has woken for ever.
Fairness ==
  \A a \in Access :
    /\ WF_vars(\E k \in InFlight : k[1] = a /\ Event(k))
    /\ SF_vars(\E k \in InFlight :
                 k[1] = a /\ k[3] \in {"readDU", "writeDU"} /\ LockFree(k))

FairSpec == Spec /\ Fairness

-----------------------------------------------------------------------------
(***************************************************************************)
(* Properties.                                                             *)
(***************************************************************************)

Frame(ret) ==
  [kind : Kind, from : Mod, at : Mod \cup {None}, tag : Tag, ret : {ret},
   ev : EventKind, way : Nat, src : Nat, state : State, err : BOOLEAN,
   shared : BOOLEAN, reply : DOMAIN Precedence, retain : BOOLEAN,
   peer : BOOLEAN, nc : BOOLEAN]

TypeOK ==
  /\ blk \in [Entry -> [tag : Tag \cup {None}, state : State]]
  /\ dir \in [Entry -> [owner : Mod \cup {None}, sharers : SUBSET Mod]]
  /\ lock \in [Entry -> Tag \cup {None}]
  /\ queue \in [Entry -> Seq(InFlight)]
  /\ \A k \in InFlight : LET f == frames[k] IN
       /\ k = <<k[1], f.ret, f.kind, k[4]>>
       /\ k[1] \in Access
       /\ IF f.kind \in AccessKind THEN f.ret = None ELSE f.ret \in InFlight
       /\ f \in Frame(f.ret)

\* The entries that frame k has locked and must unlock.
Held(k) ==
  LET f == frames[k] IN
  CASE f.ev = "evicting" -> {Source(c) : c \in Children(k)}
    [] f.kind = "invalidate" \/ f.ev \in {"lock", "lockWait", "reply", "invalid"}
         -> {}
    [] f.ev = "action" /\ f.err -> {}
    [] OTHER -> {Locked(k)}

\* An entry that is locked has exactly one frame that will unlock it, over every
\* error path and retry of the protocol, and an entry that is not locked has
\* none.
EntryMutex ==
  \A e \in Entry :
    Cardinality({k \in InFlight : e \in Held(k)}) = IF lock[e] = None THEN 0 ELSE 1

\* The assert() and fatal() of the handlers are never reached: no module asks
\* for what it owns, requests down-up find a block that is there and not shared
\* and never fail, no sharer is left when a block is taken away, evicted or
\* granted exclusive, data arrives in a block that can take it.
AssertionsHold ==
  \A k \in InFlight :
    LET f == frames[k]
        e == Locked(k)
        unused == [owner |-> None, sharers |-> {}]
    IN
    /\ f.kind = "readUD" /\ f.ev = "action" /\ ~f.err =>
         /\ dir[e].owner # f.from
         /\ f.state = "I" => dir[e] = unused
    /\ f.kind \in {"readDU", "writeDU"} => ~f.err
    /\ f.kind = "readDU" /\ f.ev = "action" => f.state \notin {"I", "S", "N"}
    /\ f.kind = "writeDU" /\ f.ev = "exclusive" => f.state # "I"
    /\ f.kind = "writeDU" /\ Scheduled(k, "exclusive") => dir[e] = unused
    /\ f.kind = "writeUD" /\ f.ev = "finish" /\ ~f.err =>
         dir[e].sharers \subseteq {f.from}
    /\ f.kind = "evict" /\ f.ev = "action" /\ ~f.err => CanTakeData(f)
    /\ f.kind = "evict" => dir[Source(k)] = unused
    /\ f.kind = "message" /\ f.ev = "action" /\ ~f.err => dir[e].owner = f.from

\* The lower level has accepted the eviction of entry e: the block is no longer
\* there for anybody.
Leaving(e) ==
  \E k \in InFlight :
    /\ frames[k].kind = "evict" /\ Source(k) = e
    /\ frames[k].ev = "reply" /\ ~frames[k].err

\* The lower level has taken the ownership of the block in entry e from a
\* non-coherent store, which has not heard of it.
GivingUp(e) ==
  \E k \in InFlight :
    /\ frames[k].ev = "ncMiss" /\ ~frames[k].err /\ Locked(k) = e
    /\ \A c \in Children(k) : frames[c].ev = "reply"

\* Module m has block t in one of the states S ...
Has(m, t, S) ==
  \E e \in Entry :
    e[1] = m /\ blk[e].tag = t /\ blk[e].state \in S /\ ~Leaving(e)

\* ... and may act on it.
Owns(m, t, S) == Has(m, t, S) /\ \A e \in Entry : e[1] = m => ~GivingUp(e)

Valid == State \ {"I"}

\* Modules that share a lower level
Peers(m, n) == m # n /\ Low[m] = Low[n] /\ Low[m] # None

\* A module that has a block modified or exclusive is the only one of its level
\* that has it, whatever requests, invalidations and evictions are under way.
SingleWriter ==
  \A m, n \in Mod, t \in Tag :
    Peers(m, n) /\ Owns(m, t, {"M", "E"}) => ~Has(n, t, Valid)

\* At most one module of a level answers for a modified block.
SingleOwner ==
  \A m, n \in Mod, t \in Tag :
    Peers(m, n) /\ Owns(m, t, {"O"}) => ~Owns(n, t, {"M", "O", "E"})

Request(kind, m, t) ==
  \E k \in InFlight :
    frames[k].kind = kind /\ frames[k].at = m /\ frames[k].tag = t

\* The lower level of m has block t, with a directory entry that satisfies P,
\* unless a request is on its way to take the block from m.
Below(m, t, P(_)) ==
  \/ Request("writeDU", m, t)
  \/ \E e \in Entry :
       e[1] = Low[m] /\ blk[e].tag = t /\ blk[e].state # "I" /\ P(dir[e])

\* A block that a module has is in the lower level too, whose directory counts
\* the module as a sharer: nothing that is evicted or written below leaves a
\* copy above.
DirectoryCovers ==
  \A m \in Mod, t \in Tag :
    Low[m] # None /\ Has(m, t, Valid) => Below(m, t, LAMBDA d : m \in d.sharers)

\* A block that a module has modified, owned or exclusive is recorded as its own:
\* a read of another module goes to the module that has the data.
OwnerKnown ==
  \A m \in Mod, t \in Tag :
    Low[m] # None /\ Owns(m, t, {"M", "O", "E"})
      => Below(m, t, LAMBDA d : d.owner = m)

\* And the owner the directory names is one of the sharers of a valid block and
\* has the block, or has locked the entry in which it is about to have it.
OwnerHas ==
  \A e \in Entry : LET owner == dir[e].owner IN
    owner # None =>
      /\ blk[e].state # "I"
      /\ owner \in dir[e].sharers
      /\ \/ lock[e] # None
         \/ Has(owner, blk[e].tag, {"M", "O", "E"})
         \/ \E d \in Entry : d[1] = owner /\ lock[d] = blk[e].tag

Holders(e) == {k \in InFlight : e \in Held(k)}

Waiting == {k \in InFlight : frames[k].ev = "lockWait"}

\* The frames that frame k cannot go on without: the one that has the entry it waits
\* for, or those it has called.
WaitsFor(k) == IF k \in Waiting THEN Holders(Locked(k)) ELSE Children(k)

\* No set of frames waits for entries whose holders wait, themselves or for what they
\* have called, for frames of the set: requests up-down hold entries of the levels above
\* and give up when they find one locked, so that those down-up may wait.
NoCircularWait ==
  ~ \E W \in SUBSET {k \in InFlight : WaitsFor(k) # {}} :
      W # {} /\ \A k \in W : WaitsFor(k) \cap W # {}

\* A frame that waits for an entry is in its queue, and while there is a queue
\* the entry is locked or a frame that was woken is on its way to it.
NoLostWakeup ==
  /\ \A k \in Waiting : \E i \in DOMAIN queue[Locked(k)] : queue[Locked(k)][i] = k
  /\ \A e \in Entry : queue[e] # <<>> =>
       \/ lock[e] # None
       \/ \E k \in InFlight :
            frames[k].ev = "lock" /\ Locked(k) = e /\ Blocking(frames[k])

\* Unless processors start accesses for ever, all accesses come to an end: no
\* retry, conflict or wait keeps them going without progress.
AccessesEnd ==
  \/ []<><<\E a \in Access, op \in Ops, t \in Tag : Start(a, op, t)>>_vars
  \/ []<>(InFlight = {})

\* When an eviction has taken data back from the modules above, the block counts
\* as modified (or non-coherent), which makes the eviction send it on.
DataTakenBackIsKept ==
  [][\A k \in InFlight \ DOMAIN frames' :
       frames[k].kind = "invalidate" /\ frames[k].reply = "ack_data"
       /\ frames[frames[k].ret].kind = "evict"
         => blk'[Locked(k)].state \in {"M", "O", "N"}]_vars

-----------------------------------------------------------------------------
(***************************************************************************)
(* What the processors see: the states of the first-level modules.         *)
(***************************************************************************)
FirstLevel == {Home[a] : a \in Access}

Permission(m, t) ==
  IF ~Has(m, t, Valid) THEN "I"
  ELSE LET e == CHOOSE e \in Entry :
                  e[1] = m /\ blk[e].tag = t /\ blk[e].state # "I"
       IN IF GivingUp(e) THEN "S" ELSE blk[e].state

C == INSTANCE Coherence WITH
       Cache <- FirstLevel, Block <- Tag,
       perm  <- [m \in FirstLevel |-> [t \in Tag |-> Permission(m, t)]]

\* The first-level caches behave as one coherent memory, however many levels are
\* below: each gets a permission only when those of all the others allow it.
ImplementsCoherence == C!Spec
==============================================================================
