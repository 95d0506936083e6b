--------------------------- MODULE Nmoesi_proofs ----------------------------
(***************************************************************************)
(* Nmoesi for every tree of modules, any number of blocks, ways and        *)
(* accesses: the frames call each other as the handlers intend, a          *)
(* directory entry has one frame that will unlock it, and what a frame     *)
(* does to the block and the directory of an entry is consistent with what *)
(* it found there when it locked the entry.                                *)
(***************************************************************************)
EXTENDS Nmoesi, FiniteSetTheorems, TLAPS

\* Frame k has locked the entry it is at.
Locks(k) ==
  LET f == frames[k] IN
  /\ f.kind # "invalidate"
  /\ f.ev \in {"action", "exclusive", "miss", "finish", "unlock", "ncAction", "ncMiss"}
  /\ f.ev = "action" => ~f.err

EvictKey(k) == Call(k, "evict", frames[k].at)

\* The entry that frame k will unlock, if there is one: that of the frame it has
\* called while its victim is evicted.
Holds(k, e) ==
  \/ Locks(k) /\ e = Locked(k)
  \/ frames[k].ev = "evicting" /\ e = Source(EvictKey(k))

\* What is true of frame k by itself.
FrameOK(k) ==
  LET f == frames[k] IN
  /\ f.kind = "invalidate" => f.ev = "finish"
  /\ Locks(k) \/ f.ev = "lockWait" \/ f.kind = "invalidate" => Locked(k) \in Entry
  /\ f.kind = "evict" => Source(k) \in Entry
  /\ f.kind \in {"readUD", "writeUD"} => f.at = Low[f.from]
  /\ f.kind = "writeDU" => f.at \in Mod /\ Low[f.at] = f.from
  /\ f.kind = "readDU" =>
       /\ f.reply \in {"none", "ack", "ack_data"}
       /\ f.ev \in {"lock", "lockWait", "evicting"} => f.state = "I"
       /\ f.ev = "action" /\ f.err => f.state = "I"
  /\ f.ev = "evicting" => EvictKey(k) \in InFlight

\* A frame was called by one that waits for its reply.
CallOK(c) ==
  LET f == frames[c]
      k == f.ret
      p == frames[k]
  IN
  f.kind \notin AccessKind =>
    /\ c[1] = k[1]
    /\ f.kind = "readUD" => p.ev \in {"miss", "ncMiss"}
    /\ f.kind = "readDU" => p.ev = "finish" /\ (p.kind = "readDU" => ~f.peer)
    /\ f.kind = "writeUD" => p.ev \in {"unlock", "finish"}
    /\ f.kind = "writeDU" => p.kind = "invalidate"
    /\ f.kind = "message" => p.ev = "ncMiss"
    /\ f.kind = "evict" =>
         /\ f.from = p.at /\ c[4] = p.at
         /\ \/ p.ev = "evicting"
            \/ p.ev = "ncAction" /\ Locked(k) = Source(c)
    /\ f.kind = "invalidate" =>
         \/ p.kind = "evict" /\ p.ev = "invalid" /\ Source(k) = Locked(c)
         \/ /\ p.kind \in {"writeUD", "writeDU"} /\ p.ev = "exclusive"
            /\ Locked(k) = Locked(c)

\* The queue of an entry has the frames that wait for it, each once.
QueueOK(e) ==
  /\ \A i \in 1 .. Len(queue[e]) :
       frames[queue[e][i]].ev = "lockWait" /\ Locked(queue[e][i]) = e
  /\ \A i, j \in 1 .. Len(queue[e]) : queue[e][i] = queue[e][j] => i = j
  /\ \A k \in InFlight : frames[k].ev = "lockWait" /\ Locked(k) = e =>
       \E i \in 1 .. Len(queue[e]) : queue[e][i] = k

\* A locked entry has a block tag, and one frame at most will unlock it.
HeldOnce ==
  /\ \A k \in InFlight, e \in Entry : Holds(k, e) => lock[e] # None
  /\ \A j, k \in InFlight, e \in Entry : Holds(j, e) /\ Holds(k, e) => j = k

\* Nobody forgets to unlock an entry.
LockedIsHeld == \A e \in Entry : lock[e] # None => \E k \in InFlight : Holds(k, e)

\* The block and the directory of entry e.
EntryOK(e) ==
  /\ blk[e].state # "I" => blk[e].tag \in Tag
  /\ dir[e].sharers # {} => blk[e].state # "I"
  /\ dir[e].owner # None => dir[e].owner \in dir[e].sharers
  /\ \A m \in dir[e].sharers : Low[m] = e[1]

\* What frame k relies on in the entry it has locked, or has been called to
\* empty.
ReliesOn(k) ==
  LET f == frames[k]
      e == Locked(k)
  IN
  /\ f.ev = "action" /\ ~f.err /\ Locks(k) =>
       blk[e].state = f.state /\ (f.state # "I" => blk[e].tag = f.tag)
  /\ f.kind = "readUD" /\ f.ev = "finish" => blk[e].state # "I"
  /\ f.kind = "writeUD" /\ f.ev \in {"exclusive", "finish"} =>
       dir[e].sharers \subseteq {f.from}
  /\ f.kind = "writeDU" /\ f.ev = "exclusive" => dir[e].sharers \subseteq {f.from}
  /\ f.kind = "evict" => dir[Source(k)].sharers = {}

IInv ==
  /\ TypeOK
  /\ \A k \in InFlight : FrameOK(k) /\ CallOK(k) /\ ReliesOn(k)
  /\ \A e \in Entry : QueueOK(e) /\ EntryOK(e)
  /\ HeldOnce

IInvL == IInv /\ LockedIsHeld

-----------------------------------------------------------------------------
(***************************************************************************)
(* Steps.  The frames X act and may return; the others go on as before,    *)
(* but for a result that one of X leaves in its caller and for a waiter    *)
(* that is woken.                                                          *)
(***************************************************************************)
Kept(f, g) ==
  /\ g \in Frame(f.ret)
  /\ g.kind = f.kind /\ g.from = f.from /\ g.at = f.at /\ g.tag = f.tag
  /\ g.way = f.way /\ g.src = f.src /\ g.state = f.state /\ g.peer = f.peer
  /\ g.ev = f.ev
  /\ f.ev \in {"action", "lock", "lockWait"} => g.err = f.err
  /\ f.kind = "readDU" => g.reply \in {"none", "ack", "ack_data"}

\* A frame that acts is still the same call.
SameCall(f, g) ==
  /\ g \in Frame(f.ret) /\ g.kind = f.kind
  /\ f.kind \notin AccessKind =>
       /\ g.from = f.from /\ g.at = f.at /\ g.src = f.src /\ g.peer = f.peer
       /\ f.kind # "invalidate"

Named(n, F) ==
  LET f == F[n] IN
  /\ n = <<n[1], f.ret, f.kind, n[4]>> /\ n[1] \in Access
  /\ IF f.kind \in AccessKind THEN f.ret = None ELSE f.ret \in DOMAIN F
  /\ f \in Frame(f.ret)

IsFunction(F) == F = [j \in DOMAIN F |-> F[j]]

Acts(X, F) ==
  /\ X \subseteq InFlight
  /\ \A j \in InFlight \ X :
       /\ j \in DOMAIN F /\ Kept(frames[j], F[j])
       /\ frames[j].ev = "evicting" => EvictKey(j) \in DOMAIN F
  /\ \A x \in X :
       /\ frames[x].ev # "lockWait"
       /\ x \in DOMAIN F => SameCall(frames[x], F[x])
  /\ \A c \in DOMAIN F \cap InFlight :
       frames[c].kind \notin AccessKind => frames[c].ret \notin X
  /\ \A n \in DOMAIN F \ InFlight : Named(n, F)

Stays(j) ==
  LET f == frames[j]
      g == frames'[j]
  IN
  /\ j \in InFlight' /\ g \in Frame(f.ret)
  /\ g.kind = f.kind /\ g.from = f.from /\ g.at = f.at /\ g.tag = f.tag
  /\ g.way = f.way /\ g.src = f.src /\ g.state = f.state /\ g.peer = f.peer
  /\ \/ g.ev = f.ev
     \/ f.ev = "lockWait" /\ g.ev = "lock"
  /\ f.ev \in {"action", "lock", "lockWait"} => g.err = f.err
  /\ f.kind = "readDU" => g.reply \in {"none", "ack", "ack_data"}

\* The head of the queue of an entry waits for it.
LEMMA FirstWaiter ==
  ASSUME IInv, NEW e \in Entry, queue[e] # <<>>
  PROVE  /\ Head(queue[e]) \in InFlight
         /\ frames[Head(queue[e])].ev = "lockWait"
         /\ Locked(Head(queue[e])) = e
         /\ Tail(queue[e]) \in Seq(InFlight)
<1>1. queue[e] \in Seq(InFlight)  BY DEF IInv, TypeOK
<1>2. Len(queue[e]) \in Nat /\ Len(queue[e]) >= 1 /\ Head(queue[e]) = queue[e][1]
  BY <1>1
<1>3. queue[e][1] \in InFlight  BY <1>1, <1>2
<1>4. QueueOK(e)  BY DEF IInv
<1> QED  BY <1>1, <1>2, <1>3, <1>4 DEF QueueOK

LEMMA ActsFrames ==
  ASSUME IInv, NEW X, NEW F, Acts(X, F), IsFunction(F),
         \/ frames' = F
         \/ \E e \in Entry : frames' = Wake(F, e)
  PROVE  /\ InFlight' = DOMAIN F
         /\ \A j \in X \cap DOMAIN F : frames'[j] = F[j]
         /\ \A j \in DOMAIN F \ InFlight : frames'[j] = F[j]
         /\ \A j \in InFlight \ X : Stays(j)
<1> DEFINE Goal == /\ InFlight' = DOMAIN F
                   /\ \A j \in X \cap DOMAIN F : frames'[j] = F[j]
                   /\ \A j \in DOMAIN F \ InFlight : frames'[j] = F[j]
                   /\ \A j \in InFlight \ X : Stays(j)
<1>1. ASSUME frames' = F  PROVE Goal
  BY <1>1 DEF Acts, Stays, Kept, InFlight
<1>2. ASSUME NEW e \in Entry, frames' = Wake(F, e), queue[e] # <<>>
      PROVE  Goal
  <2> DEFINE w == Head(queue[e])
  <2>1. w \in InFlight /\ frames[w].ev = "lockWait"
    BY <1>2, FirstWaiter
  <2>2. w \in InFlight \ X /\ w \in DOMAIN F /\ Kept(frames[w], F[w])
    BY <2>1 DEF Acts
  <2>3. frames' = [F EXCEPT ![w].ev = "lock"]  BY <1>2 DEF Wake
  <2>4. /\ DOMAIN frames' = DOMAIN F
        /\ \A j \in DOMAIN F \ {w} : frames'[j] = F[j]
        /\ frames'[w] = [F[w] EXCEPT !.ev = "lock"]
    BY <2>2, <2>3
  <2>5. Stays(w)
    BY <2>1, <2>2, <2>4 DEF Stays, Kept, InFlight, Frame, EventKind
  <2>6. ASSUME NEW j \in InFlight \ X  PROVE Stays(j)
    <3>1. CASE j = w  BY <2>5, <3>1
    <3>2. CASE j # w
      <4>1. j \in DOMAIN F /\ Kept(frames[j], F[j])  BY <2>6 DEF Acts
      <4>2. frames'[j] = F[j]  BY <2>4, <3>2, <4>1
      <4>3. j \in InFlight'  BY <2>4, <4>1 DEF InFlight
      <4> QED  BY <4>1, <4>2, <4>3 DEF Stays, Kept
    <3> QED  BY <3>1, <3>2
  <2> QED  BY <2>2, <2>4, <2>6 DEF InFlight
<1>3. ASSUME NEW e \in Entry, frames' = Wake(F, e), queue[e] = <<>>
      PROVE  Goal
  BY <1>1, <1>3 DEF Wake
<1> QED  BY <1>1, <1>2, <1>3

LEMMA StaysThere ==
  ASSUME NEW j \in InFlight, Stays(j)
  PROVE  /\ Locked(j)' = Locked(j) /\ Source(j)' = Source(j)
         /\ EvictKey(j)' = EvictKey(j)
         /\ Locks(j)' <=> Locks(j)
<1>1. EvictKey(j)' = EvictKey(j)  BY DEF Stays, EvictKey, Call
<1>2. Locked(j)' = Locked(j) /\ Source(j)' = Source(j)
  BY DEF Stays, Locked, Source
<1>3. Locks(j)' <=> Locks(j)
  BY DEF Stays, Locks
<1> QED  BY <1>1, <1>2, <1>3

\* The frame that is evicting for frame k was called by k.
LEMMA Evictor ==
  ASSUME IInv, NEW k \in InFlight, frames[k].ev = "evicting"
  PROVE  LET c == EvictKey(k) IN
         /\ c \in InFlight /\ frames[c].kind = "evict" /\ frames[c].ret = k
         /\ Source(c) \in Entry
<1>1. EvictKey(k) \in InFlight  BY DEF IInv, FrameOK
<1>2. frames[EvictKey(k)].kind = "evict" /\ frames[EvictKey(k)].ret = k
  <2> DEFINE c == EvictKey(k)
  <2>1. c = <<c[1], frames[c].ret, frames[c].kind, c[4]>>
    BY <1>1 DEF IInv, TypeOK
  <2>2. c[2] = k /\ c[3] = "evict"  BY DEF EvictKey, Call
  <2> QED  BY <2>1, <2>2
<1> QED  BY <1>1, <1>2 DEF IInv, FrameOK

LEMMA ActsTree ==
  ASSUME IInv, NEW X, NEW F, Acts(X, F), IsFunction(F),
         \/ frames' = F
         \/ \E e \in Entry : frames' = Wake(F, e),
         \A x \in X \cap DOMAIN F : FrameOK(x)',
         \A n \in DOMAIN F \ InFlight : FrameOK(n)' /\ CallOK(n)'
  PROVE  /\ \A j \in InFlight' : Named(j, frames)' /\ FrameOK(j)' /\ CallOK(j)'
         /\ \A j \in InFlight \ X : \A e : Holds(j, e)' <=> Holds(j, e)
<1>1. /\ InFlight' = DOMAIN F
      /\ \A j \in X \cap DOMAIN F : frames'[j] = F[j]
      /\ \A j \in DOMAIN F \ InFlight : frames'[j] = F[j]
      /\ \A j \in InFlight \ X : Stays(j)
  BY ActsFrames
<1>2. ASSUME NEW j \in InFlight \ X  PROVE FrameOK(j)'
  <2>1. Stays(j) /\ FrameOK(j)  BY <1>1 DEF IInv
  <2>2. /\ Locked(j)' = Locked(j) /\ Source(j)' = Source(j)
        /\ EvictKey(j)' = EvictKey(j)
        /\ Locks(j)' <=> Locks(j)
    BY <2>1, StaysThere
  <2>3. frames[j].ev = "evicting" => EvictKey(j) \in InFlight'
    BY <1>1 DEF Acts
  <2>4. Entry' = Entry  BY DEF Entry
  <2>5. frames'[j].ev = "lockWait" => frames[j].ev = "lockWait"
    BY <2>1 DEF Stays
  <2>6. frames'[j].kind = frames[j].kind /\ frames'[j].at = frames[j].at
        /\ frames'[j].from = frames[j].from /\ frames'[j].state = frames[j].state
    BY <2>1 DEF Stays
  <2>7. frames'[j].kind = "invalidate" => frames'[j].ev = "finish"
    BY <2>1 DEF Stays, FrameOK
  <2>8. frames'[j].kind = "readDU" =>
          /\ frames'[j].reply \in {"none", "ack", "ack_data"}
          /\ frames'[j].ev \in {"lock", "lockWait", "evicting"} => frames'[j].state = "I"
          /\ frames'[j].ev = "action" /\ frames'[j].err => frames'[j].state = "I"
    BY <2>1 DEF Stays, FrameOK
  <2>9. frames'[j].ev = "evicting" => EvictKey(j)' \in InFlight'
    BY <2>1, <2>2, <2>3 DEF Stays
  <2> QED
    BY <2>1, <2>2, <2>4, <2>5, <2>6, <2>7, <2>8, <2>9 DEF FrameOK
<1>3. ASSUME NEW c \in InFlight, c \in InFlight'
      PROVE  Named(c, frames)' /\ CallOK(c)'
  <2>0. PICK k : k = frames[c].ret  OBVIOUS
  <2>1. \/ c \notin X /\ Stays(c)
        \/ c \in X /\ SameCall(frames[c], frames'[c])
    BY <1>1, <1>3 DEF Acts
  <2>2. /\ frames'[c] \in Frame(k) /\ frames'[c].kind = frames[c].kind
        /\ frames'[c].ret = k
    BY <2>0, <2>1 DEF Stays, SameCall, Frame
  <2>3. frames[c].kind \notin AccessKind =>
          k \in InFlight \ X /\ Stays(k) /\ k \in InFlight'
    BY <1>1, <1>3, <2>0 DEF Acts, IInv, TypeOK, Stays
  <2>4. Named(c, frames)'
    BY <2>0, <2>2, <2>3, <1>3 DEF Named, IInv, TypeOK, InFlight
  <2>5. ASSUME frames[c].kind \notin AccessKind  PROVE CallOK(c)'
    <3>1. /\ Locked(k)' = Locked(k) /\ Source(k)' = Source(k)
          /\ frames'[k].kind = frames[k].kind /\ frames'[k].at = frames[k].at
          /\ frames[k].ev # "lockWait" => frames'[k].ev = frames[k].ev
      BY <2>3, <2>5, StaysThere DEF Stays
    <3>2. /\ frames'[c].from = frames[c].from /\ frames'[c].peer = frames[c].peer
          /\ Source(c)' = Source(c)
          /\ frames[c].kind = "invalidate" => Locked(c)' = Locked(c)
      BY <2>1, <2>5, StaysThere DEF Stays, SameCall, Source
    <3>3. CallOK(c)  BY DEF IInv
    <3> QED  BY <2>0, <2>2, <2>5, <3>1, <3>2, <3>3 DEF CallOK
  <2> QED  BY <2>2, <2>4, <2>5 DEF CallOK
<1>4. ASSUME NEW n \in DOMAIN F \ InFlight  PROVE Named(n, frames)'
  BY <1>1, <1>4 DEF Acts, Named, InFlight
<1>5. ASSUME NEW j \in InFlight \ X, NEW e  PROVE Holds(j, e)' <=> Holds(j, e)
  <2>1. Stays(j)  BY <1>1
  <2>2. /\ Locked(j)' = Locked(j) /\ EvictKey(j)' = EvictKey(j)
        /\ Locks(j)' <=> Locks(j)
        /\ frames'[j].ev = "evicting" <=> frames[j].ev = "evicting"
    BY <2>1, StaysThere DEF Stays
  <2>3. ASSUME frames[j].ev = "evicting"
        PROVE  Source(EvictKey(j))' = Source(EvictKey(j))
    <3>0. PICK c : c = EvictKey(j)  OBVIOUS
    <3>1. c \in InFlight /\ frames[c].kind = "evict"  BY <2>3, <3>0, Evictor
    <3>2. c \in DOMAIN F  BY <2>3, <3>0 DEF Acts
    <3>3. \/ c \notin X /\ Stays(c)
          \/ c \in X /\ SameCall(frames[c], frames'[c])
      BY <1>1, <3>1, <3>2 DEF Acts
    <3>4. frames'[c].from = frames[c].from /\ frames'[c].src = frames[c].src
      BY <3>1, <3>3 DEF Stays, SameCall, AccessKind
    <3>5. Source(c)' = Source(c)  BY <3>4 DEF Source
    <3> QED  BY <2>2, <3>0, <3>5 DEF Source
  <2> QED  BY <2>2, <2>3 DEF Holds
<1>6. ASSUME NEW j \in InFlight'  PROVE Named(j, frames)' /\ FrameOK(j)' /\ CallOK(j)'
  <2>1. CASE j \in InFlight \ X  BY <1>2, <1>3, <1>6, <2>1
  <2>2. CASE j \in X
    BY <1>1, <1>3, <1>6, <2>2 DEF Acts
  <2>3. CASE j \notin InFlight  BY <1>1, <1>4, <1>6, <2>3
  <2> QED  BY <2>1, <2>2, <2>3
<1> QED  BY <1>5, <1>6

-----------------------------------------------------------------------------
(***************************************************************************)
(* Queues.                                                                 *)
(***************************************************************************)
LEMMA SeqOf ==
  ASSUME NEW S, NEW T, NEW s \in Seq(S), \A i \in 1 .. Len(s) : s[i] \in T
  PROVE  s \in Seq(T)
<1>1. Len(s) \in Nat /\ s \in [1 .. Len(s) -> T]  OBVIOUS
<1> QED  BY <1>1

Dequeue(e) == queue' = [queue EXCEPT ![e] = IF @ = <<>> THEN @ ELSE Tail(@)]

LEMMA ActsQueue ==
  ASSUME IInv, NEW X, NEW F, Acts(X, F), IsFunction(F),
         \A x \in DOMAIN F : x \notin InFlight \ X => F[x].ev # "lockWait",
         \/ frames' = F /\ queue' = queue
         \/ \E e \in Entry : frames' = Wake(F, e) /\ Dequeue(e)
  PROVE  /\ queue' \in [Entry -> Seq(InFlight')]
         /\ \A e \in Entry : QueueOK(e)'
<1>1. /\ InFlight' = DOMAIN F
      /\ \A j \in X \cap DOMAIN F : frames'[j] = F[j]
      /\ \A j \in DOMAIN F \ InFlight : frames'[j] = F[j]
      /\ \A j \in InFlight \ X : Stays(j)
  BY ActsFrames
<1>2. queue \in [Entry -> Seq(InFlight)]  BY DEF IInv, TypeOK
<1>3. \A e \in Entry : QueueOK(e)  BY DEF IInv
<1>4. ASSUME NEW j \in InFlight, frames[j].ev = "lockWait"
      PROVE  /\ j \in InFlight \ X /\ j \in InFlight' /\ Locked(j)' = Locked(j)
             /\ frames'[j].ev \in {"lock", "lockWait"}
  <2>1. j \in InFlight \ X  BY <1>4 DEF Acts
  <2> QED  BY <1>1, <1>4, <2>1, StaysThere DEF Stays
<1>5. ASSUME NEW j \in InFlight', frames'[j].ev = "lockWait"
      PROVE  j \in InFlight /\ frames[j].ev = "lockWait" /\ Locked(j)' = Locked(j)
  <2>1. j \in InFlight \ X  BY <1>1, <1>5
  <2> QED  BY <1>1, <1>5, <2>1, StaysThere DEF Stays
<1>6. ASSUME NEW e \in Entry, NEW i \in 1 .. Len(queue[e])
      PROVE  queue[e][i] \in InFlight /\ frames[queue[e][i]].ev = "lockWait"
  BY <1>2, <1>3 DEF QueueOK
<1>7. ASSUME frames' = F, queue' = queue
      PROVE  /\ queue' \in [Entry -> Seq(InFlight')]
             /\ \A e \in Entry : QueueOK(e)'
  <2>1. ASSUME NEW j \in InFlight, frames[j].ev = "lockWait"
        PROVE  frames'[j].ev = "lockWait"
    BY <1>4, <1>7, <2>1 DEF Acts, Kept
  <2>2. ASSUME NEW e \in Entry  PROVE queue[e] \in Seq(InFlight')
    BY <1>2, <1>4, <1>6, SeqOf
  <2>3. ASSUME NEW e \in Entry  PROVE QueueOK(e)'
    BY <1>3, <1>4, <1>5, <1>6, <1>7, <2>1 DEF QueueOK
  <2> QED  BY <1>2, <1>7, <2>2, <2>3
<1>8. ASSUME NEW d \in Entry, frames' = Wake(F, d), Dequeue(d)
      PROVE  /\ queue' \in [Entry -> Seq(InFlight')]
             /\ \A e \in Entry : QueueOK(e)'
  <2>1. CASE queue[d] = <<>>
    <3>1. frames' = F /\ queue' = queue
      BY <1>2, <1>8, <2>1 DEF Wake, Dequeue
    <3> QED  BY <1>7, <3>1
  <2>2. CASE queue[d] # <<>>
    <3>0. PICK w : w = Head(queue[d])  OBVIOUS
    <3>1. /\ w \in InFlight /\ frames[w].ev = "lockWait" /\ Locked(w) = d
          /\ Tail(queue[d]) \in Seq(InFlight)
      BY <2>2, <3>0, FirstWaiter
    <3>2. /\ Len(queue[d]) \in Nat /\ Len(queue[d]) >= 1 /\ queue[d][1] = w
          /\ Len(Tail(queue[d])) = Len(queue[d]) - 1
          /\ \A i \in 1 .. Len(Tail(queue[d])) : Tail(queue[d])[i] = queue[d][i + 1]
      BY <1>2, <2>2, <3>0
    <3>3. /\ queue'[d] = Tail(queue[d])
          /\ \A e \in Entry \ {d} : queue'[e] = queue[e]
          /\ queue' = [e \in Entry |-> queue'[e]]
      BY <1>2, <1>8, <2>2 DEF Dequeue
    <3>4. /\ frames'[w].ev = "lock"
          /\ \A j \in DOMAIN F \ {w} : frames'[j] = F[j]
      <4>1. frames' = [F EXCEPT ![w].ev = "lock"]
        BY <1>8, <2>2, <3>0 DEF Wake
      <4>2. w \in DOMAIN F /\ F[w] \in Frame(frames[w].ret)
        BY <1>4, <3>1 DEF Acts, Kept
      <4> QED  BY <4>1, <4>2 DEF Frame
    <3>5. ASSUME NEW j \in InFlight, frames[j].ev = "lockWait", j # w
          PROVE  frames'[j].ev = "lockWait"
      BY <1>4, <3>4, <3>5 DEF Acts, Kept
    <3>6. ASSUME NEW e \in Entry, NEW i \in 1 .. Len(queue'[e])
          PROVE  \E n \in 1 .. Len(queue[e]) :
                   /\ queue'[e][i] = queue[e][n]
                   /\ queue'[e][i] # w
                   /\ e = d => n = i + 1
                   /\ e # d => n = i
      <4>1. CASE e = d
        <5>1. queue'[e][i] = queue[d][i + 1] /\ i + 1 \in 1 .. Len(queue[d])
          BY <3>2, <3>3, <4>1
        <5>2. queue[d][i + 1] # w  BY <1>3, <3>2, <5>1 DEF QueueOK
        <5> QED  BY <4>1, <5>1, <5>2
      <4>2. CASE e # d
        <5>1. queue'[e][i] = queue[e][i] /\ i \in 1 .. Len(queue[e])
          BY <3>3, <4>2
        <5>2. Locked(queue[e][i]) = e  BY <1>3, <5>1 DEF QueueOK
        <5> QED  BY <3>1, <4>2, <5>1, <5>2
      <4> QED  BY <4>1, <4>2
    <3>7. ASSUME NEW e \in Entry  PROVE queue'[e] \in Seq(InFlight')
      <4>1. queue'[e] \in Seq(InFlight)  BY <1>2, <3>1, <3>3
      <4>2. ASSUME NEW i \in 1 .. Len(queue'[e])  PROVE queue'[e][i] \in InFlight'
        <5>1. PICK n \in 1 .. Len(queue[e]) : queue'[e][i] = queue[e][n]  BY <3>6
        <5> QED  BY <1>4, <1>6, <5>1
      <4> QED  BY <4>1, <4>2, SeqOf
    <3>8. ASSUME NEW e \in Entry, NEW i \in 1 .. Len(queue'[e])
          PROVE  frames'[queue'[e][i]].ev = "lockWait" /\ Locked(queue[e][i])' = e
      <4>1. PICK n \in 1 .. Len(queue[e]) :
              queue'[e][i] = queue[e][n] /\ queue'[e][i] # w
        BY <3>6
      <4>2. PICK j : j = queue[e][n]  OBVIOUS
      <4>3. j \in InFlight /\ frames[j].ev = "lockWait" /\ Locked(j) = e
        BY <1>3, <1>6, <4>2 DEF QueueOK
      <4>4. frames'[j].ev = "lockWait" /\ Locked(j)' = e
        BY <1>4, <3>5, <4>1, <4>2, <4>3
      <4> QED  BY <4>1, <4>2, <4>4 DEF Locked
    <3>9. ASSUME NEW e \in Entry,
                 NEW i \in 1 .. Len(queue'[e]), NEW j \in 1 .. Len(queue'[e]),
                 queue'[e][i] = queue'[e][j]
          PROVE  i = j
      <4>1. PICK n \in 1 .. Len(queue[e]) :
              queue'[e][i] = queue[e][n] /\ (e = d => n = i + 1) /\ (e # d => n = i)
        BY <3>6
      <4>2. PICK m \in 1 .. Len(queue[e]) :
              queue'[e][j] = queue[e][m] /\ (e = d => m = j + 1) /\ (e # d => m = j)
        BY <3>6
      <4>3. QueueOK(e)  BY <1>3
      <4>4. queue[e][n] = queue[e][m]  BY <3>9, <4>1, <4>2
      <4>5. n = m  BY <4>3, <4>4 DEF QueueOK
      <4> QED  BY <4>1, <4>2, <4>5
    <3>10. ASSUME NEW e \in Entry, NEW k \in InFlight',
                  frames'[k].ev = "lockWait", Locked(k)' = e
           PROVE  \E i \in 1 .. Len(queue'[e]) : queue'[e][i] = k
      <4>1. k \in InFlight /\ frames[k].ev = "lockWait" /\ Locked(k) = e
        BY <1>5, <3>10
      <4>2. PICK n \in 1 .. Len(queue[e]) : queue[e][n] = k
        BY <1>3, <4>1 DEF QueueOK
      <4>3. k # w  BY <3>4, <3>10
      <4>4. CASE e = d
        <5>1. n # 1 /\ n - 1 \in 1 .. Len(Tail(queue[d]))
          BY <3>2, <4>2, <4>3, <4>4
        <5>2. Tail(queue[d])[n - 1] = k  BY <3>2, <4>2, <4>4, <5>1
        <5> QED  BY <3>3, <4>4, <5>1, <5>2
      <4>5. CASE e # d  BY <3>3, <4>2, <4>5
      <4> QED  BY <4>4, <4>5
    <3> QED  BY <3>3, <3>7, <3>8, <3>9, <3>10 DEF QueueOK
  <2> QED  BY <2>1, <2>2
<1> QED  BY <1>7, <1>8

-----------------------------------------------------------------------------
(***************************************************************************)
(* Locks.                                                                  *)
(***************************************************************************)
\* The frames that do not act hold what they held, new frames hold nothing.
OthersHold(X) ==
  /\ X \subseteq InFlight
  /\ \A j \in InFlight \ X : j \in InFlight' /\ \A e : Holds(j, e)' <=> Holds(j, e)
  /\ \A n \in InFlight' \ InFlight : \A e : ~Holds(n, e)'

\* Only non-coherent stores forget an entry.
MutexKept ==
  /\ HeldOnce'
  /\ "nc" \notin Ops /\ LockedIsHeld => LockedIsHeld'

LEMMA KeepLocks ==
  ASSUME IInv, NEW X, OthersHold(X), lock' = lock,
         \A x \in X, e \in Entry :
           /\ x \in InFlight' /\ Holds(x, e)' => Holds(x, e)
           /\ "nc" \notin Ops /\ Holds(x, e) => x \in InFlight' /\ Holds(x, e)'
  PROVE  MutexKept
<1>1. Entry' = Entry  BY DEF Entry
<1>2. ASSUME NEW j \in InFlight', NEW e \in Entry, Holds(j, e)'
      PROVE  j \in InFlight /\ Holds(j, e)
  BY <1>2 DEF OthersHold
<1>3. ASSUME "nc" \notin Ops, NEW j \in InFlight, NEW e \in Entry, Holds(j, e)
      PROVE  j \in InFlight' /\ Holds(j, e)'
  BY <1>3 DEF OthersHold
<1>4. HeldOnce'  BY <1>1, <1>2 DEF IInv, HeldOnce
<1>5. "nc" \notin Ops /\ LockedIsHeld => LockedIsHeld'
  BY <1>1, <1>3 DEF LockedIsHeld
<1> QED  BY <1>4, <1>5 DEF MutexKept

LEMMA ReleaseLock ==
  ASSUME IInv, NEW X, OthersHold(X), NEW d \in Entry, lock' = [lock EXCEPT ![d] = None],
         \E x \in X : Holds(x, d),
         \A x \in X, e \in Entry :
           /\ Holds(x, e) => e = d
           /\ x \in InFlight' => ~Holds(x, e)'
  PROVE  MutexKept
<1>1. Entry' = Entry /\ lock \in [Entry -> Tag \cup {None}]
  BY DEF Entry, IInv, TypeOK
<1>2. ASSUME NEW j \in InFlight', NEW e \in Entry, Holds(j, e)'
      PROVE  j \in InFlight \ X /\ Holds(j, e) /\ e # d
  <2>1. j \in InFlight \ X /\ Holds(j, e)  BY <1>2 DEF OthersHold
  <2> QED  BY <2>1 DEF IInv, HeldOnce, OthersHold
<1>3. ASSUME NEW j \in InFlight, NEW e \in Entry, Holds(j, e), e # d
      PROVE  j \in InFlight' /\ Holds(j, e)'
  BY <1>3 DEF OthersHold
<1>4. HeldOnce'  BY <1>1, <1>2 DEF IInv, HeldOnce
<1>5. LockedIsHeld => LockedIsHeld'  BY <1>1, <1>3 DEF LockedIsHeld
<1> QED  BY <1>4, <1>5 DEF MutexKept

LEMMA ReleaseOne ==
  ASSUME IInv, NEW k, OthersHold({k}), NEW d \in Entry,
         lock' = [lock EXCEPT ![d] = None],
         \A e : Holds(k, e) <=> e = d,
         k \in InFlight' => \A e : ~Holds(k, e)'
  PROVE  MutexKept
<1>1. PICK X : X = {k}  OBVIOUS
<1>2. /\ OthersHold(X) /\ \E x \in X : Holds(x, d)
      /\ \A x \in X, e \in Entry :
           /\ Holds(x, e) => e = d
           /\ x \in InFlight' => ~Holds(x, e)'
  BY <1>1
<1> QED
  BY ONLY IInv, <1>2, d \in Entry, lock' = [lock EXCEPT ![d] = None], ReleaseLock

LEMMA AcquireLock ==
  ASSUME IInv, NEW k \in InFlight, OthersHold({k}), NEW d \in Entry, lock[d] = None,
         NEW t \in Tag, lock' = [lock EXCEPT ![d] = t],
         k \in InFlight',
         \A e \in Entry : ~Holds(k, e) /\ (Holds(k, e)' <=> e = d)
  PROVE  MutexKept
<1>1. Entry' = Entry /\ lock \in [Entry -> Tag \cup {None}] /\ t # None
  BY TreeAssumption DEF Entry, IInv, TypeOK
<1>2. ASSUME NEW j \in InFlight', NEW e \in Entry, Holds(j, e)'
      PROVE  \/ j = k /\ e = d
             \/ j \in InFlight /\ j # k /\ Holds(j, e) /\ e # d
  <2>1. CASE j = k  BY <1>2, <2>1
  <2>2. CASE j # k
    <3>1. j \in InFlight /\ Holds(j, e)  BY <1>2, <2>2 DEF OthersHold
    <3> QED  BY <2>2, <3>1 DEF IInv, HeldOnce
  <2> QED  BY <2>1, <2>2
<1>3. ASSUME NEW j \in InFlight, NEW e \in Entry, Holds(j, e)
      PROVE  j \in InFlight' /\ Holds(j, e)'
  BY <1>3 DEF OthersHold
<1>4. HeldOnce'  BY <1>1, <1>2 DEF IInv, HeldOnce
<1>5. LockedIsHeld => LockedIsHeld'  BY <1>1, <1>3 DEF LockedIsHeld
<1> QED  BY <1>4, <1>5 DEF MutexKept

-----------------------------------------------------------------------------
(***************************************************************************)
(* Blocks and directories.                                                 *)
(***************************************************************************)
\* The entry a frame was called to empty is held by its caller.
LEMMA CallerHolds ==
  ASSUME IInv, NEW c \in InFlight, frames[c].kind = "evict"
  PROVE  frames[c].ret \in InFlight /\ Holds(frames[c].ret, Source(c))
<1>0. PICK p : p = frames[c].ret  OBVIOUS
<1>1. p \in InFlight /\ c = <<c[1], p, "evict", c[4]>>
  BY <1>0 DEF IInv, TypeOK, AccessKind
<1>2. CallOK(c) /\ FrameOK(p)  BY <1>1 DEF IInv
<1>3. c[1] = p[1] /\ c[4] = frames[p].at
  BY <1>0, <1>2 DEF CallOK, AccessKind
<1>4. c = EvictKey(p)
  BY <1>1, <1>3 DEF EvictKey, Call
<1>5. \/ frames[p].ev = "evicting"
      \/ frames[p].ev = "ncAction" /\ Locked(p) = Source(c)
  BY <1>0, <1>2 DEF CallOK, AccessKind
<1>6. frames[p].kind # "invalidate" \/ frames[p].ev = "finish"
  BY <1>2 DEF FrameOK
<1> QED  BY <1>0, <1>1, <1>4, <1>5, <1>6 DEF Holds, Locks

\* What a frame relies on is in an entry that it has locked, or its caller.
LEMMA StillRelies ==
  ASSUME IInv, NEW j \in InFlight, Stays(j), ReliesOn(j),
         NEW d \in Entry,
         \A e \in Entry \ {d} : blk'[e] = blk[e] /\ dir'[e] = dir[e],
         ~Holds(j, d),
         frames[j].kind = "evict" => Source(j) # d
  PROVE  ReliesOn(j)'
<1>1. /\ Locked(j)' = Locked(j) /\ Source(j)' = Source(j)
      /\ Locks(j)' <=> Locks(j)
  BY StaysThere
<1>2. FrameOK(j)  BY DEF IInv
<1>3. Locks(j) => Locked(j) \in Entry \ {d}
  BY <1>2 DEF FrameOK, Holds
<1>4. frames[j].kind = "evict" => Source(j) \in Entry \ {d}
  BY <1>2 DEF FrameOK
<1>5. /\ frames'[j].kind = frames[j].kind /\ frames'[j].from = frames[j].from
      /\ frames'[j].state = frames[j].state /\ frames'[j].tag = frames[j].tag
      /\ frames[j].ev = "action" => frames'[j].err = frames[j].err
      /\ frames'[j].ev # "lock" => frames'[j].ev = frames[j].ev
  BY DEF Stays
<1>6. frames[j].kind = "readUD" /\ frames[j].ev = "finish" => Locks(j)
  BY DEF Locks
<1>7. /\ frames[j].kind = "writeUD" /\ frames[j].ev \in {"exclusive", "finish"} => Locks(j)
      /\ frames[j].kind = "writeDU" /\ frames[j].ev = "exclusive" => Locks(j)
  BY DEF Locks
<1>8. frames'[j].ev = "action" /\ ~frames'[j].err /\ Locks(j)' =>
        /\ blk'[Locked(j)].state = frames'[j].state
        /\ frames'[j].state # "I" => blk'[Locked(j)].tag = frames'[j].tag
  BY <1>1, <1>3, <1>5 DEF ReliesOn
<1>9. frames'[j].kind = "readUD" /\ frames'[j].ev = "finish" => blk'[Locked(j)].state # "I"
  BY <1>3, <1>5, <1>6 DEF ReliesOn
<1>10. /\ frames'[j].kind = "writeUD" /\ frames'[j].ev \in {"exclusive", "finish"} =>
            dir'[Locked(j)].sharers \subseteq {frames'[j].from}
       /\ frames'[j].kind = "writeDU" /\ frames'[j].ev = "exclusive" =>
            dir'[Locked(j)].sharers \subseteq {frames'[j].from}
  BY <1>3, <1>5, <1>7 DEF ReliesOn
<1>11. frames'[j].kind = "evict" => dir'[Source(j)].sharers = {}
  BY <1>4, <1>5 DEF ReliesOn
<1> QED  BY <1>1, <1>8, <1>9, <1>10, <1>11 DEF ReliesOn

\* Frames that act change an entry that one of them holds, or nobody.
LEMMA ActsData ==
  ASSUME IInv, NEW X, NEW F, Acts(X, F), IsFunction(F),
         \/ frames' = F
         \/ \E e \in Entry : frames' = Wake(F, e),
         NEW d \in Entry,
         \A e \in Entry \ {d} : blk'[e] = blk[e] /\ dir'[e] = dir[e],
         lock[d] = None \/ \E x \in X : Holds(x, d),
         EntryOK(d)',
         \A x \in X \cap DOMAIN F : ReliesOn(x)',
         \A n \in DOMAIN F \ InFlight : ReliesOn(n)'
  PROVE  /\ \A e \in Entry : EntryOK(e)'
         /\ \A j \in InFlight' : ReliesOn(j)'
<1>1. /\ InFlight' = DOMAIN F
      /\ \A j \in InFlight \ X : Stays(j)
  BY ActsFrames
<1>2. ASSUME NEW e \in Entry  PROVE EntryOK(e)'
  BY <1>2 DEF EntryOK, IInv
<1>3. ASSUME NEW j \in InFlight \ X  PROVE ReliesOn(j)'
  <2>1. Stays(j) /\ ReliesOn(j)  BY <1>1 DEF IInv
  <2>2. ASSUME NEW p \in InFlight \ X  PROVE ~Holds(p, d)
    BY DEF IInv, HeldOnce, Acts
  <2>3. ASSUME frames[j].kind = "evict"  PROVE Source(j) # d
    <3>1. frames[j].ret \in InFlight /\ Holds(frames[j].ret, Source(j))
      BY <2>3, CallerHolds
    <3>2. frames[j].ret \notin X
      BY <1>1, <2>3 DEF Acts, AccessKind
    <3> QED  BY <2>2, <3>1, <3>2
  <2> QED  BY <2>1, <2>2, <2>3, StillRelies
<1> QED  BY <1>1, <1>2, <1>3

\* Blocks and directories stay as they are.
LEMMA ActsNoData ==
  ASSUME IInv, NEW X, NEW F, Acts(X, F), IsFunction(F),
         \/ frames' = F
         \/ \E e \in Entry : frames' = Wake(F, e),
         UNCHANGED <<blk, dir>>,
         \A x \in X \cap DOMAIN F : ReliesOn(x)',
         \A n \in DOMAIN F \ InFlight : ReliesOn(n)'
  PROVE  /\ \A e \in Entry : EntryOK(e)'
         /\ \A j \in InFlight' : ReliesOn(j)'
<1>1. /\ InFlight' = DOMAIN F
      /\ \A j \in InFlight \ X : Stays(j)
  BY ActsFrames
<1>2. ASSUME NEW e \in Entry  PROVE EntryOK(e)'
  BY <1>2 DEF EntryOK, IInv
<1>3. ASSUME NEW j \in InFlight \ X  PROVE ReliesOn(j)'
  <2>1. Stays(j) /\ ReliesOn(j)  BY <1>1 DEF IInv
  <2>2. /\ Locked(j)' = Locked(j) /\ Source(j)' = Source(j)
        /\ Locks(j)' <=> Locks(j)
    BY <2>1, StaysThere
  <2> QED  BY <2>1, <2>2 DEF ReliesOn, Stays
<1> QED  BY <1>1, <1>2, <1>3

-----------------------------------------------------------------------------
(***************************************************************************)
(* The invariant after a step.                                             *)
(***************************************************************************)
DataTyped ==
  /\ blk \in [Entry -> [tag : Tag \cup {None}, state : State]]
  /\ dir \in [Entry -> [owner : Mod \cup {None}, sharers : SUBSET Mod]]
  /\ lock \in [Entry -> Tag \cup {None}]

\* Only the block and the directory of entry d change.
ChangesOnly(d) ==
  /\ \A e \in Entry \ {d} : blk'[e] = blk[e] /\ dir'[e] = dir[e]
  /\ EntryOK(d)'

Preserved == IInv' /\ MutexKept

LEMMA StepData ==
  ASSUME IInv, NEW X, NEW F, Acts(X, F), IsFunction(F),
         \/ frames' = F /\ queue' = queue
         \/ \E e \in Entry : frames' = Wake(F, e) /\ Dequeue(e),
         \A x \in X \cap DOMAIN F : F[x].ev # "lockWait" /\ FrameOK(x)',
         \A n \in DOMAIN F \ InFlight :
           /\ F[n].ev # "lockWait" /\ FrameOK(n)' /\ CallOK(n)'
           /\ \A e : ~Holds(n, e)',
         DataTyped',
         \A e \in Entry : EntryOK(e)',
         \A j \in InFlight' : ReliesOn(j)',
         OthersHold(X) => MutexKept
  PROVE  Preserved
<1>1. \/ frames' = F
      \/ \E e \in Entry : frames' = Wake(F, e)
  OBVIOUS
<1>2. /\ InFlight' = DOMAIN F
      /\ \A j \in InFlight \ X : Stays(j)
  BY <1>1, ActsFrames
<1>3. /\ \A j \in InFlight' : Named(j, frames)' /\ FrameOK(j)' /\ CallOK(j)'
      /\ \A j \in InFlight \ X : \A e : Holds(j, e)' <=> Holds(j, e)
  BY <1>1, ActsTree
<1>4. /\ queue' \in [Entry -> Seq(InFlight')]
      /\ \A e \in Entry : QueueOK(e)'
  <2>1. \A x \in DOMAIN F : x \notin InFlight \ X => F[x].ev # "lockWait"
    OBVIOUS
  <2> QED  BY <2>1, ActsQueue
<1>5. OthersHold(X)
  BY <1>2, <1>3 DEF OthersHold, Acts, Stays
<1>6. Entry' = Entry  BY DEF Entry
<1>7. TypeOK'
  <2>1. ASSUME NEW j \in InFlight'
        PROVE  LET f == frames'[j] IN
               /\ j = <<j[1], f.ret, f.kind, j[4]>> /\ j[1] \in Access
               /\ IF f.kind \in AccessKind THEN f.ret = None ELSE f.ret \in InFlight'
               /\ f \in Frame(f.ret)
    BY <1>3 DEF Named, InFlight
  <2> QED  BY <1>4, <1>6, <2>1 DEF TypeOK, DataTyped
<1>8. IInv'  BY <1>3, <1>4, <1>5, <1>6, <1>7 DEF IInv, MutexKept
<1> QED  BY <1>5, <1>8 DEF Preserved

LEMMA StepInv ==
  ASSUME IInv, NEW X, NEW F, Acts(X, F), IsFunction(F),
         \/ frames' = F /\ queue' = queue
         \/ \E e \in Entry : frames' = Wake(F, e) /\ Dequeue(e),
         \A x \in X \cap DOMAIN F :
           F[x].ev # "lockWait" /\ FrameOK(x)' /\ ReliesOn(x)',
         \A n \in DOMAIN F \ InFlight :
           /\ F[n].ev # "lockWait" /\ FrameOK(n)' /\ CallOK(n)' /\ ReliesOn(n)'
           /\ \A e : ~Holds(n, e)',
         DataTyped',
         \/ UNCHANGED <<blk, dir>>
         \/ \E d \in Entry :
              ChangesOnly(d) /\ (lock[d] = None \/ \E x \in X : Holds(x, d)),
         OthersHold(X) => MutexKept
  PROVE  Preserved
<1>1. \/ frames' = F
      \/ \E e \in Entry : frames' = Wake(F, e)
  OBVIOUS
<1>2. /\ \A e \in Entry : EntryOK(e)'
      /\ \A j \in InFlight' : ReliesOn(j)'
  <2>1. CASE UNCHANGED <<blk, dir>>  BY <1>1, <2>1, ActsNoData
  <2>2. ASSUME NEW d \in Entry, ChangesOnly(d), lock[d] = None \/ \E x \in X : Holds(x, d)
        PROVE  /\ \A e \in Entry : EntryOK(e)'
               /\ \A j \in InFlight' : ReliesOn(j)'
    <3>1. EntryOK(d)' /\ \A e \in Entry \ {d} : blk'[e] = blk[e] /\ dir'[e] = dir[e]
      BY <2>2 DEF ChangesOnly
    <3> QED  BY <1>1, <2>2, <3>1, ActsData
  <2> QED  BY <2>1, <2>2
<1> QED  BY <1>2, StepData

-----------------------------------------------------------------------------
(***************************************************************************)
(* One frame acts: it has called nobody who is still there.                *)
(***************************************************************************)
Idle(k) == k \in InFlight /\ Children(k) = {} /\ frames[k].ev # "lockWait"

LEMMA NobodyCalled ==
  ASSUME IInv, NEW k, Idle(k), NEW c \in InFlight, frames[c].kind \notin AccessKind
  PROVE  frames[c].ret # k
BY DEF Idle, Children

LEMMA NotEvicting ==
  ASSUME IInv, NEW k, Idle(k)
  PROVE  frames[k].ev # "evicting"
<1>1. SUFFICES ASSUME frames[k].ev = "evicting"  PROVE FALSE  OBVIOUS
<1>2. /\ EvictKey(k) \in InFlight /\ frames[EvictKey(k)].kind = "evict"
      /\ frames[EvictKey(k)].ret = k
  BY <1>1, Evictor DEF Idle
<1> QED  BY <1>2, NobodyCalled DEF AccessKind

\* The caller of a frame waits for it.
LEMMA CallerWaits ==
  ASSUME IInv, NEW k, Idle(k), frames[k].kind \notin AccessKind
  PROVE  LET p == frames[k].ret IN
         /\ p \in InFlight /\ p # k
         /\ frames[p].ev \in {"evicting", "invalid", "exclusive", "miss", "finish",
                              "unlock", "ncAction", "ncMiss"}
<1>0. PICK p : p = frames[k].ret  OBVIOUS
<1>1. p \in InFlight /\ k \in InFlight /\ CallOK(k) /\ FrameOK(p)
  BY <1>0 DEF IInv, TypeOK, Idle
<1>2. p # k  BY <1>0, <1>1, NobodyCalled
<1>3. frames[k].kind \in Kind  BY <1>1 DEF IInv, TypeOK, Frame
<1>4. frames[k].kind \in {"readUD", "readDU", "writeUD", "writeDU",
                          "evict", "invalidate", "message"}
  BY <1>3, TreeAssumption DEF Kind, AccessKind
<1>5. frames[p].ev \in {"evicting", "invalid", "exclusive", "miss", "finish",
                        "unlock", "ncAction", "ncMiss"}
  BY <1>0, <1>1, <1>4 DEF CallOK, FrameOK
<1> QED  BY <1>0, <1>1, <1>2, <1>5

LEMMA KeptSame == ASSUME IInv, NEW j \in InFlight  PROVE Kept(frames[j], frames[j])
<1>1. frames[j] \in Frame(frames[j].ret) /\ FrameOK(j)  BY DEF IInv, TypeOK
<1> QED  BY <1>1 DEF Kept, FrameOK

\* The results that a frame leaves in its caller.
LEMMA KeptResults ==
  ASSUME IInv, NEW p \in InFlight,
         frames[p].ev \in {"evicting", "invalid", "exclusive", "miss", "finish",
                           "unlock", "ncAction", "ncMiss"}
  PROVE  /\ \A v \in BOOLEAN : Kept(frames[p], [frames[p] EXCEPT !.err = v])
         /\ \A v \in BOOLEAN : Kept(frames[p], [frames[p] EXCEPT !.shared = v])
         /\ \A r \in DOMAIN Precedence, v \in BOOLEAN :
              (frames[p].kind = "readDU" => r \in {"none", "ack", "ack_data"})
              => /\ Kept(frames[p], [frames[p] EXCEPT !.reply = r])
                 /\ Kept(frames[p], [frames[p] EXCEPT !.reply = r, !.retain = v])
<1>1. frames[p] \in Frame(frames[p].ret) /\ FrameOK(p)  BY DEF IInv, TypeOK
<1>2. frames[p].kind = "readDU" => frames[p].reply \in {"none", "ack", "ack_data"}
  BY <1>1 DEF FrameOK
<1>3. ASSUME NEW v \in BOOLEAN  PROVE Kept(frames[p], [frames[p] EXCEPT !.err = v])
  BY <1>1, <1>2 DEF Kept, Frame
<1>4. ASSUME NEW v \in BOOLEAN  PROVE Kept(frames[p], [frames[p] EXCEPT !.shared = v])
  BY <1>1, <1>2 DEF Kept, Frame
<1>5. ASSUME NEW r \in DOMAIN Precedence, NEW v \in BOOLEAN,
             frames[p].kind = "readDU" => r \in {"none", "ack", "ack_data"}
      PROVE  /\ Kept(frames[p], [frames[p] EXCEPT !.reply = r])
             /\ Kept(frames[p], [frames[p] EXCEPT !.reply = r, !.retain = v])
  BY <1>1, <1>5 DEF Kept, Frame
<1> QED  BY <1>3, <1>4, <1>5

LEMMA OneActs ==
  ASSUME IInv, NEW k, Idle(k), NEW F,
         \A j \in InFlight \ {k} : j \in DOMAIN F /\ Kept(frames[j], F[j]),
         \/ k \in DOMAIN F /\ SameCall(frames[k], F[k])
         \/ k \notin DOMAIN F /\ frames[k].kind # "evict",
         \A n \in DOMAIN F \ InFlight : Named(n, F)
  PROVE  Acts({k}, F)
<1>1. ASSUME NEW j \in InFlight \ {k}, frames[j].ev = "evicting"
      PROVE  EvictKey(j) \in DOMAIN F
  <2>1. EvictKey(j) \in InFlight /\ frames[EvictKey(j)].kind = "evict"
    BY <1>1, Evictor
  <2> QED  BY <2>1
<1>2. ASSUME NEW c \in DOMAIN F \cap InFlight, frames[c].kind \notin AccessKind
      PROVE  frames[c].ret \notin {k}
  BY <1>2, NobodyCalled
<1> QED  BY <1>1, <1>2 DEF Acts, Idle

LEMMA OneFrame ==
  ASSUME IInv, NEW k, Idle(k), NEW F, IsFunction(F),
         Acts({k}, F),
         \/ frames' = F
         \/ \E e \in Entry : frames' = Wake(F, e)
  PROVE  /\ InFlight' = DOMAIN F
         /\ k \in DOMAIN F => frames'[k] = F[k]
         /\ \A e : Holds(k, e) <=> Locks(k) /\ e = Locked(k)
<1>1. InFlight' = DOMAIN F /\ (k \in DOMAIN F => frames'[k] = F[k])
  BY ActsFrames
<1>2. frames[k].ev # "evicting"  BY NotEvicting
<1> QED  BY <1>1, <1>2 DEF Holds

\* A frame is over, or tells its caller that it is, or locks its entry anew.
LetsGo(k, F) ==
  \/ k \notin DOMAIN F /\ frames[k].kind # "evict"
  \/ /\ k \in DOMAIN F /\ F[k] = [frames[k] EXCEPT !.ev = "reply"]
     /\ frames[k].kind \notin AccessKind \cup {"invalidate"}
  \/ /\ k \in DOMAIN F /\ F[k] \in Frame(frames[k].ret) /\ F[k].ev = "lock"
     /\ F[k].kind = frames[k].kind /\ frames[k].kind \in AccessKind

LEMMA LetsGoActs ==
  ASSUME IInv, NEW k, Idle(k), NEW F, IsFunction(F),
         DOMAIN F \subseteq InFlight,
         \A j \in InFlight \ {k} : j \in DOMAIN F /\ Kept(frames[j], F[j]),
         LetsGo(k, F),
         \/ frames' = F
         \/ \E e \in Entry : frames' = Wake(F, e),
         frames[k].kind = "evict" => dir'[Source(k)].sharers = {}
  PROVE  /\ Acts({k}, F)
         /\ k \in DOMAIN F =>
              F[k].ev # "lockWait" /\ FrameOK(k)' /\ ReliesOn(k)'
         /\ \A e : Holds(k, e) <=> Locks(k) /\ e = Locked(k)
         /\ k \in InFlight' => \A e : ~Holds(k, e)'
<1>0. k \in InFlight /\ frames[k] \in Frame(frames[k].ret) /\ FrameOK(k)
  BY DEF IInv, TypeOK, Idle
<1>1. k \in DOMAIN F => SameCall(frames[k], F[k])
  BY <1>0 DEF LetsGo, SameCall, Frame, EventKind
<1>2. Acts({k}, F)
  BY <1>1, OneActs DEF LetsGo
<1>3. /\ InFlight' = DOMAIN F
      /\ k \in DOMAIN F => frames'[k] = F[k]
      /\ \A e : Holds(k, e) <=> Locks(k) /\ e = Locked(k)
  BY <1>2, OneFrame
<1>4. ASSUME k \in DOMAIN F
      PROVE  /\ F[k].ev \in {"reply", "lock"} /\ ~Locks(k)'
             /\ F[k].kind = frames[k].kind /\ F[k].kind # "invalidate"
             /\ F[k].kind \notin AccessKind =>
                  F[k] = [frames[k] EXCEPT !.ev = "reply"]
  BY <1>0, <1>3, <1>4 DEF LetsGo, Locks, Frame, AccessKind
<1>5. ASSUME k \in DOMAIN F  PROVE FrameOK(k)'
  <2>1. CASE F[k].kind \in AccessKind
    BY <1>3, <1>4, <1>5, <2>1 DEF FrameOK, AccessKind
  <2>2. CASE F[k].kind \notin AccessKind
    <3>1. /\ F[k].from = frames[k].from /\ F[k].at = frames[k].at
          /\ F[k].src = frames[k].src /\ F[k].reply = frames[k].reply
          /\ F[k].ev = "reply"
      BY <1>0, <1>4, <1>5, <2>2 DEF Frame
    <3>2. Source(k)' = Source(k) /\ Entry' = Entry
      BY <1>3, <1>5, <3>1 DEF Source, Entry
    <3> QED  BY <1>0, <1>3, <1>4, <1>5, <3>1, <3>2 DEF FrameOK
  <2> QED  BY <2>1, <2>2
<1>6. ASSUME k \in DOMAIN F  PROVE ReliesOn(k)'
  <2>1. F[k].kind = "evict" => Source(k)' = Source(k)
    BY <1>0, <1>3, <1>4, <1>6 DEF Source, Frame, AccessKind
  <2> QED  BY <1>3, <1>4, <1>6, <2>1 DEF ReliesOn
<1>7. k \in InFlight' => \A e : ~Holds(k, e)'
  BY <1>3, <1>4 DEF Holds
<1> QED  BY <1>2, <1>3, <1>4, <1>5, <1>6, <1>7

\* It has locked nothing, or forgets it.
LEMMA Leaves ==
  ASSUME IInv, NEW k, Idle(k), NEW F, IsFunction(F),
         DOMAIN F \subseteq InFlight,
         \A j \in InFlight \ {k} : j \in DOMAIN F /\ Kept(frames[j], F[j]),
         LetsGo(k, F),
         ~Locks(k) \/ "nc" \in Ops,
         frames' = F, UNCHANGED <<blk, dir, lock, queue>>
  PROVE  Preserved
<1>1. ReliesOn(k)  BY DEF IInv, Idle
<1>2. frames[k].kind = "evict" => dir'[Source(k)].sharers = {}
  BY <1>1 DEF ReliesOn
<1>3. /\ Acts({k}, F)
      /\ k \in DOMAIN F => F[k].ev # "lockWait" /\ FrameOK(k)' /\ ReliesOn(k)'
      /\ \A e : Holds(k, e) <=> Locks(k) /\ e = Locked(k)
      /\ k \in InFlight' => \A e : ~Holds(k, e)'
  BY <1>2, LetsGoActs
<1>4. OthersHold({k}) => MutexKept
  BY <1>3, KeepLocks
<1>5. DataTyped'  BY DEF DataTyped, IInv, TypeOK, Entry
<1> QED  BY <1>3, <1>4, <1>5, StepInv

\* It unlocks its entry, whose block and directory it may have changed.
LEMMA Unlocks ==
  ASSUME IInv, NEW k, Idle(k), NEW F, IsFunction(F),
         DOMAIN F \subseteq InFlight,
         \A j \in InFlight \ {k} : j \in DOMAIN F /\ Kept(frames[j], F[j]),
         LetsGo(k, F),
         Locks(k), NEW d, d = Locked(k), frames' = Wake(F, d), Unlock(d),
         blk' \in [Entry -> [tag : Tag \cup {None}, state : State]],
         dir' \in [Entry -> [owner : Mod \cup {None}, sharers : SUBSET Mod]],
         ChangesOnly(d),
         frames[k].kind = "evict" => dir'[Source(k)].sharers = {}
  PROVE  Preserved
<1>1. d \in Entry  BY DEF IInv, FrameOK, Idle
<1>2. /\ Acts({k}, F)
      /\ k \in DOMAIN F => F[k].ev # "lockWait" /\ FrameOK(k)' /\ ReliesOn(k)'
      /\ \A e : Holds(k, e) <=> Locks(k) /\ e = d
      /\ k \in InFlight' => \A e : ~Holds(k, e)'
  BY <1>1, LetsGoActs
<1>3. lock' = [lock EXCEPT ![d] = None] /\ Dequeue(d) /\ frames' = Wake(F, d)
  BY DEF Unlock, Dequeue
<1>4. /\ \A e : Holds(k, e) <=> e = d
      /\ k \in InFlight' => \A e : ~Holds(k, e)'
  BY <1>2
<1>5. OthersHold({k}) => MutexKept
  BY ONLY IInv, <1>1, <1>3, <1>4, ReleaseOne
<1>6. lock' \in [Entry -> Tag \cup {None}]
  BY <1>1, <1>3 DEF IInv, TypeOK
<1>7. DataTyped'  BY <1>6 DEF DataTyped, Entry
<1>8. \E e \in Entry :
        ChangesOnly(e) /\ (lock[e] = None \/ \E x \in {k} : Holds(x, e))
  BY <1>1, <1>2
<1>9. \E e \in Entry : frames' = Wake(F, e) /\ Dequeue(e)
  BY <1>1, <1>3
<1> QED  BY <1>2, <1>5, <1>7, <1>8, <1>9, StepInv

\* What is left of a frame that tells its caller a result.
LEMMA TellsCaller ==
  ASSUME IInv, NEW k, Idle(k), frames[k].kind \notin AccessKind \cup {"invalidate"},
         NEW F, DOMAIN F = InFlight, F[k] = [frames[k] EXCEPT !.ev = "reply"],
         \A j \in InFlight \ {k} :
           \/ F[j] = frames[j]
           \/ j = frames[k].ret /\ Kept(frames[j], F[j])
  PROVE  /\ \A j \in InFlight \ {k} : j \in DOMAIN F /\ Kept(frames[j], F[j])
         /\ LetsGo(k, F)
<1>1. ASSUME NEW j \in InFlight \ {k}  PROVE Kept(frames[j], F[j])
  <2>1. CASE F[j] = frames[j]  BY <2>1, KeptSame
  <2>2. CASE F[j] # frames[j]  BY <1>1, <2>2
  <2> QED  BY <2>1, <2>2
<1> QED  BY <1>1 DEF LetsGo, Idle

\* A request that finds an error passes it on.
ErrorPassed(k) == [frames EXCEPT ![k].ev = "reply", ![frames[k].ret].err = TRUE]

LEMMA PassesError ==
  ASSUME IInv, NEW k, Idle(k), frames[k].kind \notin AccessKind \cup {"invalidate"},
         NEW F, F = ErrorPassed(k)
  PROVE  /\ DOMAIN F = InFlight /\ IsFunction(F)
         /\ \A j \in InFlight \ {k} : j \in DOMAIN F /\ Kept(frames[j], F[j])
         /\ LetsGo(k, F)
<1>0. PICK p : p = frames[k].ret  OBVIOUS
<1>1. /\ k \in InFlight /\ p \in InFlight /\ p # k
      /\ frames[p].ev \in {"evicting", "invalid", "exclusive", "miss", "finish",
                           "unlock", "ncAction", "ncMiss"}
  BY <1>0, CallerWaits DEF Idle
<1>2. Kept(frames[p], [frames[p] EXCEPT !.err = TRUE])  BY <1>1, KeptResults
<1>3. F = [frames EXCEPT ![k].ev = "reply", ![p].err = TRUE]  BY <1>0 DEF ErrorPassed
<1>4. /\ DOMAIN F = InFlight /\ IsFunction(F)
      /\ F[k] = [frames[k] EXCEPT !.ev = "reply"]
      /\ F[p] = [frames[p] EXCEPT !.err = TRUE]
      /\ \A j \in InFlight \ {k, p} : F[j] = frames[j]
  BY <1>1, <1>3 DEF InFlight, IsFunction
<1>5. \A j \in InFlight \ {k} :
        \/ F[j] = frames[j]
        \/ j = frames[k].ret /\ Kept(frames[j], F[j])
  BY <1>0, <1>2, <1>4
<1> QED
  BY ONLY IInv, Idle(k), frames[k].kind \notin AccessKind \cup {"invalidate"},
          <1>4, <1>5, TellsCaller

LEMMA ErrorReply ==
  ASSUME IInv, NEW k, Idle(k), frames[k].kind \notin AccessKind \cup {"invalidate"},
         ~Locks(k),
         frames' = ErrorPassed(k),
         UNCHANGED <<blk, dir, lock, queue>>
  PROVE  Preserved
<1>1. PICK F : F = ErrorPassed(k)  OBVIOUS
<1>2. /\ DOMAIN F = InFlight /\ IsFunction(F)
      /\ \A j \in InFlight \ {k} : j \in DOMAIN F /\ Kept(frames[j], F[j])
      /\ LetsGo(k, F)
  BY <1>1, PassesError
<1>3. frames' = F  BY <1>1
<1> QED
  BY ONLY IInv, Idle(k), ~Locks(k), UNCHANGED <<blk, dir, lock, queue>>,
          <1>2, <1>3, Leaves

\* A request that fails after it has locked its entry unlocks it.
LEMMA ErrorUnlocks ==
  ASSUME IInv, NEW k, Idle(k), frames[k].kind \notin AccessKind \cup {"invalidate", "evict"},
         Locks(k), NEW d, d = Locked(k),
         frames' = Wake(ErrorPassed(k), d),
         Unlock(d), UNCHANGED <<blk, dir>>
  PROVE  Preserved
<1>1. PICK F : F = ErrorPassed(k)  OBVIOUS
<1>2. /\ DOMAIN F = InFlight /\ IsFunction(F)
      /\ \A j \in InFlight \ {k} : j \in DOMAIN F /\ Kept(frames[j], F[j])
      /\ LetsGo(k, F)
  BY <1>1, PassesError
<1>3. frames' = Wake(F, d)  BY <1>1
<1>4. d \in Entry  BY DEF IInv, FrameOK, Idle
<1>5. ChangesOnly(d)  BY <1>4 DEF ChangesOnly, EntryOK, IInv
<1>6. /\ blk' \in [Entry -> [tag : Tag \cup {None}, state : State]]
      /\ dir' \in [Entry -> [owner : Mod \cup {None}, sharers : SUBSET Mod]]
  BY DEF IInv, TypeOK
<1> QED
  BY ONLY IInv, Idle(k), Locks(k), d = Locked(k), Unlock(d),
          frames[k].kind \notin AccessKind \cup {"invalidate", "evict"},
          <1>2, <1>3, <1>5, <1>6, Unlocks

-----------------------------------------------------------------------------
(***************************************************************************)
(* A frame that has locked an entry goes on, and may call others.          *)
(***************************************************************************)
Continues(k, g) ==
  LET f == frames[k] IN
  /\ g \in Frame(f.ret)
  /\ g.kind = f.kind /\ g.from = f.from /\ g.at = f.at /\ g.tag = f.tag
  /\ g.way = f.way /\ g.src = f.src /\ g.state = f.state /\ g.peer = f.peer
  /\ g.reply = f.reply
  /\ g.ev \in {"exclusive", "miss", "finish", "unlock", "ncAction", "ncMiss"}

\* A frame that has just been called.
Started(n) ==
  /\ Named(n, frames) /\ frames[n].ev # "lockWait"
  /\ FrameOK(n) /\ CallOK(n) /\ ReliesOn(n)
  /\ \A e : ~Holds(n, e)

LEMMA DataSame ==
  ASSUME IInv, UNCHANGED <<blk, dir>>, NEW d \in Entry
  PROVE  /\ blk' \in [Entry -> [tag : Tag \cup {None}, state : State]]
         /\ dir' \in [Entry -> [owner : Mod \cup {None}, sharers : SUBSET Mod]]
         /\ ChangesOnly(d)
<1>1. EntryOK(d)'  BY DEF EntryOK, IInv
<1> QED  BY <1>1 DEF IInv, TypeOK, ChangesOnly

LEMMA GoesOn ==
  ASSUME IInv, NEW k, Idle(k), Locks(k), NEW d, d = Locked(k),
         NEW g, Continues(k, g), NEW S, S \cap InFlight = {},
         NEW F, IsFunction(F), DOMAIN F = InFlight \cup S,
         F[k] = g, \A j \in InFlight \ {k} : F[j] = frames[j],
         frames' = F, UNCHANGED <<lock, queue>>,
         \A n \in S : Started(n)',
         blk' \in [Entry -> [tag : Tag \cup {None}, state : State]],
         dir' \in [Entry -> [owner : Mod \cup {None}, sharers : SUBSET Mod]],
         ChangesOnly(d), ReliesOn(k)'
  PROVE  Preserved
<1>0. k \in InFlight /\ FrameOK(k) /\ d \in Entry /\ Entry' = Entry
  BY DEF IInv, Idle, FrameOK, Entry
<1>1. /\ SameCall(frames[k], F[k]) /\ frames[k].kind # "invalidate"
      /\ F[k].ev # "lockWait"
  BY DEF Continues, SameCall, Locks
<1>2. \A j \in InFlight \ {k} : j \in DOMAIN F /\ Kept(frames[j], F[j])
  BY KeptSame
<1>3. \A n \in DOMAIN F \ InFlight :
        /\ Named(n, F) /\ F[n].ev # "lockWait"
        /\ FrameOK(n)' /\ CallOK(n)' /\ ReliesOn(n)'
        /\ \A e : ~Holds(n, e)'
  BY DEF Started, Named
<1>4. Acts({k}, F)  BY <1>0, <1>1, <1>2, <1>3, OneActs
<1>5. /\ InFlight' = DOMAIN F /\ k \in InFlight' /\ frames'[k] = F[k]
      /\ \A e : Holds(k, e) <=> Locks(k) /\ e = d
  BY <1>0, <1>4, OneFrame
<1>6. Locked(k)' = d /\ Source(k)' = Source(k)
  BY <1>5 DEF Continues, Locked, Source
<1>7. Locks(k)'  BY <1>1, <1>5 DEF Continues, Locks
<1>8. FrameOK(k)'
  BY <1>0, <1>1, <1>5, <1>6 DEF FrameOK, Continues
<1>9. \A e : Holds(k, e)' <=> Holds(k, e)
  <2>1. frames'[k].ev # "evicting"  BY <1>5 DEF Continues
  <2> QED  BY <1>5, <1>6, <1>7, <2>1 DEF Holds
<1>10. OthersHold({k}) => MutexKept
  BY <1>5, <1>9, KeepLocks
<1>11. lock' \in [Entry -> Tag \cup {None}]  BY DEF IInv, TypeOK
<1>12. DataTyped'  BY <1>0, <1>11 DEF DataTyped
<1>13. \E e \in Entry :
         ChangesOnly(e) /\ (lock[e] = None \/ \E x \in {k} : Holds(x, e))
  BY <1>0, <1>5
<1>14. frames' = F /\ queue' = queue  OBVIOUS
<1>15. \A x \in {k} \cap DOMAIN F :
         F[x].ev # "lockWait" /\ FrameOK(x)' /\ ReliesOn(x)'
  BY <1>1, <1>8
<1> QED
  BY ONLY IInv, IsFunction(F), <1>3, <1>4, <1>10, <1>12, <1>13, <1>14, <1>15, StepInv

\* What frame k relies on when nothing changes but the frame itself.
Fits(k, g) ==
  LET e == Locked(k) IN
  /\ g.kind = "readUD" /\ g.ev = "finish" => blk[e].state # "I"
  /\ g.kind = "writeUD" /\ g.ev \in {"exclusive", "finish"} =>
       dir[e].sharers \subseteq {g.from}
  /\ g.kind = "writeDU" /\ g.ev = "exclusive" => dir[e].sharers \subseteq {g.from}

LEMMA GoesOnSame ==
  ASSUME IInv, NEW k, Idle(k), Locks(k), NEW g, Continues(k, g), Fits(k, g),
         NEW S, S \cap InFlight = {},
         NEW F, IsFunction(F), DOMAIN F = InFlight \cup S,
         F[k] = g, \A j \in InFlight \ {k} : F[j] = frames[j],
         frames' = F, UNCHANGED <<blk, dir, lock, queue>>,
         \A n \in S : Started(n)'
  PROVE  Preserved
<1>1. PICK d : d = Locked(k)  OBVIOUS
<1>2. d \in Entry /\ ReliesOn(k)  BY <1>1 DEF IInv, Idle, FrameOK
<1>3. /\ blk' \in [Entry -> [tag : Tag \cup {None}, state : State]]
      /\ dir' \in [Entry -> [owner : Mod \cup {None}, sharers : SUBSET Mod]]
      /\ ChangesOnly(d)
  BY <1>2, DataSame
<1>4. frames'[k] = g  OBVIOUS
<1>5. Locked(k)' = Locked(k) /\ Source(k)' = Source(k)
  BY <1>4 DEF Continues, Locked, Source
<1>6. g.kind = frames[k].kind /\ g.ev # "action"
  BY DEF Continues
<1>7. ReliesOn(k)'
  BY <1>2, <1>4, <1>5, <1>6 DEF ReliesOn, Fits
<1>8. UNCHANGED <<lock, queue>>  OBVIOUS
<1> QED
  BY ONLY IInv, Idle(k), Locks(k), Continues(k, g), S \cap InFlight = {},
          IsFunction(F), DOMAIN F = InFlight \cup S, F[k] = g, frames' = F,
          \A j \in InFlight \ {k} : F[j] = frames[j], \A n \in S : Started(n)',
          <1>1, <1>3, <1>7, <1>8, GoesOn

\* Frame k calls a request or a message r, and goes on as g.
Calling(k, g, r) ==
  /\ r \in Frame(k) /\ r.ev = "lock" /\ r.state = "I" /\ r.reply = "none"
  /\ \/ r.kind = "readUD" /\ r.at = Low[r.from] /\ g.ev \in {"miss", "ncMiss"}
     \/ r.kind = "readDU" /\ g.ev = "finish" /\ (g.kind = "readDU" => ~r.peer)
     \/ r.kind = "writeUD" /\ r.at = Low[r.from] /\ g.ev \in {"unlock", "finish"}
     \/ r.kind = "message" /\ g.ev = "ncMiss"

LEMMA Fresh ==
  ASSUME IInv, NEW k, k \in InFlight => Children(k) = {},
         NEW kind, kind \notin AccessKind, NEW m
  PROVE  Call(k, kind, m) \notin InFlight
<1>1. SUFFICES ASSUME Call(k, kind, m) \in InFlight  PROVE FALSE  OBVIOUS
<1>2. PICK c \in InFlight : c = Call(k, kind, m)  BY <1>1
<1>3. c = <<c[1], frames[c].ret, frames[c].kind, c[4]>>  BY DEF IInv, TypeOK
<1>4. frames[c].ret = k /\ frames[c].kind = kind
  BY <1>2, <1>3 DEF Call
<1>5. k \in InFlight  BY <1>4 DEF IInv, TypeOK
<1> QED  BY <1>4, <1>5 DEF Children

LEMMA CallsOne ==
  ASSUME IInv, NEW k, Idle(k), Locks(k), NEW g, Continues(k, g), Fits(k, g),
         NEW r, Calling(k, g, r), NEW m,
         frames' = Adding([j \in {Call(k, r.kind, m)} |-> r], [frames EXCEPT ![k] = g]),
         UNCHANGED <<blk, dir, lock, queue>>
  PROVE  Preserved
<1>1. PICK c : c = Call(k, r.kind, m)  OBVIOUS
<1>2. r.kind \in {"readUD", "readDU", "writeUD", "message"} /\ r.kind \notin AccessKind
  BY DEF Calling, AccessKind
<1>3. c \notin InFlight /\ k \in InFlight
  BY <1>1, <1>2, Fresh DEF Idle
<1>4. PICK F : F = Adding([j \in {c} |-> r], [frames EXCEPT ![k] = g])  OBVIOUS
<1>5. frames' = F  BY <1>1, <1>4
<1>6. /\ IsFunction(F) /\ DOMAIN F = InFlight \cup {c}
      /\ F[c] = r /\ F[k] = g /\ \A j \in InFlight \ {k} : F[j] = frames[j]
  BY <1>3, <1>4 DEF Adding, IsFunction, InFlight
<1>7. frames'[c] = r /\ frames'[k] = g /\ InFlight' = InFlight \cup {c}
  BY <1>5, <1>6 DEF InFlight
<1>8. c = <<c[1], k, r.kind, c[4]>> /\ c[1] = k[1] /\ c[1] \in Access /\ r.ret = k
      /\ r.ev = "lock"
  BY <1>1, <1>3 DEF Call, IInv, TypeOK, Calling, Frame
<1>9. Named(c, frames)'
  BY <1>2, <1>3, <1>7, <1>8 DEF Named, Calling, InFlight
<1>10. ~Locks(c)'  BY <1>7, <1>8 DEF Locks
<1>11. FrameOK(c)'
  BY <1>2, <1>7, <1>8, <1>10 DEF FrameOK, Calling
<1>12. CallOK(c)'
  BY <1>2, <1>7, <1>8 DEF CallOK, Calling
<1>13. ReliesOn(c)'
  BY <1>2, <1>7, <1>8 DEF ReliesOn
<1>14. \A e : ~Holds(c, e)'
  BY <1>7, <1>8, <1>10 DEF Holds
<1>15. \A n \in {c} : Started(n)'
  BY <1>7, <1>8, <1>9, <1>11, <1>12, <1>13, <1>14 DEF Started
<1>16. {c} \cap InFlight = {}  BY <1>3
<1> QED
  BY ONLY IInv, Idle(k), Locks(k), Continues(k, g), Fits(k, g), <1>5, <1>6, <1>15,
          <1>16, UNCHANGED <<blk, dir, lock, queue>>, GoesOnSame

LEMMA GoesAlone ==
  ASSUME IInv, NEW k, Idle(k), Locks(k),
         NEW v \in {"exclusive", "miss", "finish", "unlock", "ncAction", "ncMiss"},
         Fits(k, [frames[k] EXCEPT !.ev = v]),
         frames' = [frames EXCEPT ![k].ev = v],
         UNCHANGED <<blk, dir, lock, queue>>
  PROVE  Preserved
<1>1. PICK g : g = [frames[k] EXCEPT !.ev = v]  OBVIOUS
<1>2. PICK F : F = [frames EXCEPT ![k].ev = v]  OBVIOUS
<1>3. k \in InFlight /\ frames[k] \in Frame(frames[k].ret)
  BY DEF IInv, TypeOK, Idle
<1>4. Continues(k, g) /\ Fits(k, g)
  BY <1>1, <1>3 DEF Continues, Frame, EventKind
<1>5. PICK S : S = {}  OBVIOUS
<1>6. /\ IsFunction(F) /\ DOMAIN F = InFlight \cup S /\ frames' = F
      /\ S \cap InFlight = {} /\ \A n \in S : Started(n)'
      /\ F[k] = g /\ \A j \in InFlight \ {k} : F[j] = frames[j]
  BY <1>1, <1>2, <1>3, <1>5 DEF IsFunction, InFlight
<1> QED
  BY ONLY IInv, Idle(k), Locks(k), <1>4, <1>6, UNCHANGED <<blk, dir, lock, queue>>,
          GoesOnSame

LEMMA AtMod ==
  ASSUME IInv, NEW k \in InFlight, Locked(k) \in Entry
  PROVE  frames[k].at \in Mod /\ Low[frames[k].at] \in Mod \cup {None}
BY TreeAssumption DEF Entry, Locked

LEMMA NewTyped ==
  ASSUME NEW kind \in Kind, NEW from \in Mod, NEW at \in Mod \cup {None},
         NEW t \in Tag, NEW ret, NEW ev \in EventKind
  PROVE  NewFrame(kind, from, at, t, ret, ev) \in Frame(ret)
BY DEF Frame, NewFrame, State, Precedence

LEMMA CallsReadUpDown ==
  ASSUME IInv, NEW k, Idle(k), Locks(k), NEW v \in {"miss", "ncMiss"},
         NEW nc \in BOOLEAN,
         frames' = ReadUpDown(k, frames[k].at, frames[k].tag, v, nc),
         UNCHANGED <<blk, dir, lock, queue>>
  PROVE  Preserved
<1>1. /\ k \in InFlight /\ frames[k] \in Frame(frames[k].ret) /\ Locked(k) \in Entry
      /\ frames[k].at \in Mod /\ Low[frames[k].at] \in Mod \cup {None}
  BY AtMod DEF IInv, TypeOK, Idle, FrameOK
<1>2. PICK m : m = frames[k].at  OBVIOUS
<1>3. PICK g : g = [frames[k] EXCEPT !.ev = v, !.err = FALSE, !.shared = FALSE]
  OBVIOUS
<1>4. PICK r : r = [NewFrame("readUD", m, Low[m], frames[k].tag, k, "lock")
                      EXCEPT !.nc = nc]
  OBVIOUS
<1>5. Continues(k, g) /\ Fits(k, g)
  BY <1>1, <1>3 DEF Continues, Frame, EventKind, Fits
<1>6. Calling(k, g, r) /\ r.kind = "readUD"
  <2>1. NewFrame("readUD", m, Low[m], frames[k].tag, k, "lock") \in Frame(k)
    <3>1. m \in Mod /\ Low[m] \in Mod \cup {None} /\ frames[k].tag \in Tag
      BY <1>1, <1>2 DEF Frame
    <3>2. "readUD" \in Kind /\ "lock" \in EventKind  BY DEF Kind, EventKind
    <3> QED  BY <3>1, <3>2, NewTyped
  <2>2. r \in Frame(k)  BY <1>4, <2>1 DEF Frame
  <2> QED  BY <1>1, <1>3, <1>4, <2>2 DEF Calling, NewFrame, Frame
<1>7. frames' = Adding([j \in {Call(k, r.kind, m)} |-> r], [frames EXCEPT ![k] = g])
  BY <1>1, <1>2, <1>3, <1>4, <1>6 DEF ReadUpDown, InFlight
<1> QED
  BY ONLY IInv, Idle(k), Locks(k), <1>5, <1>6, <1>7,
          UNCHANGED <<blk, dir, lock, queue>>, CallsOne

LEMMA CallsReadDownUp ==
  ASSUME IInv, NEW k, Idle(k), Locks(k), frames[k].kind \notin {"writeUD", "writeDU"},
         NEW owner \in Mod, NEW peer \in BOOLEAN,
         frames[k].kind = "readUD" => blk[Locked(k)].state # "I",
         frames[k].kind = "readDU" => ~peer,
         frames' = ReadDownUp(k, frames[k].at, owner, frames[k].tag, "finish", peer),
         UNCHANGED <<blk, dir, lock, queue>>
  PROVE  Preserved
<1>1. /\ k \in InFlight /\ frames[k] \in Frame(frames[k].ret) /\ Locked(k) \in Entry
      /\ frames[k].at \in Mod
  BY AtMod DEF IInv, TypeOK, Idle, FrameOK
<1>2. PICK m : m = frames[k].at  OBVIOUS
<1>3. PICK g : g = [frames[k] EXCEPT !.ev = "finish", !.err = FALSE, !.shared = FALSE]
  OBVIOUS
<1>4. PICK r : r = [NewFrame("readDU", m, owner, frames[k].tag, k, "lock")
                      EXCEPT !.peer = peer]
  OBVIOUS
<1>5. Continues(k, g) /\ Fits(k, g)
  BY <1>1, <1>3 DEF Continues, Frame, EventKind, Fits
<1>6. Calling(k, g, r) /\ r.kind = "readDU"
  <2>1. NewFrame("readDU", m, owner, frames[k].tag, k, "lock") \in Frame(k)
    <3>1. m \in Mod /\ owner \in Mod \cup {None} /\ frames[k].tag \in Tag
      BY <1>1, <1>2 DEF Frame
    <3>2. "readDU" \in Kind /\ "lock" \in EventKind  BY DEF Kind, EventKind
    <3> QED  BY <3>1, <3>2, NewTyped
  <2>2. r \in Frame(k)  BY <1>4, <2>1 DEF Frame
  <2> QED  BY <1>1, <1>3, <1>4, <2>2 DEF Calling, NewFrame, Frame
<1>7. frames' = Adding([j \in {Call(k, r.kind, owner)} |-> r], [frames EXCEPT ![k] = g])
  BY <1>1, <1>2, <1>3, <1>4, <1>6 DEF ReadDownUp, InFlight
<1> QED
  BY ONLY IInv, Idle(k), Locks(k), <1>5, <1>6, <1>7,
          UNCHANGED <<blk, dir, lock, queue>>, CallsOne

LEMMA CallsWriteUpDown ==
  ASSUME IInv, NEW k, Idle(k), Locks(k), NEW v \in {"unlock", "finish"},
         frames[k].kind # "writeDU", frames[k].kind = "readUD" => v = "unlock",
         frames[k].kind = "writeUD" =>
           dir[Locked(k)].sharers \subseteq {frames[k].from},
         frames' = WriteUpDown(k, frames[k].at, frames[k].tag, v),
         UNCHANGED <<blk, dir, lock, queue>>
  PROVE  Preserved
<1>1. /\ k \in InFlight /\ frames[k] \in Frame(frames[k].ret) /\ Locked(k) \in Entry
      /\ frames[k].at \in Mod /\ Low[frames[k].at] \in Mod \cup {None}
  BY AtMod DEF IInv, TypeOK, Idle, FrameOK
<1>2. PICK m : m = frames[k].at  OBVIOUS
<1>3. PICK g : g = [frames[k] EXCEPT !.ev = v, !.err = FALSE]
  OBVIOUS
<1>4. PICK r : r = NewFrame("writeUD", m, Low[m], frames[k].tag, k, "lock")
  OBVIOUS
<1>5. Continues(k, g) /\ Fits(k, g)
  BY <1>1, <1>3 DEF Continues, Frame, EventKind, Fits
<1>6. Calling(k, g, r) /\ r.kind = "writeUD"
  <2>1. NewFrame("writeUD", m, Low[m], frames[k].tag, k, "lock") \in Frame(k)
    <3>1. m \in Mod /\ Low[m] \in Mod \cup {None} /\ frames[k].tag \in Tag
      BY <1>1, <1>2 DEF Frame
    <3>2. "writeUD" \in Kind /\ "lock" \in EventKind  BY DEF Kind, EventKind
    <3> QED  BY <3>1, <3>2, NewTyped
  <2>2. r \in Frame(k)  BY <1>4, <2>1 DEF Frame
  <2> QED  BY <1>1, <1>3, <1>4, <2>2 DEF Calling, NewFrame, Frame
<1>7. frames' = Adding([j \in {Call(k, r.kind, m)} |-> r], [frames EXCEPT ![k] = g])
  BY <1>1, <1>2, <1>3, <1>4, <1>6 DEF WriteUpDown, InFlight
<1> QED
  BY ONLY IInv, Idle(k), Locks(k), <1>5, <1>6, <1>7,
          UNCHANGED <<blk, dir, lock, queue>>, CallsOne

LEMMA CallsMessage ==
  ASSUME IInv, NEW k, Idle(k), Locks(k),
         frames' = ClearOwner(k, frames[k].at, frames[k].tag, "ncMiss"),
         UNCHANGED <<blk, dir, lock, queue>>
  PROVE  Preserved
<1>1. /\ k \in InFlight /\ frames[k] \in Frame(frames[k].ret) /\ Locked(k) \in Entry
      /\ frames[k].at \in Mod /\ Low[frames[k].at] \in Mod \cup {None}
  BY AtMod DEF IInv, TypeOK, Idle, FrameOK
<1>2. PICK m : m = frames[k].at  OBVIOUS
<1>3. PICK g : g = [frames[k] EXCEPT !.ev = "ncMiss", !.err = FALSE]
  OBVIOUS
<1>4. PICK r : r = NewFrame("message", m, Low[m], frames[k].tag, k, "lock")
  OBVIOUS
<1>5. Continues(k, g) /\ Fits(k, g)
  BY <1>1, <1>3 DEF Continues, Frame, EventKind, Fits
<1>6. Calling(k, g, r) /\ r.kind = "message"
  <2>1. NewFrame("message", m, Low[m], frames[k].tag, k, "lock") \in Frame(k)
    <3>1. m \in Mod /\ Low[m] \in Mod \cup {None} /\ frames[k].tag \in Tag
      BY <1>1, <1>2 DEF Frame
    <3>2. "message" \in Kind /\ "lock" \in EventKind  BY DEF Kind, EventKind
    <3> QED  BY <3>1, <3>2, NewTyped
  <2>2. r \in Frame(k)  BY <1>4, <2>1 DEF Frame
  <2> QED  BY <1>1, <1>3, <1>4, <2>2 DEF Calling, NewFrame, Frame
<1>7. frames' = Adding([j \in {Call(k, r.kind, m)} |-> r], [frames EXCEPT ![k] = g])
  BY <1>1, <1>2, <1>3, <1>4, <1>6 DEF ClearOwner, InFlight
<1> QED
  BY ONLY IInv, Idle(k), Locks(k), <1>5, <1>6, <1>7,
          UNCHANGED <<blk, dir, lock, queue>>, CallsOne

-----------------------------------------------------------------------------
(***************************************************************************)
(* The handlers, one by one: requests.                                     *)
(***************************************************************************)
LEMMA ScheduledIdle ==
  ASSUME NEW k \in InFlight, NEW v, Scheduled(k, v), v # "lockWait"
  PROVE  Idle(k) /\ frames[k].ev = v
BY DEF Scheduled, Idle

LEMMA FrameFacts ==
  ASSUME IInv, NEW k \in InFlight
  PROVE  /\ frames[k] \in Frame(frames[k].ret)
         /\ FrameOK(k) /\ CallOK(k) /\ ReliesOn(k)
BY DEF IInv, TypeOK

\* A new content of entry d.
BlockOK(d, b, o) ==
  /\ b \in [tag : Tag \cup {None}, state : State]
  /\ o \in [owner : Mod \cup {None}, sharers : SUBSET Mod]
  /\ b.state # "I" => b.tag \in Tag
  /\ o.sharers # {} => b.state # "I"
  /\ o.owner # None => o.owner \in o.sharers
  /\ \A m \in o.sharers : Low[m] = d[1]

LEMMA BlockNow ==
  ASSUME IInv, NEW d \in Entry
  PROVE  BlockOK(d, blk[d], dir[d])
BY DEF IInv, TypeOK, EntryOK, BlockOK

LEMMA DataChanges ==
  ASSUME IInv, NEW d \in Entry, NEW b, NEW o, BlockOK(d, b, o),
         blk' = [blk EXCEPT ![d] = b], dir' = [dir EXCEPT ![d] = o]
  PROVE  /\ blk' \in [Entry -> [tag : Tag \cup {None}, state : State]]
         /\ dir' \in [Entry -> [owner : Mod \cup {None}, sharers : SUBSET Mod]]
         /\ ChangesOnly(d)
<1>1. /\ blk \in [Entry -> [tag : Tag \cup {None}, state : State]]
      /\ dir \in [Entry -> [owner : Mod \cup {None}, sharers : SUBSET Mod]]
  BY DEF IInv, TypeOK
<1>2. /\ blk'[d] = b /\ dir'[d] = o
      /\ \A e \in Entry \ {d} : blk'[e] = blk[e] /\ dir'[e] = dir[e]
  BY <1>1
<1>3. EntryOK(d)'  BY <1>2 DEF EntryOK, BlockOK
<1>4. b \in [tag : Tag \cup {None}, state : State]
      /\ o \in [owner : Mod \cup {None}, sharers : SUBSET Mod]
  BY DEF BlockOK
<1> QED  BY <1>1, <1>2, <1>3, <1>4 DEF ChangesOnly

LEMMA BlockSet ==
  ASSUME IInv, NEW d \in Entry, NEW t, NEW s, SetBlock(d, t, s)
  PROVE  blk' = [blk EXCEPT ![d] = [tag |-> t, state |-> s]]
<1>1. blk \in [Entry -> [tag : Tag \cup {None}, state : State]]
  BY DEF IInv, TypeOK
<1>2. blk[d] \in [tag : Tag \cup {None}, state : State]  BY <1>1
<1>3. PICK u \in Tag \cup {None}, v \in State : blk[d] = [tag |-> u, state |-> v]
  BY <1>2
<1>4. /\ blk' = [e \in Entry |-> blk'[e]] /\ blk'[d] = [tag |-> t, state |-> s]
      /\ \A e \in Entry \ {d} : blk'[e] = blk[e]
  BY <1>1, <1>2, <1>3 DEF SetBlock
<1> QED  BY <1>1, <1>4

\* A frame that has locked an entry, replies and unlocks it.
LEMMA RepliesUnlocks ==
  ASSUME IInv, NEW k, Idle(k), Locks(k), frames[k].kind \notin AccessKind,
         NEW F, IsFunction(F), DOMAIN F = InFlight,
         F[k] = [frames[k] EXCEPT !.ev = "reply"],
         \A j \in InFlight \ {k} :
           \/ F[j] = frames[j]
           \/ j = frames[k].ret /\ Kept(frames[j], F[j]),
         NEW d, d = Locked(k), frames' = Wake(F, d), Unlock(d),
         NEW b, NEW o, BlockOK(d, b, o),
         blk' = [blk EXCEPT ![d] = b], dir' = [dir EXCEPT ![d] = o],
         frames[k].kind = "evict" => dir'[Source(k)].sharers = {}
  PROVE  Preserved
<1>1. d \in Entry  BY DEF IInv, FrameOK, Idle
<1>2. /\ blk' \in [Entry -> [tag : Tag \cup {None}, state : State]]
      /\ dir' \in [Entry -> [owner : Mod \cup {None}, sharers : SUBSET Mod]]
      /\ ChangesOnly(d)
  BY <1>1, DataChanges
<1>3. frames[k].kind \notin AccessKind \cup {"invalidate"}  BY DEF Locks
<1>4. /\ \A j \in InFlight \ {k} : j \in DOMAIN F /\ Kept(frames[j], F[j])
      /\ LetsGo(k, F)
  BY <1>3, TellsCaller
<1>5. frames[k].kind = "evict" => dir'[Source(k)].sharers = {}  OBVIOUS
<1> QED
  BY ONLY IInv, Idle(k), Locks(k), IsFunction(F), DOMAIN F = InFlight, d = Locked(k),
          frames' = Wake(F, d), Unlock(d), <1>2, <1>4, <1>5, Unlocks

LEMMA ReadUpdownStep ==
  ASSUME IInv, NEW k \in InFlight, ReadUpdown(k)  PROVE Preserved
<1>1. /\ Idle(k) /\ frames[k].ev = "action" /\ frames[k].kind = "readUD"
      /\ UNCHANGED <<blk, dir, lock, queue>>
  BY ScheduledIdle DEF ReadUpdown
<1>2. CASE frames[k].err
  <2>1. frames' = ErrorPassed(k)  BY <1>2 DEF ReadUpdown, ErrorPassed
  <2>2. ~Locks(k)  BY <1>1, <1>2 DEF Locks
  <2>3. frames[k].kind \notin AccessKind \cup {"invalidate"}  BY <1>1 DEF AccessKind
  <2> QED  BY ONLY IInv, <1>1, <2>1, <2>2, <2>3, ErrorReply
<1>3. CASE ~frames[k].err
  <2>1. Locks(k)  BY <1>1, <1>3 DEF Locks
  <2>2. Locked(k) \in Entry /\ frames[k] \in Frame(frames[k].ret) /\ ReliesOn(k)
    BY <2>1, FrameFacts DEF FrameOK
  <2>3. blk[Locked(k)].state = frames[k].state
    BY <1>1, <1>3, <2>1, <2>2 DEF ReliesOn
  <2>4. CASE frames[k].state = "I"
    <3>1. frames' = ReadUpDown(k, frames[k].at, frames[k].tag, "miss", FALSE)
      BY <1>3, <2>4 DEF ReadUpdown
    <3> QED  BY ONLY IInv, <1>1, <2>1, <3>1, CallsReadUpDown
  <2>5. CASE frames[k].state # "I"
    <3>1. PICK owner : owner = dir[Locked(k)].owner  OBVIOUS
    <3>2. owner \in Mod \cup {None}  BY <2>2, <3>1 DEF IInv, TypeOK
    <3>3. CASE owner = None
      <4>1. frames' = [frames EXCEPT ![k].ev = "finish"]
        BY <1>3, <2>5, <3>1, <3>3 DEF ReadUpdown
      <4>2. Fits(k, [frames[k] EXCEPT !.ev = "finish"])
        BY <1>1, <2>2, <2>3, <2>5 DEF Fits, Frame
      <4> QED  BY ONLY IInv, <1>1, <2>1, <4>1, <4>2, GoesAlone
    <3>4. CASE owner # None
      <4>1. PICK peer : peer = SetPeer(frames[k].state)  OBVIOUS
      <4>2. peer \in BOOLEAN  BY <4>1, TreeAssumption DEF SetPeer
      <4>3. frames' = ReadDownUp(k, frames[k].at, owner, frames[k].tag, "finish", peer)
        BY <1>3, <2>5, <3>1, <3>4, <4>1 DEF ReadUpdown
      <4>4. owner \in Mod  BY <3>2, <3>4
      <4>5. /\ frames[k].kind \notin {"writeUD", "writeDU"}
            /\ frames[k].kind = "readUD" => blk[Locked(k)].state # "I"
            /\ frames[k].kind = "readDU" => ~peer
        BY <1>1, <2>3, <2>5
      <4> QED  BY ONLY IInv, <1>1, <2>1, <4>2, <4>3, <4>4, <4>5, CallsReadDownUp
    <3> QED  BY <3>3, <3>4
  <2> QED  BY <2>4, <2>5
<1> QED  BY <1>2, <1>3

LEMMA ReadUpdownMissStep ==
  ASSUME IInv, NEW k \in InFlight, ReadUpdownMiss(k)  PROVE Preserved
<1>1. Idle(k) /\ frames[k].ev = "miss" /\ frames[k].kind = "readUD"
  BY ScheduledIdle DEF ReadUpdownMiss
<1>2. PICK d : d = Locked(k)  OBVIOUS
<1>3. Locks(k)  BY <1>1 DEF Locks
<1>4. d \in Entry /\ frames[k] \in Frame(frames[k].ret)
  BY <1>2, <1>3, FrameFacts DEF FrameOK
<1>5. CASE frames[k].err
  <2>1. frames' = Wake(ErrorPassed(k), d) /\ Unlock(d) /\ UNCHANGED <<blk, dir>>
    BY <1>2, <1>5 DEF ReadUpdownMiss, ErrorPassed
  <2>2. frames[k].kind \notin AccessKind \cup {"invalidate", "evict"}
    BY <1>1 DEF AccessKind
  <2> QED  BY ONLY IInv, <1>1, <1>2, <1>3, <2>1, <2>2, ErrorUnlocks
<1>6. CASE ~frames[k].err
  <2>1. PICK s \in {"S", "E"} : SetBlock(d, frames[k].tag, s)
    BY <1>2, <1>6 DEF ReadUpdownMiss
  <2>2. /\ frames' = [frames EXCEPT ![k].ev = "finish"]
        /\ UNCHANGED <<dir, lock, queue>>
    BY <1>6 DEF ReadUpdownMiss
  <2>3. PICK b : b = [tag |-> frames[k].tag, state |-> s]  OBVIOUS
  <2>4. PICK o : o = dir[d]  OBVIOUS
  <2>5. BlockOK(d, b, o)
    BY <1>4, <2>3, <2>4, BlockNow DEF BlockOK, Frame, State
  <2>6. blk' = [blk EXCEPT ![d] = b]  BY <1>4, <2>1, <2>3, BlockSet
  <2>7. dir' = [dir EXCEPT ![d] = o]  BY <1>4, <2>2, <2>4 DEF IInv, TypeOK
  <2>8. /\ blk' \in [Entry -> [tag : Tag \cup {None}, state : State]]
        /\ dir' \in [Entry -> [owner : Mod \cup {None}, sharers : SUBSET Mod]]
        /\ ChangesOnly(d)
    BY <1>4, <2>5, <2>6, <2>7, DataChanges
  <2>9. PICK g : g = [frames[k] EXCEPT !.ev = "finish"]  OBVIOUS
  <2>10. Continues(k, g)
    BY <1>4, <2>9 DEF Continues, Frame, EventKind
  <2>11. PICK S : S = {}  OBVIOUS
  <2>12. PICK F : F = [frames EXCEPT ![k].ev = "finish"]  OBVIOUS
  <2>13. /\ IsFunction(F) /\ DOMAIN F = InFlight \cup S /\ frames' = F
         /\ S \cap InFlight = {} /\ \A n \in S : Started(n)'
         /\ F[k] = g /\ \A j \in InFlight \ {k} : F[j] = frames[j]
    BY <2>2, <2>9, <2>11, <2>12 DEF IsFunction, InFlight
  <2>14. ReliesOn(k)'
    <3>1. frames'[k] = g  BY <2>13
    <3>2. Locked(k)' = d  BY <1>2, <2>10, <3>1 DEF Continues, Locked
    <3>3. blk'[d].state = s
      BY <1>4, <2>3, <2>6 DEF IInv, TypeOK
    <3> QED
      BY <1>1, <2>1, <2>9, <2>10, <3>1, <3>2, <3>3 DEF ReliesOn, Continues, Frame
  <2> QED
    BY ONLY IInv, <1>1, <1>2, <1>3, <2>2, <2>8, <2>10, <2>13, <2>14, GoesOn
<1> QED  BY <1>5, <1>6

LEMMA ReadUpdownFinishStep ==
  ASSUME IInv, NEW k \in InFlight, ReadUpdownFinish(k)  PROVE Preserved
<1>1. Idle(k) /\ frames[k].ev = "finish" /\ frames[k].kind = "readUD"
  BY ScheduledIdle DEF ReadUpdownFinish
<1>2. PICK d : d = Locked(k)  OBVIOUS
<1>3. PICK p : p = frames[k].ret  OBVIOUS
<1>4. Locks(k) /\ frames[k].kind \notin AccessKind  BY <1>1 DEF Locks, AccessKind
<1>5. /\ d \in Entry /\ frames[k] \in Frame(frames[k].ret) /\ ReliesOn(k)
      /\ frames[k].at = Low[frames[k].from]
  BY <1>1, <1>2, <1>4, FrameFacts DEF FrameOK
<1>6. PICK sharers : sharers = dir[d].sharers \cup {frames[k].from}  OBVIOUS
<1>7. PICK shared \in BOOLEAN : shared = SharedAfterRead(frames[k], sharers)
  BY <1>5 DEF SharedAfterRead, Frame
<1>8. PICK F : F = [frames EXCEPT ![k].ev = "reply", ![p].shared = shared]  OBVIOUS
<1>9. frames' = Wake(F, d) /\ Unlock(d) /\ blk' = blk
  BY <1>2, <1>3, <1>6, <1>7, <1>8 DEF ReadUpdownFinish
<1>10. PICK o : o = [owner |-> IF shared THEN OwnerAfterRead(frames[k], dir[d].owner)
                               ELSE frames[k].from, sharers |-> sharers]
  OBVIOUS
<1>11. dir' = [dir EXCEPT ![d] = o]
  <2>1. dir' = [dir EXCEPT ![d].sharers = sharers,
                           ![d].owner = IF shared THEN OwnerAfterRead(frames[k], @)
                                        ELSE frames[k].from]
    BY <1>2, <1>6, <1>7 DEF ReadUpdownFinish
  <2>2. dir \in [Entry -> [owner : Mod \cup {None}, sharers : SUBSET Mod]]
    BY DEF IInv, TypeOK
  <2>3. dir[d] \in [owner : Mod \cup {None}, sharers : SUBSET Mod]
    BY <1>5, <2>2
  <2>4. /\ dir' = [e \in Entry |-> dir'[e]] /\ dir'[d] = o
        /\ \A e \in Entry \ {d} : dir'[e] = dir[e]
    BY <1>5, <1>10, <2>1, <2>2, <2>3
  <2> QED  BY <2>2, <2>4
<1>12. PICK b : b = blk[d]  OBVIOUS
<1>13. blk' = [blk EXCEPT ![d] = b]  BY <1>5, <1>9, <1>12 DEF IInv, TypeOK
<1>14. BlockOK(d, b, o)
  <2>1. BlockOK(d, b, dir[d])  BY <1>5, <1>12, BlockNow
  <2>2. b.state # "I"  BY <1>1, <1>2, <1>5, <1>12 DEF ReliesOn
  <2>3. frames[k].from \in Mod /\ Low[frames[k].from] = d[1]
    BY <1>2, <1>5 DEF Locked, Frame
  <2>4. o.sharers = dir[d].sharers \cup {frames[k].from}
    BY <1>6, <1>10
  <2>5. o.owner \in {None, dir[d].owner, frames[k].from}
    BY <1>10 DEF OwnerAfterRead
  <2>6. o \in [owner : Mod \cup {None}, sharers : SUBSET Mod]
    BY <1>6, <1>10, <2>1, <2>3, <2>5 DEF BlockOK
  <2> QED  BY <2>1, <2>2, <2>3, <2>4, <2>5, <2>6 DEF BlockOK
<1>15. /\ p \in InFlight /\ p # k
       /\ Kept(frames[p], [frames[p] EXCEPT !.shared = shared])
  BY <1>1, <1>3, <1>4, CallerWaits, KeptResults
<1>16. /\ IsFunction(F) /\ DOMAIN F = InFlight
       /\ F[k] = [frames[k] EXCEPT !.ev = "reply"]
       /\ \A j \in InFlight \ {k} :
            \/ F[j] = frames[j]
            \/ j = frames[k].ret /\ Kept(frames[j], F[j])
  BY <1>3, <1>8, <1>15 DEF IsFunction, InFlight
<1>17. frames[k].kind = "evict" => dir'[Source(k)].sharers = {}  BY <1>1
<1> QED
  BY ONLY IInv, <1>1, <1>2, <1>4, <1>9, <1>11, <1>13, <1>14, <1>16, <1>17,
          RepliesUnlocks

LEMMA ReadDownupStep ==
  ASSUME IInv, NEW k \in InFlight, ReadDownup(k)  PROVE Preserved
<1>1. /\ Idle(k) /\ frames[k].ev = "action" /\ frames[k].kind = "readDU"
      /\ frames[k].state # "I" /\ UNCHANGED <<blk, dir, lock, queue>>
  BY ScheduledIdle DEF ReadDownup
<1>2. FrameOK(k) /\ frames[k] \in Frame(frames[k].ret)  BY FrameFacts
<1>3. Locks(k)  BY <1>1, <1>2 DEF Locks, FrameOK
<1>4. PICK owner : owner = dir[Locked(k)].owner  OBVIOUS
<1>5. owner \in Mod \cup {None}
  BY <1>2, <1>3, <1>4 DEF FrameOK, IInv, TypeOK
<1>6. CASE owner = None
  <2>1. frames' = [frames EXCEPT ![k].ev = "finish"]
    BY <1>4, <1>6 DEF ReadDownup
  <2>2. Fits(k, [frames[k] EXCEPT !.ev = "finish"])
    BY <1>1, <1>2 DEF Fits, Frame
  <2> QED  BY ONLY IInv, <1>1, <1>3, <2>1, <2>2, GoesAlone
<1>7. CASE owner # None
  <2>1. frames' = ReadDownUp(k, frames[k].at, owner, frames[k].tag, "finish", FALSE)
    BY <1>4, <1>7 DEF ReadDownup
  <2>2. owner \in Mod  BY <1>5, <1>7
  <2>3. /\ frames[k].kind \notin {"writeUD", "writeDU"}
        /\ frames[k].kind = "readUD" => blk[Locked(k)].state # "I"
        /\ frames[k].kind = "readDU" => ~FALSE
    BY <1>1
  <2> QED  BY ONLY IInv, <1>1, <1>3, <2>1, <2>2, <2>3, CallsReadDownUp
<1> QED  BY <1>6, <1>7

LEMMA Replies ==
  ASSUME NEW old \in DOMAIN Precedence, NEW new \in DOMAIN Precedence
  PROVE  HigherReply(old, new) \in {old, new}
BY DEF HigherReply

LEMMA ReadDownupFinishStep ==
  ASSUME IInv, NEW k \in InFlight, ReadDownupFinish(k)  PROVE Preserved
<1>1. Idle(k) /\ frames[k].ev = "finish" /\ frames[k].kind = "readDU"
  BY ScheduledIdle DEF ReadDownupFinish
<1>2. PICK d : d = Locked(k)  OBVIOUS
<1>3. PICK p : p = frames[k].ret  OBVIOUS
<1>4. Locks(k) /\ frames[k].kind \notin AccessKind  BY <1>1 DEF Locks, AccessKind
<1>5. /\ d \in Entry /\ frames[k] \in Frame(frames[k].ret) /\ CallOK(k)
      /\ frames[k].reply \in {"none", "ack", "ack_data"}
  BY <1>1, <1>2, <1>4, FrameFacts DEF FrameOK
<1>6. PICK reply : reply = HigherReply(frames[p].reply, ReadReply(frames[k]))  OBVIOUS
<1>7. PICK retain : retain = (frames[p].retain \/ ReadRetains(frames[k]))  OBVIOUS
<1>8. PICK F : F = [frames EXCEPT ![k].ev = "reply", ![p].reply = reply,
                                  ![p].retain = retain]
  OBVIOUS
<1>9. /\ p \in InFlight /\ p # k
      /\ frames[p].ev \in {"evicting", "invalid", "exclusive", "miss", "finish",
                           "unlock", "ncAction", "ncMiss"}
  BY <1>1, <1>3, <1>4, CallerWaits
<1>10. frames' = Wake(F, d) /\ Unlock(d)
  BY <1>2, <1>3, <1>6, <1>7, <1>8, <1>9 DEF ReadDownupFinish
<1>11. PICK b : b = [tag |-> frames[k].tag, state |-> StateAfterRead(frames[k])]
  OBVIOUS
<1>12. PICK o : o = [dir[d] EXCEPT
                       !.owner = IF frames[k].reply = "none" THEN @ ELSE None]
  OBVIOUS
<1>13. StateAfterRead(frames[k]) \in {"O", "S"}
  BY <1>5 DEF StateAfterRead
<1>14. BlockOK(d, b, o)
  BY <1>5, <1>11, <1>12, <1>13, BlockNow DEF BlockOK, Frame, State
<1>15. blk' = [blk EXCEPT ![d] = b] /\ dir' = [dir EXCEPT ![d] = o]
  BY <1>2, <1>5, <1>11, <1>12, BlockSet DEF ReadDownupFinish
<1>16. Kept(frames[p], [frames[p] EXCEPT !.reply = reply, !.retain = retain])
  <2>1. frames[p] \in Frame(frames[p].ret) /\ FrameOK(p)  BY <1>9, FrameFacts
  <2>2. /\ frames[p].reply \in DOMAIN Precedence /\ ReadReply(frames[k]) \in DOMAIN Precedence
        /\ retain \in BOOLEAN
    BY <1>5, <1>7, <2>1 DEF Frame, ReadReply, Precedence, ReadRetains
  <2>3. reply \in {frames[p].reply, ReadReply(frames[k])}
    BY <1>6, <2>2, Replies
  <2>4. ASSUME frames[p].kind = "readDU"  PROVE reply \in {"none", "ack", "ack_data"}
    <3>1. ~frames[k].peer
      BY <1>1, <1>3, <1>4, <1>5, <2>4 DEF CallOK
    <3>2. ReadReply(frames[k]) \in {"ack", "ack_data"}
      BY <1>5, <3>1 DEF ReadReply
    <3> QED  BY <2>1, <2>3, <2>4, <3>2 DEF FrameOK
  <2> QED  BY <1>9, <2>2, <2>3, <2>4, KeptResults
<1>17. /\ IsFunction(F) /\ DOMAIN F = InFlight
       /\ F[k] = [frames[k] EXCEPT !.ev = "reply"]
       /\ \A j \in InFlight \ {k} :
            \/ F[j] = frames[j]
            \/ j = frames[k].ret /\ Kept(frames[j], F[j])
  BY <1>3, <1>8, <1>9, <1>16 DEF IsFunction, InFlight
<1>18. frames[k].kind = "evict" => dir'[Source(k)].sharers = {}  BY <1>1
<1> QED
  BY ONLY IInv, <1>1, <1>2, <1>4, <1>10, <1>14, <1>15, <1>17, <1>18, RepliesUnlocks

LEMMA ReplyStep ==
  ASSUME IInv, NEW k \in InFlight, Reply(k)  PROVE Preserved
<1>1. /\ Idle(k) /\ frames[k].ev = "reply" /\ UNCHANGED <<blk, dir, lock, queue>>
      /\ frames[k].kind # "evict"
  BY ScheduledIdle DEF Reply
<1>2. PICK F : F = Without(frames, k)  OBVIOUS
<1>3. /\ IsFunction(F) /\ DOMAIN F = InFlight \ {k}
      /\ \A j \in InFlight \ {k} : F[j] = frames[j]
  BY <1>2 DEF Without, IsFunction, InFlight
<1>4. /\ DOMAIN F \subseteq InFlight /\ LetsGo(k, F) /\ frames' = F
      /\ \A j \in InFlight \ {k} : j \in DOMAIN F /\ Kept(frames[j], F[j])
  BY <1>1, <1>2, <1>3, KeptSame DEF LetsGo, Reply
<1>5. ~Locks(k)  BY <1>1 DEF Locks
<1> QED  BY ONLY IInv, <1>1, <1>3, <1>4, <1>5, Leaves

LEMMA WriteUpdownStep ==
  ASSUME IInv, NEW k \in InFlight, WriteUpdown(k)  PROVE Preserved
<1>1. /\ Idle(k) /\ frames[k].ev = "exclusive" /\ frames[k].kind = "writeUD"
      /\ UNCHANGED <<blk, dir, lock, queue>>
  BY ScheduledIdle DEF WriteUpdown
<1>2. Locks(k)  BY <1>1 DEF Locks
<1>3. /\ frames[k] \in Frame(frames[k].ret)
      /\ dir[Locked(k)].sharers \subseteq {frames[k].from}
  BY <1>1, FrameFacts DEF ReliesOn
<1>4. CASE frames[k].state \in {"M", "E"}
  <2>1. frames' = [frames EXCEPT ![k].ev = "finish"]
    BY <1>4 DEF WriteUpdown
  <2>2. Fits(k, [frames[k] EXCEPT !.ev = "finish"])
    BY <1>1, <1>3 DEF Fits, Frame
  <2> QED  BY ONLY IInv, <1>1, <1>2, <2>1, <2>2, GoesAlone
<1>5. CASE frames[k].state \notin {"M", "E"}
  <2>1. frames' = WriteUpDown(k, frames[k].at, frames[k].tag, "finish")
    BY <1>5 DEF WriteUpdown
  <2>2. frames[k].kind # "writeDU" /\ frames[k].kind # "readUD"
    BY <1>1
  <2> QED  BY ONLY IInv, <1>1, <1>2, <1>3, <2>1, <2>2, CallsWriteUpDown
<1> QED  BY <1>4, <1>5

\* A frame that replies without a result for its caller.
LEMMA OnlyReplies ==
  ASSUME NEW k \in InFlight, NEW F, F = [frames EXCEPT ![k].ev = "reply"]
  PROVE  /\ IsFunction(F) /\ DOMAIN F = InFlight
         /\ F[k] = [frames[k] EXCEPT !.ev = "reply"]
         /\ \A j \in InFlight \ {k} :
              \/ F[j] = frames[j]
              \/ j = frames[k].ret /\ Kept(frames[j], F[j])
BY DEF IsFunction, InFlight

LEMMA WriteUpdownFinishStep ==
  ASSUME IInv, NEW k \in InFlight, WriteUpdownFinish(k)  PROVE Preserved
<1>1. Idle(k) /\ frames[k].ev = "finish" /\ frames[k].kind = "writeUD"
  BY ScheduledIdle DEF WriteUpdownFinish
<1>2. PICK d : d = Locked(k)  OBVIOUS
<1>3. Locks(k) /\ frames[k].kind \notin AccessKind \cup {"invalidate", "evict"}
  BY <1>1 DEF Locks, AccessKind
<1>4. /\ d \in Entry /\ frames[k] \in Frame(frames[k].ret)
      /\ frames[k].at = Low[frames[k].from]
  BY <1>1, <1>2, <1>3, FrameFacts DEF FrameOK
<1>5. Unlock(d)  BY <1>2 DEF WriteUpdownFinish
<1>6. CASE frames[k].err
  <2>1. frames' = Wake(ErrorPassed(k), d) /\ UNCHANGED <<blk, dir>>
    BY <1>2, <1>6 DEF WriteUpdownFinish, ErrorPassed
  <2> QED  BY ONLY IInv, <1>1, <1>2, <1>3, <1>5, <2>1, ErrorUnlocks
<1>7. CASE ~frames[k].err
  <2>1. PICK F : F = [frames EXCEPT ![k].ev = "reply"]  OBVIOUS
  <2>2. PICK b : b = [tag |-> frames[k].tag, state |-> "E"]  OBVIOUS
  <2>3. PICK o : o = [owner |-> frames[k].from, sharers |-> {frames[k].from}]  OBVIOUS
  <2>4. /\ frames' = Wake(F, d) /\ SetBlock(d, frames[k].tag, "E")
        /\ dir' = [dir EXCEPT ![d] = o]
    BY <1>2, <1>7, <2>1, <2>3 DEF WriteUpdownFinish
  <2>5. blk' = [blk EXCEPT ![d] = b]  BY <1>4, <2>2, <2>4, BlockSet
  <2>6. Low[frames[k].from] = d[1]  BY <1>2, <1>4 DEF Locked
  <2>7. BlockOK(d, b, o)
    BY <1>4, <2>2, <2>3, <2>6 DEF BlockOK, Frame, State
  <2>8. /\ IsFunction(F) /\ DOMAIN F = InFlight
        /\ F[k] = [frames[k] EXCEPT !.ev = "reply"]
        /\ \A j \in InFlight \ {k} :
             \/ F[j] = frames[j]
             \/ j = frames[k].ret /\ Kept(frames[j], F[j])
    BY <2>1, OnlyReplies
  <2>9. /\ frames[k].kind \notin AccessKind
        /\ frames[k].kind = "evict" => dir'[Source(k)].sharers = {}
    BY <1>3
  <2> QED
    BY ONLY IInv, <1>1, <1>2, <1>3, <1>5, <2>4, <2>5, <2>7, <2>8, <2>9, RepliesUnlocks
<1> QED  BY <1>6, <1>7

LEMMA WriteDownupStep ==
  ASSUME IInv, NEW k \in InFlight, WriteDownup(k)  PROVE Preserved
<1>1. Idle(k) /\ frames[k].ev = "exclusive" /\ frames[k].kind = "writeDU"
  BY ScheduledIdle DEF WriteDownup
<1>2. PICK d : d = Locked(k)  OBVIOUS
<1>3. PICK p : p = frames[k].ret  OBVIOUS
<1>4. Locks(k) /\ frames[k].kind \notin AccessKind  BY <1>1 DEF Locks, AccessKind
<1>5. /\ d \in Entry /\ frames[k] \in Frame(frames[k].ret) /\ CallOK(k)
      /\ dir[d] = [owner |-> None, sharers |-> {}]
  BY <1>1, <1>2, <1>4, FrameFacts DEF FrameOK, WriteDownup
<1>6. /\ p \in InFlight /\ p # k /\ frames[p].kind = "invalidate"
      /\ frames[p].ev \in {"evicting", "invalid", "exclusive", "miss", "finish",
                           "unlock", "ncAction", "ncMiss"}
  BY <1>1, <1>3, <1>4, <1>5, CallerWaits DEF CallOK
<1>7. PICK reply : reply = HigherReply(frames[p].reply,
                             IF frames[k].state \in {"E", "S"} THEN "ack" ELSE "ack_data")
  OBVIOUS
<1>8. PICK F : F = [frames EXCEPT ![k].ev = "reply", ![p].reply = reply]  OBVIOUS
<1>9. /\ frames' = Wake(F, d) /\ Unlock(d) /\ SetBlock(d, None, "I")
      /\ dir' = dir
  BY <1>2, <1>3, <1>6, <1>7, <1>8 DEF WriteDownup
<1>10. PICK b : b = [tag |-> None, state |-> "I"]  OBVIOUS
<1>11. PICK o : o = [owner |-> None, sharers |-> {}]  OBVIOUS
<1>12. blk' = [blk EXCEPT ![d] = b]  BY <1>5, <1>9, <1>10, BlockSet
<1>13. dir' = [dir EXCEPT ![d] = o]  BY <1>5, <1>9, <1>11 DEF IInv, TypeOK
<1>14. BlockOK(d, b, o)  BY <1>10, <1>11 DEF BlockOK, State
<1>15. Kept(frames[p], [frames[p] EXCEPT !.reply = reply])
  <2>1. frames[p] \in Frame(frames[p].ret)  BY <1>6, FrameFacts
  <2>2. reply \in DOMAIN Precedence
    BY <1>7, <2>1, Replies DEF Frame, Precedence
  <2> QED  BY <1>6, <2>2, KeptResults
<1>16. /\ IsFunction(F) /\ DOMAIN F = InFlight
       /\ F[k] = [frames[k] EXCEPT !.ev = "reply"]
       /\ \A j \in InFlight \ {k} :
            \/ F[j] = frames[j]
            \/ j = frames[k].ret /\ Kept(frames[j], F[j])
  BY <1>3, <1>6, <1>8, <1>15 DEF IsFunction, InFlight
<1>17. frames[k].kind = "evict" => dir'[Source(k)].sharers = {}  BY <1>1
<1> QED
  BY ONLY IInv, <1>1, <1>2, <1>4, <1>9, <1>12, <1>13, <1>14, <1>16, <1>17,
          RepliesUnlocks

LEMMA MessageActionStep ==
  ASSUME IInv, NEW k \in InFlight, MessageAction(k)  PROVE Preserved
<1>1. /\ Idle(k) /\ frames[k].ev = "action" /\ frames[k].kind = "message"
      /\ blk' = blk
  BY ScheduledIdle DEF MessageAction
<1>2. CASE frames[k].err
  <2>1. frames' = ErrorPassed(k) /\ UNCHANGED <<blk, dir, lock, queue>>
    BY <1>1, <1>2 DEF MessageAction, ErrorPassed
  <2>2. ~Locks(k) /\ frames[k].kind \notin AccessKind \cup {"invalidate"}
    BY <1>1, <1>2 DEF Locks, AccessKind
  <2> QED  BY ONLY IInv, <1>1, <2>1, <2>2, ErrorReply
<1>3. CASE ~frames[k].err
  <2>1. PICK d : d = Locked(k)  OBVIOUS
  <2>2. Locks(k) /\ frames[k].kind \notin AccessKind
    BY <1>1, <1>3 DEF Locks, AccessKind
  <2>3. d \in Entry  BY <2>1, <2>2, FrameFacts DEF FrameOK
  <2>4. PICK F : F = [frames EXCEPT ![k].ev = "reply"]  OBVIOUS
  <2>5. PICK b : b = blk[d]  OBVIOUS
  <2>6. PICK o : o = [dir[d] EXCEPT !.owner = None]  OBVIOUS
  <2>7. /\ frames' = Wake(F, d) /\ Unlock(d) /\ dir' = [dir EXCEPT ![d] = o]
    BY <1>3, <2>1, <2>3, <2>4, <2>6 DEF MessageAction
  <2>8. blk' = [blk EXCEPT ![d] = b]  BY <1>1, <2>3, <2>5 DEF IInv, TypeOK
  <2>9. BlockOK(d, b, o)  BY <2>3, <2>5, <2>6, BlockNow DEF BlockOK
  <2>10. /\ IsFunction(F) /\ DOMAIN F = InFlight
         /\ F[k] = [frames[k] EXCEPT !.ev = "reply"]
         /\ \A j \in InFlight \ {k} :
              \/ F[j] = frames[j]
              \/ j = frames[k].ret /\ Kept(frames[j], F[j])
    BY <2>4, OnlyReplies
  <2>11. frames[k].kind = "evict" => dir'[Source(k)].sharers = {}  BY <1>1
  <2> QED
    BY ONLY IInv, <1>1, <2>1, <2>2, <2>7, <2>8, <2>9, <2>10, <2>11, RepliesUnlocks
<1> QED  BY <1>2, <1>3

LEMMA EvictProcessStep ==
  ASSUME IInv, NEW k \in InFlight, EvictProcess(k)  PROVE Preserved
<1>1. Idle(k) /\ frames[k].ev = "action" /\ frames[k].kind = "evict"
  BY ScheduledIdle DEF EvictProcess
<1>2. PICK F : F = [frames EXCEPT ![k].ev = "reply"]  OBVIOUS
<1>3. /\ IsFunction(F) /\ DOMAIN F = InFlight
      /\ F[k] = [frames[k] EXCEPT !.ev = "reply"]
      /\ \A j \in InFlight \ {k} :
           \/ F[j] = frames[j]
           \/ j = frames[k].ret /\ Kept(frames[j], F[j])
  BY <1>2, OnlyReplies
<1>4. frames[k].kind \notin AccessKind \cup {"invalidate"}
  BY <1>1 DEF AccessKind
<1>5. CASE frames[k].err
  <2>1. frames' = F /\ UNCHANGED <<blk, dir, lock, queue>>
    BY <1>2, <1>5 DEF EvictProcess
  <2>2. ~Locks(k)  BY <1>1, <1>5 DEF Locks
  <2>3. /\ \A j \in InFlight \ {k} : j \in DOMAIN F /\ Kept(frames[j], F[j])
        /\ LetsGo(k, F)
    BY ONLY IInv, <1>1, <1>3, <1>4, TellsCaller
  <2>4. DOMAIN F \subseteq InFlight  BY <1>3
  <2> QED  BY ONLY IInv, <1>1, <1>3, <2>1, <2>2, <2>3, <2>4, Leaves
<1>6. CASE ~frames[k].err
  <2>1. PICK d : d = Locked(k)  OBVIOUS
  <2>2. Locks(k) /\ frames[k].kind \notin AccessKind
    BY <1>1, <1>4, <1>6 DEF Locks
  <2>3. /\ d \in Entry /\ frames[k] \in Frame(frames[k].ret) /\ ReliesOn(k)
        /\ Source(k) \in Entry
    BY <1>1, <2>1, <2>2, FrameFacts DEF FrameOK
  <2>4. PICK o : o = Forget(dir[d], frames[k].from)  OBVIOUS
  <2>5. /\ frames' = Wake(F, d) /\ Unlock(d) /\ dir' = [dir EXCEPT ![d] = o]
        /\ CanTakeData(frames[k])
        /\ IF frames[k].reply = "ack_data"
           THEN SetBlock(d, frames[k].tag, StateAfterData(frames[k])) ELSE blk' = blk
    BY <1>2, <1>6, <2>1, <2>3, <2>4 DEF EvictProcess
  <2>6. PICK b : b = IF frames[k].reply = "ack_data"
                     THEN [tag |-> frames[k].tag, state |-> StateAfterData(frames[k])]
                     ELSE blk[d]
    OBVIOUS
  <2>7. blk' = [blk EXCEPT ![d] = b]
    <3>1. CASE frames[k].reply = "ack_data"  BY <2>3, <2>5, <2>6, <3>1, BlockSet
    <3>2. CASE frames[k].reply # "ack_data"
      BY <2>3, <2>5, <2>6, <3>2 DEF IInv, TypeOK
    <3> QED  BY <3>1, <3>2
  <2>8. BlockOK(d, b, o)
    <3>1. BlockOK(d, blk[d], dir[d])  BY <2>3, BlockNow
    <3>2. /\ o.sharers = dir[d].sharers \ {frames[k].from}
          /\ o.owner = IF dir[d].owner = frames[k].from THEN None ELSE dir[d].owner
          /\ o \in [owner : Mod \cup {None}, sharers : SUBSET Mod]
      BY <2>4, <3>1 DEF Forget, BlockOK
    <3>3. CASE frames[k].reply = "ack_data"
      <4>1. frames[k].state \in {"E", "O", "M", "S", "N"}
        BY <2>5, <3>3 DEF CanTakeData
      <4>2. StateAfterData(frames[k]) \in State \ {"I"}
        BY <4>1 DEF StateAfterData, State
      <4>3. b = [tag |-> frames[k].tag, state |-> StateAfterData(frames[k])]
        BY <2>6, <3>3
      <4>4. frames[k].tag \in Tag  BY <2>3 DEF Frame
      <4> QED  BY <3>1, <3>2, <4>2, <4>3, <4>4 DEF BlockOK
    <3>4. CASE frames[k].reply # "ack_data"
      BY <2>6, <3>1, <3>2, <3>4 DEF BlockOK
    <3> QED  BY <3>3, <3>4
  <2>9. frames[k].kind = "evict" => dir'[Source(k)].sharers = {}
    <3>1. dir \in [Entry -> [owner : Mod \cup {None}, sharers : SUBSET Mod]]
      BY DEF IInv, TypeOK
    <3>2. dir[Source(k)].sharers = {}  BY <1>1, <2>3 DEF ReliesOn
    <3>3. o.sharers \subseteq dir[d].sharers  BY <2>4 DEF Forget
    <3> QED  BY <2>3, <2>5, <3>1, <3>2, <3>3
  <2> QED
    BY ONLY IInv, <1>1, <1>3, <2>1, <2>2, <2>5, <2>7, <2>8, <2>9, RepliesUnlocks
<1> QED  BY <1>5, <1>6

-----------------------------------------------------------------------------
(***************************************************************************)
(* The handlers, one by one: accesses.                                     *)
(***************************************************************************)
LEMMA Over ==
  ASSUME IInv, NEW k \in InFlight, frames[k].kind # "evict", NEW F, F = Without(frames, k)
  PROVE  /\ IsFunction(F) /\ DOMAIN F \subseteq InFlight /\ LetsGo(k, F)
         /\ \A j \in InFlight \ {k} : j \in DOMAIN F /\ Kept(frames[j], F[j])
<1>1. /\ IsFunction(F) /\ DOMAIN F = InFlight \ {k}
      /\ \A j \in InFlight \ {k} : F[j] = frames[j]
  BY DEF Without, IsFunction, InFlight
<1> QED  BY <1>1, KeptSame DEF LetsGo

LEMMA TriedAgain ==
  ASSUME IInv, NEW k \in InFlight, frames[k].kind \in AccessKind, NEW F, F = Retry(k)
  PROVE  /\ IsFunction(F) /\ DOMAIN F \subseteq InFlight /\ LetsGo(k, F)
         /\ \A j \in InFlight \ {k} : j \in DOMAIN F /\ Kept(frames[j], F[j])
<1>1. PICK f : f = frames[k]  OBVIOUS
<1>2. f \in Frame(f.ret)  BY <1>1, FrameFacts
<1>3. PICK g : g = NewFrame(f.kind, f.from, f.at, f.tag, f.ret, "lock")  OBVIOUS
<1>4. PICK h : h = [g EXCEPT !.way = f.way]  OBVIOUS
<1>5. g \in Frame(f.ret)
  <2>1. /\ f.kind \in Kind /\ f.from \in Mod /\ f.at \in Mod \cup {None} /\ f.tag \in Tag
        /\ "lock" \in EventKind
    BY <1>2 DEF Frame, EventKind
  <2> QED  BY <1>3, <2>1, NewTyped
<1>6. g.ev = "lock" /\ g.kind = f.kind  BY <1>3 DEF NewFrame
<1>7. h \in Frame(f.ret) /\ h.ev = "lock" /\ h.kind = f.kind
  BY <1>2, <1>4, <1>5, <1>6 DEF Frame
<1>8. F = [frames EXCEPT ![k] = h]  BY <1>1, <1>3, <1>4 DEF Retry
<1>9. /\ IsFunction(F) /\ DOMAIN F = InFlight /\ F[k] = h
      /\ \A j \in InFlight \ {k} : F[j] = frames[j]
  BY <1>8 DEF IsFunction, InFlight
<1> QED  BY <1>1, <1>7, <1>9, KeptSame DEF LetsGo

LEMMA DoneStep ==
  ASSUME IInv, NEW k \in InFlight, Idle(k), Locks(k), frames[k].kind \in AccessKind,
         NEW d, d = Locked(k), Done(k),
         NEW b, NEW o, BlockOK(d, b, o),
         blk' = [blk EXCEPT ![d] = b], dir' = [dir EXCEPT ![d] = o]
  PROVE  Preserved
<1>1. d \in Entry  BY FrameFacts DEF FrameOK
<1>2. PICK F : F = Without(frames, k)  OBVIOUS
<1>3. frames[k].kind # "evict"  BY DEF AccessKind
<1>4. /\ IsFunction(F) /\ DOMAIN F \subseteq InFlight /\ LetsGo(k, F)
      /\ \A j \in InFlight \ {k} : j \in DOMAIN F /\ Kept(frames[j], F[j])
  BY ONLY IInv, k \in InFlight, <1>2, <1>3, Over
<1>5. frames' = Wake(F, d) /\ Unlock(d)  BY <1>2 DEF Done
<1>6. /\ blk' \in [Entry -> [tag : Tag \cup {None}, state : State]]
      /\ dir' \in [Entry -> [owner : Mod \cup {None}, sharers : SUBSET Mod]]
      /\ ChangesOnly(d)
  BY <1>1, DataChanges
<1>7. frames[k].kind = "evict" => dir'[Source(k)].sharers = {}  BY <1>3
<1> QED
  BY ONLY IInv, Idle(k), Locks(k), d = Locked(k), <1>4, <1>5, <1>6, <1>7, Unlocks

LEMMA FailStep ==
  ASSUME IInv, NEW k \in InFlight, Idle(k), Locks(k), frames[k].kind \in AccessKind,
         Fail(k), UNCHANGED <<blk, dir>>
  PROVE  Preserved
<1>1. PICK d : d = Locked(k)  OBVIOUS
<1>2. d \in Entry  BY <1>1, FrameFacts DEF FrameOK
<1>3. PICK F : F = IF frames[k].kind = "prefetch" THEN Without(frames, k) ELSE Retry(k)
  OBVIOUS
<1>4. frames' = Wake(F, d) /\ Unlock(d)  BY <1>1, <1>3 DEF Fail
<1>5. frames[k].kind # "evict"  BY DEF AccessKind
<1>6. /\ IsFunction(F) /\ DOMAIN F \subseteq InFlight /\ LetsGo(k, F)
      /\ \A j \in InFlight \ {k} : j \in DOMAIN F /\ Kept(frames[j], F[j])
  <2>1. CASE frames[k].kind = "prefetch"
    BY <1>3, <1>5, <2>1, Over
  <2>2. CASE frames[k].kind # "prefetch"
    BY <1>3, <2>2, TriedAgain
  <2> QED  BY <2>1, <2>2
<1>7. /\ blk' \in [Entry -> [tag : Tag \cup {None}, state : State]]
      /\ dir' \in [Entry -> [owner : Mod \cup {None}, sharers : SUBSET Mod]]
      /\ ChangesOnly(d)
  BY <1>2, DataSame
<1>8. frames[k].kind = "evict" => dir'[Source(k)].sharers = {}  BY <1>5
<1> QED
  BY ONLY IInv, Idle(k), Locks(k), <1>1, <1>4, <1>6, <1>7, <1>8, Unlocks

LEMMA LockErrorStep ==
  ASSUME IInv, NEW k \in InFlight, LockError(k)  PROVE Preserved
<1>1. /\ Idle(k) /\ frames[k].ev = "action" /\ frames[k].kind \in AccessKind
      /\ frames[k].err /\ UNCHANGED <<blk, dir, lock, queue>>
  BY ScheduledIdle DEF LockError
<1>2. PICK F : F = IF frames[k].kind = "prefetch" THEN Without(frames, k) ELSE Retry(k)
  OBVIOUS
<1>3. frames' = F  BY <1>2 DEF LockError
<1>4. frames[k].kind # "evict" /\ ~Locks(k)  BY <1>1 DEF AccessKind, Locks
<1>5. /\ IsFunction(F) /\ DOMAIN F \subseteq InFlight /\ LetsGo(k, F)
      /\ \A j \in InFlight \ {k} : j \in DOMAIN F /\ Kept(frames[j], F[j])
  <2>1. CASE frames[k].kind = "prefetch"
    BY <1>2, <1>4, <2>1, Over
  <2>2. CASE frames[k].kind # "prefetch"
    BY <1>1, <1>2, <2>2, TriedAgain
  <2> QED  BY <2>1, <2>2
<1> QED  BY ONLY IInv, <1>1, <1>3, <1>4, <1>5, Leaves

\* An access that ends or fails, with its block in state s in the first case.
LEMMA AccessEnds ==
  ASSUME IInv, NEW k \in InFlight, Idle(k), Locks(k), frames[k].kind \in AccessKind,
         \/ Fail(k) /\ blk' = blk
         \/ Done(k) /\ blk' = blk
         \/ Done(k) /\ \E s \in State \ {"I"} : SetBlock(Locked(k), frames[k].tag, s),
         dir' = dir
  PROVE  Preserved
<1>1. PICK d : d = Locked(k)  OBVIOUS
<1>2. d \in Entry /\ frames[k] \in Frame(frames[k].ret)
  BY <1>1, FrameFacts DEF FrameOK
<1>3. PICK o : o = dir[d]  OBVIOUS
<1>4. dir' = [dir EXCEPT ![d] = o]  BY <1>2, <1>3 DEF IInv, TypeOK
<1>5. CASE Fail(k) /\ blk' = blk
  <2>1. Fail(k) /\ UNCHANGED <<blk, dir>>  BY <1>5
  <2> QED
    BY ONLY IInv, k \in InFlight, Idle(k), Locks(k), frames[k].kind \in AccessKind,
            <2>1, FailStep
<1>6. CASE Done(k) /\ blk' = blk
  <2>1. PICK b : b = blk[d]  OBVIOUS
  <2>2. blk' = [blk EXCEPT ![d] = b]  BY <1>2, <1>6, <2>1 DEF IInv, TypeOK
  <2>3. BlockOK(d, b, o)  BY <1>2, <1>3, <2>1, BlockNow
  <2> QED
    BY ONLY IInv, k \in InFlight, Idle(k), Locks(k), frames[k].kind \in AccessKind,
            <1>1, <1>4, <1>6, <2>2, <2>3, DoneStep
<1>7. ASSUME Done(k), NEW s \in State \ {"I"}, SetBlock(Locked(k), frames[k].tag, s)
      PROVE  Preserved
  <2>1. PICK b : b = [tag |-> frames[k].tag, state |-> s]  OBVIOUS
  <2>2. blk' = [blk EXCEPT ![d] = b]  BY <1>1, <1>2, <1>7, <2>1, BlockSet
  <2>3. BlockOK(d, b, o)
    BY <1>2, <1>3, <2>1, BlockNow DEF BlockOK, Frame
  <2> QED
    BY ONLY IInv, k \in InFlight, Idle(k), Locks(k), frames[k].kind \in AccessKind,
            <1>1, <1>4, <1>7, <2>2, <2>3, DoneStep
<1> QED  BY <1>5, <1>6, <1>7

LEMMA LoadActionStep ==
  ASSUME IInv, NEW k \in InFlight, LoadAction(k)  PROVE Preserved
<1>1. /\ Idle(k) /\ frames[k].ev = "action" /\ frames[k].kind \in AccessKind
      /\ ~frames[k].err /\ UNCHANGED <<blk, dir>>
  BY ScheduledIdle DEF LoadAction, AccessKind
<1>2. Locks(k)  BY <1>1 DEF Locks, AccessKind
<1>3. CASE frames[k].state # "I"
  <2>1. Done(k) /\ blk' = blk /\ dir' = dir  BY <1>1, <1>3 DEF LoadAction
  <2> QED  BY ONLY IInv, k \in InFlight, <1>1, <1>2, <2>1, AccessEnds
<1>4. CASE frames[k].state = "I"
  <2>1. /\ frames' = ReadUpDown(k, frames[k].at, frames[k].tag, "miss", FALSE)
        /\ UNCHANGED <<blk, dir, lock, queue>>
    BY <1>1, <1>4 DEF LoadAction
  <2> QED  BY ONLY IInv, <1>1, <1>2, <2>1, CallsReadUpDown
<1> QED  BY <1>3, <1>4

LEMMA LoadMissStep ==
  ASSUME IInv, NEW k \in InFlight, LoadMiss(k)  PROVE Preserved
<1>1. /\ Idle(k) /\ frames[k].ev = "miss" /\ frames[k].kind \in AccessKind
      /\ dir' = dir
  BY ScheduledIdle DEF LoadMiss, AccessKind
<1>2. Locks(k)  BY <1>1 DEF Locks, AccessKind
<1>3. \/ Fail(k) /\ blk' = blk
      \/ Done(k) /\ blk' = blk
      \/ Done(k) /\ \E s \in State \ {"I"} : SetBlock(Locked(k), frames[k].tag, s)
  <2>1. CASE frames[k].err  BY <2>1 DEF LoadMiss
  <2>2. CASE ~frames[k].err
    <3>1. PICK s : s = IF frames[k].shared THEN "S" ELSE "E"  OBVIOUS
    <3>2. Done(k) /\ SetBlock(Locked(k), frames[k].tag, s)
      BY <2>2, <3>1 DEF LoadMiss
    <3> QED  BY <3>1, <3>2 DEF State
  <2> QED  BY <2>1, <2>2
<1> QED  BY ONLY IInv, k \in InFlight, <1>1, <1>2, <1>3, AccessEnds

LEMMA StoreActionStep ==
  ASSUME IInv, NEW k \in InFlight, StoreAction(k)  PROVE Preserved
<1>1. /\ Idle(k) /\ frames[k].ev = "action" /\ frames[k].kind = "store"
      /\ ~frames[k].err /\ UNCHANGED <<blk, dir, lock, queue>>
  BY ScheduledIdle DEF StoreAction
<1>2. Locks(k) /\ frames[k] \in Frame(frames[k].ret)
  BY <1>1, FrameFacts DEF Locks
<1>3. CASE frames[k].state \in {"M", "E"}
  <2>1. frames' = [frames EXCEPT ![k].ev = "unlock"]  BY <1>3 DEF StoreAction
  <2>2. Fits(k, [frames[k] EXCEPT !.ev = "unlock"])
    BY <1>1, <1>2 DEF Fits, Frame
  <2> QED  BY ONLY IInv, <1>1, <1>2, <2>1, <2>2, GoesAlone
<1>4. CASE frames[k].state \notin {"M", "E"}
  <2>1. frames' = WriteUpDown(k, frames[k].at, frames[k].tag, "unlock")
    BY <1>4 DEF StoreAction
  <2>2. /\ frames[k].kind # "writeDU" /\ frames[k].kind # "readUD"
        /\ frames[k].kind # "writeUD"
    BY <1>1
  <2> QED  BY ONLY IInv, <1>1, <1>2, <2>1, <2>2, CallsWriteUpDown
<1> QED  BY <1>3, <1>4

LEMMA StoreUnlockStep ==
  ASSUME IInv, NEW k \in InFlight, StoreUnlock(k)  PROVE Preserved
<1>1. /\ Idle(k) /\ frames[k].ev = "unlock" /\ frames[k].kind \in AccessKind
      /\ dir' = dir
  BY ScheduledIdle DEF StoreUnlock, AccessKind
<1>2. Locks(k)  BY <1>1 DEF Locks, AccessKind
<1>3. \/ Fail(k) /\ blk' = blk
      \/ Done(k) /\ \E s \in State \ {"I"} : SetBlock(Locked(k), frames[k].tag, s)
  BY DEF StoreUnlock, State
<1> QED  BY ONLY IInv, k \in InFlight, <1>1, <1>2, <1>3, AccessEnds

LEMMA NcUnlockStep ==
  ASSUME IInv, NEW k \in InFlight, Idle(k), Locks(k), frames[k].kind = "nc",
         NcUnlock(k), dir' = dir
  PROVE  Preserved
<1>1. /\ Done(k) /\ \E s \in State \ {"I"} : SetBlock(Locked(k), frames[k].tag, s)
      /\ frames[k].kind \in AccessKind
  BY DEF NcUnlock, State, AccessKind
<1> QED
  BY ONLY IInv, k \in InFlight, Idle(k), Locks(k), dir' = dir, <1>1, AccessEnds

LEMMA NcActionStep ==
  ASSUME IInv, NEW k \in InFlight, NcAction(k)  PROVE Preserved
<1>1. Idle(k) /\ frames[k].ev = "ncAction" /\ frames[k].kind = "nc" /\ dir' = dir
  BY ScheduledIdle DEF NcAction
<1>2. Locks(k) /\ frames[k].kind \in AccessKind  BY <1>1 DEF Locks, AccessKind
<1>3. CASE /\ ~frames[k].err
           /\ MainMemory(frames[k].at) \/ frames[k].state \in {"S", "N"}
  <2>1. NcUnlock(k)  BY <1>3 DEF NcAction
  <2> QED  BY ONLY IInv, k \in InFlight, <1>1, <1>2, <2>1, NcUnlockStep
<1>4. CASE frames[k].err
  <2>1. PICK F : F = Retry(k)  OBVIOUS
  <2>2. frames' = F /\ UNCHANGED <<blk, dir, lock, queue>>
    BY <1>1, <1>4, <2>1 DEF NcAction
  <2>3. "nc" \in Ops
    <3>1. frames[k].kind \in Kind  BY FrameFacts DEF Frame
    <3> QED  BY <1>1, <3>1 DEF Kind
  <2>4. /\ IsFunction(F) /\ DOMAIN F \subseteq InFlight /\ LetsGo(k, F)
        /\ \A j \in InFlight \ {k} : j \in DOMAIN F /\ Kept(frames[j], F[j])
    BY ONLY IInv, k \in InFlight, <1>2, <2>1, TriedAgain
  <2> QED  BY ONLY IInv, <1>1, <2>2, <2>3, <2>4, Leaves
<1>5. CASE ~frames[k].err /\ ~MainMemory(frames[k].at) /\ frames[k].state = "E"
  <2>1. /\ frames' = ClearOwner(k, frames[k].at, frames[k].tag, "ncMiss")
        /\ UNCHANGED <<blk, dir, lock, queue>>
    BY <1>1, <1>5 DEF NcAction
  <2> QED  BY ONLY IInv, <1>1, <1>2, <2>1, CallsMessage
<1>6. CASE /\ ~frames[k].err /\ ~MainMemory(frames[k].at)
           /\ frames[k].state \notin {"S", "N", "E"}
  <2>1. /\ frames' = ReadUpDown(k, frames[k].at, frames[k].tag, "ncMiss", TRUE)
        /\ UNCHANGED <<blk, dir, lock, queue>>
    BY <1>1, <1>6 DEF NcAction
  <2> QED  BY ONLY IInv, <1>1, <1>2, <2>1, CallsReadUpDown
<1> QED  BY <1>3, <1>4, <1>5, <1>6

LEMMA NcMissStep ==
  ASSUME IInv, NEW k \in InFlight, NcMiss(k)  PROVE Preserved
<1>1. Idle(k) /\ frames[k].ev = "ncMiss" /\ frames[k].kind = "nc" /\ dir' = dir
  BY ScheduledIdle DEF NcMiss
<1>2. Locks(k) /\ frames[k].kind \in AccessKind  BY <1>1 DEF Locks, AccessKind
<1>3. CASE frames[k].err
  <2>1. Fail(k) /\ blk' = blk  BY <1>3 DEF NcMiss
  <2> QED  BY ONLY IInv, k \in InFlight, <1>1, <1>2, <2>1, AccessEnds
<1>4. CASE ~frames[k].err
  <2>1. NcUnlock(k)  BY <1>4 DEF NcMiss
  <2> QED  BY ONLY IInv, k \in InFlight, <1>1, <1>2, <2>1, NcUnlockStep
<1> QED  BY <1>3, <1>4

-----------------------------------------------------------------------------
(***************************************************************************)
(* Invalidations.                                                          *)
(***************************************************************************)
LEMMA EntryPair ==
  ASSUME NEW e \in Entry
  PROVE  e = <<e[1], e[2]>> /\ e[1] \in Mod /\ e[2] \in Nat
BY TreeAssumption DEF Entry

\* The frames that an invalidation creates for frame q.
LEMMA InvalidationFresh ==
  ASSUME IInv, NEW q, q \in InFlight => Children(q) = {}, q[3] # "evict" => q \in InFlight,
         NEW e \in Entry, NEW except,
         NEW N, N = Invalidation(q, e, except)
  PROVE  /\ DOMAIN N \cap InFlight = {} /\ q \notin DOMAIN N
         /\ \A n \in DOMAIN N : n[3] \in {"invalidate", "writeDU"}
<1>1. PICK inv : inv = Call(q, "invalidate", e[1])  OBVIOUS
<1>2. inv \notin InFlight /\ inv[3] = "invalidate"
  BY <1>1, Fresh DEF AccessKind, Call
<1>3. ASSUME NEW m  PROVE Call(inv, "writeDU", m) \notin InFlight
  BY <1>2, Fresh DEF AccessKind
<1>4. DOMAIN N \subseteq {inv} \cup {Call(inv, "writeDU", m) : m \in Victims(e, except)}
  BY <1>1 DEF Invalidation
<1>5. ASSUME NEW n \in DOMAIN N
      PROVE  n \notin InFlight /\ n[3] \in {"invalidate", "writeDU"}
  <2>1. CASE n = inv  BY <1>2, <2>1
  <2>2. CASE n # inv
    <3>1. PICK m : n = Call(inv, "writeDU", m)  BY <1>4, <2>2
    <3> QED  BY <1>3, <3>1 DEF Call
  <2> QED  BY <2>1, <2>2
<1> QED  BY <1>5

LEMMA InvalidationStarts ==
  ASSUME IInv, NEW q, q[1] \in Access, q \in InFlight',
         NEW e \in Entry, NEW except,
         NEW N, N = Invalidation(q, e, except),
         \A n \in DOMAIN N : n \in InFlight' /\ frames'[n] = N[n],
         \/ frames'[q].kind = "evict" /\ frames'[q].ev = "invalid" /\ Source(q)' = e
         \/ /\ frames'[q].kind \in {"writeUD", "writeDU"} /\ frames'[q].ev = "exclusive"
            /\ Locked(q)' = e,
         NEW n \in DOMAIN N
  PROVE  Started(n)'
<1>1. PICK inv : inv = Call(q, "invalidate", e[1])  OBVIOUS
<1>2. PICK reqs : reqs = {Call(inv, "writeDU", m) : m \in Victims(e, except)}  OBVIOUS
<1>3. reqs # {} /\ DOMAIN N = reqs \cup {inv}
  BY <1>1, <1>2 DEF Invalidation
<1>4. e = <<e[1], e[2]>> /\ e[1] \in Mod /\ e[2] \in Nat /\ Entry' = Entry
  BY EntryPair DEF Entry
<1>5. /\ blk[e] \in [tag : Tag \cup {None}, state : State]
      /\ dir[e].sharers \in SUBSET Mod
      /\ \A m \in dir[e].sharers : Low[m] = e[1]
      /\ blk[e].tag \in Tag
  <2>1. BlockOK(e, blk[e], dir[e])  BY BlockNow
  <2>2. dir[e].sharers # {}  BY <1>2, <1>3 DEF Victims
  <2> QED  BY <2>1, <2>2 DEF BlockOK
<1>6. inv[3] = "invalidate" /\ inv[1] = q[1] /\ inv = <<inv[1], q, "invalidate", inv[4]>>
  BY <1>1 DEF Call
<1>7. ASSUME NEW m  PROVE Call(inv, "writeDU", m) # inv
  BY <1>6 DEF Call
<1>8. frames'[inv] = [NewFrame("invalidate", e[1], e[1], blk[e].tag, q, "finish")
                        EXCEPT !.way = e[2], !.state = blk[e].state]
  BY <1>1, <1>2, <1>3 DEF Invalidation
<1>9. /\ frames'[inv] \in Frame(q) /\ frames'[inv].kind = "invalidate"
      /\ frames'[inv].ev = "finish" /\ frames'[inv].at = e[1] /\ frames'[inv].way = e[2]
      /\ frames'[inv].ret = q
  <2>1. PICK g : g = NewFrame("invalidate", e[1], e[1], blk[e].tag, q, "finish")  OBVIOUS
  <2>2. g \in Frame(q)
    <3>1. "invalidate" \in Kind /\ "finish" \in EventKind  BY DEF Kind, EventKind
    <3> QED  BY <1>4, <1>5, <2>1, <3>1, NewTyped
  <2>3. g.kind = "invalidate" /\ g.ev = "finish" /\ g.at = e[1] /\ g.ret = q
    BY <2>1 DEF NewFrame
  <2>4. frames'[inv] = [g EXCEPT !.way = e[2], !.state = blk[e].state]
    BY <1>8, <2>1
  <2> QED  BY <1>4, <1>5, <2>2, <2>3, <2>4 DEF Frame
<1>10. Locked(inv)' = e  BY <1>4, <1>9 DEF Locked
<1>11. CASE n = inv
  <2>1. Named(n, frames)'
    BY <1>6, <1>9, <1>11 DEF Named, InFlight, AccessKind
  <2>2. FrameOK(n)'
    BY <1>4, <1>9, <1>10, <1>11 DEF FrameOK, Locks
  <2>3. CallOK(n)'
    BY <1>6, <1>9, <1>10, <1>11 DEF CallOK
  <2>4. ReliesOn(n)'  BY <1>9, <1>11 DEF ReliesOn
  <2>5. \A x : ~Holds(n, x)'  BY <1>9, <1>11 DEF Holds, Locks
  <2>6. frames'[n].ev # "lockWait"  BY <1>9, <1>11
  <2> QED  BY <2>1, <2>2, <2>3, <2>4, <2>5, <2>6 DEF Started
<1>12. CASE n # inv
  <2>1. PICK m \in Victims(e, except) : n = Call(inv, "writeDU", m)
    BY <1>2, <1>3, <1>12
  <2>2. m \in Mod /\ Low[m] = e[1]  BY <1>5, <2>1 DEF Victims
  <2>3. frames'[n] = NewFrame("writeDU", e[1], m, blk[e].tag, inv, "lock")
    BY <1>1, <1>2, <1>3, <1>12, <2>1 DEF Invalidation, Call
  <2>4. frames'[n] \in Frame(inv)
    <3>1. "writeDU" \in Kind /\ "lock" \in EventKind  BY DEF Kind, EventKind
    <3> QED  BY <1>4, <1>5, <2>2, <2>3, <3>1, NewTyped
  <2>5. /\ frames'[n].kind = "writeDU" /\ frames'[n].ev = "lock" /\ frames'[n].at = m
        /\ frames'[n].ret = inv /\ frames'[n].from = e[1]
    BY <2>3 DEF NewFrame
  <2>6. n[1] = inv[1] /\ n = <<n[1], inv, "writeDU", n[4]>>  BY <2>1 DEF Call
  <2>7. inv \in InFlight'  BY <1>3
  <2>8. Named(n, frames)'
    BY <1>6, <2>4, <2>5, <2>6, <2>7 DEF Named, InFlight, AccessKind
  <2>9. FrameOK(n)'
    BY <2>2, <2>5 DEF FrameOK, Locks
  <2>10. CallOK(n)'
    BY <1>9, <2>5, <2>6 DEF CallOK
  <2>11. ReliesOn(n)'  BY <2>5 DEF ReliesOn
  <2>12. \A x : ~Holds(n, x)'  BY <2>5 DEF Holds, Locks
  <2> QED  BY <2>5, <2>8, <2>9, <2>10, <2>11, <2>12 DEF Started
<1> QED  BY <1>11, <1>12

\* The sharers of an entry but one are forgotten, and the owner if it is one.
LEMMA SharersCleared ==
  ASSUME IInv, NEW d \in Entry, NEW except, ClearSharers(d, except)
  PROVE  \E o : /\ dir' = [dir EXCEPT ![d] = o] /\ dir'[d] = o
                /\ BlockOK(d, blk[d], o) /\ o.sharers = dir[d].sharers \cap {except}
<1>1. /\ dir \in [Entry -> [owner : Mod \cup {None}, sharers : SUBSET Mod]]
      /\ dir[d] \in [owner : Mod \cup {None}, sharers : SUBSET Mod]
  BY DEF IInv, TypeOK
<1>2. PICK o : o = [owner |-> IF dir[d].owner \in Victims(d, except) THEN None
                              ELSE dir[d].owner,
                    sharers |-> dir[d].sharers \ Victims(d, except)]
  OBVIOUS
<1>3. /\ dir' = [e \in Entry |-> dir'[e]] /\ dir'[d] = o
      /\ \A e \in Entry \ {d} : dir'[e] = dir[e]
  BY <1>1, <1>2 DEF ClearSharers
<1>4. dir' = [dir EXCEPT ![d] = o]  BY <1>1, <1>3
<1>5. o.sharers = dir[d].sharers \cap {except}  BY <1>2 DEF Victims
<1>6. BlockOK(d, blk[d], dir[d])  BY BlockNow
<1>7. BlockOK(d, blk[d], o)
  BY <1>1, <1>2, <1>5, <1>6 DEF BlockOK, Victims
<1> QED  BY <1>3, <1>4, <1>5, <1>7

\* The frames that an eviction of entry e creates for frame k.
LEMMA EvictionStarts ==
  ASSUME IInv, NEW k \in InFlight, Children(k) = {}, NEW e \in Entry,
         blk[e].tag \in Tag, e[1] = frames[k].at,
         NEW N, N = Eviction(k, e),
         \A n \in DOMAIN N : n \in InFlight' /\ frames'[n] = N[n],
         k \in InFlight', frames'[k].at = e[1],
         \/ frames'[k].ev = "evicting"
         \/ frames'[k].ev = "ncAction" /\ Locked(k)' = e,
         dir'[e].sharers = {}
  PROVE  /\ DOMAIN N \cap InFlight = {} /\ EvictKey(k) \in DOMAIN N
         /\ Source(EvictKey(k))' = e
         /\ \A n \in DOMAIN N : Started(n)'
<1>1. PICK ev : ev = Call(k, "evict", e[1])  OBVIOUS
<1>2. PICK I : I = Invalidation(ev, e, None)  OBVIOUS
<1>3. PICK g : g = NewFrame("evict", e[1], Low[e[1]], blk[e].tag, k, "invalid")  OBVIOUS
<1>4. PICK h : h = [g EXCEPT !.way = e[2], !.src = e[2]]  OBVIOUS
<1>5. N = Adding([c \in {ev} |-> h], I)
  BY <1>1, <1>2, <1>3, <1>4 DEF Eviction
<1>6. /\ ev \notin InFlight /\ ev[3] = "evict" /\ ev[1] = k[1] /\ ev[1] \in Access
      /\ ev = <<ev[1], k, "evict", ev[4]>> /\ ev[4] = e[1]
  BY <1>1, Fresh DEF Call, AccessKind, IInv, TypeOK
<1>7. /\ DOMAIN I \cap InFlight = {} /\ ev \notin DOMAIN I
  BY <1>2, <1>6, InvalidationFresh
<1>8. /\ DOMAIN N = DOMAIN I \cup {ev} /\ N[ev] = h
      /\ \A n \in DOMAIN I : N[n] = I[n]
  BY <1>5, <1>7 DEF Adding
<1>9. e = <<e[1], e[2]>> /\ e[1] \in Mod /\ e[2] \in Nat /\ Entry' = Entry
      /\ Low[e[1]] \in Mod \cup {None}
  BY EntryPair, TreeAssumption DEF Entry
<1>10. /\ h \in Frame(k) /\ h.kind = "evict" /\ h.ev = "invalid" /\ h.from = e[1]
       /\ h.src = e[2] /\ h.ret = k
  <2>1. g \in Frame(k)
    <3>1. "evict" \in Kind /\ "invalid" \in EventKind  BY DEF Kind, EventKind
    <3> QED  BY <1>3, <1>9, <3>1, NewTyped
  <2>2. g.kind = "evict" /\ g.ev = "invalid" /\ g.from = e[1] /\ g.ret = k
    BY <1>3 DEF NewFrame
  <2> QED  BY <1>4, <1>9, <2>1, <2>2 DEF Frame
<1>11. ev \in InFlight' /\ frames'[ev] = h  BY <1>8
<1>12. Source(ev)' = e  BY <1>9, <1>10, <1>11 DEF Source
<1>13. Started(ev)'
  <2>1. Named(ev, frames)'
    BY <1>6, <1>10, <1>11 DEF Named, InFlight, AccessKind
  <2>2. ~Locks(ev)'  BY <1>10, <1>11 DEF Locks
  <2>3. FrameOK(ev)'
    BY <1>9, <1>10, <1>11, <1>12, <2>2 DEF FrameOK
  <2>4. CallOK(ev)'
    BY <1>6, <1>10, <1>11, <1>12 DEF CallOK
  <2>5. ReliesOn(ev)'  BY <1>10, <1>11, <1>12 DEF ReliesOn
  <2>6. \A x : ~Holds(ev, x)'  BY <1>10, <1>11, <2>2 DEF Holds
  <2> QED  BY <1>10, <1>11, <2>1, <2>3, <2>4, <2>5, <2>6 DEF Started
<1>14. ASSUME NEW n \in DOMAIN I  PROVE Started(n)'
  <2>1. \A m \in DOMAIN I : m \in InFlight' /\ frames'[m] = I[m]  BY <1>8
  <2>2. frames'[ev].kind = "evict" /\ frames'[ev].ev = "invalid"  BY <1>10, <1>11
  <2> QED
    BY ONLY IInv, e \in Entry, n \in DOMAIN I, <1>2, <1>6, <1>11, <1>12, <2>1, <2>2,
            InvalidationStarts
<1>15. ev = EvictKey(k)  BY <1>1 DEF EvictKey
<1>16. Source(EvictKey(k))' = e
  <2>1. EvictKey(k)' = ev  BY <1>1 DEF EvictKey, Call
  <2> QED  BY <1>12, <2>1 DEF Source
<1> QED  BY <1>6, <1>7, <1>8, <1>13, <1>14, <1>15, <1>16

LEMMA WriteActionStep ==
  ASSUME IInv, NEW k \in InFlight, WriteAction(k)  PROVE Preserved
<1>1. /\ Idle(k) /\ frames[k].ev = "action" /\ frames[k].kind \in {"writeUD", "writeDU"}
      /\ UNCHANGED <<blk, lock, queue>>
  BY ScheduledIdle DEF WriteAction
<1>2. CASE frames[k].err
  <2>1. frames' = ErrorPassed(k) /\ UNCHANGED <<blk, dir, lock, queue>>
    BY <1>1, <1>2 DEF WriteAction, ErrorPassed
  <2>2. ~Locks(k) /\ frames[k].kind \notin AccessKind \cup {"invalidate"}
    BY <1>1, <1>2 DEF Locks, AccessKind
  <2> QED  BY ONLY IInv, <1>1, <2>1, <2>2, ErrorReply
<1>3. CASE ~frames[k].err
  <2>1. PICK d : d = Locked(k)  OBVIOUS
  <2>2. Locks(k)  BY <1>1, <1>3 DEF Locks
  <2>3. d \in Entry /\ frames[k] \in Frame(frames[k].ret) /\ k[1] \in Access
    BY <2>1, <2>2, FrameFacts DEF FrameOK, IInv, TypeOK
  <2>4. PICK N : N = Invalidation(k, d, frames[k].from)  OBVIOUS
  <2>5. PICK g : g = [frames[k] EXCEPT !.ev = "exclusive"]  OBVIOUS
  <2>6. PICK F : F = Adding(N, [frames EXCEPT ![k].ev = "exclusive"])  OBVIOUS
  <2>7. frames' = F /\ ClearSharers(d, frames[k].from)
    BY <1>3, <2>1, <2>4, <2>6 DEF WriteAction
  <2>8. DOMAIN N \cap InFlight = {} /\ k \notin DOMAIN N
    BY <1>1, <2>3, <2>4, InvalidationFresh DEF Idle
  <2>9. /\ IsFunction(F) /\ DOMAIN F = InFlight \cup DOMAIN N /\ F[k] = g
        /\ \A j \in InFlight \ {k} : F[j] = frames[j]
        /\ \A n \in DOMAIN N : F[n] = N[n]
    BY <2>5, <2>6, <2>8 DEF Adding, IsFunction, InFlight
  <2>10. /\ InFlight' = InFlight \cup DOMAIN N /\ frames'[k] = g
         /\ \A n \in DOMAIN N : frames'[n] = N[n]
    BY <2>7, <2>9 DEF InFlight
  <2>11. Continues(k, g)  BY <2>3, <2>5 DEF Continues, Frame, EventKind
  <2>12. Locked(k)' = d /\ frames'[k].kind = frames[k].kind /\ frames'[k].ev = "exclusive"
         /\ frames'[k].from = frames[k].from
    BY <2>1, <2>3, <2>5, <2>10, <2>11 DEF Continues, Locked, Frame
  <2>13. \A n \in DOMAIN N : Started(n)'
    <3>1. \A n \in DOMAIN N : n \in InFlight' /\ frames'[n] = N[n]  BY <2>10
    <3>2. k \in InFlight'  BY <2>10
    <3>3. /\ frames'[k].kind \in {"writeUD", "writeDU"} /\ frames'[k].ev = "exclusive"
          /\ Locked(k)' = d
      BY <1>1, <2>12
    <3> QED  BY ONLY IInv, <2>3, <2>4, <3>1, <3>2, <3>3, InvalidationStarts
  <2>14. PICK o : /\ dir' = [dir EXCEPT ![d] = o] /\ dir'[d] = o
                  /\ BlockOK(d, blk[d], o) /\ o.sharers = dir[d].sharers \cap {frames[k].from}
    BY <2>3, <2>7, SharersCleared
  <2>15. PICK b : b = blk[d]  OBVIOUS
  <2>16. blk' = [blk EXCEPT ![d] = b]  BY <1>1, <2>3, <2>15 DEF IInv, TypeOK
  <2>17. /\ blk' \in [Entry -> [tag : Tag \cup {None}, state : State]]
         /\ dir' \in [Entry -> [owner : Mod \cup {None}, sharers : SUBSET Mod]]
         /\ ChangesOnly(d)
    BY <2>3, <2>14, <2>15, <2>16, DataChanges
  <2>18. ReliesOn(k)'
    BY <1>1, <2>12, <2>14 DEF ReliesOn
  <2>19. UNCHANGED <<lock, queue>>  BY <1>1
  <2> QED
    BY ONLY IInv, <1>1, <2>1, <2>2, <2>7, <2>8, <2>9, <2>11, <2>13, <2>17, <2>18,
            <2>19, GoesOn
<1> QED  BY <1>2, <1>3

LEMMA NcWritebackStep ==
  ASSUME IInv, NEW k \in InFlight, NcWriteback(k)  PROVE Preserved
<1>1. /\ Idle(k) /\ frames[k].ev = "action" /\ frames[k].kind = "nc" /\ ~frames[k].err
      /\ UNCHANGED <<blk, lock, queue>>
  BY ScheduledIdle DEF NcWriteback
<1>2. PICK d : d = Locked(k)  OBVIOUS
<1>3. Locks(k)  BY <1>1 DEF Locks
<1>4. /\ d \in Entry /\ frames[k] \in Frame(frames[k].ret) /\ ReliesOn(k)
      /\ d[1] = frames[k].at
  BY <1>2, <1>3, FrameFacts DEF FrameOK, Locked
<1>5. PICK g : g = [frames[k] EXCEPT !.ev = "ncAction"]  OBVIOUS
<1>6. Continues(k, g) /\ g.kind = "nc" /\ g.ev = "ncAction"
  BY <1>1, <1>4, <1>5 DEF Continues, Frame, EventKind
<1>7. CASE frames[k].state \notin {"M", "O"}
  <2>1. /\ frames' = [frames EXCEPT ![k].ev = "ncAction"]
        /\ UNCHANGED <<blk, dir, lock, queue>>
    BY <1>1, <1>7 DEF NcWriteback
  <2>2. Fits(k, [frames[k] EXCEPT !.ev = "ncAction"])
    BY <1>5, <1>6 DEF Fits
  <2> QED  BY ONLY IInv, <1>1, <1>3, <2>1, <2>2, GoesAlone
<1>8. CASE frames[k].state \in {"M", "O"}
  <2>1. PICK N : N = Eviction(k, d)  OBVIOUS
  <2>2. PICK F : F = Adding(N, [frames EXCEPT ![k].ev = "ncAction"])  OBVIOUS
  <2>3. frames' = F /\ ClearSharers(d, None)
    BY <1>2, <1>8, <2>1, <2>2 DEF NcWriteback
  <2>4. PICK o : /\ dir' = [dir EXCEPT ![d] = o] /\ dir'[d] = o
                 /\ BlockOK(d, blk[d], o) /\ o.sharers = dir[d].sharers \cap {None}
    BY <1>4, <2>3, SharersCleared
  <2>5. dir'[d].sharers = {}
    BY <2>4, TreeAssumption DEF BlockOK
  <2>6. blk[d].state = frames[k].state /\ blk[d].tag \in Tag
    BY <1>1, <1>2, <1>3, <1>4, <1>8, BlockNow DEF ReliesOn, BlockOK
  <2>7. /\ k \in DOMAIN F /\ \A n \in DOMAIN N : n \in DOMAIN F /\ F[n] = N[n]
        /\ k \notin DOMAIN N => F[k] = g
    BY <1>5, <2>2 DEF Adding, InFlight
  <2>8. k \notin DOMAIN N
    <3>1. PICK ev : ev = Call(k, "evict", d[1])  OBVIOUS
    <3>2. ev \notin InFlight /\ ev[3] = "evict"
      BY <1>1, <3>1, Fresh DEF Idle, AccessKind, Call
    <3>3. PICK I : I = Invalidation(ev, d, None)  OBVIOUS
    <3>4. DOMAIN I \cap InFlight = {}
      BY <1>4, <3>2, <3>3, InvalidationFresh
    <3>5. DOMAIN N = DOMAIN I \cup {ev}
      BY <2>1, <3>1, <3>3 DEF Eviction, Adding
    <3> QED  BY <3>2, <3>4, <3>5
  <2>9. /\ InFlight' = DOMAIN F /\ frames'[k] = g
    BY <2>3, <2>7, <2>8 DEF InFlight
  <2>10. Locked(k)' = d /\ frames'[k].at = d[1] /\ frames'[k].ev = "ncAction"
    BY <1>2, <1>4, <1>6, <2>9 DEF Continues, Locked
  <2>11. DOMAIN N \cap InFlight = {} /\ \A n \in DOMAIN N : Started(n)'
    <3>1. \A n \in DOMAIN N : n \in InFlight' /\ frames'[n] = N[n]
      BY <2>3, <2>7, <2>9
    <3>2. k \in InFlight' /\ Children(k) = {}  BY <1>1, <2>7, <2>9 DEF Idle
    <3> QED
      BY ONLY IInv, k \in InFlight, <1>4, <2>1, <2>5, <2>6, <2>10, <3>1, <3>2,
              EvictionStarts
  <2>12. /\ IsFunction(F) /\ DOMAIN F = InFlight \cup DOMAIN N /\ F[k] = g
         /\ \A j \in InFlight \ {k} : F[j] = frames[j]
    BY <1>5, <2>2, <2>8, <2>11 DEF Adding, IsFunction, InFlight
  <2>13. PICK b : b = blk[d]  OBVIOUS
  <2>14. blk' = [blk EXCEPT ![d] = b]  BY <1>1, <1>4, <2>13 DEF IInv, TypeOK
  <2>15. /\ blk' \in [Entry -> [tag : Tag \cup {None}, state : State]]
         /\ dir' \in [Entry -> [owner : Mod \cup {None}, sharers : SUBSET Mod]]
         /\ ChangesOnly(d)
    BY <1>4, <2>4, <2>13, <2>14, DataChanges
  <2>16. ReliesOn(k)'
    BY <1>6, <2>9 DEF ReliesOn
  <2>17. UNCHANGED <<lock, queue>>  BY <1>1
  <2> QED
    BY ONLY IInv, <1>1, <1>2, <1>3, <1>6, <2>3, <2>11, <2>12, <2>15, <2>16, <2>17,
            GoesOn
<1> QED  BY <1>7, <1>8

-----------------------------------------------------------------------------
(***************************************************************************)
(* Find and lock.                                                          *)
(***************************************************************************)
\* Frame k, which looks for an entry, becomes g.
LEMMA LockingFrame ==
  ASSUME IInv, NEW k \in InFlight, frames[k].ev = "lock",
         NEW g \in Frame(frames[k].ret), frames'[k] = g,
         g.kind = frames[k].kind, g.from = frames[k].from, g.at = frames[k].at,
         g.src = frames[k].src, g.peer = frames[k].peer, g.reply = frames[k].reply,
         g.ev \in {"action", "evicting", "lockWait"},
         g.ev = "lockWait" \/ (g.ev = "action" /\ ~g.err) => <<g.at, g.way>> \in Entry,
         g.state = frames[k].state \/ (g.ev = "action" /\ ~g.err),
         g.ev = "evicting" => EvictKey(k) \in InFlight'
  PROVE  /\ FrameOK(k)' /\ SameCall(frames[k], g) /\ frames[k].kind # "invalidate"
         /\ Locks(k)' <=> g.ev = "action" /\ ~g.err
         /\ Locked(k)' = <<g.at, g.way>> /\ Source(k)' = Source(k)
         /\ \A e : ~Holds(k, e)
<1>1. FrameOK(k)  BY FrameFacts
<1>2. frames[k].kind # "invalidate"  BY <1>1 DEF FrameOK
<1>3. SameCall(frames[k], g)  BY <1>2 DEF SameCall
<1>4. Locks(k)' <=> g.ev = "action" /\ ~g.err  BY <1>2 DEF Locks
<1>5. Locked(k)' = <<g.at, g.way>> /\ Source(k)' = Source(k) /\ Entry' = Entry
  BY DEF Locked, Source, Entry
<1>6. EvictKey(k)' = EvictKey(k)  BY DEF EvictKey, Call
<1>7. \A e : ~Holds(k, e)  BY DEF Holds, Locks
<1>8. FrameOK(k)'
  <2>1. /\ g.kind = "evict" => Source(k)' \in Entry
        /\ g.kind \in {"readUD", "writeUD"} => g.at = Low[g.from]
        /\ g.kind = "writeDU" => g.at \in Mod /\ Low[g.at] = g.from
    BY <1>1, <1>5 DEF FrameOK
  <2>2. g.kind = "readDU" =>
          /\ g.reply \in {"none", "ack", "ack_data"}
          /\ g.ev \in {"lock", "lockWait", "evicting"} => g.state = "I"
          /\ g.ev = "action" /\ g.err => g.state = "I"
    BY <1>1 DEF FrameOK
  <2> QED  BY <1>2, <1>4, <1>5, <1>6, <2>1, <2>2 DEF FrameOK
<1> QED  BY <1>2, <1>3, <1>4, <1>5, <1>7, <1>8

LEMMA LockFreeStep ==
  ASSUME IInv, NEW k \in InFlight, LockFree(k)  PROVE Preserved
<1>1. /\ Idle(k) /\ frames[k].ev = "lock" /\ frames[k] \in Frame(frames[k].ret)
      /\ ReliesOn(k)
  BY ScheduledIdle, FrameFacts DEF LockFree
<1>2. PICK f : f = frames[k]  OBVIOUS
<1>3. PICK d \in Candidates(f) :
        /\ lock[d] = None
        /\ blk[d].state = "I" \/ blk[d].tag = f.tag
        /\ lock' = [lock EXCEPT ![d] = f.tag]
        /\ IF MainMemory(f.at) /\ blk[d].state = "I"
           THEN SetBlock(d, f.tag, "E") ELSE UNCHANGED blk
        /\ frames' = EndLock(frames, k, d) /\ UNCHANGED <<dir, queue>>
  BY <1>2 DEF LockFree
<1>4. d \in Entry /\ d[1] = f.at /\ d = <<d[1], d[2]>> /\ d[2] \in Nat
  BY <1>3, EntryPair DEF Candidates
<1>5. PICK s : s = IF blk[d].state = "I" \/ blk[d].tag # f.tag
                   THEN IF MainMemory(d[1]) THEN "E" ELSE "I" ELSE blk[d].state
  OBVIOUS
<1>6. PICK g : g = [f EXCEPT !.way = d[2], !.err = FALSE, !.ev = "action", !.state = s]
  OBVIOUS
<1>7. PICK F : F = EndLock(frames, k, d)  OBVIOUS
<1>8. blk[d] \in [tag : Tag \cup {None}, state : State]
  BY <1>4 DEF IInv, TypeOK
<1>9. s \in State  BY <1>5, <1>8 DEF State
<1>10. /\ g \in Frame(f.ret) /\ g.kind = f.kind /\ g.from = f.from /\ g.at = f.at
       /\ g.src = f.src /\ g.peer = f.peer /\ g.reply = f.reply /\ g.tag = f.tag
       /\ g.ev = "action" /\ ~g.err /\ g.state = s /\ g.way = d[2]
  BY <1>1, <1>2, <1>4, <1>6, <1>9 DEF Frame, EventKind
<1>11. /\ IsFunction(F) /\ DOMAIN F = InFlight /\ F[k] = g
       /\ \A j \in InFlight \ {k} : F[j] = frames[j]
  BY <1>2, <1>5, <1>6, <1>7 DEF EndLock, IsFunction, InFlight
<1>12. frames' = F /\ queue' = queue /\ InFlight' = InFlight /\ frames'[k] = g
  BY <1>3, <1>7, <1>11 DEF InFlight
<1>13. /\ FrameOK(k)' /\ SameCall(frames[k], g) /\ Locks(k)' /\ Locked(k)' = d
       /\ Source(k)' = Source(k) /\ \A e : ~Holds(k, e)
  BY <1>1, <1>2, <1>4, <1>10, <1>12, LockingFrame
<1>14. Acts({k}, F)  BY <1>1, <1>11, <1>13, KeptSame, OneActs
<1>15. PICK b : b = [tag |-> IF MainMemory(f.at) /\ blk[d].state = "I" THEN f.tag
                             ELSE blk[d].tag, state |-> s]
  OBVIOUS
<1>16. blk' = [blk EXCEPT ![d] = b]
  <2>1. CASE MainMemory(f.at) /\ blk[d].state = "I"
    <3>1. SetBlock(d, f.tag, "E")  BY <1>3, <2>1
    <3>2. b = [tag |-> f.tag, state |-> "E"]  BY <1>4, <1>5, <1>15, <2>1
    <3> QED  BY <1>4, <3>1, <3>2, BlockSet
  <2>2. CASE ~(MainMemory(f.at) /\ blk[d].state = "I")
    <3>1. s = blk[d].state  BY <1>3, <1>4, <1>5, <2>2
    <3>2. b = [tag |-> blk[d].tag, state |-> blk[d].state]  BY <1>15, <2>2, <3>1
    <3>3. b = blk[d]  BY <1>8, <3>2
    <3> QED  BY <1>3, <1>4, <2>2, <3>3 DEF IInv, TypeOK
  <2> QED  BY <2>1, <2>2
<1>17. PICK o : o = dir[d]  OBVIOUS
<1>18. dir' = [dir EXCEPT ![d] = o]  BY <1>3, <1>4, <1>17 DEF IInv, TypeOK
<1>19. BlockOK(d, b, o)
  <2>1. BlockOK(d, blk[d], o)  BY <1>4, <1>17, BlockNow
  <2>2. f.tag \in Tag  BY <1>1, <1>2 DEF Frame
  <2> QED  BY <1>3, <1>4, <1>5, <1>9, <1>15, <2>1, <2>2 DEF BlockOK
<1>20. /\ blk' \in [Entry -> [tag : Tag \cup {None}, state : State]]
       /\ dir' \in [Entry -> [owner : Mod \cup {None}, sharers : SUBSET Mod]]
       /\ ChangesOnly(d)
  BY <1>4, <1>16, <1>18, <1>19, DataChanges
<1>21. blk'[d] = b  BY <1>4, <1>16 DEF IInv, TypeOK
<1>22. ReliesOn(k)'
  <2>1. b.state = s /\ (s # "I" => b.tag = f.tag)
    BY <1>3, <1>4, <1>5, <1>15
  <2>2. g.kind = "evict" => dir'[Source(k)].sharers = {}
    BY <1>1, <1>2, <1>3, <1>10 DEF ReliesOn
  <2> QED  BY <1>10, <1>12, <1>13, <1>21, <2>1, <2>2 DEF ReliesOn
<1>23. f.tag \in Tag  BY <1>1, <1>2 DEF Frame
<1>24. OthersHold({k}) => MutexKept
  <2>1. \A e \in Entry : ~Holds(k, e) /\ (Holds(k, e)' <=> e = d)
    BY <1>10, <1>12, <1>13 DEF Holds
  <2>2. PICK t \in Tag : t = f.tag  BY <1>23
  <2>3. lock' = [lock EXCEPT ![d] = t] /\ k \in InFlight'  BY <1>3, <1>12, <2>2
  <2> QED
    BY ONLY IInv, k \in InFlight, <1>3, <1>4, <2>1, <2>2, <2>3, AcquireLock
<1>25. DataTyped'
  BY <1>3, <1>20, <1>23 DEF DataTyped, IInv, TypeOK, Entry
<1>26. \E e \in Entry :
         ChangesOnly(e) /\ (lock[e] = None \/ \E x \in {k} : Holds(x, e))
  BY <1>3, <1>4, <1>20
<1>27. /\ \A x \in {k} \cap DOMAIN F : F[x].ev # "lockWait" /\ FrameOK(x)' /\ ReliesOn(x)'
       /\ DOMAIN F \ InFlight = {}
  BY <1>10, <1>11, <1>13, <1>22
<1>28. \A n \in DOMAIN F \ InFlight :
         /\ F[n].ev # "lockWait" /\ FrameOK(n)' /\ CallOK(n)' /\ ReliesOn(n)'
         /\ \A e : ~Holds(n, e)'
  BY <1>27
<1> QED
  BY ONLY IInv, <1>11, <1>12, <1>14, <1>24, <1>25, <1>26, <1>27, <1>28, StepInv

LEMMA LockEvictStep ==
  ASSUME IInv, NEW k \in InFlight, LockEvict(k)  PROVE Preserved
<1>1. /\ Idle(k) /\ frames[k].ev = "lock" /\ frames[k] \in Frame(frames[k].ret)
      /\ ReliesOn(k) /\ FrameOK(k)
  BY ScheduledIdle, FrameFacts DEF LockEvict
<1>2. PICK f : f = frames[k]  OBVIOUS
<1>3. PICK d \in Candidates(f) :
        /\ lock[d] = None /\ blk[d].state # "I"
        /\ lock' = [lock EXCEPT ![d] = f.tag]
        /\ ClearSharers(d, None)
        /\ frames' = Adding(Eviction(k, d), [frames EXCEPT ![k].ev = "evicting"])
        /\ UNCHANGED <<blk, queue>>
  BY <1>2 DEF LockEvict
<1>4. d \in Entry /\ d[1] = f.at
  BY <1>3 DEF Candidates
<1>5. PICK g : g = [f EXCEPT !.ev = "evicting"]  OBVIOUS
<1>6. PICK N : N = Eviction(k, d)  OBVIOUS
<1>7. PICK F : F = Adding(N, [frames EXCEPT ![k].ev = "evicting"])  OBVIOUS
<1>8. /\ g \in Frame(f.ret) /\ g.kind = f.kind /\ g.from = f.from /\ g.at = f.at
      /\ g.src = f.src /\ g.peer = f.peer /\ g.reply = f.reply /\ g.state = f.state
      /\ g.ev = "evicting" /\ g.way = f.way
  BY <1>1, <1>2, <1>5 DEF Frame, EventKind
<1>9. PICK o : /\ dir' = [dir EXCEPT ![d] = o] /\ dir'[d] = o
               /\ BlockOK(d, blk[d], o) /\ o.sharers = dir[d].sharers \cap {None}
  BY <1>3, <1>4, SharersCleared
<1>10. dir'[d].sharers = {} /\ blk[d].tag \in Tag
  BY <1>3, <1>4, <1>9, TreeAssumption DEF BlockOK
<1>11. /\ k \in DOMAIN F /\ \A n \in DOMAIN N : n \in DOMAIN F /\ F[n] = N[n]
       /\ k \notin DOMAIN N => F[k] = g
  BY <1>2, <1>5, <1>7 DEF Adding, InFlight
<1>12. k \notin DOMAIN N
  <2>1. PICK ev : ev = Call(k, "evict", d[1])  OBVIOUS
  <2>2. ev \notin InFlight /\ ev[3] = "evict"
    BY <1>1, <2>1, Fresh DEF Idle, AccessKind, Call
  <2>3. PICK I : I = Invalidation(ev, d, None)  OBVIOUS
  <2>4. DOMAIN I \cap InFlight = {}
    BY <1>4, <2>2, <2>3, InvalidationFresh
  <2>5. DOMAIN N = DOMAIN I \cup {ev}
    BY <1>6, <2>1, <2>3 DEF Eviction, Adding
  <2> QED  BY <2>2, <2>4, <2>5
<1>13. InFlight' = DOMAIN F /\ frames' = F /\ frames'[k] = g
  BY <1>3, <1>6, <1>7, <1>11, <1>12 DEF InFlight
<1>14. /\ DOMAIN N \cap InFlight = {} /\ EvictKey(k) \in DOMAIN N
       /\ Source(EvictKey(k))' = d /\ \A n \in DOMAIN N : Started(n)'
  <2>1. \A n \in DOMAIN N : n \in InFlight' /\ frames'[n] = N[n]
    BY <1>11, <1>13
  <2>2. k \in InFlight' /\ Children(k) = {}  BY <1>1, <1>11, <1>13 DEF Idle
  <2>3. d[1] = frames[k].at /\ frames'[k].at = d[1] /\ frames'[k].ev = "evicting"
    BY <1>2, <1>4, <1>8, <1>13
  <2> QED
    BY ONLY IInv, k \in InFlight, <1>4, <1>6, <1>10, <2>1, <2>2, <2>3, EvictionStarts
<1>15. /\ IsFunction(F) /\ DOMAIN F = InFlight \cup DOMAIN N /\ F[k] = g
       /\ \A j \in InFlight \ {k} : F[j] = frames[j]
  BY <1>2, <1>5, <1>7, <1>12, <1>14 DEF Adding, IsFunction, InFlight
<1>16. /\ FrameOK(k)' /\ SameCall(frames[k], g) /\ ~Locks(k)'
       /\ Source(k)' = Source(k) /\ \A e : ~Holds(k, e)
  <2>1. EvictKey(k) \in InFlight'  BY <1>11, <1>13, <1>14
  <2> QED  BY <1>1, <1>2, <1>8, <1>13, <2>1, LockingFrame
<1>17. \A n \in DOMAIN F \ InFlight :
         /\ Named(n, F) /\ F[n].ev # "lockWait"
         /\ FrameOK(n)' /\ CallOK(n)' /\ ReliesOn(n)'
         /\ \A e : ~Holds(n, e)'
  BY <1>13, <1>14, <1>15 DEF Started, Named
<1>18. Acts({k}, F)  BY <1>1, <1>15, <1>16, <1>17, KeptSame, OneActs
<1>19. PICK b : b = blk[d]  OBVIOUS
<1>20. blk' = [blk EXCEPT ![d] = b]  BY <1>3, <1>4, <1>19 DEF IInv, TypeOK
<1>21. /\ blk' \in [Entry -> [tag : Tag \cup {None}, state : State]]
       /\ dir' \in [Entry -> [owner : Mod \cup {None}, sharers : SUBSET Mod]]
       /\ ChangesOnly(d)
  BY <1>4, <1>9, <1>19, <1>20, DataChanges
<1>22. ReliesOn(k)'
  <2>1. g.kind = "evict" => dir'[Source(k)].sharers = {}
    <3>1. ASSUME g.kind = "evict"
          PROVE  dir[Source(k)].sharers = {} /\ Source(k) \in Entry
      BY <1>1, <1>2, <1>8, <3>1 DEF ReliesOn, FrameOK
    <3> QED  BY <1>9, <1>10, <3>1 DEF IInv, TypeOK
  <2> QED  BY <1>8, <1>13, <1>16, <2>1 DEF ReliesOn
<1>23. PICK t \in Tag : t = f.tag  BY <1>1, <1>2 DEF Frame
<1>24. OthersHold({k}) => MutexKept
  <2>1. \A e \in Entry : ~Holds(k, e) /\ (Holds(k, e)' <=> e = d)
    BY <1>8, <1>13, <1>14, <1>16 DEF Holds
  <2>2. lock' = [lock EXCEPT ![d] = t] /\ k \in InFlight'
    BY <1>3, <1>11, <1>13, <1>23
  <2> QED
    BY ONLY IInv, k \in InFlight, t \in Tag, <1>3, <1>4, <2>1, <2>2, AcquireLock
<1>25. DataTyped'
  BY <1>3, <1>21, <1>23 DEF DataTyped, IInv, TypeOK, Entry
<1>26. \E e \in Entry :
         ChangesOnly(e) /\ (lock[e] = None \/ \E x \in {k} : Holds(x, e))
  BY <1>3, <1>4, <1>21
<1>27. \A x \in {k} \cap DOMAIN F : F[x].ev # "lockWait" /\ FrameOK(x)' /\ ReliesOn(x)'
  BY <1>8, <1>15, <1>16, <1>22
<1>28. frames' = F /\ queue' = queue  BY <1>3, <1>13
<1> QED
  BY ONLY IInv, <1>15, <1>17, <1>18, <1>24, <1>25, <1>26, <1>27, <1>28, StepInv

\* A request up-down that finds the entry locked gets an error.
LEMMA LockBusyError ==
  ASSUME IInv, NEW k \in InFlight, Idle(k), frames[k].ev = "lock",
         frames' = [frames EXCEPT ![k].err = TRUE, ![k].ev = "action"],
         UNCHANGED <<blk, dir, lock, queue>>
  PROVE  Preserved
<1>1. frames[k] \in Frame(frames[k].ret) /\ ReliesOn(k)  BY FrameFacts
<1>2. PICK F : F = [frames EXCEPT ![k].err = TRUE, ![k].ev = "action"]  OBVIOUS
<1>3. PICK g : g = [frames[k] EXCEPT !.err = TRUE, !.ev = "action"]  OBVIOUS
<1>4. /\ g \in Frame(frames[k].ret) /\ g.kind = frames[k].kind /\ g.from = frames[k].from
      /\ g.at = frames[k].at /\ g.src = frames[k].src /\ g.peer = frames[k].peer
      /\ g.reply = frames[k].reply /\ g.state = frames[k].state
      /\ g.ev = "action" /\ g.err
  BY <1>1, <1>3 DEF Frame, EventKind
<1>5. /\ IsFunction(F) /\ DOMAIN F = InFlight /\ F[k] = g
      /\ \A j \in InFlight \ {k} : F[j] = frames[j]
  BY <1>2, <1>3 DEF IsFunction, InFlight
<1>6. frames' = F /\ queue' = queue /\ InFlight' = InFlight /\ frames'[k] = g
  BY <1>2, <1>5 DEF InFlight
<1>7. /\ FrameOK(k)' /\ SameCall(frames[k], g) /\ ~Locks(k)'
      /\ Source(k)' = Source(k) /\ \A e : ~Holds(k, e)
  BY <1>4, <1>6, LockingFrame
<1>8. Acts({k}, F)  BY <1>5, <1>7, KeptSame, OneActs
<1>9. ReliesOn(k)'
  BY <1>1, <1>4, <1>6, <1>7 DEF ReliesOn
<1>10. OthersHold({k}) => MutexKept
  <2>1. \A e \in Entry : ~Holds(k, e)'  BY <1>4, <1>6, <1>7 DEF Holds
  <2> QED  BY <1>7, <2>1, KeepLocks
<1>11. DataTyped'  BY DEF DataTyped, IInv, TypeOK, Entry
<1>12. \A x \in {k} \cap DOMAIN F : F[x].ev # "lockWait" /\ FrameOK(x)' /\ ReliesOn(x)'
  BY <1>4, <1>5, <1>7, <1>9
<1>13. \A n \in DOMAIN F \ InFlight :
         /\ F[n].ev # "lockWait" /\ FrameOK(n)' /\ CallOK(n)' /\ ReliesOn(n)'
         /\ \A e : ~Holds(n, e)'
  BY <1>5
<1>14. UNCHANGED <<blk, dir>>  OBVIOUS
<1> QED
  BY ONLY IInv, <1>5, <1>6, <1>8, <1>10, <1>11, <1>12, <1>13, <1>14, StepInv

\* Another frame that finds the entry locked gets in line.
LEMMA LockBusyWait ==
  ASSUME IInv, NEW k \in InFlight, Idle(k), frames[k].ev = "lock",
         NEW d \in Entry, d[1] = frames[k].at,
         queue' = [queue EXCEPT ![d] = Append(@, k)],
         frames' = [frames EXCEPT ![k].way = d[2], ![k].ev = "lockWait"],
         UNCHANGED <<blk, dir, lock>>
  PROVE  Preserved
<1>1. frames[k] \in Frame(frames[k].ret) /\ ReliesOn(k)  BY FrameFacts
<1>2. d = <<d[1], d[2]>> /\ d[2] \in Nat  BY EntryPair
<1>3. PICK F : F = [frames EXCEPT ![k].way = d[2], ![k].ev = "lockWait"]  OBVIOUS
<1>4. PICK g : g = [frames[k] EXCEPT !.way = d[2], !.ev = "lockWait"]  OBVIOUS
<1>5. /\ g \in Frame(frames[k].ret) /\ g.kind = frames[k].kind /\ g.from = frames[k].from
      /\ g.at = frames[k].at /\ g.src = frames[k].src /\ g.peer = frames[k].peer
      /\ g.reply = frames[k].reply /\ g.state = frames[k].state
      /\ g.ev = "lockWait" /\ g.way = d[2]
  BY <1>1, <1>2, <1>4 DEF Frame, EventKind
<1>6. /\ IsFunction(F) /\ DOMAIN F = InFlight /\ F[k] = g
      /\ \A j \in InFlight \ {k} : F[j] = frames[j]
  BY <1>3, <1>4 DEF IsFunction, InFlight
<1>7. /\ frames' = F /\ InFlight' = InFlight /\ frames'[k] = g
      /\ \A j \in InFlight \ {k} : frames'[j] = frames[j]
  BY <1>3, <1>6 DEF InFlight
<1>8. /\ FrameOK(k)' /\ SameCall(frames[k], g) /\ ~Locks(k)' /\ Locked(k)' = d
      /\ Source(k)' = Source(k) /\ \A e : ~Holds(k, e)
  <2>1. <<g.at, g.way>> = d  BY <1>2, <1>5
  <2>2. g.ev \in {"action", "evicting", "lockWait"} /\ g.ev # "evicting"
        /\ g.state = frames[k].state /\ g.ev = "lockWait"
    BY <1>5
  <2> QED
    BY ONLY IInv, k \in InFlight, frames[k].ev = "lock", d \in Entry,
       <1>5, <1>7, <2>1, <2>2, LockingFrame
<1>9. Acts({k}, F)  BY <1>6, <1>8, KeptSame, OneActs
<1>10. ReliesOn(k)'
  BY <1>1, <1>5, <1>7, <1>8 DEF ReliesOn
<1>11. /\ \A x \in {k} \cap DOMAIN F : FrameOK(x)' /\ ReliesOn(x)'
       /\ \A n \in DOMAIN F \ InFlight : FrameOK(n)' /\ CallOK(n)' /\ ReliesOn(n)'
  BY <1>6, <1>8, <1>10
<1>12. /\ \A j \in InFlight' : Named(j, frames)' /\ FrameOK(j)' /\ CallOK(j)'
       /\ \A j \in InFlight \ {k} : \A e : Holds(j, e)' <=> Holds(j, e)
  BY ONLY IInv, <1>6, <1>7, <1>9, <1>11, ActsTree
<1>13. /\ \A e \in Entry : EntryOK(e)'
       /\ \A j \in InFlight' : ReliesOn(j)'
  <2>1. UNCHANGED <<blk, dir>>  OBVIOUS
  <2> QED  BY ONLY IInv, <1>6, <1>7, <1>9, <1>11, <2>1, ActsNoData
<1>14. MutexKept
  <2>1. \A e \in Entry : ~Holds(k, e)'  BY <1>5, <1>7, <1>8 DEF Holds
  <2>2. OthersHold({k})  BY <1>7, <1>12 DEF OthersHold
  <2> QED  BY <1>8, <2>1, <2>2, KeepLocks
<1>15. queue \in [Entry -> Seq(InFlight)] /\ Entry' = Entry
  BY DEF IInv, TypeOK, Entry
<1>16. /\ queue' \in [Entry -> Seq(InFlight)]
       /\ \A e \in Entry \ {d} : queue'[e] = queue[e]
       /\ Len(queue'[d]) = Len(queue[d]) + 1 /\ queue'[d][Len(queue[d]) + 1] = k
       /\ \A i \in 1 .. Len(queue[d]) : queue'[d][i] = queue[d][i]
       /\ Len(queue[d]) \in Nat
  <2>1. queue[d] \in Seq(InFlight) /\ queue'[d] = Append(queue[d], k)  BY <1>15
  <2>2. queue' \in [Entry -> Seq(InFlight)]  BY <1>15, <2>1
  <2> QED  BY <1>15, <2>1, <2>2
<1>17. ASSUME NEW e \in Entry, NEW i \in 1 .. Len(queue[e])
       PROVE  /\ queue[e][i] \in InFlight \ {k} /\ frames[queue[e][i]].ev = "lockWait"
              /\ Locked(queue[e][i]) = e
  <2>1. queue[e][i] \in InFlight  BY <1>15
  <2>2. frames[queue[e][i]].ev = "lockWait" /\ Locked(queue[e][i]) = e
    BY DEF IInv, QueueOK
  <2> QED  BY <2>1, <2>2
<1>18. ASSUME NEW j \in InFlight \ {k}  PROVE Locked(j)' = Locked(j)
  BY <1>7 DEF Locked
<1>19. ASSUME NEW e \in Entry  PROVE QueueOK(e)'
  <2>1. QueueOK(e)  BY DEF IInv
  <2>2. ASSUME NEW i \in 1 .. Len(queue'[e])
        PROVE  frames'[queue'[e][i]].ev = "lockWait" /\ Locked(queue[e][i])' = e
    <3>1. PICK j : j = queue'[e][i]  OBVIOUS
    <3>2. CASE j = k
      <4>1. e = d  BY <1>16, <1>17, <3>1, <3>2
      <4> QED  BY <1>5, <1>7, <1>8, <3>1, <3>2, <4>1 DEF Locked
    <3>3. CASE j # k
      <4>1. PICK n \in 1 .. Len(queue[e]) : j = queue[e][n]
        BY <1>16, <3>1, <3>3
      <4>2. j \in InFlight \ {k} /\ frames[j].ev = "lockWait" /\ Locked(j) = e
        BY <1>17, <4>1
      <4>3. frames'[j].ev = "lockWait" /\ Locked(j)' = e
        BY <1>7, <1>18, <4>2
      <4> QED  BY <3>1, <4>3 DEF Locked
    <3> QED  BY <3>2, <3>3
  <2>3. ASSUME NEW i \in 1 .. Len(queue'[e]), NEW j \in 1 .. Len(queue'[e]),
               queue'[e][i] = queue'[e][j]
        PROVE  i = j
    <3>1. CASE e # d  BY <1>16, <2>1, <2>3, <3>1 DEF QueueOK
    <3>2. CASE e = d
      <4>1. ASSUME NEW n \in 1 .. Len(queue[d])  PROVE queue'[d][n] # k
        BY <1>16, <1>17
      <4>2. \/ i \in 1 .. Len(queue[d]) /\ j \in 1 .. Len(queue[d])
            \/ i = j
        BY <1>16, <2>3, <3>2, <4>1
      <4> QED  BY <1>16, <2>1, <2>3, <3>2, <4>2 DEF QueueOK
    <3> QED  BY <3>1, <3>2
  <2>4. ASSUME NEW j \in InFlight', frames'[j].ev = "lockWait", Locked(j)' = e
        PROVE  \E i \in 1 .. Len(queue'[e]) : queue'[e][i] = j
    <3>1. CASE j = k
      <4>1. e = d  BY <1>8, <2>4, <3>1
      <4> QED  BY <1>16, <3>1, <4>1
    <3>2. CASE j # k
      <4>1. j \in InFlight /\ frames[j].ev = "lockWait" /\ Locked(j) = e
        BY <1>7, <1>18, <2>4, <3>2
      <4>2. PICK i \in 1 .. Len(queue[e]) : queue[e][i] = j
        BY <2>1, <4>1 DEF QueueOK
      <4> QED  BY <1>16, <4>2
    <3> QED  BY <3>1, <3>2
  <2> QED  BY <2>2, <2>3, <2>4 DEF QueueOK
<1>20. TypeOK'
  <2>1. ASSUME NEW j \in InFlight'
        PROVE  LET f == frames'[j] IN
               /\ j = <<j[1], f.ret, f.kind, j[4]>> /\ j[1] \in Access
               /\ IF f.kind \in AccessKind THEN f.ret = None ELSE f.ret \in InFlight'
               /\ f \in Frame(f.ret)
    BY <1>12 DEF Named, InFlight
  <2> QED  BY <1>7, <1>15, <1>16, <2>1 DEF TypeOK, IInv
<1>21. IInv'
  BY <1>12, <1>13, <1>14, <1>15, <1>19, <1>20 DEF IInv, MutexKept
<1> QED  BY <1>14, <1>21 DEF Preserved

LEMMA LockBusyStep ==
  ASSUME IInv, NEW k \in InFlight, LockBusy(k)  PROVE Preserved
<1>1. Idle(k) /\ frames[k].ev = "lock"  BY ScheduledIdle DEF LockBusy
<1>2. PICK d \in Candidates(frames[k]) :
        IF Blocking(frames[k])
        THEN /\ queue' = [queue EXCEPT ![d] = Append(@, k)]
             /\ frames' = [frames EXCEPT ![k].way = d[2], ![k].ev = "lockWait"]
        ELSE /\ frames' = [frames EXCEPT ![k].err = TRUE, ![k].ev = "action"]
             /\ UNCHANGED queue
  BY DEF LockBusy
<1>3. d \in Entry /\ d[1] = frames[k].at  BY DEF Candidates
<1>4. UNCHANGED <<blk, dir, lock>>  BY DEF LockBusy
<1>5. CASE Blocking(frames[k])
  <2>1. /\ queue' = [queue EXCEPT ![d] = Append(@, k)]
        /\ frames' = [frames EXCEPT ![k].way = d[2], ![k].ev = "lockWait"]
    BY <1>2, <1>5
  <2> QED  BY ONLY IInv, k \in InFlight, <1>1, <1>3, <1>4, <2>1, LockBusyWait
<1>6. CASE ~Blocking(frames[k])
  <2>1. /\ frames' = [frames EXCEPT ![k].err = TRUE, ![k].ev = "action"]
        /\ UNCHANGED <<blk, dir, lock, queue>>
    BY <1>2, <1>4, <1>6
  <2> QED  BY ONLY IInv, k \in InFlight, <1>1, <2>1, LockBusyError
<1> QED  BY <1>5, <1>6

-----------------------------------------------------------------------------
(***************************************************************************)
(* The handlers, one by one: invalidations and evictions come to an end.   *)
(* They change an entry that a frame further up has locked.                *)
(***************************************************************************)
\* The block of an entry changes, whose holder only waits.
LEMMA HeldBlock ==
  ASSUME IInv, NEW X, NEW F, Acts(X, F), IsFunction(F),
         \/ frames' = F
         \/ \E e \in Entry : frames' = Wake(F, e),
         NEW d \in Entry, ChangesOnly(d), dir' = dir,
         NEW h \in InFlight, Holds(h, d),
         frames[h].ev \in {"exclusive", "evicting", "ncAction"},
         \A x \in X \cap DOMAIN F : ReliesOn(x)',
         \A n \in DOMAIN F \ InFlight : ReliesOn(n)'
  PROVE  /\ \A e \in Entry : EntryOK(e)'
         /\ \A j \in InFlight' : ReliesOn(j)'
<1>1. /\ InFlight' = DOMAIN F
      /\ \A j \in InFlight \ X : Stays(j)
  BY ActsFrames
<1>2. EntryOK(d)' /\ \A e \in Entry \ {d} : blk'[e] = blk[e] /\ dir'[e] = dir[e]
  BY DEF ChangesOnly
<1>3. ASSUME NEW e \in Entry  PROVE EntryOK(e)'
  BY <1>2, <1>3 DEF EntryOK, IInv
<1>4. ASSUME NEW j \in InFlight \ X  PROVE ReliesOn(j)'
  <2>1. Stays(j) /\ ReliesOn(j) /\ FrameOK(j)  BY <1>1 DEF IInv
  <2>2. /\ Locked(j)' = Locked(j) /\ Source(j)' = Source(j)
        /\ Locks(j)' <=> Locks(j)
    BY <2>1, StaysThere
  <2>3. Holds(j, d) => j = h  BY DEF IInv, HeldOnce
  <2>4. ASSUME Locks(j), frames[j].ev \in {"action", "finish"}
        PROVE  blk'[Locked(j)] = blk[Locked(j)]
    <3>1. Locked(j) # d  BY <2>3, <2>4 DEF Holds
    <3> QED  BY <1>2, <2>1, <2>4, <3>1 DEF FrameOK
  <2>5. frames[j].kind = "readUD" /\ frames[j].ev = "finish" => Locks(j)
    BY DEF Locks
  <2>6. /\ frames'[j].kind = frames[j].kind /\ frames'[j].from = frames[j].from
        /\ frames'[j].state = frames[j].state /\ frames'[j].tag = frames[j].tag
        /\ frames[j].ev = "action" => frames'[j].err = frames[j].err
        /\ frames'[j].ev # "lock" => frames'[j].ev = frames[j].ev
    BY <2>1 DEF Stays
  <2>7. frames'[j].ev = "action" /\ ~frames'[j].err /\ Locks(j)' =>
          /\ blk'[Locked(j)].state = frames'[j].state
          /\ frames'[j].state # "I" => blk'[Locked(j)].tag = frames'[j].tag
    BY <2>1, <2>2, <2>4, <2>6 DEF ReliesOn
  <2>8. frames'[j].kind = "readUD" /\ frames'[j].ev = "finish" => blk'[Locked(j)].state # "I"
    BY <2>1, <2>4, <2>5, <2>6 DEF ReliesOn
  <2> QED  BY <2>1, <2>2, <2>6, <2>7, <2>8 DEF ReliesOn
<1> QED  BY <1>1, <1>3, <1>4

\* The frame that waits for an invalidation, or that frame's caller, has locked
\* the entry.
LEMMA InvalidationHeld ==
  ASSUME IInv, NEW k \in InFlight, frames[k].kind = "invalidate"
  PROVE  \E h \in InFlight \ {k} :
           /\ Holds(h, Locked(k))
           /\ frames[h].ev \in {"exclusive", "evicting", "ncAction"}
<1>1. PICK p : p = frames[k].ret  OBVIOUS
<1>2. p \in InFlight /\ CallOK(k) /\ FrameOK(k)
  BY <1>1 DEF IInv, TypeOK, AccessKind
<1>3. CASE /\ frames[p].kind \in {"writeUD", "writeDU"} /\ frames[p].ev = "exclusive"
           /\ Locked(p) = Locked(k)
  BY <1>2, <1>3 DEF Holds, Locks
<1>4. CASE frames[p].kind = "evict" /\ Source(p) = Locked(k)
  <2>1. PICK q : q = frames[p].ret  OBVIOUS
  <2>2. q \in InFlight /\ Holds(q, Locked(k))  BY <1>2, <1>4, <2>1, CallerHolds
  <2>3. CallOK(p)  BY <1>2 DEF IInv
  <2>4. frames[q].ev \in {"evicting", "ncAction"}
    BY <1>4, <2>1, <2>3 DEF CallOK, AccessKind
  <2>5. q # k  BY <1>2, <2>4 DEF FrameOK
  <2> QED  BY <2>2, <2>4, <2>5
<1> QED  BY <1>1, <1>2, <1>3, <1>4 DEF CallOK, AccessKind

LEMMA InvalidateFinishStep ==
  ASSUME IInv, NEW k \in InFlight, InvalidateFinish(k)  PROVE Preserved
<1>1. /\ Idle(k) /\ frames[k].ev = "finish" /\ frames[k].kind = "invalidate"
      /\ UNCHANGED <<dir, lock, queue>> /\ frames' = Without(frames, k)
  BY ScheduledIdle DEF InvalidateFinish
<1>2. PICK d : d = Locked(k)  OBVIOUS
<1>3. frames[k] \in Frame(frames[k].ret) /\ d \in Entry
  BY <1>1, <1>2, FrameFacts DEF FrameOK
<1>4. PICK h \in InFlight \ {k} :
        Holds(h, d) /\ frames[h].ev \in {"exclusive", "evicting", "ncAction"}
  BY <1>1, <1>2, InvalidationHeld
<1>5. PICK F : F = Without(frames, k)  OBVIOUS
<1>6. /\ IsFunction(F) /\ DOMAIN F = InFlight \ {k}
      /\ \A j \in InFlight \ {k} : F[j] = frames[j]
  BY <1>5 DEF Without, IsFunction, InFlight
<1>7. frames' = F /\ queue' = queue  BY <1>1, <1>5
<1>8. Acts({k}, F)  BY <1>1, <1>6, KeptSame, OneActs
<1>9. ChangesOnly(d) /\ DataTyped'
  <2>1. BlockOK(d, blk[d], dir[d])  BY <1>3, BlockNow
  <2>2. \/ blk' = blk
        \/ \E s \in {"N", "M"} : SetBlock(d, frames[k].tag, s)
    BY <1>2 DEF InvalidateFinish
  <2>3. CASE blk' = blk
    BY <1>1, <1>3, <2>3, DataSame DEF DataTyped, IInv, TypeOK, Entry
  <2>4. ASSUME NEW s \in {"N", "M"}, SetBlock(d, frames[k].tag, s)
        PROVE  ChangesOnly(d) /\ DataTyped'
    <3>1. PICK b : b = [tag |-> frames[k].tag, state |-> s]  OBVIOUS
    <3>2. blk' = [blk EXCEPT ![d] = b]  BY <1>3, <2>4, <3>1, BlockSet
    <3>3. BlockOK(d, b, dir[d])
      BY <1>3, <2>1, <3>1 DEF BlockOK, Frame, State
    <3>4. dir' = [dir EXCEPT ![d] = dir[d]]
      BY <1>1, <1>3 DEF IInv, TypeOK
    <3>5. /\ ChangesOnly(d)
          /\ blk' \in [Entry -> [tag : Tag \cup {None}, state : State]]
          /\ dir' \in [Entry -> [owner : Mod \cup {None}, sharers : SUBSET Mod]]
      BY <1>3, <3>2, <3>3, <3>4, DataChanges
    <3> QED  BY <1>1, <3>5 DEF DataTyped, IInv, TypeOK, Entry
  <2> QED  BY <2>2, <2>3, <2>4
<1>10. /\ \A e \in Entry : EntryOK(e)'
       /\ \A j \in InFlight' : ReliesOn(j)'
  <2>1. dir' = dir /\ h \in InFlight /\ {k} \cap DOMAIN F = {} /\ DOMAIN F \ InFlight = {}
    BY <1>1, <1>6
  <2> QED  BY ONLY IInv, <1>3, <1>4, <1>6, <1>7, <1>8, <1>9, <2>1, HeldBlock
<1>11. OthersHold({k}) => MutexKept
  <2>1. \A e : ~Holds(k, e)  BY <1>1 DEF Holds, Locks
  <2>2. lock' = lock /\ k \notin InFlight'  BY <1>1, <1>6, <1>7 DEF InFlight
  <2>3. PICK X : X = {k}  OBVIOUS
  <2>4. \A x \in X, e \in Entry :
          /\ x \in InFlight' /\ Holds(x, e)' => Holds(x, e)
          /\ "nc" \notin Ops /\ Holds(x, e) => x \in InFlight' /\ Holds(x, e)'
    BY <2>1, <2>2, <2>3
  <2> QED  BY ONLY IInv, <2>2, <2>3, <2>4, KeepLocks
<1>12. {k} \cap DOMAIN F = {} /\ DOMAIN F \ InFlight = {}  BY <1>6
<1> QED  BY ONLY IInv, <1>6, <1>7, <1>8, <1>9, <1>10, <1>11, <1>12, StepData

\* While a frame waits for its victim to be evicted, it has called nobody else.
LEMMA OnlyEvictor ==
  ASSUME IInv, NEW p \in InFlight, frames[p].ev = "evicting",
         NEW c \in InFlight, frames[c].kind \notin AccessKind, frames[c].ret = p
  PROVE  c = EvictKey(p) /\ frames[c].kind = "evict"
<1>1. /\ frames[c] \in Frame(p) /\ CallOK(c) /\ FrameOK(p)
      /\ c = <<c[1], p, frames[c].kind, c[4]>>
  BY DEF IInv, TypeOK
<1>2. frames[c].kind \in {"readUD", "readDU", "writeUD", "writeDU",
                          "evict", "invalidate", "message"}
  BY <1>1, TreeAssumption DEF Kind, AccessKind, Frame
<1>3. frames[p].kind # "invalidate"  BY <1>1 DEF FrameOK
<1>4. frames[c].kind = "evict" /\ c[1] = p[1] /\ c[4] = frames[p].at
  BY <1>1, <1>2, <1>3 DEF CallOK
<1> QED  BY <1>1, <1>4 DEF EvictKey, Call

\* The caller of frame k, which evicted a block for it, becomes g.
LEMMA EvictedFrame ==
  ASSUME IInv, NEW p \in InFlight, frames[p].ev = "evicting",
         NEW g \in Frame(frames[p].ret), frames'[p] = g,
         g.kind = frames[p].kind, g.from = frames[p].from, g.at = frames[p].at,
         g.src = frames[p].src, g.peer = frames[p].peer, g.reply = frames[p].reply,
         g.ev = "action", g.err => g.state = frames[p].state,
         ~g.err => <<g.at, g.way>> \in Entry
  PROVE  /\ FrameOK(p)' /\ SameCall(frames[p], g)
         /\ Locks(p)' <=> ~g.err
         /\ Locked(p)' = <<g.at, g.way>> /\ Source(p)' = Source(p)
         /\ \A e : Holds(p, e) <=> e = Source(EvictKey(p))
<1>1. FrameOK(p)  BY FrameFacts
<1>2. frames[p].kind # "invalidate"  BY <1>1 DEF FrameOK
<1>3. SameCall(frames[p], g)  BY <1>2 DEF SameCall
<1>4. Locks(p)' <=> ~g.err  BY <1>2 DEF Locks
<1>5. Locked(p)' = <<g.at, g.way>> /\ Source(p)' = Source(p) /\ Entry' = Entry
  BY DEF Locked, Source, Entry
<1>6. \A e : Holds(p, e) <=> e = Source(EvictKey(p))  BY DEF Holds, Locks
<1>7. FrameOK(p)'
  <2>1. /\ g.kind = "evict" => Source(p)' \in Entry
        /\ g.kind \in {"readUD", "writeUD"} => g.at = Low[g.from]
        /\ g.kind = "writeDU" => g.at \in Mod /\ Low[g.at] = g.from
    BY <1>1, <1>5 DEF FrameOK
  <2>2. g.kind = "readDU" =>
          /\ g.reply \in {"none", "ack", "ack_data"}
          /\ g.ev = "action" /\ g.err => g.state = "I"
    BY <1>1 DEF FrameOK
  <2> QED  BY <1>2, <1>4, <1>5, <2>1, <2>2 DEF FrameOK
<1> QED  BY <1>3, <1>4, <1>5, <1>6, <1>7

\* Frame k leaves, for its caller that goes on as frame g with an entry.
LEMMA EvictingActs ==
  ASSUME IInv, NEW k, Idle(k), frames[k].kind = "evict",
         NEW p, p = frames[k].ret, frames[p].ev = "evicting",
         NEW F, IsFunction(F), DOMAIN F = InFlight \ {k},
         SameCall(frames[p], F[p]),
         \A j \in InFlight \ {k, p} : F[j] = frames[j]
  PROVE  p \in InFlight \ {k} /\ k = EvictKey(p) /\ Acts({k, p}, F)
<1>1. k \in InFlight /\ p \in InFlight \ {k}
  BY CallerWaits DEF Idle, AccessKind
<1>2. k = EvictKey(p)  BY <1>1, OnlyEvictor DEF AccessKind
<1>3. ASSUME NEW c \in DOMAIN F \cap InFlight, frames[c].kind \notin AccessKind
      PROVE  frames[c].ret \notin {k, p}
  <2>1. frames[c].ret # k  BY <1>3, NobodyCalled
  <2>2. frames[c].ret # p  BY <1>1, <1>2, <1>3, OnlyEvictor
  <2> QED  BY <2>1, <2>2
<1>4. ASSUME NEW j \in InFlight \ {k, p}
      PROVE  /\ j \in DOMAIN F /\ Kept(frames[j], F[j])
             /\ frames[j].ev = "evicting" => EvictKey(j) \in DOMAIN F
  <2>1. Kept(frames[j], F[j])  BY KeptSame
  <2>2. ASSUME frames[j].ev = "evicting"  PROVE EvictKey(j) \in InFlight \ {k}
    BY <2>2, Evictor
  <2> QED  BY <2>1, <2>2
<1>5. frames[k].ev # "lockWait"  BY DEF Idle
<1>6. Acts({k, p}, F)
  BY <1>1, <1>3, <1>4, <1>5 DEF Acts
<1> QED  BY <1>1, <1>2, <1>6

\* The entry that an eviction empties: nobody above has the block.
LEMMA EvictionEntry ==
  ASSUME IInv, NEW k \in InFlight, frames[k].kind = "evict",
         NEW d, d = Source(k),
         NEW s \in State, NEW t \in Tag \cup {None}, s # "I" => t \in Tag,
         blk' = [blk EXCEPT ![d].tag = t, ![d].state = s], dir' = dir
  PROVE  /\ d \in Entry /\ ChangesOnly(d)
         /\ blk' \in [Entry -> [tag : Tag \cup {None}, state : State]]
         /\ dir' \in [Entry -> [owner : Mod \cup {None}, sharers : SUBSET Mod]]
         /\ blk'[d] = [tag |-> t, state |-> s]
<1>1. d \in Entry /\ dir[d].sharers = {}
  BY FrameFacts DEF FrameOK, ReliesOn
<1>2. BlockOK(d, blk[d], dir[d])  BY <1>1, BlockNow
<1>3. PICK b : b = [tag |-> t, state |-> s]  OBVIOUS
<1>4. blk' = [blk EXCEPT ![d] = b]
  <2>1. SetBlock(d, t, s)  BY DEF SetBlock
  <2> QED  BY ONLY IInv, <1>1, <1>3, <2>1, BlockSet
<1>5. dir' = [dir EXCEPT ![d] = dir[d]]  BY <1>1 DEF IInv, TypeOK
<1>6. BlockOK(d, b, dir[d])  BY <1>1, <1>2, <1>3 DEF BlockOK
<1>7. /\ ChangesOnly(d)
      /\ blk' \in [Entry -> [tag : Tag \cup {None}, state : State]]
      /\ dir' \in [Entry -> [owner : Mod \cup {None}, sharers : SUBSET Mod]]
  BY <1>1, <1>4, <1>5, <1>6, DataChanges
<1>8. blk'[d] = b  BY <1>1, <1>4 DEF IInv, TypeOK
<1> QED  BY <1>1, <1>3, <1>7, <1>8

\* A non-coherent store has the eviction of its own entry.
LEMMA EvictFinishStore ==
  ASSUME IInv, NEW k, Idle(k), frames[k].kind = "evict",
         frames[k].ev \in {"invalid", "reply"},
         NEW p, p = frames[k].ret, frames[p].ev # "evicting",
         NEW err \in BOOLEAN,
         frames' = [Without(frames, k) EXCEPT ![p].err = err],
         NEW d, d = Source(k), ChangesOnly(d), DataTyped',
         UNCHANGED <<dir, lock, queue>>
  PROVE  Preserved
<1>1. k \in InFlight /\ p \in InFlight \ {k} /\ d \in Entry
  BY CallerWaits, FrameFacts DEF Idle, AccessKind, FrameOK
<1>2. frames[p].ev = "ncAction" /\ Holds(p, d)
  <2>1. CallOK(k)  BY <1>1, FrameFacts
  <2> QED  BY <1>1, <2>1, CallerHolds DEF CallOK, AccessKind
<1>3. PICK F : F = [Without(frames, k) EXCEPT ![p].err = err]  OBVIOUS
<1>4. /\ IsFunction(F) /\ DOMAIN F = InFlight \ {k}
      /\ F[p] = [frames[p] EXCEPT !.err = err]
      /\ \A j \in InFlight \ {k, p} : F[j] = frames[j]
  BY <1>1, <1>3 DEF Without, IsFunction, InFlight
<1>5. frames' = F /\ queue' = queue /\ InFlight' = InFlight \ {k}
  BY <1>3, <1>4 DEF InFlight
<1>6. Kept(frames[p], F[p])
  <2>1. frames[p].ev \in {"evicting", "invalid", "exclusive", "miss", "finish",
                          "unlock", "ncAction", "ncMiss"}
    BY <1>2
  <2>2. Kept(frames[p], [frames[p] EXCEPT !.err = err])
    BY ONLY IInv, <1>1, <2>1, err \in BOOLEAN, KeptResults
  <2> QED  BY <1>4, <2>2
<1>7. ASSUME NEW j \in InFlight \ {k}
      PROVE  /\ j \in DOMAIN F /\ Kept(frames[j], F[j])
             /\ frames[j].ev = "evicting" => EvictKey(j) \in DOMAIN F
  <2>1. Kept(frames[j], F[j])
    <3>1. CASE j = p  BY <1>6, <3>1
    <3>2. CASE j # p  BY <1>4, <3>2, KeptSame
    <3> QED  BY <3>1, <3>2
  <2>2. ASSUME frames[j].ev = "evicting"  PROVE EvictKey(j) \in InFlight \ {k}
    BY <2>2, Evictor
  <2> QED  BY <1>4, <2>1, <2>2
<1>8. ASSUME NEW c \in DOMAIN F \cap InFlight, frames[c].kind \notin AccessKind
      PROVE  frames[c].ret # k
  BY <1>8, NobodyCalled
<1>9. Acts({k}, F)
  <2>1. frames[k].ev # "lockWait" /\ k \notin DOMAIN F /\ DOMAIN F \ InFlight = {}
    BY <1>4 DEF Idle
  <2> QED  BY <1>1, <1>7, <1>8, <2>1 DEF Acts
<1>10. {k} \cap DOMAIN F = {} /\ DOMAIN F \ InFlight = {}  BY <1>4
<1>11. /\ \A e \in Entry : EntryOK(e)'
       /\ \A j \in InFlight' : ReliesOn(j)'
  <2>1. dir' = dir /\ p \in InFlight /\ frames[p].ev \in {"exclusive", "evicting", "ncAction"}
    BY <1>1, <1>2
  <2> QED
    BY ONLY IInv, <1>1, <1>2, <1>4, <1>5, <1>9, <1>10, <2>1, ChangesOnly(d), HeldBlock
<1>12. OthersHold({k}) => MutexKept
  <2>1. \A e : ~Holds(k, e)  BY DEF Holds, Locks
  <2>2. lock' = lock /\ k \notin InFlight'  BY <1>5
  <2>3. PICK X : X = {k}  OBVIOUS
  <2>4. \A x \in X, e \in Entry :
          /\ x \in InFlight' /\ Holds(x, e)' => Holds(x, e)
          /\ "nc" \notin Ops /\ Holds(x, e) => x \in InFlight' /\ Holds(x, e)'
    BY <2>1, <2>2, <2>3
  <2> QED  BY ONLY IInv, <2>2, <2>3, <2>4, KeepLocks
<1> QED
  BY ONLY IInv, DataTyped', <1>4, <1>5, <1>9, <1>10, <1>11, <1>12, StepData

\* An eviction failed for a frame that wants the entry: the entry is unlocked.
LEMMA EvictFinishError ==
  ASSUME IInv, NEW k, Idle(k), frames[k].kind = "evict",
         frames[k].ev \in {"invalid", "reply"},
         NEW p, p = frames[k].ret, frames[p].ev = "evicting",
         NEW d, d = Source(k),
         frames' = Wake([Without(frames, k) EXCEPT ![p].err = TRUE, ![p].ev = "action"], d),
         Unlock(d), UNCHANGED <<blk, dir>>
  PROVE  Preserved
<1>1. k \in InFlight /\ p \in InFlight \ {k} /\ d \in Entry
  BY CallerWaits, FrameFacts DEF Idle, AccessKind, FrameOK
<1>2. frames[p] \in Frame(frames[p].ret) /\ ReliesOn(p)  BY <1>1, FrameFacts
<1>3. PICK g : g = [frames[p] EXCEPT !.err = TRUE, !.ev = "action"]  OBVIOUS
<1>4. /\ g \in Frame(frames[p].ret) /\ g.kind = frames[p].kind /\ g.from = frames[p].from
      /\ g.at = frames[p].at /\ g.src = frames[p].src /\ g.peer = frames[p].peer
      /\ g.reply = frames[p].reply /\ g.state = frames[p].state
      /\ g.ev = "action" /\ g.err
  BY <1>2, <1>3 DEF Frame, EventKind
<1>5. PICK F : F = [Without(frames, k) EXCEPT ![p].err = TRUE, ![p].ev = "action"]
  OBVIOUS
<1>6. /\ IsFunction(F) /\ DOMAIN F = InFlight \ {k} /\ F[p] = g
      /\ \A j \in InFlight \ {k, p} : F[j] = frames[j]
  BY <1>1, <1>3, <1>5 DEF Without, IsFunction, InFlight
<1>7. frames' = Wake(F, d)  BY <1>5
<1>8. SameCall(frames[p], F[p])
  <2>1. FrameOK(p)  BY <1>1, FrameFacts
  <2>2. frames[p].kind # "invalidate"  BY <2>1 DEF FrameOK
  <2> QED  BY <1>4, <1>6, <2>2 DEF SameCall
<1>9. k = EvictKey(p) /\ Acts({k, p}, F)
  BY ONLY IInv, Idle(k), frames[k].kind = "evict", p = frames[k].ret,
          frames[p].ev = "evicting", <1>6, <1>8, EvictingActs
<1>10. InFlight' = InFlight \ {k} /\ frames'[p] = g
  <2>1. \E e \in Entry : frames' = Wake(F, e)  BY <1>1, <1>7
  <2>2. PICK X : X = {k, p}  OBVIOUS
  <2>3. Acts(X, F)  BY <1>9, <2>2
  <2>4. InFlight' = DOMAIN F /\ \A j \in X \cap DOMAIN F : frames'[j] = F[j]
    BY ONLY IInv, <1>6, <2>1, <2>3, ActsFrames
  <2> QED  BY <1>1, <1>6, <2>2, <2>4
<1>11. /\ FrameOK(p)' /\ ~Locks(p)' /\ Source(p)' = Source(p)
       /\ \A e : Holds(p, e) <=> e = d
  BY ONLY IInv, frames[p].ev = "evicting", d = Source(k), <1>1, <1>4, <1>9, <1>10,
          EvictedFrame
<1>12. ReliesOn(p)'
  BY <1>2, <1>4, <1>10, <1>11 DEF ReliesOn
<1>13. PICK X : X = {k, p}  OBVIOUS
<1>14. OthersHold(X) => MutexKept
  <2>1. \A e : ~Holds(k, e)  BY DEF Holds, Locks
  <2>2. \A e : ~Holds(p, e)'  BY <1>4, <1>10, <1>11 DEF Holds
  <2>3. /\ \E x \in X : Holds(x, d)
        /\ \A x \in X, e \in Entry :
             /\ Holds(x, e) => e = d
             /\ x \in InFlight' => ~Holds(x, e)'
    BY <1>10, <1>11, <1>13, <2>1, <2>2
  <2>4. lock' = [lock EXCEPT ![d] = None]  BY DEF Unlock
  <2> QED  BY ONLY IInv, <1>1, <2>3, <2>4, ReleaseLock
<1>15. DataTyped'
  BY <1>1 DEF DataTyped, IInv, TypeOK, Entry, Unlock
<1>16. \A x \in X \cap DOMAIN F : F[x].ev # "lockWait" /\ FrameOK(x)' /\ ReliesOn(x)'
  BY <1>4, <1>6, <1>11, <1>12, <1>13
<1>17. \E e \in Entry : frames' = Wake(F, e) /\ Dequeue(e)
  BY <1>1, <1>7 DEF Unlock, Dequeue
<1>18. DOMAIN F \ InFlight = {} /\ UNCHANGED <<blk, dir>>  BY <1>6
<1>19. Acts(X, F)  BY <1>9, <1>13
<1> QED
  BY ONLY IInv, <1>6, <1>14, <1>15, <1>16, <1>17, <1>18, <1>19, StepInv

\* The entry is empty, and the frame that wanted it has it.
LEMMA EvictFinishFree ==
  ASSUME IInv, NEW k, Idle(k), frames[k].kind = "evict",
         frames[k].ev \in {"invalid", "reply"},
         NEW p, p = frames[k].ret, frames[p].ev = "evicting",
         NEW d, d = Source(k), NEW s \in {"E", "I"}, NEW t \in Tag \cup {None},
         s # "I" => t = frames[p].tag,
         frames' = [Without(frames, k) EXCEPT
            ![p].way = d[2], ![p].err = FALSE, ![p].ev = "action", ![p].state = s],
         blk' = [blk EXCEPT ![d].tag = t, ![d].state = s],
         UNCHANGED <<dir, lock, queue>>
  PROVE  Preserved
<1>1. k \in InFlight /\ p \in InFlight \ {k} /\ d \in Entry
  BY CallerWaits, FrameFacts DEF Idle, AccessKind, FrameOK
<1>2. frames[p] \in Frame(frames[p].ret) /\ ReliesOn(p) /\ frames[p].tag \in Tag
  BY <1>1, FrameFacts DEF Frame
<1>3. /\ d = <<d[1], d[2]>> /\ d[2] \in Nat /\ d[1] = frames[p].at
  <2>1. CallOK(k)  BY <1>1, FrameFacts
  <2>2. frames[k].from = frames[p].at  BY <2>1 DEF CallOK, AccessKind
  <2> QED  BY <1>1, <2>2, EntryPair DEF Source
<1>4. PICK g : g = [frames[p] EXCEPT !.way = d[2], !.err = FALSE, !.ev = "action",
                                     !.state = s]
  OBVIOUS
<1>5. /\ g \in Frame(frames[p].ret) /\ g.kind = frames[p].kind /\ g.from = frames[p].from
      /\ g.at = frames[p].at /\ g.src = frames[p].src /\ g.peer = frames[p].peer
      /\ g.reply = frames[p].reply /\ g.state = s /\ g.tag = frames[p].tag
      /\ g.ev = "action" /\ ~g.err /\ g.way = d[2]
  <2>1. PICK f : f = frames[p]  OBVIOUS
  <2>2. g = [f EXCEPT !.way = d[2], !.err = FALSE, !.ev = "action", !.state = s]
    BY <1>4, <2>1
  <2>3. f \in Frame(f.ret)  BY <1>2, <2>1
  <2>4. /\ g \in Frame(f.ret) /\ g.kind = f.kind /\ g.from = f.from /\ g.at = f.at
        /\ g.src = f.src /\ g.peer = f.peer /\ g.reply = f.reply /\ g.tag = f.tag
        /\ g.state = s /\ g.ev = "action" /\ ~g.err /\ g.way = d[2]
    <3>1. s \in State  BY DEF State
    <3> QED  BY ONLY <2>2, <2>3, <1>3, <3>1 DEF Frame, EventKind
  <2> QED  BY <2>1, <2>4
<1>6. PICK F : F = [Without(frames, k) EXCEPT
            ![p].way = d[2], ![p].err = FALSE, ![p].ev = "action", ![p].state = s]
  OBVIOUS
<1>7. /\ IsFunction(F) /\ DOMAIN F = InFlight \ {k} /\ F[p] = g
      /\ \A j \in InFlight \ {k, p} : F[j] = frames[j]
  BY <1>1, <1>4, <1>6 DEF Without, IsFunction, InFlight
<1>8. frames' = F  BY <1>6
<1>9. SameCall(frames[p], F[p])
  <2>1. FrameOK(p)  BY <1>1, FrameFacts
  <2>2. frames[p].kind # "invalidate"  BY <2>1 DEF FrameOK
  <2> QED  BY <1>5, <1>7, <2>2 DEF SameCall
<1>10. k = EvictKey(p) /\ Acts({k, p}, F)
  BY ONLY IInv, Idle(k), frames[k].kind = "evict", p = frames[k].ret,
          frames[p].ev = "evicting", <1>7, <1>9, EvictingActs
<1>11. InFlight' = InFlight \ {k} /\ frames'[p] = g
  BY <1>1, <1>7, <1>8 DEF InFlight
<1>12. <<g.at, g.way>> = d  BY <1>3, <1>5
<1>13. /\ FrameOK(p)' /\ Locks(p)' /\ Locked(p)' = d /\ Source(p)' = Source(p)
       /\ \A e : Holds(p, e) <=> e = d
  BY ONLY IInv, frames[p].ev = "evicting", d = Source(k), <1>1, <1>5, <1>10, <1>11,
          <1>12, EvictedFrame
<1>14. /\ ChangesOnly(d) /\ blk'[d] = [tag |-> t, state |-> s]
       /\ blk' \in [Entry -> [tag : Tag \cup {None}, state : State]]
       /\ dir' \in [Entry -> [owner : Mod \cup {None}, sharers : SUBSET Mod]]
  <2>1. s \in State /\ dir' = dir /\ (s # "I" => t \in Tag)  BY <1>2 DEF State
  <2> QED
    BY ONLY IInv, <1>1, <2>1, frames[k].kind = "evict", d = Source(k), t \in Tag \cup {None},
            blk' = [blk EXCEPT ![d].tag = t, ![d].state = s], EvictionEntry
<1>15. ReliesOn(p)'
  <2>1. blk'[d].state = s /\ (s # "I" => blk'[d].tag = frames[p].tag)  BY <1>14
  <2>2. g.kind = "evict" => dir'[Source(p)].sharers = {}
    BY <1>2, <1>5 DEF ReliesOn
  <2> QED  BY ONLY <1>5, <1>11, <1>13, <2>1, <2>2 DEF ReliesOn
<1>16. PICK X : X = {k, p}  OBVIOUS
<1>17. OthersHold(X) => MutexKept
  <2>1. \A e : ~Holds(k, e)  BY DEF Holds, Locks
  <2>2. \A e : Holds(p, e)' <=> e = d  BY <1>5, <1>11, <1>13 DEF Holds
  <2>3. \A x \in X, e \in Entry :
          /\ x \in InFlight' /\ Holds(x, e)' => Holds(x, e)
          /\ "nc" \notin Ops /\ Holds(x, e) => x \in InFlight' /\ Holds(x, e)'
    BY <1>1, <1>11, <1>13, <1>16, <2>1, <2>2
  <2>4. lock' = lock  OBVIOUS
  <2> QED  BY ONLY IInv, <2>3, <2>4, KeepLocks
<1>18. DataTyped'
  BY <1>14 DEF DataTyped, IInv, TypeOK, Entry
<1>19. \A x \in X \cap DOMAIN F : F[x].ev # "lockWait" /\ FrameOK(x)' /\ ReliesOn(x)'
  BY <1>5, <1>7, <1>13, <1>15, <1>16
<1>20. \E e \in Entry : ChangesOnly(e) /\ (lock[e] = None \/ \E x \in X : Holds(x, e))
  BY <1>1, <1>13, <1>14, <1>16
<1>21. DOMAIN F \ InFlight = {} /\ frames' = F /\ queue' = queue  BY <1>7, <1>8
<1>22. Acts(X, F)  BY <1>10, <1>16
<1> QED
  BY ONLY IInv, <1>7, <1>17, <1>18, <1>19, <1>20, <1>21, <1>22, StepInv

LEMMA EvictFinishStep ==
  ASSUME IInv, NEW k, Idle(k), frames[k].kind = "evict",
         frames[k].ev \in {"invalid", "reply"},
         NEW err \in BOOLEAN, NEW state,
         state = "I" \/ state = blk[Source(k)].state,
         EvictFinish(k, err, state), UNCHANGED dir
  PROVE  Preserved
<1>1. PICK p : p = frames[k].ret  OBVIOUS
<1>2. PICK d : d = Source(k)  OBVIOUS
<1>3. k \in InFlight /\ p \in InFlight \ {k} /\ d \in Entry
  BY <1>1, <1>2, CallerWaits, FrameFacts DEF Idle, AccessKind, FrameOK
<1>4. blk[d].state \in State /\ blk[d].tag \in Tag \cup {None}
      /\ (blk[d].state # "I" => blk[d].tag \in Tag)
  BY <1>3, BlockNow DEF BlockOK
<1>5. CASE frames[p].ev # "evicting"
  <2>1. PICK t : t = IF state = "I" THEN None ELSE blk[d].tag  OBVIOUS
  <2>2. /\ frames' = [Without(frames, k) EXCEPT ![p].err = err]
        /\ blk' = [blk EXCEPT ![d].state = state,
                              ![d].tag = IF state = "I" THEN None ELSE @]
        /\ UNCHANGED <<dir, lock, queue>>
    BY <1>1, <1>2, <1>5 DEF EvictFinish
  <2>3. blk \in [Entry -> [tag : Tag \cup {None}, state : State]]
    BY DEF IInv, TypeOK
  <2>4. blk' = [blk EXCEPT ![d].tag = t, ![d].state = state]
    BY <1>3, <2>1, <2>2, <2>3
  <2>5. state \in State /\ t \in Tag \cup {None} /\ (state # "I" => t \in Tag)
    BY <1>2, <1>4, <2>1 DEF State
  <2>6. /\ ChangesOnly(d)
        /\ blk' \in [Entry -> [tag : Tag \cup {None}, state : State]]
        /\ dir' \in [Entry -> [owner : Mod \cup {None}, sharers : SUBSET Mod]]
    <3>1. dir' = dir  BY <2>2
    <3>2. PICK s \in State : s = state  BY <2>5
    <3> QED
      BY ONLY IInv, frames[k].kind = "evict", <1>2, <1>3, <2>4, <2>5, <3>1, <3>2,
              EvictionEntry
  <2>7. DataTyped'  BY <2>2, <2>6 DEF DataTyped, IInv, TypeOK, Entry
  <2> QED
    BY ONLY IInv, Idle(k), frames[k].kind = "evict", frames[k].ev \in {"invalid", "reply"},
            err \in BOOLEAN, <1>1, <1>2, <1>5, <2>2, <2>6, <2>7, EvictFinishStore
<1>6. CASE frames[p].ev = "evicting" /\ err
  <2>1. /\ frames' = Wake([Without(frames, k) EXCEPT ![p].err = TRUE, ![p].ev = "action"], d)
        /\ Unlock(d) /\ UNCHANGED <<blk, dir>>
    BY <1>1, <1>2, <1>6 DEF EvictFinish
  <2> QED
    BY ONLY IInv, Idle(k), frames[k].kind = "evict", frames[k].ev \in {"invalid", "reply"},
            <1>1, <1>2, <1>6, <2>1, EvictFinishError
<1>7. CASE frames[p].ev = "evicting" /\ ~err
  <2>1. PICK s : s = IF MainMemory(d[1]) THEN "E" ELSE "I"  OBVIOUS
  <2>2. PICK t : t = IF MainMemory(d[1]) THEN frames[p].tag ELSE None  OBVIOUS
  <2>3. /\ s \in {"E", "I"} /\ t \in Tag \cup {None}
        /\ s # "I" => t = frames[p].tag
    BY <1>3, <2>1, <2>2, FrameFacts DEF Frame
  <2>4. /\ frames' = [Without(frames, k) EXCEPT
            ![p].way = d[2], ![p].err = FALSE, ![p].ev = "action", ![p].state = s]
        /\ blk' = [blk EXCEPT ![d].tag = t, ![d].state = s]
        /\ UNCHANGED <<dir, lock, queue>>
    BY <1>1, <1>2, <1>7, <2>1, <2>2 DEF EvictFinish
  <2> QED
    BY ONLY IInv, Idle(k), frames[k].kind = "evict", frames[k].ev \in {"invalid", "reply"},
            <1>1, <1>2, <1>7, <2>3, <2>4, EvictFinishFree
<1> QED  BY <1>5, <1>6, <1>7

LEMMA EvictActionStep ==
  ASSUME IInv, NEW k \in InFlight, EvictAction(k)  PROVE Preserved
<1>1. /\ Idle(k) /\ frames[k].ev = "invalid" /\ frames[k].kind = "evict"
      /\ UNCHANGED dir
  BY ScheduledIdle DEF EvictAction
<1>2. PICK d : d = Source(k)  OBVIOUS
<1>3. frames[k] \in Frame(frames[k].ret) /\ FrameOK(k) /\ ReliesOn(k) /\ d \in Entry
  BY <1>1, <1>2, FrameFacts DEF FrameOK
<1>4. CASE EvictFinish(k, FALSE, "I")
  <2>1. FALSE \in BOOLEAN /\ frames[k].ev \in {"invalid", "reply"}  BY <1>1
  <2> QED  BY ONLY IInv, <1>1, <1>4, <2>1, EvictFinishStep
<1>5. CASE ~EvictFinish(k, FALSE, "I")
  <2>1. PICK s : s = blk[d].state  OBVIOUS
  <2>2. PICK r : r = IF s \in {"M", "O", "N"} THEN "ack_data" ELSE "ack"  OBVIOUS
  <2>3. PICK n : n = (s = "N")  OBVIOUS
  <2>4. s \in State /\ r \in DOMAIN Precedence /\ n \in BOOLEAN
    BY <1>3, <2>1, <2>2, <2>3, BlockNow DEF BlockOK, Precedence
  <2>5. /\ frames' = [frames EXCEPT ![k].state = s, ![k].reply = r, ![k].nc = n,
                                    ![k].ev = "lock"]
        /\ UNCHANGED <<blk, dir, lock, queue>>
    BY <1>1, <1>2, <1>5, <2>1, <2>2, <2>3 DEF EvictAction
  <2>6. PICK g : g = [frames[k] EXCEPT !.state = s, !.reply = r, !.nc = n, !.ev = "lock"]
    OBVIOUS
  <2>7. /\ g \in Frame(frames[k].ret) /\ g.kind = "evict" /\ g.from = frames[k].from
        /\ g.at = frames[k].at /\ g.src = frames[k].src /\ g.peer = frames[k].peer
        /\ g.ev = "lock"
    BY <1>1, <1>3, <2>4, <2>6 DEF Frame, EventKind
  <2>8. PICK F : F = [frames EXCEPT ![k].state = s, ![k].reply = r, ![k].nc = n,
                                    ![k].ev = "lock"]
    OBVIOUS
  <2>9. /\ IsFunction(F) /\ DOMAIN F = InFlight /\ F[k] = g
        /\ \A j \in InFlight \ {k} : F[j] = frames[j]
    BY <2>6, <2>8 DEF IsFunction, InFlight
  <2>10. frames' = F /\ queue' = queue /\ UNCHANGED <<blk, dir>> /\ lock' = lock
    BY <2>5, <2>8
  <2>11. frames'[k] = g  BY <2>9, <2>10
  <2>12. SameCall(frames[k], F[k])  BY <1>1, <2>7, <2>9 DEF SameCall
  <2>13. Acts({k}, F)  BY <1>1, <2>9, <2>12, KeptSame, OneActs
  <2>14. Source(k)' = d /\ ~Locks(k)' /\ Entry' = Entry
    BY <1>2, <2>7, <2>11 DEF Source, Locks, Entry
  <2>15. FrameOK(k)'
    BY <1>3, <2>7, <2>11, <2>14 DEF FrameOK
  <2>16. ReliesOn(k)'
    BY <1>1, <1>2, <1>3, <2>7, <2>10, <2>11, <2>14 DEF ReliesOn
  <2>17. OthersHold({k}) => MutexKept
    <3>1. \A e : ~Holds(k, e)  BY <1>1 DEF Holds, Locks
    <3>2. \A e : ~Holds(k, e)'  BY <2>7, <2>11, <2>14 DEF Holds
    <3>3. PICK X : X = {k}  OBVIOUS
    <3>4. \A x \in X, e \in Entry :
            /\ x \in InFlight' /\ Holds(x, e)' => Holds(x, e)
            /\ "nc" \notin Ops /\ Holds(x, e) => x \in InFlight' /\ Holds(x, e)'
      BY <3>1, <3>2, <3>3
    <3> QED  BY ONLY IInv, <2>10, <3>3, <3>4, KeepLocks
  <2>18. DataTyped'  BY <2>10 DEF DataTyped, IInv, TypeOK, Entry
  <2>19. \A x \in {k} \cap DOMAIN F : F[x].ev # "lockWait" /\ FrameOK(x)' /\ ReliesOn(x)'
    BY <2>7, <2>9, <2>15, <2>16
  <2>20. DOMAIN F \ InFlight = {}  BY <2>9
  <2> QED
    BY ONLY IInv, <2>9, <2>10, <2>13, <2>17, <2>18, <2>19, <2>20, StepInv
<1> QED  BY <1>4, <1>5

LEMMA EvictReplyReceiveStep ==
  ASSUME IInv, NEW k \in InFlight, EvictReplyReceive(k)  PROVE Preserved
<1>1. /\ Idle(k) /\ frames[k].ev = "reply" /\ frames[k].kind = "evict"
      /\ UNCHANGED dir
  BY ScheduledIdle DEF EvictReplyReceive
<1>2. PICK err : err = frames[k].err  OBVIOUS
<1>3. PICK state : state = IF err THEN blk[Source(k)].state ELSE "I"  OBVIOUS
<1>4. EvictFinish(k, err, state)  BY <1>2, <1>3 DEF EvictReplyReceive
<1>5. err \in BOOLEAN /\ (state = "I" \/ state = blk[Source(k)].state)
      /\ frames[k].ev \in {"invalid", "reply"}
  BY <1>1, <1>2, <1>3, FrameFacts DEF Frame
<1> QED  BY ONLY IInv, <1>1, <1>4, <1>5, EvictFinishStep

-----------------------------------------------------------------------------
(***************************************************************************)
(* A processor starts an access.                                           *)
(***************************************************************************)
LEMMA StartStep ==
  ASSUME IInv, NEW a \in Access, NEW op \in Ops, NEW t \in Tag, Start(a, op, t)
  PROVE  Preserved
<1>1. PICK r : r = <<a, None, op, Home[a]>>  OBVIOUS
<1>2. PICK g : g = NewFrame(op, Home[a], Home[a], t, None, "lock")  OBVIOUS
<1>3. op \in AccessKind /\ op \in Kind /\ Home[a] \in Mod
  BY TreeAssumption DEF AccessKind, Kind
<1>4. r \notin InFlight
  <2>1. SUFFICES ASSUME r \in InFlight  PROVE FALSE  OBVIOUS
  <2>2. r = <<r[1], frames[r].ret, frames[r].kind, r[4]>>
    BY <2>1 DEF IInv, TypeOK
  <2>3. r[1] = a /\ frames[r].kind = op  BY <1>1, <2>2
  <2> QED  BY <1>3, <2>1, <2>3 DEF Start, Root
<1>5. /\ g \in Frame(None) /\ g.kind = op /\ g.ret = None /\ g.ev = "lock"
      /\ g.at = Home[a]
  <2>1. "lock" \in EventKind  BY DEF EventKind
  <2>2. g \in Frame(None)  BY <1>2, <1>3, <2>1, NewTyped
  <2> QED  BY <1>2, <2>2 DEF NewFrame
<1>6. PICK F : F = Adding([j \in {r} |-> g], frames)  OBVIOUS
<1>7. /\ IsFunction(F) /\ DOMAIN F = InFlight \cup {r} /\ F[r] = g
      /\ \A j \in InFlight : F[j] = frames[j]
  BY <1>4, <1>6 DEF Adding, IsFunction, InFlight
<1>8. /\ frames' = F /\ queue' = queue /\ UNCHANGED <<blk, dir>> /\ lock' = lock
  BY <1>1, <1>2, <1>6 DEF Start
<1>9. InFlight' = InFlight \cup {r} /\ frames'[r] = g  BY <1>7, <1>8 DEF InFlight
<1>10. /\ Named(r, F) /\ FrameOK(r)' /\ CallOK(r)' /\ ReliesOn(r)'
       /\ \A e : ~Holds(r, e)'
  <2>1. Named(r, F)  BY <1>1, <1>3, <1>5, <1>7 DEF Named
  <2>2. ~Locks(r)'  BY <1>5, <1>9 DEF Locks
  <2>3. FrameOK(r)'  BY <1>3, <1>5, <1>9, <2>2 DEF FrameOK, AccessKind
  <2>4. CallOK(r)'  BY <1>3, <1>5, <1>9 DEF CallOK
  <2>5. ReliesOn(r)'  BY <1>3, <1>5, <1>9 DEF ReliesOn, AccessKind
  <2>6. \A e : ~Holds(r, e)'  BY <1>5, <1>9, <2>2 DEF Holds
  <2> QED  BY <2>1, <2>3, <2>4, <2>5, <2>6
<1>11. PICK X : X = {}  OBVIOUS
<1>12. Acts(X, F)
  <2>1. ASSUME NEW j \in InFlight, frames[j].ev = "evicting"
        PROVE  EvictKey(j) \in InFlight
    BY <2>1, Evictor
  <2> QED  BY <1>7, <1>10, <1>11, <2>1, KeptSame DEF Acts
<1>13. OthersHold(X) => MutexKept
  <2>1. \A x \in X, e \in Entry :
          /\ x \in InFlight' /\ Holds(x, e)' => Holds(x, e)
          /\ "nc" \notin Ops /\ Holds(x, e) => x \in InFlight' /\ Holds(x, e)'
    BY <1>11
  <2> QED  BY ONLY IInv, <1>8, <2>1, KeepLocks
<1>14. DataTyped'  BY <1>8 DEF DataTyped, IInv, TypeOK, Entry
<1>15. X \cap DOMAIN F = {}  BY <1>11
<1>16. \A n \in DOMAIN F \ InFlight :
         /\ F[n].ev # "lockWait" /\ FrameOK(n)' /\ CallOK(n)' /\ ReliesOn(n)'
         /\ \A e : ~Holds(n, e)'
  BY <1>5, <1>7, <1>10
<1> QED  BY ONLY IInv, <1>7, <1>8, <1>12, <1>13, <1>14, <1>15, <1>16, StepInv

-----------------------------------------------------------------------------
(***************************************************************************)
(* The invariant.                                                          *)
(***************************************************************************)
LEMMA InitInv == Init => IInv /\ LockedIsHeld
<1>1. SUFFICES ASSUME Init  PROVE IInv /\ LockedIsHeld  OBVIOUS
<1>2. InFlight = {}  BY <1>1 DEF Init, InFlight
<1>3. TypeOK  BY <1>1, <1>2 DEF Init, TypeOK, State
<1>4. \A e \in Entry : QueueOK(e)  BY <1>1, <1>2 DEF Init, QueueOK
<1>5. \A e \in Entry : EntryOK(e)  BY <1>1 DEF Init, EntryOK
<1>6. HeldOnce  BY <1>2 DEF HeldOnce
<1>7. LockedIsHeld  BY <1>1 DEF Init, LockedIsHeld
<1> QED  BY <1>2, <1>3, <1>4, <1>5, <1>6, <1>7 DEF IInv

LEMMA EventStep ==
  ASSUME IInv, NEW k \in InFlight, Event(k)  PROVE Preserved
BY LockBusyStep, LockFreeStep, LockEvictStep, LockErrorStep, InvalidateFinishStep,
   EvictActionStep, EvictProcessStep, EvictReplyReceiveStep,
   ReadUpdownStep, ReadUpdownMissStep, ReadUpdownFinishStep,
   ReadDownupStep, ReadDownupFinishStep, WriteActionStep, WriteUpdownStep,
   WriteUpdownFinishStep, WriteDownupStep, MessageActionStep, ReplyStep,
   LoadActionStep, LoadMissStep, StoreActionStep, StoreUnlockStep,
   NcWritebackStep, NcActionStep, NcMissStep
   DEF Event

LEMMA NextStep ==
  ASSUME IInv, [Next]_vars
  PROVE  IInv' /\ ("nc" \notin Ops /\ LockedIsHeld => LockedIsHeld')
<1>1. CASE Next
  <2>1. Preserved  BY <1>1, StartStep, EventStep DEF Next
  <2> QED  BY <2>1 DEF Preserved, MutexKept
<1>2. CASE UNCHANGED vars
  <2>1. UNCHANGED <<blk, dir, lock, queue, frames>> /\ InFlight' = InFlight
        /\ Entry' = Entry
    BY <1>2 DEF vars, InFlight, Entry
  <2>2. TypeOK'  BY <2>1 DEF IInv, TypeOK, InFlight
  <2>3. ASSUME NEW k  PROVE /\ Locked(k)' = Locked(k) /\ Source(k)' = Source(k)
                            /\ EvictKey(k)' = EvictKey(k) /\ Locks(k)' <=> Locks(k)
    BY <2>1 DEF Locked, Source, EvictKey, Call, Locks
  <2>4. ASSUME NEW k, NEW e  PROVE Holds(k, e)' <=> Holds(k, e)
    BY <2>1 DEF Holds, Locks, Locked, EvictKey, Call, Source
  <2>5. ASSUME NEW k \in InFlight  PROVE FrameOK(k)' /\ CallOK(k)' /\ ReliesOn(k)'
    BY <2>1, FrameFacts
       DEF FrameOK, CallOK, ReliesOn, Locks, Locked, Source, EvictKey, Call
  <2>6. ASSUME NEW e \in Entry  PROVE QueueOK(e)' /\ EntryOK(e)'
    BY <2>1 DEF IInv, QueueOK, EntryOK, Locked
  <2>7. HeldOnce' /\ (LockedIsHeld => LockedIsHeld')
    BY <2>1, <2>4 DEF IInv, HeldOnce, LockedIsHeld
  <2> QED  BY <2>1, <2>2, <2>5, <2>6, <2>7 DEF IInv
<1> QED  BY <1>1, <1>2

LEMMA Invariant == Spec => []IInv
<1>1. Init => IInv  BY InitInv
<1>2. IInv /\ [Next]_vars => IInv'  BY NextStep
<1> QED  BY <1>1, <1>2, PTL DEF Spec

LEMMA NobodyForgets ==
  ASSUME "nc" \notin Ops
  PROVE  Spec => []LockedIsHeld
<1>1. Init => LockedIsHeld  BY InitInv
<1>2. IInv /\ LockedIsHeld /\ [Next]_vars => LockedIsHeld'  BY NextStep
<1> QED  BY <1>1, <1>2, Invariant, PTL DEF Spec

\* The frames of the handlers are the calls they make of each other: each has a
\* caller in flight of which it keeps the event, the tag and the modules, and blocks,
\* directories, locks and queues have values of their kind.
THEOREM Typing == Spec => []TypeOK
<1>1. IInv => TypeOK  BY DEF IInv
<1> QED  BY <1>1, Invariant, PTL

-----------------------------------------------------------------------------
(***************************************************************************)
(* Locks of directory entries.                                             *)
(***************************************************************************)
LEMMA HeldIsHolds ==
  ASSUME IInv, NEW k \in InFlight, NEW e
  PROVE  e \in Held(k) <=> Holds(k, e)
<1>1. frames[k] \in Frame(frames[k].ret) /\ FrameOK(k)  BY FrameFacts
<1>2. CASE frames[k].ev = "evicting"
  <2>1. PICK c : c = EvictKey(k)  OBVIOUS
  <2>2. c \in InFlight /\ frames[c].kind = "evict" /\ frames[c].ret = k
    BY <1>2, <2>1, Evictor
  <2>3. Children(k) = {c}
    <3>1. c \in Children(k)  BY <2>2 DEF Children, AccessKind
    <3>2. \A x \in Children(k) : x = c  BY <1>2, <2>1, OnlyEvictor DEF Children
    <3> QED  BY <3>1, <3>2
  <2>4. e \in Held(k) <=> e = Source(c)
    <3>1. frames[k].kind # "invalidate"  BY <1>1, <1>2 DEF FrameOK
    <3>2. e \in Held(k) <=> \E x \in Children(k) : e = Source(x)
      BY <1>2, <3>1 DEF Held
    <3> QED  BY <2>3, <3>2
  <2>5. ~Locks(k)  BY <1>2 DEF Locks
  <2> QED  BY <1>2, <2>1, <2>4, <2>5 DEF Holds
<1>3. CASE frames[k].kind = "invalidate" \/ frames[k].ev \in {"lock", "lockWait", "reply", "invalid"}
  <2>1. frames[k].ev # "evicting"  BY <1>1, <1>3 DEF FrameOK
  <2>2. Held(k) = {}
    <3>1. frames[k].ev # "action" \/ ~frames[k].err  BY <1>1, <1>3 DEF FrameOK
    <3> QED  BY <1>3, <2>1, <3>1 DEF Held
  <2>3. ~Locks(k)  BY <1>3 DEF Locks
  <2> QED  BY <2>1, <2>2, <2>3 DEF Holds
<1>4. CASE frames[k].ev = "action" /\ frames[k].err /\ frames[k].kind # "invalidate"
  <2>1. Held(k) = {}  BY <1>4 DEF Held
  <2>2. ~Locks(k)  BY <1>4 DEF Locks
  <2> QED  BY <1>4, <2>1, <2>2 DEF Holds
<1>5. CASE /\ frames[k].kind # "invalidate"
           /\ frames[k].ev \notin {"evicting", "lock", "lockWait", "reply", "invalid"}
           /\ ~(frames[k].ev = "action" /\ frames[k].err)
  <2>1. Held(k) = {Locked(k)}  BY <1>5 DEF Held
  <2>2. Locks(k)  BY <1>1, <1>5 DEF Locks, Frame, EventKind
  <2> QED  BY <1>5, <2>1, <2>2 DEF Holds
<1> QED  BY <1>2, <1>3, <1>4, <1>5

LEMMA HoldersOf ==
  ASSUME IInv, NEW e \in Entry
  PROVE  /\ \A j, k \in Holders(e) : j = k
         /\ \A k \in Holders(e) : lock[e] # None
         /\ LockedIsHeld /\ lock[e] # None => Holders(e) # {}
<1>1. ASSUME NEW k \in Holders(e)  PROVE k \in InFlight /\ Holds(k, e)
  BY HeldIsHolds DEF Holders
<1>2. ASSUME LockedIsHeld, lock[e] # None  PROVE Holders(e) # {}
  <2>1. PICK k \in InFlight : Holds(k, e)  BY <1>2 DEF LockedIsHeld
  <2> QED  BY <2>1, HeldIsHolds DEF Holders
<1>3. HeldOnce  BY DEF IInv
<1> QED  BY <1>1, <1>2, <1>3 DEF HeldOnce

\* Whatever processors do, a directory entry has one frame at most that will unlock
\* it, and it is locked as long as it has one: nobody unlocks an entry twice, or one
\* that another frame has locked in the meantime.
THEOREM NeverUnlockedTwice ==
  Spec => [](\A e \in Entry :
               /\ \A j, k \in Holders(e) : j = k
               /\ Holders(e) # {} => lock[e] # None)
<1>1. IInv => \A e \in Entry :
               /\ \A j, k \in Holders(e) : j = k
               /\ Holders(e) # {} => lock[e] # None
  BY HoldersOf
<1> QED  BY <1>1, Invariant, PTL

\* Without non-coherent stores, every lock of a directory entry has exactly one frame
\* that will unlock it.  With them it has one at most: a store whose eviction fails
\* forgets its entry.
THEOREM Locking ==
  ASSUME "nc" \notin Ops
  PROVE  Spec => []EntryMutex
<1>1. ASSUME IInv, LockedIsHeld  PROVE EntryMutex
  <2>1. SUFFICES ASSUME NEW e \in Entry
                 PROVE  Cardinality(Holders(e)) = IF lock[e] = None THEN 0 ELSE 1
    BY DEF EntryMutex, Holders
  <2>2. /\ \A j, k \in Holders(e) : j = k
        /\ \A k \in Holders(e) : lock[e] # None
        /\ lock[e] # None => Holders(e) # {}
    BY <1>1, HoldersOf
  <2>3. CASE lock[e] = None
    <3>1. Holders(e) = {}  BY <2>2, <2>3
    <3> QED  BY <2>3, <3>1, FS_EmptySet
  <2>4. CASE lock[e] # None
    <3>1. PICK k : Holders(e) = {k}  BY <2>2, <2>4
    <3>2. Cardinality({k}) = 1  BY FS_Singleton
    <3> QED  BY <2>4, <3>1, <3>2
  <2> QED  BY <2>3, <2>4
<1> QED  BY <1>1, Invariant, NobodyForgets, PTL

-----------------------------------------------------------------------------
(***************************************************************************)
(* Without non-coherent stores: what each event does to the frames, the    *)
(* blocks, the directory entries and the locks, and what follows for the   *)
(* entries of one module.  A frame changes only an entry that is its own;  *)
(* an entry is locked for the block of its holder, a module has one entry  *)
(* for a block, and the state that a frame has read is still true when it  *)
(* acts on it.  The events are described by effects (Does), which the      *)
(* other proofs use in place of the actions.                               *)
(***************************************************************************)

\* What a frame is called for never changes.
Like(f, g) ==
  /\ g.kind = f.kind /\ g.from = f.from /\ g.at = f.at /\ g.tag = f.tag
  /\ g.ret = f.ret /\ g.src = f.src /\ g.peer = f.peer /\ g.nc = f.nc

\* The entry it has found, and the state of the block there
Placed(f, g) == g.way = f.way /\ g.state = f.state

\* What the frames that it calls leave in it
Results(f, g) ==
  g.err = f.err /\ g.shared = f.shared /\ g.reply = f.reply /\ g.retain = f.retain

\* Frame j does nothing, and is woken at most.
Same(j) ==
  LET f == frames[j]
      g == frames'[j]
  IN
  /\ j \in InFlight' /\ Like(f, g) /\ Placed(f, g) /\ Results(f, g)
  /\ \/ g.ev = f.ev
     \/ f.ev = "lockWait" /\ g.ev = "lock"

Others(k, p) == \A j \in InFlight : j # k /\ j # p => Same(j)

\* A step that assigns frames leaves the frames it does not name as they are.
LEMMA Sharp ==
  ASSUME IInv, NEW F, IsFunction(F), NEW k, NEW p,
         \/ frames' = F
         \/ \E e \in Entry : frames' = Wake(F, e),
         \A j \in InFlight : j # k /\ j # p => j \in DOMAIN F /\ F[j] = frames[j],
         k \in InFlight => frames[k].ev # "lockWait",
         p \in InFlight => frames[p].ev # "lockWait"
  PROVE  /\ InFlight' = DOMAIN F
         /\ Others(k, p)
         /\ \A n \in DOMAIN F : n \notin InFlight \/ n = k \/ n = p => frames'[n] = F[n]
<1> DEFINE Goal == /\ InFlight' = DOMAIN F
                   /\ Others(k, p)
                   /\ \A n \in DOMAIN F : n \notin InFlight \/ n = k \/ n = p
                        => frames'[n] = F[n]
<1>1. CASE frames' = F
  BY <1>1 DEF Others, Same, Like, Placed, Results, InFlight
<1>2. ASSUME NEW e \in Entry, frames' = Wake(F, e), queue[e] # <<>>
      PROVE  Goal
  <2>1. PICK w : w = Head(queue[e])  OBVIOUS
  <2>2. w \in InFlight /\ frames[w].ev = "lockWait" /\ w # k /\ w # p
    BY <1>2, <2>1, FirstWaiter
  <2>3. w \in DOMAIN F /\ F[w] = frames[w]  BY <2>2
  <2>4. PICK f : f = frames[w]  OBVIOUS
  <2>5. frames' = [F EXCEPT ![w].ev = "lock"]  BY <1>2, <2>1 DEF Wake
  <2>6. /\ DOMAIN frames' = DOMAIN F
        /\ \A j \in DOMAIN F : j # w => frames'[j] = F[j]
        /\ frames'[w] = [f EXCEPT !.ev = "lock"]
    BY <2>3, <2>4, <2>5
  <2>7. f \in Frame(f.ret)  BY <2>2, <2>4, FrameFacts
  <2>8. Same(w)
    BY <2>2, <2>3, <2>4, <2>6, <2>7 DEF Same, Like, Placed, Results, InFlight, Frame
  <2>9. ASSUME NEW j \in InFlight, j # k, j # p, j # w  PROVE Same(j)
    <3>1. j \in DOMAIN F /\ F[j] = frames[j]  BY <2>9
    <3> QED  BY <2>6, <2>9, <3>1 DEF Same, Like, Placed, Results, InFlight
  <2> QED  BY <2>2, <2>6, <2>8, <2>9 DEF Others, InFlight
<1>3. ASSUME NEW e \in Entry, frames' = Wake(F, e), queue[e] = <<>>
      PROVE  Goal
  BY <1>1, <1>3 DEF Wake
<1> QED  BY <1>1, <1>2, <1>3

-----------------------------------------------------------------------------
(***************************************************************************)
(* What the handlers do to the frames.                                     *)
(***************************************************************************)
\* Frame k goes on with event v.
Goes(k, v) ==
  LET f == frames[k]
      g == frames'[k]
  IN Like(f, g) /\ Placed(f, g) /\ Results(f, g) /\ g.ev = v

\* Frame k has called the frames N, and goes on with event v when they are back.
Called(k, v, N) ==
  LET f == frames[k]
      g == frames'[k]
  IN
  /\ InFlight' = InFlight \cup DOMAIN N /\ DOMAIN N \cap InFlight = {}
  /\ \A n \in DOMAIN N : frames'[n] = N[n]
  /\ Others(k, k)
  /\ Like(f, g) /\ Placed(f, g) /\ g.ev = v
  /\ g.reply = f.reply /\ g.retain = f.retain

\* Frame k only, or it and its caller p, changes.
Alone(k, p) == InFlight' = InFlight /\ Others(k, p)

\* Frame k has told its caller p, which still waits.
Told(k, p) ==
  LET f == frames[p]
      g == frames'[p]
  IN
  /\ p \in InFlight /\ p # k
  /\ Alone(k, p) /\ Goes(k, "reply")
  /\ Like(f, g) /\ Placed(f, g) /\ g.ev = f.ev

\* Frame k is over.
Ended(k) == InFlight' = InFlight \ {k} /\ Others(k, k)

\* Nothing happens to the entries, but that d may be unlocked.
Frees(d) == lock' = [lock EXCEPT ![d] = None]
NoEntry == UNCHANGED <<blk, dir, lock>>

\* A step that only sets the event of frame k, or adds frames that it calls
LEMMA Moves ==
  ASSUME IInv, NEW k \in InFlight, frames[k].ev # "lockWait", NEW v,
         \/ frames' = [frames EXCEPT ![k].ev = v]
         \/ \E e \in Entry : frames' = Wake([frames EXCEPT ![k].ev = v], e)
  PROVE  Alone(k, k) /\ Goes(k, v)
<1>1. PICK f : f = frames[k]  OBVIOUS
<1>2. PICK F : F = [frames EXCEPT ![k].ev = v]  OBVIOUS
<1>3. f \in Frame(f.ret)  BY <1>1, FrameFacts
<1>4. /\ IsFunction(F) /\ DOMAIN F = InFlight /\ F[k] = [f EXCEPT !.ev = v]
      /\ \A j \in InFlight : j # k => F[j] = frames[j]
  BY <1>1, <1>2 DEF IsFunction, InFlight
<1>5. /\ InFlight' = DOMAIN F /\ Others(k, k)
      /\ \A n \in DOMAIN F : n \notin InFlight \/ n = k \/ n = k => frames'[n] = F[n]
  <2>1. \/ frames' = F
        \/ \E e \in Entry : frames' = Wake(F, e)
    BY <1>2
  <2> QED  BY ONLY IInv, <1>4, frames[k].ev # "lockWait", <2>1, Sharp
<1>6. frames'[k] = [f EXCEPT !.ev = v]  BY <1>4, <1>5
<1>7. Goes(k, v)
  BY <1>1, <1>3, <1>6 DEF Goes, Like, Placed, Results, Frame
<1> QED  BY <1>4, <1>5, <1>7 DEF Alone

\* Frame k tells its caller something.
LEMMA Tells ==
  ASSUME IInv, NEW k \in InFlight, Idle(k), frames[k].kind \notin AccessKind,
         NEW p, p = frames[k].ret, NEW h,
         Like(frames[p], h), Placed(frames[p], h), h.ev = frames[p].ev,
         NEW F, IsFunction(F), DOMAIN F = InFlight,
         F[k] = [frames[k] EXCEPT !.ev = "reply"], F[p] = h,
         \A j \in InFlight : j # k /\ j # p => F[j] = frames[j],
         \/ frames' = F
         \/ \E e \in Entry : frames' = Wake(F, e)
  PROVE  Told(k, p) /\ frames'[p] = h
<1>1. PICK f : f = frames[k]  OBVIOUS
<1>2. f \in Frame(f.ret)  BY <1>1, FrameFacts
<1>3. /\ p \in InFlight /\ p # k
      /\ frames[p].ev \in {"evicting", "invalid", "exclusive", "miss", "finish",
                           "unlock", "ncAction", "ncMiss"}
  BY CallerWaits
<1>4. /\ DOMAIN F = InFlight /\ F[k] = [f EXCEPT !.ev = "reply"]
      /\ \A j \in InFlight : j # k /\ j # p => j \in DOMAIN F /\ F[j] = frames[j]
  BY <1>1
<1>5. frames[k].ev # "lockWait" /\ frames[p].ev # "lockWait"
  BY <1>3 DEF Idle
<1>6. /\ InFlight' = DOMAIN F /\ Others(k, p)
      /\ \A n \in DOMAIN F : n \notin InFlight \/ n = k \/ n = p => frames'[n] = F[n]
  BY ONLY IInv, IsFunction(F), <1>4, <1>5, Sharp,
          \/ frames' = F
          \/ \E e \in Entry : frames' = Wake(F, e)
<1>7. frames'[k] = [f EXCEPT !.ev = "reply"] /\ frames'[p] = h
  BY <1>3, <1>4, <1>6
<1>8. Goes(k, "reply")
  BY <1>1, <1>2, <1>7 DEF Goes, Like, Placed, Results, Frame
<1> QED  BY <1>3, <1>4, <1>6, <1>7, <1>8 DEF Alone, Told

\* A frame that returns and tells nobody
LEMMA Ends ==
  ASSUME IInv, NEW k \in InFlight, frames[k].ev # "lockWait",
         \/ frames' = Without(frames, k)
         \/ \E e \in Entry : frames' = Wake(Without(frames, k), e)
  PROVE  Ended(k)
<1>1. PICK F : F = Without(frames, k)  OBVIOUS
<1>2. /\ IsFunction(F) /\ DOMAIN F = InFlight \ {k}
      /\ \A j \in InFlight : j # k => j \in DOMAIN F /\ F[j] = frames[j]
  BY <1>1 DEF Without, IsFunction, InFlight
<1>3. /\ InFlight' = DOMAIN F /\ Others(k, k)
  BY ONLY IInv, <1>1, <1>2, frames[k].ev # "lockWait", Sharp,
          \/ frames' = Without(frames, k)
          \/ \E e \in Entry : frames' = Wake(Without(frames, k), e)
<1> QED  BY <1>2, <1>3 DEF Ended

\* Frame k has become g and called N.
LEMMA CallsN ==
  ASSUME IInv, NEW k \in InFlight, Idle(k), NEW g, NEW v, NEW N,
         k \notin DOMAIN N, DOMAIN N \cap InFlight = {},
         NEW G, DOMAIN G = InFlight, G[k] = g,
         \A j \in InFlight : j # k => G[j] = frames[j],
         frames' = Adding(N, G),
         Like(frames[k], g), Placed(frames[k], g), g.ev = v,
         g.reply = frames[k].reply, g.retain = frames[k].retain
  PROVE  Called(k, v, N) /\ frames'[k] = g
<1>1. PICK F : F = Adding(N, G)  OBVIOUS
<1>2. /\ IsFunction(F) /\ DOMAIN F = InFlight \cup DOMAIN N /\ F[k] = g
      /\ \A j \in InFlight : j # k => j \in DOMAIN F /\ F[j] = frames[j]
      /\ \A n \in DOMAIN N : F[n] = N[n]
  BY <1>1 DEF Adding, IsFunction
<1>3. frames' = F /\ frames[k].ev # "lockWait"  BY <1>1 DEF Idle
<1>4. /\ InFlight' = DOMAIN F /\ Others(k, k)
      /\ \A n \in DOMAIN F : n \notin InFlight \/ n = k \/ n = k => frames'[n] = F[n]
  BY ONLY IInv, <1>2, <1>3, Sharp
<1>5. frames'[k] = g /\ \A n \in DOMAIN N : frames'[n] = N[n]
  BY <1>2, <1>4
<1> QED  BY <1>2, <1>4, <1>5 DEF Called

\* Frame k has called one frame c.
LEMMA CallsR ==
  ASSUME IInv, NEW k \in InFlight, Idle(k), NEW g, NEW v, NEW N, NEW c,
         DOMAIN N = {c}, c[3] \notin AccessKind, c = Call(k, c[3], c[4]),
         NEW G, DOMAIN G = InFlight, G[k] = g,
         \A j \in InFlight : j # k => G[j] = frames[j],
         frames' = Adding(N, G),
         Like(frames[k], g), Placed(frames[k], g), g.ev = v,
         g.reply = frames[k].reply, g.retain = frames[k].retain
  PROVE  Called(k, v, N) /\ frames'[k] = g
<1>1. c \notin InFlight  BY Fresh DEF Idle
<1>2. k \notin DOMAIN N /\ DOMAIN N \cap InFlight = {}  BY <1>1
<1> QED  BY <1>2, CallsN

\* Frame k tells its caller of an error.
ToldError(k) ==
  LET p == frames[k].ret IN
  /\ Told(k, p) /\ frames'[p].err
  /\ frames'[p].reply = frames[p].reply /\ frames'[p].retain = frames[p].retain

\* A request that has failed sets the error of its caller.
LEMMA TellsError ==
  ASSUME IInv, NEW k \in InFlight, Idle(k), frames[k].kind \notin AccessKind,
         \/ frames' = ErrorPassed(k)
         \/ \E e \in Entry : frames' = Wake(ErrorPassed(k), e)
  PROVE  ToldError(k)
<1>1. PICK p : p = frames[k].ret  OBVIOUS
<1>2. p \in InFlight /\ p # k  BY <1>1, CallerWaits
<1>3. frames[p] \in Frame(frames[p].ret)  BY <1>2, FrameFacts
<1>4. PICK f : f = frames[p]  OBVIOUS
<1>5. PICK h : h = [f EXCEPT !.err = TRUE]  OBVIOUS
<1>6. /\ Like(f, h) /\ Placed(f, h) /\ h.ev = f.ev /\ h.err
      /\ h.reply = f.reply /\ h.retain = f.retain
  BY <1>3, <1>4, <1>5 DEF Like, Placed, Frame
<1>7. PICK F : F = ErrorPassed(k)  OBVIOUS
<1>8. /\ IsFunction(F) /\ DOMAIN F = InFlight
      /\ F[k] = [frames[k] EXCEPT !.ev = "reply"] /\ F[p] = h
      /\ \A j \in InFlight : j # k /\ j # p => F[j] = frames[j]
  BY <1>1, <1>2, <1>4, <1>5, <1>7 DEF ErrorPassed, IsFunction, InFlight
<1>9. \/ frames' = F
      \/ \E e \in Entry : frames' = Wake(F, e)
  BY <1>7
<1>10. Like(frames[p], h) /\ Placed(frames[p], h) /\ h.ev = frames[p].ev
  BY <1>4, <1>6
<1>11. Told(k, p) /\ frames'[p] = h
  BY ONLY IInv, k \in InFlight, Idle(k), frames[k].kind \notin AccessKind, <1>1, <1>8,
          <1>9, <1>10, Tells
<1> QED  BY <1>1, <1>4, <1>6, <1>11 DEF ToldError

\* The requests that frame k sends.
ReadUp(k) ==
  LET m == frames[k].at IN
  [j \in {Call(k, "readUD", m)} |->
     [NewFrame("readUD", m, Low[m], frames[k].tag, k, "lock") EXCEPT !.nc = FALSE]]

ReadDown(k, owner, peer) ==
  [j \in {Call(k, "readDU", owner)} |->
     [NewFrame("readDU", frames[k].at, owner, frames[k].tag, k, "lock")
        EXCEPT !.peer = peer]]

WriteUp(k) ==
  LET m == frames[k].at IN
  [j \in {Call(k, "writeUD", m)} |->
     NewFrame("writeUD", m, Low[m], frames[k].tag, k, "lock")]

\* What is true when a read request is sent to the lower level
LEMMA SendsReadUp ==
  ASSUME IInv, NEW k \in InFlight, Idle(k), NEW v,
         frames' = ReadUpDown(k, frames[k].at, frames[k].tag, v, FALSE)
  PROVE  Called(k, v, ReadUp(k)) /\ ~frames'[k].err /\ ~frames'[k].shared
<1>1. PICK f : f = frames[k]  OBVIOUS
<1>2. f \in Frame(f.ret)  BY <1>1, FrameFacts
<1>3. PICK g : g = [f EXCEPT !.ev = v, !.err = FALSE, !.shared = FALSE]  OBVIOUS
<1>4. /\ Like(f, g) /\ Placed(f, g) /\ g.ev = v
      /\ g.reply = f.reply /\ g.retain = f.retain /\ ~g.err /\ ~g.shared
  BY <1>2, <1>3 DEF Like, Placed, Frame
<1>5. PICK c : c = Call(k, "readUD", frames[k].at)  OBVIOUS
<1>6. c[3] \notin AccessKind /\ c = Call(k, c[3], c[4])
  BY <1>5 DEF Call, AccessKind
<1>7. PICK N : N = ReadUp(k)  OBVIOUS
<1>8. PICK G : G = [frames EXCEPT ![k].ev = v, ![k].err = FALSE, ![k].shared = FALSE]
  OBVIOUS
<1>9. DOMAIN N = {c} /\ frames' = Adding(N, G)
  BY <1>5, <1>7, <1>8 DEF ReadUp, ReadUpDown
<1>10. DOMAIN G = InFlight /\ G[k] = g /\ \A j \in InFlight : j # k => G[j] = frames[j]
  BY <1>1, <1>3, <1>8 DEF InFlight
<1>11. Called(k, v, N) /\ frames'[k] = g
  BY ONLY IInv, k \in InFlight, Idle(k), <1>1, <1>4, <1>6, <1>9, <1>10, CallsR
<1> QED  BY <1>4, <1>7, <1>11

\* What is true when a read request is sent to the owner
LEMMA SendsReadDown ==
  ASSUME IInv, NEW k \in InFlight, Idle(k), NEW v, NEW owner, NEW peer,
         frames' = ReadDownUp(k, frames[k].at, owner, frames[k].tag, v, peer)
  PROVE  Called(k, v, ReadDown(k, owner, peer)) /\ ~frames'[k].err /\ ~frames'[k].shared
<1>1. PICK f : f = frames[k]  OBVIOUS
<1>2. f \in Frame(f.ret)  BY <1>1, FrameFacts
<1>3. PICK g : g = [f EXCEPT !.ev = v, !.err = FALSE, !.shared = FALSE]  OBVIOUS
<1>4. /\ Like(f, g) /\ Placed(f, g) /\ g.ev = v
      /\ g.reply = f.reply /\ g.retain = f.retain /\ ~g.err /\ ~g.shared
  BY <1>2, <1>3 DEF Like, Placed, Frame
<1>5. PICK c : c = Call(k, "readDU", owner)  OBVIOUS
<1>6. c[3] \notin AccessKind /\ c = Call(k, c[3], c[4])
  BY <1>5 DEF Call, AccessKind
<1>7. PICK N : N = ReadDown(k, owner, peer)  OBVIOUS
<1>8. PICK G : G = [frames EXCEPT ![k].ev = v, ![k].err = FALSE, ![k].shared = FALSE]
  OBVIOUS
<1>9. DOMAIN N = {c} /\ frames' = Adding(N, G)
  BY <1>5, <1>7, <1>8 DEF ReadDown, ReadDownUp
<1>10. DOMAIN G = InFlight /\ G[k] = g /\ \A j \in InFlight : j # k => G[j] = frames[j]
  BY <1>1, <1>3, <1>8 DEF InFlight
<1>11. Called(k, v, N) /\ frames'[k] = g
  BY ONLY IInv, k \in InFlight, Idle(k), <1>1, <1>4, <1>6, <1>9, <1>10, CallsR
<1> QED  BY <1>4, <1>7, <1>11

\* What is true when a write request is sent to the lower level
LEMMA SendsWriteUp ==
  ASSUME IInv, NEW k \in InFlight, Idle(k), NEW v,
         frames' = WriteUpDown(k, frames[k].at, frames[k].tag, v)
  PROVE  Called(k, v, WriteUp(k)) /\ ~frames'[k].err
<1>1. PICK f : f = frames[k]  OBVIOUS
<1>2. f \in Frame(f.ret)  BY <1>1, FrameFacts
<1>3. PICK g : g = [f EXCEPT !.ev = v, !.err = FALSE]  OBVIOUS
<1>4. /\ Like(f, g) /\ Placed(f, g) /\ g.ev = v
      /\ g.reply = f.reply /\ g.retain = f.retain /\ ~g.err
  BY <1>2, <1>3 DEF Like, Placed, Frame
<1>5. PICK c : c = Call(k, "writeUD", frames[k].at)  OBVIOUS
<1>6. c[3] \notin AccessKind /\ c = Call(k, c[3], c[4])
  BY <1>5 DEF Call, AccessKind
<1>7. PICK N : N = WriteUp(k)  OBVIOUS
<1>8. PICK G : G = [frames EXCEPT ![k].ev = v, ![k].err = FALSE]
  OBVIOUS
<1>9. DOMAIN N = {c} /\ frames' = Adding(N, G)
  BY <1>5, <1>7, <1>8 DEF WriteUp, WriteUpDown
<1>10. DOMAIN G = InFlight /\ G[k] = g /\ \A j \in InFlight : j # k => G[j] = frames[j]
  BY <1>1, <1>3, <1>8 DEF InFlight
<1>11. Called(k, v, N) /\ frames'[k] = g
  BY ONLY IInv, k \in InFlight, Idle(k), <1>1, <1>4, <1>6, <1>9, <1>10, CallsR
<1> QED  BY <1>4, <1>7, <1>11

-----------------------------------------------------------------------------
(***************************************************************************)
(* The events that give up, and those that end an access.                  *)
(***************************************************************************)
\* Frame k has nothing to do with a non-coherent store.
PlainFrame(k) ==
  LET f == frames[k] IN
  /\ ~f.nc /\ f.kind \notin {"nc", "message"} /\ f.ev \notin {"ncAction", "ncMiss"}
  /\ f.kind \in AccessKind => f.src = 0 /\ ~f.peer

Plain ==
  /\ \A k \in InFlight : PlainFrame(k)
  /\ \A e \in Entry : blk[e].state # "N" /\ IsFiniteSet(dir[e].sharers)

\* Frame k, which had no entry yet or has failed, looks for one, waits for one
\* or has not got it.
Looks(k) ==
  LET f == frames[k]
      g == frames'[k]
  IN
  /\ Alone(k, k) /\ Like(f, g)
  /\ g.ev \in {"lock", "lockWait", "action"} /\ (g.ev = "action" => g.err)
  /\ f.ev # "lock" => g.way = f.way
  /\ f.kind \notin AccessKind =>
       /\ f.ev = "lock" /\ g.reply = f.reply /\ g.retain = f.retain
       /\ f.kind \in {"readDU", "writeDU"} => g.ev = "lockWait" /\ g.err = f.err

\* What LockBusy does to the frames and to the entries
LEMMA LockBusyEffect ==
  ASSUME IInv, NEW k \in InFlight, LockBusy(k)
  PROVE  Looks(k) /\ frames[k].ev = "lock" /\ NoEntry
<1>1. PICK f : f = frames[k]  OBVIOUS
<1>2. f \in Frame(f.ret) /\ f.ev = "lock"  BY <1>1, FrameFacts DEF LockBusy, Scheduled
<1>3. PICK e \in Candidates(f) :
        IF Blocking(f)
        THEN frames' = [frames EXCEPT ![k].way = e[2], ![k].ev = "lockWait"]
        ELSE frames' = [frames EXCEPT ![k].err = TRUE, ![k].ev = "action"]
  BY <1>1 DEF LockBusy
<1>4. PICK g : \/ Blocking(f) /\ g = [f EXCEPT !.way = e[2], !.ev = "lockWait"]
               \/ ~Blocking(f) /\ g = [f EXCEPT !.err = TRUE, !.ev = "action"]
  OBVIOUS
<1>5. /\ DOMAIN frames' = InFlight /\ frames'[k] = g
      /\ \A j \in InFlight : j # k => frames'[j] = frames[j]
  <2>1. CASE Blocking(f)
    BY <1>1, <1>3, <1>4, <2>1 DEF InFlight
  <2>2. CASE ~Blocking(f)
    BY <1>1, <1>3, <1>4, <2>2 DEF InFlight
  <2> QED  BY <2>1, <2>2
<1>6. InFlight' = InFlight /\ Others(k, k) /\ frames'[k] = g
  BY <1>5 DEF Others, Same, Like, Placed, Results, InFlight
<1>7. /\ Like(f, g) /\ g.reply = f.reply /\ g.retain = f.retain
      /\ \/ g.ev = "lockWait" /\ g.err = f.err
         \/ g.ev = "action" /\ g.err /\ f.kind \notin {"readDU", "writeDU"}
  BY <1>2, <1>4 DEF Like, Blocking, Frame
<1> QED  BY <1>1, <1>2, <1>6, <1>7 DEF Looks, Alone, NoEntry, LockBusy

\* Access k is over, or tried again: it could not lock an entry, it failed, or it
\* has found the block as it needs it.
GivesUp(k) ==
  LET f == frames[k] IN
  /\ f.kind \in AccessKind
  /\ \/ f.ev = "action"
     \/ Locks(k) /\ f.err
  /\ Looks(k) \/ Ended(k)
  /\ UNCHANGED <<blk, dir>>
  /\ \/ lock' = lock /\ ~Locks(k)
     \/ Locks(k) /\ Frees(Locked(k))

\* An access that is tried again looks for its entry once more.
LEMMA Retries ==
  ASSUME IInv, Plain, NEW k \in InFlight, frames[k].ev # "lockWait",
         frames[k].kind \in AccessKind,
         \/ frames' = Retry(k)
         \/ \E e \in Entry : frames' = Wake(Retry(k), e)
  PROVE  Looks(k)
<1>1. PICK f : f = frames[k]  OBVIOUS
<1>2. f \in Frame(f.ret) /\ ~f.nc /\ f.src = 0 /\ ~f.peer
  BY <1>1, FrameFacts DEF Plain, PlainFrame
<1>3. PICK g : g = [NewFrame(f.kind, f.from, f.at, f.tag, f.ret, "lock") EXCEPT !.way = f.way]
  OBVIOUS
<1>4. Like(f, g) /\ g.ev = "lock" /\ g.way = f.way
  BY <1>2, <1>3 DEF Like, NewFrame, Frame
<1>5. PICK F : F = Retry(k)  OBVIOUS
<1>6. /\ IsFunction(F) /\ DOMAIN F = InFlight /\ F[k] = g
      /\ \A j \in InFlight : j # k /\ j # k => j \in DOMAIN F /\ F[j] = frames[j]
  BY <1>1, <1>3, <1>5 DEF Retry, IsFunction, InFlight
<1>7. InFlight' = InFlight /\ Others(k, k) /\ frames'[k] = g
  <2>1. \/ frames' = F
        \/ \E e \in Entry : frames' = Wake(F, e)
    BY <1>5
  <2> QED  BY ONLY IInv, k \in InFlight, <1>6, <2>1, frames[k].ev # "lockWait", Sharp
<1> QED  BY <1>1, <1>4, <1>7 DEF Looks, Alone

\* What LockError does
LEMMA LockErrorEffect ==
  ASSUME IInv, Plain, NEW k \in InFlight, LockError(k)
  PROVE  GivesUp(k)
<1>1. /\ frames[k].kind \in AccessKind /\ frames[k].ev = "action" /\ frames[k].err
      /\ UNCHANGED <<blk, dir, lock>>
      /\ frames' = Without(frames, k) \/ frames' = Retry(k)
  BY DEF LockError, Scheduled
<1>2. ~Locks(k)  BY <1>1 DEF Locks
<1>3. Looks(k) \/ Ended(k)  BY <1>1, Retries, Ends
<1> QED  BY <1>1, <1>2, <1>3 DEF GivesUp

\* What an access does when its request has failed
LEMMA FailEffect ==
  ASSUME IInv, Plain, NEW k \in InFlight, Locks(k), Fail(k), frames[k].err,
         frames[k].kind \in AccessKind, UNCHANGED <<blk, dir>>
  PROVE  GivesUp(k)
<1>1. PICK d \in Entry : d = Locked(k)  BY FrameFacts DEF FrameOK
<1>2. /\ Frees(d)
      /\ frames' = Wake(Without(frames, k), d) \/ frames' = Wake(Retry(k), d)
  BY <1>1 DEF Fail, Unlock, Frees
<1>3. frames[k].ev # "lockWait"  BY DEF Locks
<1>4. Looks(k) \/ Ended(k)  BY <1>1, <1>2, <1>3, Retries, Ends
<1> QED  BY <1>1, <1>2, <1>4 DEF GivesUp

\* An access that is over unlocks its entry and is gone.
LEMMA DoneEffect ==
  ASSUME IInv, NEW k \in InFlight, Locks(k), Done(k)
  PROVE  Ended(k) /\ Frees(Locked(k))
<1>1. PICK d \in Entry : d = Locked(k)  BY FrameFacts DEF FrameOK
<1>2. Frees(d) /\ frames' = Wake(Without(frames, k), d)
  BY <1>1 DEF Done, Unlock, Frees
<1>3. frames[k].ev # "lockWait"  BY DEF Locks
<1> QED  BY <1>1, <1>2, <1>3, Ends

\* Access k has the block in state s in its entry and is over.
Writes(d, t, s) == blk' = [blk EXCEPT ![d] = [tag |-> t, state |-> s]]

Settles(k) ==
  LET f == frames[k] IN
  /\ f.kind \in AccessKind /\ Idle(k) /\ Locks(k) /\ ~f.err
  /\ Ended(k) /\ Frees(Locked(k)) /\ dir' = dir
  /\ \/ f.kind # "store" /\ f.ev = "miss"
        /\ Writes(Locked(k), f.tag, IF f.shared THEN "S" ELSE "E")
     \/ f.kind = "store" /\ f.ev = "unlock" /\ Writes(Locked(k), f.tag, "M")

\* Frame k calls a read or write request for its own block.
CallsUp(k, v, N) == Idle(k) /\ Locks(k) /\ Called(k, v, N) /\ ~frames'[k].err /\ NoEntry

\* What the events of loads and prefetches do
LEMMA LoadEffect ==
  ASSUME IInv, Plain, NEW k \in InFlight, LoadAction(k) \/ LoadMiss(k)
  PROVE  \/ GivesUp(k)
         \/ Settles(k)
         \/ /\ frames[k].kind \in {"load", "prefetch"} /\ frames[k].ev = "action"
            /\ frames[k].state = "I" /\ CallsUp(k, "miss", ReadUp(k)) 
<1>1. CASE LoadAction(k)
  <2>1. /\ frames[k].kind \in {"load", "prefetch"} /\ ~frames[k].err
        /\ Idle(k) /\ frames[k].ev = "action" /\ Locks(k)
    BY <1>1, ScheduledIdle DEF LoadAction, Locks
  <2>2. CASE frames[k].state # "I"
    <3>1. Done(k) /\ UNCHANGED <<blk, dir>>  BY <1>1, <2>2 DEF LoadAction
    <3> QED  BY <2>1, <3>1, DoneEffect DEF GivesUp, AccessKind
  <2>3. CASE frames[k].state = "I"
    <3>1. /\ frames' = ReadUpDown(k, frames[k].at, frames[k].tag, "miss", FALSE)
          /\ NoEntry
      BY <1>1, <2>3 DEF LoadAction, NoEntry
    <3> QED  BY <2>1, <2>3, <3>1, SendsReadUp DEF CallsUp
  <2> QED  BY <2>2, <2>3
<1>2. CASE LoadMiss(k)
  <2>1. /\ frames[k].kind \in {"load", "prefetch"} /\ frames[k].kind \in AccessKind
        /\ Idle(k) /\ frames[k].ev = "miss" /\ Locks(k) /\ dir' = dir
    BY <1>2, ScheduledIdle DEF LoadMiss, Locks, AccessKind
  <2>2. CASE frames[k].err
    BY <1>2, <2>1, <2>2, FailEffect DEF LoadMiss
  <2>3. CASE ~frames[k].err
    <3>1. /\ Done(k)
          /\ SetBlock(Locked(k), frames[k].tag, IF frames[k].shared THEN "S" ELSE "E")
      BY <1>2, <2>3 DEF LoadMiss
    <3>2. Locked(k) \in Entry  BY <2>1, FrameFacts DEF FrameOK
    <3>3. Writes(Locked(k), frames[k].tag, IF frames[k].shared THEN "S" ELSE "E")
      BY <3>1, <3>2, BlockSet DEF Writes
    <3> QED  BY <2>1, <2>3, <3>1, <3>3, DoneEffect DEF Settles
  <2> QED  BY <2>2, <2>3
<1> QED  BY <1>1, <1>2

\* What the events of stores do
LEMMA StoreEffect ==
  ASSUME IInv, Plain, NEW k \in InFlight, StoreAction(k) \/ StoreUnlock(k)
  PROVE  \/ GivesUp(k)
         \/ Settles(k)
         \/ /\ frames[k].kind = "store" /\ frames[k].ev = "action" /\ Idle(k) /\ Locks(k)
            /\ \/ frames[k].state \in {"M", "E"} /\ ~frames[k].err
                  /\ Alone(k, k) /\ Goes(k, "unlock") /\ NoEntry
               \/ CallsUp(k, "unlock", WriteUp(k))
<1>1. CASE StoreAction(k)
  <2>1. /\ frames[k].kind = "store" /\ ~frames[k].err /\ NoEntry
        /\ Idle(k) /\ frames[k].ev = "action" /\ Locks(k)
    BY <1>1, ScheduledIdle DEF StoreAction, Locks, NoEntry
  <2>2. CASE frames[k].state \in {"M", "E"}
    <3>1. frames' = [frames EXCEPT ![k].ev = "unlock"]  BY <1>1, <2>2 DEF StoreAction
    <3> QED  BY <2>1, <2>2, <3>1, Moves
  <2>3. CASE frames[k].state \notin {"M", "E"}
    <3>1. frames' = WriteUpDown(k, frames[k].at, frames[k].tag, "unlock")
      BY <1>1, <2>3 DEF StoreAction
    <3> QED  BY <2>1, <3>1, SendsWriteUp DEF CallsUp
  <2> QED  BY <2>2, <2>3
<1>2. CASE StoreUnlock(k)
  <2>1. /\ frames[k].kind = "store" /\ frames[k].kind \in AccessKind
        /\ Idle(k) /\ frames[k].ev = "unlock" /\ Locks(k) /\ dir' = dir
    BY <1>2, ScheduledIdle DEF StoreUnlock, Locks, AccessKind
  <2>2. CASE frames[k].err
    BY <1>2, <2>1, <2>2, FailEffect DEF StoreUnlock
  <2>3. CASE ~frames[k].err
    <3>1. Done(k) /\ SetBlock(Locked(k), frames[k].tag, "M")
      BY <1>2, <2>3 DEF StoreUnlock
    <3>2. Locked(k) \in Entry  BY <2>1, FrameFacts DEF FrameOK
    <3>3. Writes(Locked(k), frames[k].tag, "M")
      BY <3>1, <3>2, BlockSet DEF Writes
    <3> QED  BY <2>1, <2>3, <3>1, <3>3, DoneEffect DEF Settles
  <2> QED  BY <2>2, <2>3
<1> QED  BY <1>1, <1>2

-----------------------------------------------------------------------------
(***************************************************************************)
(* Find and lock, evictions and invalidations.                             *)
(***************************************************************************)
\* The frames that an eviction or an invalidation consists of.
IsEviction(g, k, e) ==
  /\ g.kind = "evict" /\ g.ret = k /\ g.from = e[1] /\ g.at = Low[e[1]]
  /\ g.src = e[2] /\ g.tag = blk[e].tag /\ g.ev = "invalid"
  /\ g.reply = "none" /\ ~g.nc

IsInvalidation(g, q, e) ==
  /\ g.kind = "invalidate" /\ g.ret = q /\ g.from = e[1] /\ g.at = e[1]
  /\ g.way = e[2] /\ g.tag = blk[e].tag /\ g.state = blk[e].state
  /\ g.ev = "finish" /\ g.reply = "none" /\ ~g.nc

IsTaking(g, i, e, m) ==
  /\ g.kind = "writeDU" /\ g.ret = i /\ g.from = e[1] /\ g.at = m
  /\ g.tag = blk[e].tag /\ g.ev = "lock" /\ g.way = 0 /\ ~g.err /\ ~g.nc

\* The frames N are the invalidation of entry e, but for one sharer, called by q.
Invalidates(N, q, e, except) ==
  LET i == Call(q, "invalidate", e[1]) IN
  /\ \A n \in DOMAIN N :
       \/ n = i /\ IsInvalidation(N[n], q, e)
       \/ \E m \in Victims(e, except) :
            n = Call(i, "writeDU", m) /\ IsTaking(N[n], i, e, m)
  /\ \A m \in Victims(e, except) : i \in DOMAIN N /\ Call(i, "writeDU", m) \in DOMAIN N
  /\ DOMAIN N # {} => Victims(e, except) # {} /\ i \in DOMAIN N

\* The frames of an invalidation: itself, and one request for each victim
LEMMA InvalidationFrames ==
  ASSUME NEW q, NEW e \in Entry, NEW except
  PROVE  Invalidates(Invalidation(q, e, except), q, e, except)
<1>1. PICK i : i = Call(q, "invalidate", e[1])  OBVIOUS
<1>2. PICK V : V = Victims(e, except)  OBVIOUS
<1>3. PICK R : R = {Call(i, "writeDU", m) : m \in V}  OBVIOUS
<1>4. PICK N : N = Invalidation(q, e, except)  OBVIOUS
<1>5. PICK g : g = [NewFrame("invalidate", e[1], e[1], blk[e].tag, q, "finish")
                      EXCEPT !.way = e[2], !.state = blk[e].state]
  OBVIOUS
<1>6. /\ DOMAIN N = IF R = {} THEN {} ELSE R \cup {i}
      /\ \A c \in DOMAIN N :
           N[c] = IF c = i THEN g
                  ELSE NewFrame("writeDU", e[1], c[4], blk[e].tag, i, "lock")
  BY <1>1, <1>2, <1>3, <1>4, <1>5 DEF Invalidation
<1>7. IsInvalidation(g, q, e)
  BY <1>5 DEF NewFrame, IsInvalidation
<1>8. ASSUME NEW m \in V, NEW c, c = Call(i, "writeDU", m), NEW h,
             h = NewFrame("writeDU", e[1], c[4], blk[e].tag, i, "lock")
      PROVE  c # i /\ IsTaking(h, i, e, m)
  BY <1>1, <1>8 DEF Call, NewFrame, IsTaking
<1>9. ASSUME NEW n \in DOMAIN N
      PROVE  \/ n = i /\ IsInvalidation(N[n], q, e)
             \/ \E m \in V : n = Call(i, "writeDU", m) /\ IsTaking(N[n], i, e, m)
  BY <1>3, <1>6, <1>7, <1>8
<1>10. ASSUME NEW m \in V  PROVE  i \in DOMAIN N /\ Call(i, "writeDU", m) \in DOMAIN N
  BY <1>3, <1>6
<1>11. DOMAIN N # {} => V # {} /\ i \in DOMAIN N
  BY <1>3, <1>6
<1> QED  BY <1>1, <1>2, <1>4, <1>9, <1>10, <1>11 DEF Invalidates

\* The frames N are the eviction of entry e, called by k.
Evicts(N, k, e) ==
  LET q == EvictKey(k) IN
  /\ q \in DOMAIN N /\ IsEviction(N[q], k, e)
  /\ \E I : /\ Invalidates(I, q, e, None)
            /\ q \notin DOMAIN I /\ DOMAIN N = DOMAIN I \cup {q}
            /\ \A n \in DOMAIN I : N[n] = I[n]

\* The frames of an eviction: itself, and those of its invalidation
LEMMA EvictionFrames ==
  ASSUME IInv, NEW k \in InFlight, Idle(k), NEW e \in Entry, e[1] = frames[k].at,
         NEW N, N = Eviction(k, e)
  PROVE  Evicts(N, k, e) /\ DOMAIN N \cap InFlight = {} /\ k \notin DOMAIN N
<1>1. PICK q : q = Call(k, "evict", e[1])  OBVIOUS
<1>2. PICK I : I = Invalidation(q, e, None)  OBVIOUS
<1>3. PICK h : h = [NewFrame("evict", e[1], Low[e[1]], blk[e].tag, k, "invalid")
                      EXCEPT !.way = e[2], !.src = e[2]]
  OBVIOUS
<1>4. q \notin InFlight /\ q[3] = "evict" /\ q = EvictKey(k)
  BY <1>1, Fresh DEF Idle, Call, AccessKind, EvictKey
<1>5. /\ DOMAIN I \cap InFlight = {} /\ q \notin DOMAIN I
  BY <1>2, <1>4, InvalidationFresh
<1>6. /\ DOMAIN N = DOMAIN I \cup {q} /\ N[q] = h
      /\ \A n \in DOMAIN I : N[n] = I[n]
  BY <1>1, <1>2, <1>3, <1>5 DEF Adding, Eviction
<1>7. IsEviction(h, k, e)  BY <1>3 DEF NewFrame, IsEviction
<1>8. Invalidates(I, q, e, None)  BY <1>2, InvalidationFrames
<1> QED  BY <1>4, <1>5, <1>6, <1>7, <1>8 DEF Evicts

\* Frame k evicts the block of entry e, which it has chosen and locked.
Replaces(k, e) ==
  LET f == frames[k] IN
  /\ Idle(k) /\ f.ev = "lock"
  /\ e \in Candidates(f) /\ lock[e] = None /\ blk[e].state # "I" /\ blk[e].tag # f.tag
  /\ \E N : Called(k, "evicting", N) /\ Evicts(N, k, e)
  /\ ClearSharers(e, None) /\ lock' = [lock EXCEPT ![e] = f.tag] /\ blk' = blk

\* What LockEvict does
LEMMA LockEvictEffect ==
  ASSUME IInv, NEW k \in InFlight, LockEvict(k)
  PROVE  \E e \in Entry : Replaces(k, e)
<1>1. PICK f : f = frames[k]  OBVIOUS
<1>2. Idle(k) /\ f.ev = "lock" /\ f \in Frame(f.ret)
  BY <1>1, ScheduledIdle, FrameFacts DEF LockEvict
<1>3. PICK e \in Candidates(f) :
        /\ lock[e] = None /\ blk[e].state # "I" /\ blk[e].tag # f.tag
        /\ lock' = [lock EXCEPT ![e] = f.tag]
        /\ ClearSharers(e, None)
        /\ frames' = Adding(Eviction(k, e), [frames EXCEPT ![k].ev = "evicting"])
        /\ UNCHANGED <<blk, queue>>
  BY <1>1 DEF LockEvict
<1>4. e \in Entry /\ e[1] = f.at  BY <1>3 DEF Candidates
<1>5. PICK N : N = Eviction(k, e)  OBVIOUS
<1>6. Evicts(N, k, e) /\ DOMAIN N \cap InFlight = {} /\ k \notin DOMAIN N
  BY <1>1, <1>2, <1>4, <1>5, EvictionFrames
<1>7. PICK g : g = [f EXCEPT !.ev = "evicting"]  OBVIOUS
<1>8. /\ Like(f, g) /\ Placed(f, g) /\ g.ev = "evicting"
      /\ g.reply = f.reply /\ g.retain = f.retain
  BY <1>2, <1>7 DEF Like, Placed, Frame
<1>9. PICK G : G = [frames EXCEPT ![k].ev = "evicting"]  OBVIOUS
<1>10. DOMAIN G = InFlight /\ G[k] = g /\ \A j \in InFlight : j # k => G[j] = frames[j]
  BY <1>1, <1>7, <1>9 DEF InFlight
<1>11. frames' = Adding(N, G)  BY <1>3, <1>5, <1>9
<1>12. Called(k, "evicting", N)
  BY ONLY IInv, k \in InFlight, <1>1, <1>2, <1>6, <1>8, <1>10, <1>11, CallsN
<1> QED  BY <1>1, <1>2, <1>3, <1>4, <1>6, <1>12 DEF Replaces

\* Frame k has locked entry e, which has its block or is free.
Gets(k, e) ==
  LET f == frames[k]
      g == frames'[k]
  IN
  /\ Idle(k) /\ f.ev = "lock"
  /\ e \in Candidates(f) /\ lock[e] = None
  /\ Alone(k, k) /\ Like(f, g) /\ Locked(k)' = e
  /\ g.ev = "action" /\ ~g.err /\ g.reply = f.reply /\ g.retain = f.retain
  /\ g.state = blk'[e].state /\ (g.state # "I" => blk'[e].tag = f.tag)
  /\ \/ blk' = blk
     \/ MainMemory(e[1]) /\ blk[e].state = "I" /\ Writes(e, f.tag, "E")
  /\ lock' = [lock EXCEPT ![e] = f.tag] /\ dir' = dir

\* What LockFree does
LEMMA LockFreeEffect ==
  ASSUME IInv, NEW k \in InFlight, LockFree(k)
  PROVE  \E e \in Entry : Gets(k, e)
<1>1. PICK f : f = frames[k]  OBVIOUS
<1>2. Idle(k) /\ f.ev = "lock" /\ f \in Frame(f.ret)
  BY <1>1, ScheduledIdle, FrameFacts DEF LockFree
<1>3. PICK e \in Candidates(f) :
        /\ lock[e] = None
        /\ blk[e].state = "I" \/ blk[e].tag = f.tag
        /\ lock' = [lock EXCEPT ![e] = f.tag]
        /\ IF MainMemory(f.at) /\ blk[e].state = "I"
           THEN SetBlock(e, f.tag, "E") ELSE UNCHANGED blk
        /\ frames' = EndLock(frames, k, e)
        /\ dir' = dir
  BY <1>1 DEF LockFree
<1>4. e \in Entry /\ e[1] = f.at /\ e = <<e[1], e[2]>>
  BY <1>3, EntryPair DEF Candidates
<1>5. PICK s : s = IF blk[e].state = "I" \/ blk[e].tag # f.tag
                   THEN IF MainMemory(e[1]) THEN "E" ELSE "I"
                   ELSE blk[e].state
  OBVIOUS
<1>6. PICK g : g = [f EXCEPT !.way = e[2], !.err = FALSE, !.ev = "action", !.state = s]
  OBVIOUS
<1>7. /\ Like(f, g) /\ g.ev = "action" /\ ~g.err /\ g.reply = f.reply
      /\ g.retain = f.retain /\ g.at = e[1] /\ g.way = e[2] /\ g.state = s
  BY <1>2, <1>4, <1>6 DEF Like, Frame
<1>8. /\ DOMAIN frames' = InFlight /\ frames'[k] = g
      /\ \A j \in InFlight : j # k => frames'[j] = frames[j]
  BY <1>1, <1>3, <1>5, <1>6 DEF EndLock, InFlight
<1>9. InFlight' = InFlight /\ Others(k, k)
  BY <1>8 DEF Others, Same, Like, Placed, Results, InFlight
<1>10. Locked(k)' = e  BY <1>4, <1>7, <1>8 DEF Locked
<1>11. /\ Alone(k, k) /\ Like(frames[k], frames'[k]) /\ frames'[k].ev = "action"
       /\ ~frames'[k].err /\ frames'[k].reply = frames[k].reply
       /\ frames'[k].retain = frames[k].retain /\ frames'[k].state = s
  BY <1>1, <1>7, <1>8, <1>9 DEF Alone
<1>12. /\ s = blk'[e].state /\ (s # "I" => blk'[e].tag = f.tag)
       /\ \/ blk' = blk
          \/ MainMemory(e[1]) /\ blk[e].state = "I" /\ Writes(e, f.tag, "E")
  <2>1. CASE MainMemory(e[1]) /\ blk[e].state = "I"
    <3>1. Writes(e, f.tag, "E")
      BY <1>3, <1>4, <2>1, BlockSet DEF Writes
    <3>2. blk'[e] = [tag |-> f.tag, state |-> "E"] /\ s = "E"
      BY <1>4, <1>5, <2>1, <3>1 DEF Writes, IInv, TypeOK
    <3> QED  BY <2>1, <3>1, <3>2
  <2>2. CASE ~(MainMemory(e[1]) /\ blk[e].state = "I")
    BY <1>3, <1>4, <1>5, <2>2
  <2> QED  BY <2>1, <2>2
<1> QED  BY ONLY <1>1, <1>2, <1>3, <1>10, <1>11, <1>12, <1>4 DEF Gets

\* The eviction k is over, and its caller p goes on with event "action".
Returns(k, p) ==
  LET f == frames[p]
      g == frames'[p]
  IN
  /\ frames[k].kind = "evict" /\ Idle(k) /\ p = frames[k].ret /\ p \in InFlight /\ p # k
  /\ f.ev = "evicting" /\ Holds(p, Source(k)) /\ Source(k) \in Entry
  /\ InFlight' = InFlight \ {k} /\ Others(k, p)
  /\ Like(f, g) /\ g.ev = "action" /\ g.reply = f.reply /\ g.retain = f.retain
  /\ dir' = dir

\* It has failed: the entry is unlocked.
EvictionFails(k, p) ==
  /\ Returns(k, p) /\ frames[k].ev = "reply" /\ frames[k].err /\ frames'[p].err
  /\ frames'[p].way = frames[p].way
  /\ blk' = blk /\ Frees(Source(k))

\* Or the entry is free, and the caller has it.
EvictionEnds(k, p) ==
  LET d == Source(k)
      b == blk'[d]
  IN
  /\ Returns(k, p) /\ ~frames'[p].err /\ frames'[p].state = b.state
  /\ Locked(p)' = d
  /\ \/ frames[k].ev = "invalid" /\ (MainMemory(d[1]) \/ blk[d].state = "I")
     \/ frames[k].ev = "reply" /\ ~frames[k].err
  /\ \/ b = [tag |-> None, state |-> "I"]
     \/ b = [tag |-> frames[p].tag, state |-> "E"] /\ MainMemory(d[1])
  /\ \A e \in Entry \ {d} : blk'[e] = blk[e]
  /\ lock' = lock

\* Who has called an eviction, and which entry it is about
LEMMA EvictionCaller ==
  ASSUME IInv, Plain, NEW k, Idle(k), frames[k].kind = "evict", NEW p, p = frames[k].ret
  PROVE  /\ p \in InFlight /\ p # k /\ frames[p].ev = "evicting"
         /\ Source(k) \in Entry /\ Holds(p, Source(k))
         /\ frames[k].from = Source(k)[1] /\ frames[k].from = frames[p].at
<1>1. /\ p \in InFlight /\ p # k /\ k \in InFlight /\ PlainFrame(p)
  BY CallerWaits DEF Idle, AccessKind, Plain
<1>2. FrameOK(k) /\ CallOK(k)  BY <1>1, FrameFacts
<1>3. Source(k) \in Entry /\ Holds(p, Source(k))
  BY <1>1, <1>2, CallerHolds DEF FrameOK
<1>4. frames[p].ev = "evicting" /\ frames[k].from = frames[p].at
  BY <1>1, <1>2 DEF CallOK, PlainFrame, AccessKind
<1> QED  BY <1>1, <1>3, <1>4 DEF Source

\* How an eviction ends
LEMMA EvictFinishEffect ==
  ASSUME IInv, Plain, NEW k, Idle(k), frames[k].kind = "evict",
         NEW err \in BOOLEAN, NEW state, ~err => state = "I",
         EvictFinish(k, err, state), dir' = dir,
         \/ frames[k].ev = "reply" /\ frames[k].err = err
         \/ /\ frames[k].ev = "invalid" /\ ~err
            /\ MainMemory(frames[k].from) \/ blk[Source(k)].state = "I"
  PROVE  \E p : EvictionFails(k, p) \/ EvictionEnds(k, p)
<1>1. PICK p : p = frames[k].ret  OBVIOUS
<1>2. PICK d : d = Source(k)  OBVIOUS
<1>3. /\ p \in InFlight /\ p # k /\ frames[p].ev = "evicting" /\ k \in InFlight
      /\ d \in Entry /\ Holds(p, d) /\ frames[k].from = d[1] /\ frames[p].at = d[1]
  BY <1>1, <1>2, EvictionCaller DEF Idle
<1>4. PICK f : f = frames[p]  OBVIOUS
<1>5. f \in Frame(f.ret)  BY <1>3, <1>4, FrameFacts
<1>6. frames[k].ev # "lockWait" /\ frames[p].ev # "lockWait"  BY <1>3 DEF Idle
<1>7. ASSUME NEW g, NEW F,
             IsFunction(F), DOMAIN F = InFlight \ {k}, F[p] = g,
             \A j \in InFlight : j # k /\ j # p => F[j] = frames[j],
             Like(f, g), g.ev = "action", g.reply = f.reply, g.retain = f.retain,
             \/ frames' = F
             \/ \E e \in Entry : frames' = Wake(F, e)
      PROVE  Returns(k, p) /\ frames'[p] = g
  <2>1. \A j \in InFlight : j # k /\ j # p => j \in DOMAIN F /\ F[j] = frames[j]
    BY <1>7
  <2>2. /\ InFlight' = DOMAIN F /\ Others(k, p)
        /\ \A n \in DOMAIN F : n \notin InFlight \/ n = k \/ n = p => frames'[n] = F[n]
    BY ONLY IInv, <1>6, <1>7, <2>1, Sharp
  <2>3. frames'[p] = g  BY <1>3, <1>7, <2>2
  <2> QED  BY <1>1, <1>2, <1>3, <1>4, <1>7, <2>2, <2>3 DEF Returns
<1>8. CASE err
  <2>1. PICK g : g = [f EXCEPT !.err = TRUE, !.ev = "action"]  OBVIOUS
  <2>2. PICK F : F = [Without(frames, k) EXCEPT ![p].err = TRUE, ![p].ev = "action"]
    OBVIOUS
  <2>3. frames' = Wake(F, d) /\ Frees(d) /\ blk' = blk
    BY <1>1, <1>2, <1>3, <1>8, <2>2 DEF EvictFinish, Unlock, Frees
  <2>4. /\ IsFunction(F) /\ DOMAIN F = InFlight \ {k} /\ F[p] = g
        /\ \A j \in InFlight : j # k /\ j # p => F[j] = frames[j]
    BY <1>3, <1>4, <2>1, <2>2 DEF IsFunction, Without, InFlight
  <2>5. /\ Like(f, g) /\ g.ev = "action" /\ g.reply = f.reply /\ g.retain = f.retain
        /\ g.err /\ g.way = f.way
    BY <1>5, <2>1 DEF Like, Frame
  <2>6. Returns(k, p) /\ frames'[p] = g  BY <1>3, <1>7, <2>3, <2>4, <2>5
  <2> QED  BY <1>1, <1>2, <1>4, <1>8, <2>3, <2>5, <2>6 DEF EvictionFails
<1>9. CASE ~err
  <2>1. PICK s : s = IF MainMemory(d[1]) THEN "E" ELSE "I"  OBVIOUS
  <2>2. PICK g : g = [f EXCEPT !.way = d[2], !.err = FALSE, !.ev = "action", !.state = s]
    OBVIOUS
  <2>3. PICK F : F = [Without(frames, k) EXCEPT
                        ![p].way = d[2], ![p].err = FALSE, ![p].ev = "action",
                        ![p].state = s]
    OBVIOUS
  <2>4. /\ frames' = F /\ lock' = lock
        /\ blk' = [blk EXCEPT ![d].tag = IF MainMemory(d[1]) THEN f.tag ELSE None,
                              ![d].state = s]
    BY <1>1, <1>2, <1>3, <1>4, <1>9, <2>1, <2>3 DEF EvictFinish
  <2>5. /\ IsFunction(F) /\ DOMAIN F = InFlight \ {k} /\ F[p] = g
        /\ \A j \in InFlight : j # k /\ j # p => F[j] = frames[j]
    BY <1>3, <1>4, <2>2, <2>3 DEF IsFunction, Without, InFlight
  <2>6. /\ Like(f, g) /\ g.ev = "action" /\ g.reply = f.reply /\ g.retain = f.retain
        /\ ~g.err /\ g.state = s /\ g.at = d[1] /\ g.way = d[2]
    BY <1>3, <1>4, <1>5, <2>2 DEF Like, Frame
  <2>7. Returns(k, p) /\ frames'[p] = g  BY <1>3, <1>7, <2>4, <2>5, <2>6
  <2>8. /\ blk'[d] = [tag |-> IF MainMemory(d[1]) THEN f.tag ELSE None, state |-> s]
        /\ \A e \in Entry \ {d} : blk'[e] = blk[e]
    BY <1>3, <2>4 DEF IInv, TypeOK
  <2>9. Locked(p)' = d  BY <1>3, <2>6, <2>7, EntryPair DEF Locked
  <2>10. /\ blk'[d].state = s
         /\ \/ blk'[d] = [tag |-> None, state |-> "I"]
            \/ blk'[d] = [tag |-> frames[p].tag, state |-> "E"] /\ MainMemory(d[1])
    BY <1>4, <2>1, <2>8
  <2>11. \/ frames[k].ev = "invalid" /\ (MainMemory(d[1]) \/ blk[d].state = "I")
         \/ frames[k].ev = "reply" /\ ~frames[k].err
    BY <1>2, <1>3, <1>9
  <2> QED
    BY ONLY <1>1, <1>2, <2>4, <2>6, <2>7, <2>8, <2>9, <2>10, <2>11 DEF EvictionEnds
<1> QED  BY <1>8, <1>9

\* The block is sent to the lower level.
SendsDown(k) ==
  LET f == frames[k]
      g == frames'[k]
      b == blk[Source(k)]
  IN
  /\ f.kind = "evict" /\ Idle(k) /\ f.ev = "invalid" /\ b.state # "I"
  /\ Alone(k, k) /\ Like(f, g) /\ g.ev = "lock"
  /\ g.reply = IF b.state \in {"M", "O"} THEN "ack_data" ELSE "ack"
  /\ NoEntry

\* What EvictAction does
LEMMA EvictActionEffect ==
  ASSUME IInv, Plain, NEW k \in InFlight, EvictAction(k)
  PROVE  SendsDown(k) \/ \E p : EvictionFails(k, p) \/ EvictionEnds(k, p)
<1>1. frames[k].kind = "evict" /\ Idle(k) /\ frames[k].ev = "invalid" /\ dir' = dir
  BY ScheduledIdle DEF EvictAction
<1>2. CASE MainMemory(frames[k].from) \/ blk[Source(k)].state = "I"
  <2>1. EvictFinish(k, FALSE, "I")  BY <1>2 DEF EvictAction
  <2> QED  BY <1>1, <1>2, <2>1, EvictFinishEffect
<1>3. CASE ~(MainMemory(frames[k].from) \/ blk[Source(k)].state = "I")
  <2>1. PICK f : f = frames[k]  OBVIOUS
  <2>2. f \in Frame(f.ret) /\ ~f.nc /\ Source(k) \in Entry
    BY <1>1, <2>1, FrameFacts DEF Plain, PlainFrame, FrameOK
  <2>3. PICK s : s = blk[Source(k)].state  OBVIOUS
  <2>4. s # "N" /\ s # "I"  BY <1>3, <2>2, <2>3 DEF Plain
  <2>5. PICK r : r = IF s \in {"M", "O"} THEN "ack_data" ELSE "ack"  OBVIOUS
  <2>6. PICK g : g = [f EXCEPT !.state = s, !.reply = r, !.nc = FALSE, !.ev = "lock"]
    OBVIOUS
  <2>7. /\ DOMAIN frames' = InFlight /\ frames'[k] = g
        /\ \A j \in InFlight : j # k => frames'[j] = frames[j]
        /\ UNCHANGED <<blk, lock>>
    BY <1>3, <2>1, <2>3, <2>4, <2>5, <2>6 DEF EvictAction, InFlight
  <2>8. Like(f, g) /\ g.ev = "lock" /\ g.reply = r
    BY <2>2, <2>6 DEF Like, Frame
  <2>9. InFlight' = InFlight /\ Others(k, k)
    BY <2>7 DEF Others, Same, Like, Placed, Results, InFlight
  <2> QED
    BY <1>1, <2>1, <2>3, <2>4, <2>5, <2>7, <2>8, <2>9 DEF SendsDown, Alone, NoEntry
<1> QED  BY <1>2, <1>3

\* What EvictReplyReceive does
LEMMA EvictReplyEffect ==
  ASSUME IInv, Plain, NEW k \in InFlight, EvictReplyReceive(k)
  PROVE  \E p : EvictionFails(k, p) \/ EvictionEnds(k, p)
<1>1. frames[k].kind = "evict" /\ Idle(k) /\ frames[k].ev = "reply" /\ dir' = dir
  BY ScheduledIdle DEF EvictReplyReceive
<1>2. frames[k].err \in BOOLEAN  BY FrameFacts DEF Frame
<1>3. PICK err \in BOOLEAN : err = frames[k].err  BY <1>2
<1>4. PICK s : s = IF err THEN blk[Source(k)].state ELSE "I"  OBVIOUS
<1>5. EvictFinish(k, err, s)  BY <1>3, <1>4 DEF EvictReplyReceive
<1> QED  BY <1>1, <1>3, <1>4, <1>5, EvictFinishEffect

\* The lower level has taken the block, or could not lock its entry.
Accepts(k) ==
  LET f == frames[k]
      e == Locked(k)
  IN
  /\ f.kind = "evict" /\ Idle(k) /\ f.ev = "action" /\ ~f.err
  /\ Alone(k, k) /\ Goes(k, "reply")
  /\ IF f.reply = "ack_data" THEN Writes(e, f.tag, StateAfterData(f)) ELSE blk' = blk
  /\ dir' = [dir EXCEPT ![e] = Forget(@, f.from)] /\ Frees(e)

Refuses(k) ==
  /\ frames[k].kind = "evict" /\ Idle(k) /\ frames[k].ev = "action" /\ frames[k].err
  /\ Alone(k, k) /\ Goes(k, "reply") /\ NoEntry

\* What EvictProcess does
LEMMA EvictProcessEffect ==
  ASSUME IInv, Plain, NEW k \in InFlight, EvictProcess(k)
  PROVE  Accepts(k) \/ Refuses(k)
<1>1. frames[k].kind = "evict" /\ Idle(k) /\ frames[k].ev = "action"
  BY ScheduledIdle DEF EvictProcess
<1>2. CASE frames[k].err
  BY <1>1, <1>2, Moves DEF EvictProcess, Refuses, NoEntry
<1>3. CASE ~frames[k].err
  <2>1. Locks(k)  BY <1>1, <1>3 DEF Locks
  <2>2. PICK d \in Entry : d = Locked(k)  BY <2>1, FrameFacts DEF FrameOK
  <2>3. /\ frames' = Wake([frames EXCEPT ![k].ev = "reply"], d) /\ Frees(d)
        /\ dir' = [dir EXCEPT ![d] = Forget(@, frames[k].from)]
        /\ IF frames[k].reply = "ack_data"
           THEN SetBlock(d, frames[k].tag, StateAfterData(frames[k])) ELSE blk' = blk
    BY <1>3, <2>2 DEF EvictProcess, Unlock, Frees
  <2>4. Alone(k, k) /\ Goes(k, "reply")  BY <1>1, <2>3, Moves
  <2>5. IF frames[k].reply = "ack_data"
        THEN Writes(d, frames[k].tag, StateAfterData(frames[k])) ELSE blk' = blk
    BY <2>3, BlockSet DEF Writes
  <2> QED  BY <1>1, <1>3, <2>2, <2>3, <2>4, <2>5 DEF Accepts
<1> QED  BY <1>2, <1>3

\* All sharers have given the block up; when one had it modified, the block counts
\* as modified.
InvalidationEnds(k) ==
  LET f == frames[k] IN
  /\ f.kind = "invalidate" /\ Idle(k) /\ Ended(k) /\ UNCHANGED <<dir, lock>>
  /\ f.reply # "ack_data" \/ f.state \in {"I", "E", "S"} => blk' = blk
  /\ f.reply = "ack_data" /\ f.state = "M" => Writes(Locked(k), f.tag, "M")

\* What InvalidateFinish does
LEMMA InvalidateEffect ==
  ASSUME IInv, NEW k \in InFlight, InvalidateFinish(k)
  PROVE  InvalidationEnds(k)
<1>1. PICK f : f = frames[k]  OBVIOUS
<1>2. f.kind = "invalidate" /\ Idle(k) /\ f.ev = "finish"
  BY <1>1, ScheduledIdle DEF InvalidateFinish
<1>3. PICK d \in Entry : d = Locked(k)  BY <1>1, <1>2, FrameFacts DEF FrameOK
<1>4. Ended(k)  BY <1>1, <1>2, Ends DEF InvalidateFinish
<1>5. f.reply # "ack_data" \/ f.state \in {"I", "E", "S"} => blk' = blk
  BY <1>1 DEF InvalidateFinish
<1>6. f.reply = "ack_data" /\ f.state = "M" => SetBlock(d, f.tag, "M")
  BY <1>1, <1>3 DEF InvalidateFinish
<1>7. f.reply = "ack_data" /\ f.state = "M" => Writes(d, f.tag, "M")
  BY <1>6, BlockSet DEF Writes
<1>8. UNCHANGED <<dir, lock>>  BY DEF InvalidateFinish
<1> QED  BY ONLY <1>1, <1>2, <1>3, <1>4, <1>5, <1>7, <1>8 DEF InvalidationEnds

-----------------------------------------------------------------------------
(***************************************************************************)
(* Requests.                                                               *)
(***************************************************************************)
\* The reply of request k is received.
Received(k) ==
  /\ frames[k].kind \in {"readUD", "readDU", "writeUD", "writeDU"}
  /\ Idle(k) /\ frames[k].ev = "reply" /\ Ended(k) /\ NoEntry

\* What Reply does
LEMMA ReplyEffect ==
  ASSUME IInv, Plain, NEW k \in InFlight, Reply(k)
  PROVE  Received(k)
<1>1. Idle(k) /\ frames[k].ev = "reply"  BY ScheduledIdle DEF Reply
<1>2. Ended(k)  BY <1>1, Ends DEF Reply
<1> QED  BY <1>1, <1>2 DEF Reply, Received, NoEntry, Plain, PlainFrame

\* Request k has failed, and tells its caller.
Passes(k) ==
  LET f == frames[k] IN
  /\ f.kind \in {"readUD", "writeUD", "writeDU"} /\ Idle(k) /\ f.err
  /\ ToldError(k) /\ UNCHANGED <<blk, dir>>
  /\ \/ f.ev = "action" /\ lock' = lock
     \/ Locks(k) /\ Frees(Locked(k))
  /\ f.ev = "finish" => f.kind = "writeUD"

\* An error is passed to the caller, and the entry is unlocked if there is one.
LEMMA PassesEffect ==
  ASSUME IInv, NEW k, Idle(k), frames[k].err,
         frames[k].ev = "finish" => frames[k].kind = "writeUD",
         frames[k].kind \in {"readUD", "writeUD", "writeDU"},
         UNCHANGED <<blk, dir>>,
         \/ frames[k].ev = "action" /\ frames' = ErrorPassed(k) /\ lock' = lock
         \/ Locks(k) /\ frames' = Wake(ErrorPassed(k), Locked(k)) /\ Unlock(Locked(k))
  PROVE  Passes(k)
<1>1. k \in InFlight /\ frames[k].kind \notin AccessKind
  BY DEF Idle, AccessKind
<1>2. Locks(k) => Locked(k) \in Entry  BY <1>1, FrameFacts DEF FrameOK
<1>3. PICK d : d = Locked(k)  OBVIOUS
<1>4. \/ frames' = ErrorPassed(k)
      \/ \E e \in Entry : frames' = Wake(ErrorPassed(k), e)
  <2>1. CASE frames' = ErrorPassed(k)  BY <2>1
  <2>2. CASE Locks(k) /\ frames' = Wake(ErrorPassed(k), Locked(k))
    <3>1. d \in Entry /\ frames' = Wake(ErrorPassed(k), d)  BY <1>2, <1>3, <2>2
    <3> QED  BY <3>1
  <2> QED  BY <2>1, <2>2
<1>5. ToldError(k)
  BY ONLY IInv, Idle(k), <1>1, <1>4, TellsError
<1>6. \/ frames[k].ev = "action" /\ lock' = lock
      \/ Locks(k) /\ Frees(Locked(k))
  BY DEF Unlock, Frees
<1> QED  BY <1>5, <1>6 DEF Passes

\* Request k has its block and looks for an owner, which must give the data.
AsksOwner(k) ==
  LET f == frames[k]
      owner == dir[Locked(k)].owner
  IN
  /\ f.kind \in {"readUD", "readDU"} /\ Idle(k) /\ Locks(k)
  /\ f.ev = "action" /\ ~f.err /\ f.state # "I"
  /\ f.kind = "readUD" => owner # f.from
  /\ \/ owner = None /\ Alone(k, k) /\ Goes(k, "finish")
     \/ /\ owner # None /\ ~frames'[k].err
        /\ \E peer : Called(k, "finish", ReadDown(k, owner, peer))
  /\ NoEntry

\* What ReadUpdown does
LEMMA ReadUpdownEffect ==
  ASSUME IInv, NEW k \in InFlight, ReadUpdown(k)
  PROVE  \/ Passes(k)
         \/ AsksOwner(k)
         \/ /\ frames[k].kind = "readUD" /\ frames[k].ev = "action"
            /\ frames[k].state = "I" /\ CallsUp(k, "miss", ReadUp(k))
<1>1. frames[k].kind = "readUD" /\ Idle(k) /\ frames[k].ev = "action" /\ NoEntry
  BY ScheduledIdle DEF ReadUpdown, NoEntry
<1>2. CASE frames[k].err
  <2>1. frames' = ErrorPassed(k)  BY <1>2 DEF ReadUpdown, ErrorPassed
  <2> QED  BY <1>1, <1>2, <2>1, PassesEffect DEF NoEntry
<1>3. CASE ~frames[k].err /\ frames[k].state = "I"
  <2>1. Locks(k)  BY <1>1, <1>3 DEF Locks
  <2>2. frames' = ReadUpDown(k, frames[k].at, frames[k].tag, "miss", FALSE)
    BY <1>3 DEF ReadUpdown
  <2> QED  BY <1>1, <1>3, <2>1, <2>2, SendsReadUp DEF CallsUp
<1>4. CASE ~frames[k].err /\ frames[k].state # "I"
  <2>1. Locks(k)  BY <1>1, <1>4 DEF Locks
  <2>2. PICK owner : owner = dir[Locked(k)].owner  OBVIOUS
  <2>3. PICK peer : peer = SetPeer(frames[k].state)  OBVIOUS
  <2>4. /\ owner # frames[k].from
        /\ frames' =
             IF owner = None THEN [frames EXCEPT ![k].ev = "finish"]
             ELSE ReadDownUp(k, frames[k].at, owner, frames[k].tag, "finish", peer)
    BY <1>4, <2>2, <2>3 DEF ReadUpdown
  <2>5. CASE owner = None
    <3>1. Alone(k, k) /\ Goes(k, "finish")  BY <1>1, <2>4, <2>5, Moves
    <3> QED  BY <1>1, <1>4, <2>1, <2>2, <2>4, <2>5, <3>1 DEF AsksOwner
  <2>6. CASE owner # None
    <3>1. Called(k, "finish", ReadDown(k, owner, peer)) /\ ~frames'[k].err
      BY <1>1, <2>4, <2>6, SendsReadDown
    <3> QED  BY <1>1, <1>4, <2>1, <2>2, <2>4, <2>6, <3>1 DEF AsksOwner
  <2> QED  BY <2>5, <2>6
<1> QED  BY <1>2, <1>3, <1>4

\* What ReadDownup does, if it has not failed
LEMMA ReadDownupEffect ==
  ASSUME IInv, Plain, NEW k \in InFlight, ReadDownup(k), ~frames[k].err
  PROVE  AsksOwner(k)
<1>1. frames[k].kind = "readDU" /\ Idle(k) /\ frames[k].ev = "action" /\ NoEntry
      /\ frames[k].state # "I"
  BY ScheduledIdle DEF ReadDownup, NoEntry
<1>2. Locks(k)  BY <1>1 DEF Locks
<1>3. PICK owner : owner = dir[Locked(k)].owner  OBVIOUS
<1>4. frames' = IF owner = None THEN [frames EXCEPT ![k].ev = "finish"]
                ELSE ReadDownUp(k, frames[k].at, owner, frames[k].tag, "finish", FALSE)
  BY <1>3 DEF ReadDownup
<1>5. CASE owner = None
  <2>1. Alone(k, k) /\ Goes(k, "finish")  BY <1>1, <1>4, <1>5, Moves
  <2> QED  BY <1>1, <1>2, <1>3, <1>5, <2>1 DEF AsksOwner
<1>6. CASE owner # None
  <2>1. Called(k, "finish", ReadDown(k, owner, FALSE)) /\ ~frames'[k].err
    BY <1>1, <1>4, <1>6, SendsReadDown
  <2> QED  BY <1>1, <1>2, <1>3, <1>6, <2>1 DEF AsksOwner
<1> QED  BY <1>5, <1>6

\* The block comes from the lower level.
Fills(k) ==
  LET f == frames[k] IN
  /\ f.kind = "readUD" /\ Idle(k) /\ Locks(k) /\ f.ev = "miss" /\ ~f.err
  /\ Alone(k, k) /\ Goes(k, "finish") /\ UNCHANGED <<dir, lock>>
  /\ Writes(Locked(k), f.tag, IF f.shared THEN "S" ELSE "E")

\* What ReadUpdownMiss does
LEMMA ReadMissEffect ==
  ASSUME IInv, NEW k \in InFlight, ReadUpdownMiss(k)
  PROVE  Passes(k) \/ Fills(k)
<1>1. frames[k].kind = "readUD" /\ Idle(k) /\ frames[k].ev = "miss" /\ dir' = dir
  BY ScheduledIdle DEF ReadUpdownMiss
<1>2. Locks(k)  BY <1>1 DEF Locks
<1>3. CASE frames[k].err
  <2>1. /\ frames' = Wake(ErrorPassed(k), Locked(k)) /\ Unlock(Locked(k))
        /\ blk' = blk
    BY <1>3 DEF ReadUpdownMiss, ErrorPassed
  <2> QED  BY <1>1, <1>2, <1>3, <2>1, PassesEffect
<1>4. CASE ~frames[k].err
  <2>1. /\ SetBlock(Locked(k), frames[k].tag, IF frames[k].shared THEN "S" ELSE "E")
        /\ frames' = [frames EXCEPT ![k].ev = "finish"]
        /\ UNCHANGED <<dir, lock>>
    BY <1>4 DEF ReadUpdownMiss
  <2>2. Locked(k) \in Entry  BY <1>2, FrameFacts DEF FrameOK
  <2>3. Writes(Locked(k), frames[k].tag, IF frames[k].shared THEN "S" ELSE "E")
    BY <2>1, <2>2, BlockSet DEF Writes
  <2>4. Alone(k, k) /\ Goes(k, "finish")  BY <1>1, <2>1, Moves
  <2> QED  BY <1>1, <1>2, <1>4, <2>1, <2>3, <2>4 DEF Fills
<1> QED  BY <1>3, <1>4

\* Request up-down k gives the block to its caller p, shared or not.
GivesBlock(k, p) ==
  LET f == frames[k]
      e == Locked(k)
      sharers == dir[e].sharers \cup {f.from}
      shared == SharedAfterRead(f, sharers)
      h == frames[p]
      g == frames'[p]
  IN
  /\ f.kind = "readUD" /\ Idle(k) /\ Locks(k) /\ f.ev = "finish" /\ p = f.ret
  /\ Told(k, p) /\ g.err = h.err /\ g.shared = shared
  /\ g.reply = h.reply /\ g.retain = h.retain
  /\ dir' = [dir EXCEPT ![e] = [sharers |-> sharers,
       owner |-> IF shared THEN OwnerAfterRead(f, dir[e].owner) ELSE f.from]]
  /\ blk' = blk /\ Frees(e)

\* What ReadUpdownFinish does
LEMMA ReadFinishEffect ==
  ASSUME IInv, NEW k \in InFlight, ReadUpdownFinish(k)
  PROVE  \E p : GivesBlock(k, p)
<1>1. /\ frames[k].kind = "readUD" /\ Idle(k) /\ frames[k].ev = "finish" /\ blk' = blk
      /\ frames[k].kind \notin AccessKind /\ Locks(k)
  BY ScheduledIdle DEF ReadUpdownFinish, AccessKind, Locks
<1>2. PICK p : p = frames[k].ret  OBVIOUS
<1>3. p \in InFlight /\ p # k  BY <1>1, <1>2, CallerWaits
<1>4. PICK d \in Entry : d = Locked(k)  BY <1>1, FrameFacts DEF FrameOK
<1>5. PICK sharers : sharers = dir[d].sharers \cup {frames[k].from}  OBVIOUS
<1>6. PICK shared : shared = SharedAfterRead(frames[k], sharers)  OBVIOUS
<1>7. PICK h : h = frames[p]  OBVIOUS
<1>8. PICK g : g = [h EXCEPT !.shared = shared]  OBVIOUS
<1>9. h \in Frame(h.ret)  BY <1>3, <1>7, FrameFacts
<1>10. /\ Like(h, g) /\ Placed(h, g) /\ g.ev = h.ev /\ g.err = h.err
       /\ g.shared = shared /\ g.reply = h.reply /\ g.retain = h.retain
  BY <1>8, <1>9 DEF Like, Placed, Frame
<1>11. PICK F : F = [frames EXCEPT ![k].ev = "reply", ![p].shared = shared]  OBVIOUS
<1>12. /\ IsFunction(F) /\ DOMAIN F = InFlight
       /\ F[k] = [frames[k] EXCEPT !.ev = "reply"] /\ F[p] = g
       /\ \A j \in InFlight : j # k /\ j # p => F[j] = frames[j]
  BY <1>3, <1>7, <1>8, <1>11 DEF IsFunction, InFlight
<1>13. /\ frames' = Wake(F, d) /\ Frees(d)
       /\ dir' = [dir EXCEPT ![d].sharers = sharers,
                             ![d].owner = IF shared THEN OwnerAfterRead(frames[k], @)
                                          ELSE frames[k].from]
  BY <1>2, <1>4, <1>5, <1>6, <1>11 DEF ReadUpdownFinish, Unlock, Frees
<1>14. Told(k, p) /\ frames'[p] = g
  BY ONLY IInv, <1>1, <1>2, <1>7, <1>10, <1>12, <1>13, d \in Entry, k \in InFlight, Tells
<1>15. dir' = [dir EXCEPT ![d] = [sharers |-> sharers,
         owner |-> IF shared THEN OwnerAfterRead(frames[k], dir[d].owner)
                   ELSE frames[k].from]]
  <2>1. PICK o : o = IF shared THEN OwnerAfterRead(frames[k], dir[d].owner)
                     ELSE frames[k].from
    OBVIOUS
  <2>2. PICK x : x = [owner |-> o, sharers |-> sharers]  OBVIOUS
  <2>3. dir \in [Entry -> [owner : Mod \cup {None}, sharers : SUBSET Mod]]
    BY DEF IInv, TypeOK
  <2>4. PICK u \in Mod \cup {None}, v \in SUBSET Mod : dir[d] = [owner |-> u, sharers |-> v]
    BY <2>3
  <2>5. dir' = [dir EXCEPT ![d].sharers = sharers, ![d].owner = o]
    BY <1>13, <2>1
  <2>6. /\ dir' = [e \in Entry |-> dir'[e]] /\ dir'[d] = x
        /\ \A e \in Entry \ {d} : dir'[e] = dir[e]
    BY ONLY <2>2, <2>3, <2>4, <2>5, d \in Entry
  <2>7. dir' = [dir EXCEPT ![d] = x]  BY <2>3, <2>6
  <2> QED  BY <2>1, <2>2, <2>7
<1> QED
  BY ONLY <1>1, <1>2, <1>4, <1>5, <1>6, <1>7, <1>10, <1>13, <1>14, <1>15 DEF GivesBlock

\* Request down-up k gives the data to its caller p, or to the requester.
GivesData(k, p) ==
  LET f == frames[k]
      e == Locked(k)
      h == frames[p]
      g == frames'[p]
  IN
  /\ f.kind = "readDU" /\ Idle(k) /\ Locks(k) /\ f.ev = "finish" /\ p = f.ret
  /\ Told(k, p) /\ g.err = h.err /\ g.shared = h.shared
  /\ g.reply = HigherReply(h.reply, ReadReply(f))
  /\ g.retain = (h.retain \/ ReadRetains(f))
  /\ Writes(e, f.tag, StateAfterRead(f))
  /\ dir' = [dir EXCEPT ![e].owner = IF f.reply = "none" THEN @ ELSE None]
  /\ Frees(e)

\* What ReadDownupFinish does
LEMMA DataEffect ==
  ASSUME IInv, NEW k \in InFlight, ReadDownupFinish(k)
  PROVE  \E p : GivesData(k, p)
<1>1. /\ frames[k].kind = "readDU" /\ Idle(k) /\ frames[k].ev = "finish"
      /\ frames[k].kind \notin AccessKind /\ Locks(k)
  BY ScheduledIdle DEF ReadDownupFinish, AccessKind, Locks
<1>2. PICK p : p = frames[k].ret  OBVIOUS
<1>3. p \in InFlight /\ p # k  BY <1>1, <1>2, CallerWaits
<1>4. PICK d \in Entry : d = Locked(k)  BY <1>1, FrameFacts DEF FrameOK
<1>5. PICK h : h = frames[p]  OBVIOUS
<1>6. PICK r : r = HigherReply(h.reply, ReadReply(frames[k]))  OBVIOUS
<1>7. PICK v : v = (h.retain \/ ReadRetains(frames[k]))  OBVIOUS
<1>8. PICK g : g = [h EXCEPT !.reply = r, !.retain = v]  OBVIOUS
<1>9. h \in Frame(h.ret)  BY <1>3, <1>5, FrameFacts
<1>10. /\ Like(h, g) /\ Placed(h, g) /\ g.ev = h.ev /\ g.err = h.err
       /\ g.shared = h.shared /\ g.reply = r /\ g.retain = v
  BY <1>8, <1>9 DEF Like, Placed, Frame
<1>11. PICK F : F = [frames EXCEPT ![k].ev = "reply", ![p].reply = r, ![p].retain = v]
  OBVIOUS
<1>12. /\ IsFunction(F) /\ DOMAIN F = InFlight
       /\ F[k] = [frames[k] EXCEPT !.ev = "reply"] /\ F[p] = g
       /\ \A j \in InFlight : j # k /\ j # p => F[j] = frames[j]
  BY <1>3, <1>5, <1>8, <1>11 DEF IsFunction, InFlight
<1>13. /\ Frees(d) /\ SetBlock(d, frames[k].tag, StateAfterRead(frames[k]))
       /\ dir' = [dir EXCEPT ![d].owner = IF frames[k].reply = "none" THEN @ ELSE None]
  BY <1>4 DEF ReadDownupFinish, Unlock, Frees
<1>14. frames' = Wake(F, d)
  <2>1. F = [frames EXCEPT ![k].ev = "reply",
               ![p].reply = HigherReply(@, ReadReply(frames[k])),
               ![p].retain = @ \/ ReadRetains(frames[k])]
    BY <1>3, <1>5, <1>6, <1>7, <1>11
  <2> QED  BY <1>2, <1>4, <2>1 DEF ReadDownupFinish
<1>15. Told(k, p) /\ frames'[p] = g
  BY ONLY IInv, <1>1, <1>2, <1>5, <1>10, <1>12, <1>14, d \in Entry, k \in InFlight, Tells
<1>16. Writes(d, frames[k].tag, StateAfterRead(frames[k]))
  BY <1>13, BlockSet DEF Writes
<1> QED
  BY ONLY <1>1, <1>2, <1>4, <1>5, <1>6, <1>7, <1>10, <1>13, <1>15, <1>16 DEF GivesData

\* Write request k has its entry: the sharers of the block must give it up.
Takes(k) ==
  LET f == frames[k]
      e == Locked(k)
  IN
  /\ f.kind \in {"writeUD", "writeDU"} /\ Idle(k) /\ Locks(k)
  /\ f.ev = "action" /\ ~f.err /\ ~frames'[k].err
  /\ \E N : Called(k, "exclusive", N) /\ Invalidates(N, k, e, f.from)
  /\ ClearSharers(e, f.from) /\ UNCHANGED <<blk, lock>>

\* What WriteAction does
LEMMA WriteActionEffect ==
  ASSUME IInv, NEW k \in InFlight, WriteAction(k)
  PROVE  Passes(k) \/ Takes(k)
<1>1. /\ frames[k].kind \in {"writeUD", "writeDU"} /\ Idle(k) /\ frames[k].ev = "action"
      /\ UNCHANGED <<blk, lock>>
  BY ScheduledIdle DEF WriteAction
<1>2. CASE frames[k].err
  <2>1. frames' = ErrorPassed(k) /\ dir' = dir  BY <1>2 DEF WriteAction, ErrorPassed
  <2> QED  BY <1>1, <1>2, <2>1, PassesEffect
<1>3. CASE ~frames[k].err
  <2>1. Locks(k)  BY <1>1, <1>3 DEF Locks
  <2>2. PICK d \in Entry : d = Locked(k)  BY <2>1, FrameFacts DEF FrameOK
  <2>3. PICK f : f = frames[k]  OBVIOUS
  <2>4. f \in Frame(f.ret)  BY <2>3, FrameFacts
  <2>5. PICK N : N = Invalidation(k, d, f.from)  OBVIOUS
  <2>6. DOMAIN N \cap InFlight = {} /\ k \notin DOMAIN N
    BY <1>1, <2>5, InvalidationFresh DEF Idle
  <2>7. PICK g : g = [f EXCEPT !.ev = "exclusive"]  OBVIOUS
  <2>8. /\ Like(f, g) /\ Placed(f, g) /\ g.ev = "exclusive" /\ g.err = f.err
        /\ g.reply = f.reply /\ g.retain = f.retain
    BY <2>4, <2>7 DEF Like, Placed, Frame
  <2>9. PICK G : G = [frames EXCEPT ![k].ev = "exclusive"]  OBVIOUS
  <2>10. DOMAIN G = InFlight /\ G[k] = g /\ \A j \in InFlight : j # k => G[j] = frames[j]
    BY <2>3, <2>7, <2>9 DEF InFlight
  <2>11. frames' = Adding(N, G) /\ ClearSharers(d, f.from)
    BY <1>3, <2>2, <2>3, <2>5, <2>9 DEF WriteAction
  <2>12. Called(k, "exclusive", N) /\ frames'[k] = g
    BY ONLY IInv, k \in InFlight, <1>1, <2>3, <2>6, <2>8, <2>10, <2>11, CallsN
  <2>13. Invalidates(N, k, d, f.from)  BY <2>5, InvalidationFrames
  <2> QED
    BY ONLY <1>1, <1>3, <2>1, <2>2, <2>3, <2>8, <2>11, <2>12, <2>13 DEF Takes
<1> QED  BY <1>2, <1>3

\* Write request up-down k has the block for itself, or asks the lower level for it.
AsksExclusive(k) ==
  /\ frames[k].kind = "writeUD" /\ Idle(k) /\ Locks(k) /\ frames[k].ev = "exclusive"
  /\ \/ frames[k].state \in {"M", "E"} /\ Alone(k, k) /\ Goes(k, "finish") /\ NoEntry
     \/ CallsUp(k, "finish", WriteUp(k))

\* What WriteUpdown does
LEMMA WriteUpdownEffect ==
  ASSUME IInv, NEW k \in InFlight, WriteUpdown(k)
  PROVE  AsksExclusive(k)
<1>1. frames[k].kind = "writeUD" /\ Idle(k) /\ frames[k].ev = "exclusive" /\ NoEntry
  BY ScheduledIdle DEF WriteUpdown, NoEntry
<1>2. Locks(k)  BY <1>1 DEF Locks
<1>3. CASE frames[k].state \in {"M", "E"}
  <2>1. frames' = [frames EXCEPT ![k].ev = "finish"]  BY <1>3 DEF WriteUpdown
  <2> QED  BY <1>1, <1>2, <1>3, <2>1, Moves DEF AsksExclusive
<1>4. CASE frames[k].state \notin {"M", "E"}
  <2>1. frames' = WriteUpDown(k, frames[k].at, frames[k].tag, "finish")
    BY <1>4 DEF WriteUpdown
  <2> QED  BY <1>1, <1>2, <2>1, SendsWriteUp DEF AsksExclusive, CallsUp
<1> QED  BY <1>3, <1>4

\* Write request up-down k gives the block to its caller for itself.
GivesExclusive(k) ==
  LET f == frames[k]
      e == Locked(k)
  IN
  /\ f.kind = "writeUD" /\ Idle(k) /\ Locks(k) /\ f.ev = "finish" /\ ~f.err
  /\ dir[e].sharers \subseteq {f.from}
  /\ Alone(k, k) /\ Goes(k, "reply")
  /\ Writes(e, f.tag, "E")
  /\ dir' = [dir EXCEPT ![e] = [owner |-> f.from, sharers |-> {f.from}]]
  /\ Frees(e)

\* What WriteUpdownFinish does
LEMMA WriteFinishEffect ==
  ASSUME IInv, NEW k \in InFlight, WriteUpdownFinish(k)
  PROVE  Passes(k) \/ GivesExclusive(k)
<1>1. frames[k].kind = "writeUD" /\ Idle(k) /\ frames[k].ev = "finish" /\ Locks(k)
  BY ScheduledIdle DEF WriteUpdownFinish, Locks
<1>2. CASE frames[k].err
  <2>1. /\ frames' = Wake(ErrorPassed(k), Locked(k)) /\ Unlock(Locked(k))
        /\ UNCHANGED <<blk, dir>>
    BY <1>2 DEF WriteUpdownFinish, ErrorPassed
  <2> QED  BY <1>1, <1>2, <2>1, PassesEffect
<1>3. CASE ~frames[k].err
  <2>1. PICK d \in Entry : d = Locked(k)  BY <1>1, FrameFacts DEF FrameOK
  <2>2. /\ dir[d].sharers \subseteq {frames[k].from}
        /\ dir' = [dir EXCEPT ![d] = [owner |-> frames[k].from, sharers |-> {frames[k].from}]]
        /\ SetBlock(d, frames[k].tag, "E") /\ Frees(d)
        /\ frames' = Wake([frames EXCEPT ![k].ev = "reply"], d)
    BY <1>3, <2>1 DEF WriteUpdownFinish, Unlock, Frees
  <2>3. Writes(d, frames[k].tag, "E")  BY <2>2, BlockSet DEF Writes
  <2>4. Alone(k, k) /\ Goes(k, "reply")  BY <1>1, <2>2, Moves
  <2> QED  BY <1>1, <1>3, <2>1, <2>2, <2>3, <2>4 DEF GivesExclusive
<1> QED  BY <1>2, <1>3

\* Request down-up k takes the block away and tells its caller p.
Yields(k, p) ==
  LET f == frames[k]
      e == Locked(k)
      h == frames[p]
      g == frames'[p]
  IN
  /\ f.kind = "writeDU" /\ Idle(k) /\ Locks(k) /\ f.ev = "exclusive" /\ p = f.ret
  /\ f.state # "I" /\ dir[e].sharers = {}
  /\ Told(k, p) /\ g.err = h.err /\ g.shared = h.shared /\ g.retain = h.retain
  /\ g.reply = HigherReply(h.reply, IF f.state \in {"E", "S"} THEN "ack" ELSE "ack_data")
  /\ Writes(e, None, "I") /\ dir' = dir /\ Frees(e)

\* What WriteDownup does
LEMMA WriteDownupEffect ==
  ASSUME IInv, NEW k \in InFlight, WriteDownup(k)
  PROVE  \E p : Yields(k, p)
<1>1. /\ frames[k].kind = "writeDU" /\ Idle(k) /\ frames[k].ev = "exclusive"
      /\ frames[k].kind \notin AccessKind /\ Locks(k) /\ dir' = dir
      /\ frames[k].state # "I"
  BY ScheduledIdle DEF WriteDownup, AccessKind, Locks
<1>2. PICK p : p = frames[k].ret  OBVIOUS
<1>3. p \in InFlight /\ p # k  BY <1>1, <1>2, CallerWaits
<1>4. PICK d \in Entry : d = Locked(k)  BY <1>1, FrameFacts DEF FrameOK
<1>5. PICK h : h = frames[p]  OBVIOUS
<1>6. PICK a : a = IF frames[k].state \in {"E", "S"} THEN "ack" ELSE "ack_data"  OBVIOUS
<1>7. PICK r : r = HigherReply(h.reply, a)  OBVIOUS
<1>8. PICK g : g = [h EXCEPT !.reply = r]  OBVIOUS
<1>9. h \in Frame(h.ret)  BY <1>3, <1>5, FrameFacts
<1>10. /\ Like(h, g) /\ Placed(h, g) /\ g.ev = h.ev /\ g.err = h.err
       /\ g.shared = h.shared /\ g.reply = r /\ g.retain = h.retain
  BY <1>8, <1>9 DEF Like, Placed, Frame
<1>11. PICK F : F = [frames EXCEPT ![k].ev = "reply", ![p].reply = r]  OBVIOUS
<1>12. /\ IsFunction(F) /\ DOMAIN F = InFlight
       /\ F[k] = [frames[k] EXCEPT !.ev = "reply"] /\ F[p] = g
       /\ \A j \in InFlight : j # k /\ j # p => F[j] = frames[j]
  BY <1>3, <1>5, <1>8, <1>11 DEF IsFunction, InFlight
<1>13. /\ Frees(d) /\ SetBlock(d, None, "I")
       /\ dir[d] = [owner |-> None, sharers |-> {}]
  BY <1>4 DEF WriteDownup, Unlock, Frees
<1>14. frames' = Wake(F, d)
  <2>1. F = [frames EXCEPT ![k].ev = "reply", ![p].reply = HigherReply(@, a)]
    BY <1>3, <1>5, <1>7, <1>11
  <2> QED  BY <1>2, <1>4, <1>6, <2>1 DEF WriteDownup
<1>15. Told(k, p) /\ frames'[p] = g
  BY ONLY IInv, <1>1, <1>2, <1>5, <1>10, <1>12, <1>14, d \in Entry, k \in InFlight, Tells
<1>16. Writes(d, None, "I")  BY <1>13, BlockSet DEF Writes
<1> QED
  BY ONLY <1>1, <1>2, <1>4, <1>5, <1>6, <1>7, <1>10, <1>13, <1>15, <1>16 DEF Yields

\* A new access k
Starts(k) ==
  LET g == frames'[k] IN
  /\ k \notin InFlight /\ InFlight' = InFlight \cup {k} /\ Others(k, k)
  /\ g.kind \in AccessKind \ {"nc"} /\ g.ev = "lock" /\ g.src = 0 /\ ~g.peer /\ ~g.nc
  /\ g.way = 0 /\ g.at = g.from /\ g.from \in FirstLevel
  /\ \A j \in InFlight :
       frames[j].kind \in AccessKind /\ frames[j].from = g.from => frames[j].tag # g.tag
  /\ NoEntry

\* What Start does
LEMMA StartEffect ==
  ASSUME IInv, "nc" \notin Ops,
         NEW a \in Access, NEW op \in Ops, NEW t \in Tag, Start(a, op, t)
  PROVE  \E k : Starts(k)
<1>1. PICK k : k = <<a, None, op, Home[a]>>  OBVIOUS
<1>2. PICK g : g = NewFrame(op, Home[a], Home[a], t, None, "lock")  OBVIOUS
<1>3. PICK N : N = [j \in {k} |-> g]  OBVIOUS
<1>4. op \in AccessKind \ {"nc"}  BY TreeAssumption DEF AccessKind
<1>5. k \notin InFlight
  <2>1. SUFFICES ASSUME k \in InFlight PROVE FALSE  OBVIOUS
  <2>2. k = <<k[1], frames[k].ret, frames[k].kind, k[4]>>  BY <2>1 DEF IInv, TypeOK
  <2>3. k[1] = a /\ frames[k].kind = op  BY <1>1, <2>2
  <2> QED  BY <1>4, <2>1, <2>3 DEF Start, Root
<1>6. frames' = Adding(N, frames) /\ NoEntry
  BY <1>1, <1>2, <1>3 DEF Start, NoEntry
<1>7. /\ DOMAIN frames' = InFlight \cup {k} /\ frames'[k] = g
      /\ \A j \in InFlight : j # k => frames'[j] = frames[j]
  BY <1>3, <1>6 DEF Adding, InFlight
<1>8. Others(k, k) /\ InFlight' = InFlight \cup {k}
  BY <1>7 DEF Others, Same, Like, Placed, Results, InFlight
<1>9. /\ g.kind = op /\ g.ev = "lock" /\ g.src = 0 /\ ~g.peer /\ ~g.nc
      /\ g.way = 0 /\ g.at = Home[a] /\ g.from = Home[a] /\ g.tag = t
  BY <1>2 DEF NewFrame
<1>10. Home[a] \in FirstLevel  BY DEF FirstLevel
<1>11. \A j \in InFlight :
         frames[j].kind \in AccessKind /\ frames[j].from = Home[a] => frames[j].tag # t
  BY DEF Start, MayStart
<1> QED  BY <1>4, <1>5, <1>6, <1>7, <1>8, <1>9, <1>10, <1>11 DEF Starts

\* Requests down-up do not fail, and only a block that is modified or exclusive takes
\* data from those above.
DownUpSucceeds ==
  \A k \in InFlight : LET f == frames[k] IN
    /\ f.kind \in {"readDU", "writeDU"} => ~f.err
    /\ f.kind = "invalidate" /\ f.reply = "ack_data" => f.state \in {"M", "E"}

\* What an event of frame k does, apart from non-coherent stores.
Does(k) ==
  \/ Looks(k) /\ frames[k].ev = "lock" /\ NoEntry
  \/ \E e \in Entry : Gets(k, e) \/ Replaces(k, e)
  \/ GivesUp(k) \/ Settles(k)
  \/ InvalidationEnds(k)
  \/ SendsDown(k) \/ Accepts(k) \/ Refuses(k)
  \/ \E p : EvictionFails(k, p) \/ EvictionEnds(k, p)
  \/ Received(k) \/ Passes(k)
  \/ AsksOwner(k) \/ Fills(k) \/ \E p : GivesBlock(k, p) \/ GivesData(k, p)
  \/ Takes(k) \/ AsksExclusive(k) \/ GivesExclusive(k) \/ \E p : Yields(k, p)
  \/ /\ frames[k].kind \in {"load", "prefetch", "readUD"} /\ frames[k].ev = "action"
     /\ frames[k].state = "I" /\ CallsUp(k, "miss", ReadUp(k))
  \/ /\ frames[k].kind = "store" /\ frames[k].ev = "action" /\ Idle(k) /\ Locks(k)
     /\ \/ frames[k].state \in {"M", "E"} /\ ~frames[k].err
           /\ Alone(k, k) /\ Goes(k, "unlock") /\ NoEntry
        \/ CallsUp(k, "unlock", WriteUp(k))

\* A frame whose event runs waits for nobody.
LEMMA EventIdle ==
  ASSUME NEW k \in InFlight, Event(k),
         ~(NcWriteback(k) \/ NcAction(k) \/ NcMiss(k) \/ MessageAction(k))
  PROVE  Idle(k)
<1>1. \E v \in EventKind \ {"lockWait"} : Scheduled(k, v)
  <2> USE DEF EventKind
  <2>1. CASE LockBusy(k) \/ LockFree(k) \/ LockEvict(k)
    BY <2>1 DEF LockBusy, LockFree, LockEvict
  <2>2. CASE LockError(k) \/ LoadAction(k) \/ LoadMiss(k) \/ StoreAction(k) \/ StoreUnlock(k)
    BY <2>2 DEF LockError, LoadAction, LoadMiss, StoreAction, StoreUnlock
  <2>3. CASE \/ InvalidateFinish(k) \/ EvictAction(k) \/ EvictProcess(k)
             \/ EvictReplyReceive(k) \/ Reply(k)
    BY <2>3 DEF InvalidateFinish, EvictAction, EvictProcess, EvictReplyReceive, Reply
  <2>4. CASE \/ ReadUpdown(k) \/ ReadUpdownMiss(k) \/ ReadUpdownFinish(k)
             \/ ReadDownup(k) \/ ReadDownupFinish(k)
    BY <2>4 DEF ReadUpdown, ReadUpdownMiss, ReadUpdownFinish, ReadDownup, ReadDownupFinish
  <2>5. CASE WriteAction(k) \/ WriteUpdown(k) \/ WriteUpdownFinish(k) \/ WriteDownup(k)
    BY <2>5 DEF WriteAction, WriteUpdown, WriteUpdownFinish, WriteDownup
  <2> QED  BY <2>1, <2>2, <2>3, <2>4, <2>5 DEF Event
<1> QED  BY <1>1, ScheduledIdle

\* The events of the model, in these terms
LEMMA Effects ==
  ASSUME IInv, Plain, DownUpSucceeds, NEW k \in InFlight, Event(k)
  PROVE  Idle(k) /\ Does(k)
<1>1. ~frames[k].nc /\ frames[k].kind \notin {"nc", "message"}
  BY DEF Plain, PlainFrame
<1>2. ASSUME NcWriteback(k) \/ NcAction(k) \/ NcMiss(k) \/ MessageAction(k)  PROVE FALSE
  BY <1>1, <1>2 DEF NcWriteback, NcAction, NcMiss, MessageAction
<1>3. ASSUME LockBusy(k) \/ LockFree(k) \/ LockEvict(k)
      PROVE  Does(k)
  BY <1>3, LockBusyEffect, LockFreeEffect, LockEvictEffect DEF Does
<1>4. ASSUME \/ LockError(k) \/ InvalidateFinish(k)
           \/ EvictAction(k) \/ EvictProcess(k) \/ EvictReplyReceive(k)
      PROVE  Does(k)
  BY <1>4, LockErrorEffect, InvalidateEffect, EvictActionEffect, EvictProcessEffect,
     EvictReplyEffect DEF Does
<1>5. ASSUME \/ ReadUpdown(k) \/ ReadUpdownMiss(k) \/ ReadUpdownFinish(k)
           \/ ReadDownupFinish(k) \/ Reply(k)
      PROVE  Does(k)
  BY <1>5, ReadUpdownEffect, ReadMissEffect, ReadFinishEffect, DataEffect, ReplyEffect
     DEF Does
<1>6. ASSUME ReadDownup(k)
      PROVE  Does(k)
  <2>1. frames[k].kind = "readDU"  BY <1>6 DEF ReadDownup
  <2>2. ~frames[k].err  BY <2>1 DEF DownUpSucceeds
  <2> QED  BY <1>6, <2>2, ReadDownupEffect DEF Does
<1>7. ASSUME WriteAction(k) \/ WriteUpdown(k) \/ WriteUpdownFinish(k) \/ WriteDownup(k)
      PROVE  Does(k)
  BY <1>7, WriteActionEffect, WriteUpdownEffect, WriteFinishEffect, WriteDownupEffect
     DEF Does
<1>8. ASSUME \/ LoadAction(k) \/ LoadMiss(k) \/ StoreAction(k) \/ StoreUnlock(k)
      PROVE  Does(k)
  BY <1>8, LoadEffect, StoreEffect DEF Does
<1>9. Idle(k)  BY <1>2, EventIdle
<1> QED  BY <1>2, <1>3, <1>4, <1>5, <1>6, <1>7, <1>8, <1>9 DEF Event

-----------------------------------------------------------------------------
(***************************************************************************)
(* What a frame has been called for.                                       *)
(***************************************************************************)
CalledFor(c) ==
  LET f == frames[c]
      p == frames[f.ret]
  IN
  /\ f.kind \in {"readUD", "readDU", "writeUD", "writeDU"} =>
       f.tag = p.tag /\ f.from = p.at
  /\ f.kind = "readUD" => p.kind \in {"load", "prefetch", "readUD"}
  /\ f.kind = "writeUD" => p.kind \in {"store", "writeUD"}
  /\ f.kind = "readDU" => p.kind \in {"readUD", "readDU"}
  /\ f.kind = "invalidate" => f.from = f.at
  /\ f.kind = "evict" => f.at = Low[f.from]
  /\ f.kind \in {"readUD", "writeUD", "evict"} => c[4] = f.from
  /\ f.kind \in {"readDU", "writeDU", "invalidate"} => c[4] = f.at
  /\ f.kind \in {"readUD", "writeUD"} /\ f.ev # "reply" => ~p.err

\* Frame n is new.
NewOK(n, k) ==
  LET f == frames'[n] IN
  /\ f.kind \notin {"nc", "message"} /\ ~f.nc
  /\ f.ev \in {"lock", "invalid", "finish"} /\ (f.ev = "finish" => f.kind = "invalidate")
  /\ f.kind \in AccessKind => n = k /\ f.src = 0 /\ ~f.peer
  /\ f.kind \in {"evict", "invalidate"} \/ f.way = 0
  /\ f.kind \notin AccessKind => f.ret = k \/ f.ret \notin InFlight
  /\ CalledFor(n)'

\* The changes of the frames in general: frame k acts, and its caller p hears of it.
Shape(k, p) ==
  /\ Others(k, p)
  /\ k \in InFlight /\ k \in InFlight' =>
       Like(frames[k], frames'[k]) /\ frames'[k].ev \notin {"ncAction", "ncMiss"}
  /\ p # k =>
       /\ k \in InFlight /\ p = frames[k].ret /\ p \in InFlight /\ p \in InFlight'
       /\ frames[k].kind \notin AccessKind
       /\ Like(frames[p], frames'[p]) /\ frames'[p].ev \in {frames[p].ev, "action"}
       /\ k \in InFlight' => frames'[k].ev = "reply"
       /\ \/ frames'[p].err = frames[p].err
          \/ frames[p].ev = "evicting"
          \/ frames[k].kind \in {"readUD", "writeUD", "writeDU"}
  /\ frames[k].kind = "evict" /\ k \in InFlight \ InFlight' => p # k
  /\ k \in InFlight' /\ frames'[k].ev # "reply" => k \notin InFlight \/ frames[k].ev # "reply"
  /\ \A n \in InFlight' \ InFlight : NewOK(n, k)

\* Steps of frame k alone
LEMMA ShapeOne ==
  ASSUME NEW k \in InFlight, Alone(k, k), Like(frames[k], frames'[k]),
         frames'[k].ev \notin {"ncAction", "ncMiss"},
         frames'[k].ev = "reply" \/ frames[k].ev # "reply"
  PROVE  Shape(k, k)
BY DEF Shape, Alone

\* Steps that only set the event of frame k
LEMMA ShapeGoes ==
  ASSUME NEW k \in InFlight, Alone(k, k), NEW v, Goes(k, v), frames[k].ev # "reply",
         v \notin {"ncAction", "ncMiss"}
  PROVE  Shape(k, k)
BY ShapeOne DEF Goes

\* Frame k returns.
LEMMA ShapeEnded ==
  ASSUME NEW k \in InFlight, Ended(k), frames[k].kind # "evict"
  PROVE  Shape(k, k)
BY DEF Shape, Ended

\* Frame k tells its caller p something.
LEMMA ShapeTold ==
  ASSUME IInv, NEW k \in InFlight, frames[k].kind \notin AccessKind, NEW p, Told(k, p),
         p = frames[k].ret,
         \/ frames'[p].err = frames[p].err
         \/ frames[k].kind \in {"readUD", "writeUD", "writeDU"}
  PROVE  Shape(k, p)
<1>1. /\ Others(k, p) /\ InFlight' = InFlight /\ p \in InFlight /\ p # k
      /\ Like(frames[k], frames'[k]) /\ frames'[k].ev = "reply"
      /\ Like(frames[p], frames'[p]) /\ frames'[p].ev = frames[p].ev
  BY DEF Told, Alone, Goes
<1> QED  BY <1>1 DEF Shape

\* Frame k calls others.
LEMMA ShapeCalled ==
  ASSUME NEW k \in InFlight, NEW v, NEW N, Called(k, v, N), frames[k].ev # "reply",
         v \notin {"ncAction", "ncMiss"}, \A n \in DOMAIN N : NewOK(n, k)
  PROVE  Shape(k, k)
BY DEF Shape, Called

\* A read request to the lower level is called for what its caller needs.
LEMMA NewReadUp ==
  ASSUME IInv, NEW k \in InFlight, NEW v, Called(k, v, ReadUp(k)), ~frames'[k].err,
         frames[k].kind \in {"load", "prefetch", "readUD"}, NEW n \in DOMAIN ReadUp(k)
  PROVE  NewOK(n, k)
<1>1. PICK f : f = frames[k]  OBVIOUS
<1>2. PICK h : h = frames'[n]  OBVIOUS
<1>3. /\ n[4] = f.at /\ h.kind = "readUD" /\ h.ret = k /\ h.tag = f.tag /\ h.from = f.at
      /\ h.ev = "lock" /\ ~h.nc /\ h.way = 0
  BY <1>1, <1>2 DEF Called, ReadUp, NewFrame, Call
<1>4. frames'[k].kind = f.kind /\ frames'[k].at = f.at /\ frames'[k].tag = f.tag
  BY <1>1 DEF Called, Like
<1>5. CalledFor(n)'
  BY <1>1, <1>2, <1>3, <1>4 DEF CalledFor
<1> QED  BY <1>2, <1>3, <1>5 DEF NewOK, AccessKind

\* So is a write request.
LEMMA NewWriteUp ==
  ASSUME IInv, NEW k \in InFlight, NEW v, Called(k, v, WriteUp(k)), ~frames'[k].err,
         frames[k].kind \in {"store", "writeUD"}, NEW n \in DOMAIN WriteUp(k)
  PROVE  NewOK(n, k)
<1>1. PICK f : f = frames[k]  OBVIOUS
<1>2. PICK h : h = frames'[n]  OBVIOUS
<1>3. /\ n[4] = f.at /\ h.kind = "writeUD" /\ h.ret = k /\ h.tag = f.tag /\ h.from = f.at
      /\ h.ev = "lock" /\ ~h.nc /\ h.way = 0
  BY <1>1, <1>2 DEF Called, WriteUp, NewFrame, Call
<1>4. frames'[k].kind = f.kind /\ frames'[k].at = f.at /\ frames'[k].tag = f.tag
  BY <1>1 DEF Called, Like
<1>5. CalledFor(n)'
  BY <1>1, <1>2, <1>3, <1>4 DEF CalledFor
<1> QED  BY <1>2, <1>3, <1>5 DEF NewOK, AccessKind

\* So is a read request to the owner.
LEMMA NewReadDown ==
  ASSUME IInv, NEW k \in InFlight, NEW v, NEW owner, NEW peer,
         Called(k, v, ReadDown(k, owner, peer)),
         frames[k].kind \in {"readUD", "readDU"}, NEW n \in DOMAIN ReadDown(k, owner, peer)
  PROVE  NewOK(n, k) /\ frames'[n].kind = "readDU" /\ frames'[n].at = owner
         /\ frames'[n].ret = k /\ frames'[n].ev = "lock" /\ frames'[n].reply = "none"
         /\ ~frames'[n].err
<1>1. PICK f : f = frames[k]  OBVIOUS
<1>2. PICK h : h = frames'[n]  OBVIOUS
<1>3. /\ n[4] = owner /\ h.kind = "readDU" /\ h.ret = k /\ h.tag = f.tag /\ h.from = f.at
      /\ h.at = owner /\ h.ev = "lock" /\ ~h.nc /\ h.reply = "none" /\ ~h.err /\ h.way = 0
  BY <1>1, <1>2 DEF Called, ReadDown, NewFrame, Call
<1>4. frames'[k].kind = f.kind /\ frames'[k].at = f.at /\ frames'[k].tag = f.tag
  BY <1>1 DEF Called, Like
<1>5. CalledFor(n)'
  BY <1>1, <1>2, <1>3, <1>4 DEF CalledFor
<1> QED  BY <1>2, <1>3, <1>5 DEF NewOK, AccessKind

\* So are the frames of an invalidation.
LEMMA NewInvalidation ==
  ASSUME IInv, NEW k \in InFlight, NEW q, q = k \/ q \notin InFlight, NEW e \in Entry, NEW except,
         NEW N, Invalidates(N, q, e, except), DOMAIN N \cap InFlight = {},
         \A n \in DOMAIN N : frames'[n] = N[n],
         NEW n \in DOMAIN N
  PROVE  NewOK(n, k)
<1>1. PICK i : i = Call(q, "invalidate", e[1])  OBVIOUS
<1>2. CASE n = i /\ IsInvalidation(N[n], q, e)
  <2>1. PICK h : h = frames'[n]  OBVIOUS
  <2>2. /\ n[4] = e[1] /\ h.kind = "invalidate" /\ h.ret = q /\ h.from = e[1]
        /\ h.at = e[1] /\ h.ev = "finish" /\ ~h.nc
    BY <1>1, <1>2, <2>1 DEF IsInvalidation, Call
  <2>3. CalledFor(n)'  BY <2>1, <2>2 DEF CalledFor
  <2> QED  BY <2>1, <2>2, <2>3 DEF NewOK, AccessKind
<1>3. ASSUME NEW m, m \in Victims(e, except), n = Call(i, "writeDU", m), IsTaking(N[n], i, e, m)
      PROVE  NewOK(n, k)
  <2>1. PICK h : h = frames'[n]  OBVIOUS
  <2>2. /\ n[4] = m /\ h.kind = "writeDU" /\ h.ret = i /\ h.from = e[1] /\ h.at = m
        /\ h.tag = blk[e].tag /\ h.ev = "lock" /\ ~h.nc /\ h.way = 0
    BY <1>3, <2>1 DEF IsTaking, Call
  <2>3. i \in DOMAIN N /\ i \notin InFlight  BY <1>1, <1>3 DEF Invalidates
  <2>4. IsInvalidation(N[i], q, e)
    <3>1. ASSUME NEW x, i = Call(i, "writeDU", x), IsTaking(N[i], i, e, x)  PROVE FALSE
      BY <1>1, <3>1 DEF Call
    <3> QED  BY <1>1, <2>3, <3>1 DEF Invalidates
  <2>5. frames'[i].tag = blk[e].tag /\ frames'[i].at = e[1]
    BY <2>3, <2>4 DEF IsInvalidation
  <2>6. CalledFor(n)'  BY <2>1, <2>2, <2>5 DEF CalledFor
  <2> QED  BY <2>1, <2>2, <2>3, <2>6 DEF NewOK, AccessKind
<1> QED  BY <1>1, <1>2, <1>3 DEF Invalidates

\* So are those of an eviction.
LEMMA NewEviction ==
  ASSUME IInv, NEW k \in InFlight, Idle(k), NEW e \in Entry, e[1] = frames[k].at, NEW N,
         Evicts(N, k, e), DOMAIN N \cap InFlight = {},
         \A n \in DOMAIN N : frames'[n] = N[n],
         NEW n \in DOMAIN N
  PROVE  NewOK(n, k)
<1>1. PICK q : q = EvictKey(k)  OBVIOUS
<1>2. PICK I : /\ Invalidates(I, q, e, None)
               /\ q \notin DOMAIN I /\ DOMAIN N = DOMAIN I \cup {q}
               /\ \A j \in DOMAIN I : N[j] = I[j]
  BY <1>1 DEF Evicts
<1>3. CASE n = q
  <2>1. PICK h : h = frames'[n]  OBVIOUS
  <2>2. /\ n[4] = e[1] /\ h.kind = "evict" /\ h.ret = k /\ h.from = e[1] /\ h.at = Low[e[1]]
        /\ h.ev = "invalid" /\ ~h.nc
    BY <1>1, <1>3, <2>1 DEF Evicts, IsEviction, EvictKey, Call
  <2>3. CalledFor(n)'  BY <2>1, <2>2 DEF CalledFor
  <2> QED  BY <2>1, <2>2, <2>3 DEF NewOK, AccessKind
<1>4. CASE n # q
  <2>1. n \in DOMAIN I /\ q \notin InFlight  BY <1>1, <1>2, <1>4 DEF Evicts
  <2>2. DOMAIN I \cap InFlight = {} /\ \A j \in DOMAIN I : frames'[j] = I[j]
    BY <1>2
  <2> QED  BY <1>2, <2>1, <2>2, NewInvalidation
<1> QED  BY <1>3, <1>4

\* Every event has the shape of a step of one frame that tells its caller at most.
LEMMA DoesShape ==
  ASSUME IInv, NEW k \in InFlight, Idle(k), Does(k)
  PROVE  \E p : Shape(k, p)
<1>1. CASE \/ Looks(k) /\ frames[k].ev = "lock" /\ NoEntry
           \/ \E e \in Entry : Gets(k, e)
  BY <1>1, ShapeOne DEF Looks, Gets
<1>2. ASSUME NEW e \in Entry, Replaces(k, e)  PROVE \E p : Shape(k, p)
  <2>1. frames[k].ev = "lock" /\ e[1] = frames[k].at
    BY <1>2 DEF Replaces, Candidates
  <2>2. PICK N : Called(k, "evicting", N) /\ Evicts(N, k, e)
    BY <1>2 DEF Replaces
  <2>3. DOMAIN N \cap InFlight = {} /\ \A n \in DOMAIN N : frames'[n] = N[n]
    BY <2>2 DEF Called
  <2>4. \A n \in DOMAIN N : NewOK(n, k)
    BY <2>1, <2>2, <2>3, NewEviction
  <2> QED  BY <2>1, <2>2, <2>4, ShapeCalled
<1>3. CASE GivesUp(k)
  BY <1>3, ShapeOne, ShapeEnded DEF GivesUp, Looks, Locks, AccessKind
<1>4. CASE Settles(k) \/ InvalidationEnds(k) \/ Received(k)
  BY <1>4, ShapeEnded DEF Settles, InvalidationEnds, Received, AccessKind
<1>5. CASE SendsDown(k) \/ Accepts(k) \/ Refuses(k)
  BY <1>5, ShapeOne DEF SendsDown, Accepts, Refuses, Goes
<1>6. ASSUME NEW p, EvictionFails(k, p) \/ EvictionEnds(k, p)  PROVE \E q : Shape(k, q)
  <2>1. Returns(k, p)  BY <1>6 DEF EvictionFails, EvictionEnds
  <2>2. Shape(k, p)  BY <2>1 DEF Returns, Shape, AccessKind
  <2> QED  BY <2>2
<1>7. CASE Passes(k)
  <2>1. PICK p : p = frames[k].ret  OBVIOUS
  <2>2. Told(k, p) /\ frames[k].kind \in {"readUD", "writeUD", "writeDU"}
    BY <1>7, <2>1 DEF Passes, ToldError
  <2>3. Shape(k, p)  BY <2>1, <2>2, ShapeTold DEF AccessKind
  <2> QED  BY <2>3
<1>8. CASE AsksOwner(k)
  <2>1. frames[k].kind \in {"readUD", "readDU"} /\ frames[k].ev = "action"
    BY <1>8 DEF AsksOwner
  <2>2. CASE Alone(k, k) /\ Goes(k, "finish")
    BY <2>1, <2>2, ShapeGoes
  <2>3. ASSUME NEW owner, NEW peer, Called(k, "finish", ReadDown(k, owner, peer))
        PROVE  Shape(k, k)
    BY <2>1, <2>3, NewReadDown, ShapeCalled
  <2> QED  BY <1>8, <2>2, <2>3 DEF AsksOwner
<1>9. CASE Fills(k) \/ GivesExclusive(k)
  <2>1. CASE Fills(k)
    BY <2>1, ShapeGoes DEF Fills
  <2>2. CASE GivesExclusive(k)
    BY <2>2, ShapeGoes DEF GivesExclusive
  <2> QED  BY <1>9, <2>1, <2>2
<1>10. ASSUME NEW p, GivesBlock(k, p) \/ GivesData(k, p) \/ Yields(k, p)
       PROVE  \E q : Shape(k, q)
  <2>1. /\ frames[k].kind \notin AccessKind /\ Told(k, p) /\ p = frames[k].ret
        /\ frames'[p].err = frames[p].err
    BY <1>10 DEF GivesBlock, GivesData, Yields, AccessKind
  <2>2. Shape(k, p)  BY <2>1, ShapeTold
  <2> QED  BY <2>2
<1>11. CASE Takes(k)
  <2>1. PICK e \in Entry : e = Locked(k)  BY <1>11, FrameFacts DEF Takes, FrameOK
  <2>2. PICK N : Called(k, "exclusive", N) /\ Invalidates(N, k, e, frames[k].from)
    BY <1>11, <2>1 DEF Takes
  <2>3. DOMAIN N \cap InFlight = {} /\ \A n \in DOMAIN N : frames'[n] = N[n]
    BY <2>2 DEF Called
  <2>4. \A n \in DOMAIN N : NewOK(n, k)
    BY <2>2, <2>3, NewInvalidation
  <2> QED  BY <1>11, <2>2, <2>4, ShapeCalled DEF Takes
<1>12. CASE AsksExclusive(k)
  <2>1. frames[k].kind = "writeUD" /\ frames[k].ev = "exclusive"
    BY <1>12 DEF AsksExclusive
  <2>2. CASE Alone(k, k) /\ Goes(k, "finish")
    BY <2>1, <2>2, ShapeGoes
  <2>3. CASE CallsUp(k, "finish", WriteUp(k))
    BY <2>1, <2>3, NewWriteUp, ShapeCalled DEF CallsUp
  <2> QED  BY <1>12, <2>2, <2>3 DEF AsksExclusive
<1>13. CASE /\ frames[k].kind \in {"load", "prefetch", "readUD"} /\ frames[k].ev = "action"
            /\ frames[k].state = "I" /\ CallsUp(k, "miss", ReadUp(k))
  BY <1>13, NewReadUp, ShapeCalled DEF CallsUp
<1>14. CASE /\ frames[k].kind = "store" /\ frames[k].ev = "action" /\ Idle(k) /\ Locks(k)
            /\ \/ frames[k].state \in {"M", "E"} /\ ~frames[k].err
                  /\ Alone(k, k) /\ Goes(k, "unlock") /\ NoEntry
               \/ CallsUp(k, "unlock", WriteUp(k))
  <2>1. CASE Alone(k, k) /\ Goes(k, "unlock")
    BY <1>14, <2>1, ShapeGoes
  <2>2. CASE CallsUp(k, "unlock", WriteUp(k))
    BY <1>14, <2>2, NewWriteUp, ShapeCalled DEF CallsUp
  <2> QED  BY <1>14, <2>1, <2>2
<1> QED
  BY <1>1, <1>2, <1>3, <1>4, <1>5, <1>6, <1>7, <1>8, <1>9, <1>10, <1>11, <1>12, <1>13,
     <1>14 DEF Does

\* So does the start of an access.
LEMMA StartShape ==
  ASSUME NEW k, Starts(k)
  PROVE  Shape(k, k)
<1>1. frames'[k].kind \in AccessKind \ {"nc"}  BY DEF Starts
<1>2. CalledFor(k)'
  BY <1>1 DEF CalledFor, AccessKind
<1>3. NewOK(k, k)  BY <1>1, <1>2 DEF Starts, NewOK, AccessKind
<1> QED  BY <1>3 DEF Starts, Shape

\* Frame k acts, or is new.
Steps(k, p) == Shape(k, p) /\ (k \in InFlight => Idle(k))

\* What a frame was called for, before and after.
LEMMA StillLike ==
  ASSUME NEW k, NEW p, Shape(k, p), NEW j \in InFlight, j \in InFlight'
  PROVE  Like(frames[j], frames'[j])
BY DEF Shape, Others, Same

\* No frame becomes one of a non-coherent store.
LEMMA PlainFrames ==
  ASSUME Plain, NEW k, NEW p, Shape(k, p), NEW j \in InFlight'
  PROVE  PlainFrame(j)'
<1>1. CASE j \notin InFlight
  BY <1>1 DEF Shape, NewOK, PlainFrame, AccessKind
<1>2. CASE j \in InFlight
  <2>1. Like(frames[j], frames'[j]) /\ PlainFrame(j)  BY <1>2, StillLike DEF Plain
  <2>2. frames'[j].ev \notin {"ncAction", "ncMiss"}
    <3>1. CASE j = k  BY <1>2, <3>1 DEF Shape
    <3>2. CASE j # k /\ j = p
      BY <2>1, <3>2 DEF Shape, PlainFrame
    <3>3. CASE j # k /\ j # p
      BY <1>2, <2>1, <3>3 DEF Shape, Others, Same, PlainFrame
    <3> QED  BY <3>1, <3>2, <3>3
  <2> QED  BY <2>1, <2>2 DEF PlainFrame, Like
<1> QED  BY <1>1, <1>2

\* A frame that has called a request up-down has called nothing else.
LEMMA OneRequestUp ==
  ASSUME IInv, \A x \in InFlight : CalledFor(x),
         NEW c \in InFlight, NEW j \in InFlight, frames[c].ret = frames[j].ret,
         frames[c].kind \in {"readUD", "writeUD"},
         frames[j].kind \in {"readUD", "readDU", "writeUD", "writeDU", "evict", "invalidate"}
  PROVE  c = j
<1>1. PICK p : p = frames[c].ret  OBVIOUS
<1>2. PICK u : u = frames[c].kind  OBVIOUS
<1>3. PICK v : v = frames[j].kind  OBVIOUS
<1>4. /\ CallOK(c) /\ CallOK(j) /\ CalledFor(c) /\ CalledFor(j)
      /\ p \in InFlight /\ FrameOK(p)
      /\ c = <<c[1], p, u, c[4]>> /\ j = <<j[1], p, v, j[4]>>
  BY <1>1, <1>2, <1>3 DEF IInv, TypeOK, AccessKind
<1>5. /\ c[1] = p[1] /\ j[1] = p[1] /\ c[4] = frames[p].at
      /\ u = "readUD" => frames[p].ev \in {"miss", "ncMiss"} 
      /\ u = "writeUD" => frames[p].ev \in {"unlock", "finish"} /\ frames[p].kind \in {"store", "writeUD"}
  BY <1>1, <1>2, <1>3, <1>4 DEF CallOK, CalledFor, AccessKind
<1>6. v = u /\ j[4] = frames[p].at
  BY <1>1, <1>2, <1>3, <1>4, <1>5 DEF CallOK, CalledFor, AccessKind, FrameOK
<1> QED  BY <1>4, <1>5, <1>6

\* What frames were called for stays true.
LEMMA CalledForStep ==
  ASSUME IInv, IInv', Plain, \A x \in InFlight : CalledFor(x),
         NEW k, NEW p, Steps(k, p), NEW c \in InFlight'
  PROVE  CalledFor(c)'
<1>0. Shape(k, p)  BY DEF Steps
<1>1. CASE c \notin InFlight
  BY <1>0, <1>1 DEF Shape, NewOK
<1>2. CASE c \in InFlight /\ frames[c].kind \in AccessKind
  BY <1>0, <1>2, StillLike DEF CalledFor, AccessKind, Like
<1>3. CASE c \in InFlight /\ frames[c].kind \notin AccessKind
  <2>1. PICK q : q = frames[c].ret  OBVIOUS
  <2>2. Like(frames[c], frames'[c])  BY <1>0, <1>3, StillLike
  <2>3. q \in InFlight /\ q \in InFlight' /\ frames'[c].ret = q
    BY <1>3, <2>1, <2>2 DEF IInv, TypeOK, Like
  <2>4. Like(frames[q], frames'[q])  BY <1>0, <2>3, StillLike
  <2>5. CalledFor(c)  BY <1>3
  <2>6. q # k
    BY <1>3, <2>1, <2>3, NobodyCalled DEF Steps
  <2>7. ASSUME frames[c].kind \in {"readUD", "writeUD"}, frames'[c].ev # "reply"
        PROVE  ~frames'[q].err
    <3>1. frames[c].ev # "reply"
      <4>1. CASE c = k  BY <1>0, <1>3, <2>7, <4>1 DEF Shape
      <4>2. CASE c # k /\ c = p
        <5>1. k \in InFlight /\ frames[k].kind \notin AccessKind /\ c = frames[k].ret
          BY <1>0, <4>2 DEF Shape
        <5> QED  BY <5>1, CallerWaits DEF Steps
      <4>3. CASE c # k /\ c # p
        BY <1>0, <1>3, <2>7, <4>3 DEF Shape, Others, Same
      <4> QED  BY <4>1, <4>2, <4>3
    <3>2. ~frames[q].err  BY <2>1, <2>5, <2>7, <3>1 DEF CalledFor
    <3>3. CASE q # p
      BY <1>0, <2>3, <2>6, <3>2, <3>3 DEF Shape, Others, Same, Results
    <3>4. CASE q = p
      <4>1. /\ k \in InFlight /\ frames[k].kind \notin AccessKind /\ p = frames[k].ret
            /\ k \in InFlight' => frames'[k].ev = "reply"
            /\ \/ frames'[p].err = frames[p].err
               \/ frames[p].ev = "evicting"
               \/ frames[k].kind \in {"readUD", "writeUD", "writeDU"}
        BY <1>0, <2>6, <3>4 DEF Shape
      <4>2. frames[p].ev # "evicting"
        <5>1. CallOK(c) /\ FrameOK(p)  BY <1>3, <2>3, <3>4, FrameFacts
        <5> QED  BY <1>3, <2>1, <2>7, <3>4, <5>1 DEF CallOK
      <4>3. frames[k].kind \in {"readUD", "writeUD", "writeDU"} => c = k
        BY <1>3, <2>1, <2>7, <3>4, <4>1, OneRequestUp
      <4> QED  BY <2>7, <3>2, <3>4, <4>1, <4>2, <4>3
    <3> QED  BY <3>3, <3>4
  <2>8. PICK f : f = frames[c]  OBVIOUS
  <2>9. PICK g : g = frames'[c]  OBVIOUS
  <2>10. PICK h : h = frames'[q]  OBVIOUS
  <2>11. /\ f.kind \in {"readUD", "readDU", "writeUD", "writeDU"} =>
             f.tag = h.tag /\ f.from = h.at
         /\ f.kind = "readUD" => h.kind \in {"load", "prefetch", "readUD"}
         /\ f.kind = "writeUD" => h.kind \in {"store", "writeUD"}
         /\ f.kind = "readDU" => h.kind \in {"readUD", "readDU"}
         /\ f.kind = "invalidate" => f.from = f.at
         /\ f.kind = "evict" => f.at = Low[f.from]
         /\ f.kind \in {"readUD", "writeUD", "evict"} => c[4] = f.from
         /\ f.kind \in {"readDU", "writeDU", "invalidate"} => c[4] = f.at
    BY <2>1, <2>4, <2>5, <2>8, <2>10 DEF CalledFor, Like
  <2>12. /\ g.kind = f.kind /\ g.from = f.from /\ g.at = f.at /\ g.tag = f.tag
         /\ g.ret = q
    BY <2>2, <2>3, <2>8, <2>9 DEF Like
  <2>13. f.kind \in {"readUD", "writeUD"} /\ g.ev # "reply" => ~h.err
    BY <2>7, <2>8, <2>9, <2>10
  <2> QED  BY ONLY <2>9, <2>10, <2>11, <2>12, <2>13 DEF CalledFor
<1> QED  BY <1>1, <1>2, <1>3

-----------------------------------------------------------------------------
(***************************************************************************)
(* Entries that nobody but the frame that acts looks at.                   *)
(***************************************************************************)
\* What cache_set_block changes
LEMMA WritesAt ==
  ASSUME IInv, NEW d \in Entry, NEW t, NEW s, Writes(d, t, s)
  PROVE  /\ blk'[d] = [tag |-> t, state |-> s] /\ blk'[d].tag = t /\ blk'[d].state = s
         /\ \A e \in Entry \ {d} : blk'[e] = blk[e]
BY DEF IInv, TypeOK, Writes

\* What dir_entry_unlock changes
LEMMA FreesAt ==
  ASSUME IInv, NEW d \in Entry, Frees(d)
  PROVE  lock'[d] = None /\ \A e \in Entry \ {d} : lock'[e] = lock[e]
BY DEF IInv, TypeOK, Frees

\* Frame j counts on the block of entry d.
CountsOn(j, d) ==
  \/ Holds(j, d)
  \/ frames[j].kind = "evict" /\ Source(j) = d
  \/ frames[j].kind = "invalidate" /\ Locked(j) = d

\* Who counts on an entry has locked it, or works for the frame that has.
LEMMA Counting ==
  ASSUME IInv, Plain, NEW j \in InFlight, NEW d, CountsOn(j, d)
  PROVE  \E h \in InFlight :
           /\ Holds(h, d)
           /\ \/ h = j
              \/ /\ frames[j].kind = "evict" /\ Source(j) = d
                 /\ frames[j].ret = h /\ frames[h].ev = "evicting"
              \/ frames[j].kind = "invalidate" /\ frames[j].ret = h /\ frames[h].ev = "exclusive"
              \/ /\ frames[j].kind = "invalidate" /\ frames[j].ret \in InFlight
                 /\ frames[frames[j].ret].kind = "evict"
                 /\ frames[frames[j].ret].ret = h /\ frames[h].ev = "evicting"
                 /\ Source(frames[j].ret) = d
<1>1. CASE Holds(j, d)  BY <1>1
<1>2. ASSUME NEW c \in InFlight, frames[c].kind = "evict", Source(c) = d
      PROVE  \E h \in InFlight : Holds(h, d) /\ frames[c].ret = h /\ frames[h].ev = "evicting"
  <2>1. PICK h : h = frames[c].ret  OBVIOUS
  <2>2. h \in InFlight /\ Holds(h, d)  BY <1>2, <2>1, CallerHolds
  <2>3. frames[h].ev \in {"evicting", "ncAction"}
    BY <1>2, <2>1, FrameFacts DEF CallOK, AccessKind
  <2>4. frames[h].ev # "ncAction"  BY <2>2 DEF Plain, PlainFrame
  <2> QED  BY <2>1, <2>2, <2>3, <2>4
<1>3. CASE frames[j].kind = "evict" /\ Source(j) = d
  BY <1>2, <1>3
<1>4. CASE frames[j].kind = "invalidate" /\ Locked(j) = d
  <2>1. PICK q : q = frames[j].ret  OBVIOUS
  <2>2. q \in InFlight /\ CallOK(j)
    BY <1>4, <2>1 DEF IInv, TypeOK, AccessKind
  <2>3. \/ frames[q].kind = "evict" /\ Source(q) = d
        \/ /\ frames[q].kind \in {"writeUD", "writeDU"} /\ frames[q].ev = "exclusive"
           /\ Locked(q) = d
    BY <1>4, <2>1, <2>2 DEF CallOK, AccessKind
  <2>4. CASE frames[q].kind = "evict" /\ Source(q) = d
    <3>1. PICK h \in InFlight : Holds(h, d) /\ frames[q].ret = h /\ frames[h].ev = "evicting"
      BY <1>2, <2>2, <2>4
    <3> QED  BY <1>4, <2>1, <2>2, <2>4, <3>1
  <2>5. CASE /\ frames[q].kind \in {"writeUD", "writeDU"} /\ frames[q].ev = "exclusive"
             /\ Locked(q) = d
    <3>1. Holds(q, d)  BY <2>5 DEF Holds, Locks
    <3> QED  BY <1>4, <2>1, <2>2, <2>5, <3>1
  <2> QED  BY <2>3, <2>4, <2>5
<1> QED  BY <1>1, <1>3, <1>4 DEF CountsOn

\* Frame k has entry d, or is about to get it, or has evicted it for its caller.
Private(k, d) ==
  \/ lock[d] = None
  \/ Idle(k) /\ Holds(k, d)
  \/ /\ Idle(k) /\ frames[k].kind = "evict" /\ Source(k) = d
     /\ frames[frames[k].ret].ev = "evicting" /\ k \notin InFlight'

\* Nobody else counts on an entry that is private to frame k.
LEMMA Untouched ==
  ASSUME IInv, Plain, NEW k, NEW d \in Entry, Private(k, d),
         NEW j \in InFlight, j # k,
         \/ j # frames[k].ret
         \/ frames[k].kind # "evict"
         \/ k \in InFlight'
  PROVE  ~CountsOn(j, d)
<1>1. SUFFICES ASSUME CountsOn(j, d)  PROVE FALSE  OBVIOUS
<1>2. PICK h \in InFlight :
           /\ Holds(h, d)
           /\ \/ h = j
              \/ /\ frames[j].kind = "evict" /\ Source(j) = d
                 /\ frames[j].ret = h /\ frames[h].ev = "evicting"
              \/ frames[j].kind = "invalidate" /\ frames[j].ret = h /\ frames[h].ev = "exclusive"
              \/ /\ frames[j].kind = "invalidate" /\ frames[j].ret \in InFlight
                 /\ frames[frames[j].ret].kind = "evict"
                 /\ frames[frames[j].ret].ret = h /\ frames[h].ev = "evicting"
                 /\ Source(frames[j].ret) = d
  BY <1>1, Counting
<1>3. HeldOnce  BY DEF IInv
<1>4. lock[d] # None  BY <1>2, <1>3 DEF HeldOnce
<1>5. CASE Idle(k) /\ Holds(k, d)
  <2>1. h = k /\ k \in InFlight  BY <1>2, <1>3, <1>5 DEF HeldOnce, Idle
  <2>2. frames[j].kind \in {"evict", "invalidate"} => frames[j].ret # k
    BY <1>5, NobodyCalled DEF AccessKind
  <2>3. frames[j].ret \in InFlight /\ frames[frames[j].ret].kind = "evict"
        => frames[frames[j].ret].ret # k
    BY <1>5, NobodyCalled DEF AccessKind
  <2> QED  BY <1>2, <2>1, <2>2, <2>3
<1>6. ASSUME NEW p, p = frames[k].ret, Idle(k), frames[k].kind = "evict", Source(k) = d,
             frames[p].ev = "evicting", k \notin InFlight'
      PROVE  FALSE
  <2>1. p \in InFlight /\ Holds(p, d) /\ k \in InFlight
    BY <1>6, CallerHolds DEF Idle
  <2>2. h = p  BY <1>2, <1>3, <2>1 DEF HeldOnce
  <2>3. j # p  BY <1>6
  <2>4. ASSUME NEW c \in InFlight, frames[c].kind = "evict", frames[c].ret = p
        PROVE  c = k
    <3>1. c = EvictKey(p)  BY <1>6, <2>1, <2>4, OnlyEvictor DEF AccessKind
    <3>2. k = EvictKey(p)  BY <1>6, <2>1, OnlyEvictor DEF AccessKind
    <3> QED  BY <3>1, <3>2
  <2>5. frames[j].kind = "invalidate" => frames[j].ret # k
    BY <1>6, NobodyCalled DEF AccessKind
  <2> QED  BY <1>2, <1>6, <2>2, <2>3, <2>4, <2>5
<1> QED  BY <1>4, <1>5, <1>6 DEF Private

-----------------------------------------------------------------------------
(***************************************************************************)
(* Entries and the frames that count on them.                              *)
(***************************************************************************)
\* An entry is locked for the block of the frame that has locked it.
Tagged(j) == \A e \in Entry : Holds(j, e) => lock[e] = frames[j].tag

\* A module has one entry for a block.
OneEntry ==
  \A d, e \in Entry, t \in Tag :
    d[1] = e[1] /\ Matches(d, t) /\ Matches(e, t) => d = e

\* The state that frame k remembers is still that of the entry it has locked, and
\* the block that is evicted or invalidated is still there.
Current(k) ==
  LET f == frames[k]
      e == Locked(k)
      s == Source(k)
  IN
  /\ Locks(k) =>
       /\ IF f.kind = "readUD" /\ f.ev = "finish" /\ f.state = "I"
          THEN blk[e] = [tag |-> f.tag, state |-> IF f.shared THEN "S" ELSE "E"]
          ELSE blk[e].state = f.state /\ (f.state # "I" => blk[e].tag = f.tag)
       /\ f.ev = "miss" => f.state = "I"
  /\ f.kind = "evict" =>
       /\ blk[s].tag = f.tag /\ blk[s].state # "I"
       /\ f.reply = "ack_data" => blk[s].state \in {"M", "O"}
  /\ f.kind = "invalidate" =>
       blk[e].tag = f.tag /\ blk[e].state = f.state /\ f.state # "I"

Entries ==
  /\ Plain /\ OneEntry
  /\ \A k \in InFlight : CalledFor(k) /\ Tagged(k) /\ Current(k)

\* Nothing but entry d changes.
AtMost(d) ==
  \A e \in Entry \ {d} : blk'[e] = blk[e] /\ dir'[e] = dir[e] /\ lock'[e] = lock[e]

\* Frame k changes one entry at most, which is its own, and which does not get
\* another block unless k has chosen it.
Footprint(k) ==
  \/ NoEntry
  \/ \E d \in Entry :
       /\ Private(k, d) /\ AtMost(d)
       /\ \A t \in Tag : Matches(d, t)' =>
            \/ Matches(d, t)
            \/ d \in Candidates(frames[k]) /\ t = frames[k].tag /\ frames[k].ev = "lock"

\* What an assignment to a directory entry changes
LEMMA DirAt ==
  ASSUME IInv, NEW d \in Entry, NEW o, dir' = [dir EXCEPT ![d] = o]
  PROVE  dir'[d] = o /\ \A e \in Entry \ {d} : dir'[e] = dir[e]
BY DEF IInv, TypeOK

\* What an assignment to its owner changes
LEMMA OwnerAt ==
  ASSUME IInv, NEW d \in Entry, NEW o, dir' = [dir EXCEPT ![d].owner = o]
  PROVE  /\ dir'[d].owner = o /\ dir'[d].sharers = dir[d].sharers
         /\ \A e \in Entry \ {d} : dir'[e] = dir[e]
<1>1. dir \in [Entry -> [owner : Mod \cup {None}, sharers : SUBSET Mod]]
  BY DEF IInv, TypeOK
<1> QED  BY <1>1

\* Frame k changes only the entry it has locked, which keeps its block.
LEMMA OwnFootprint ==
  ASSUME IInv, NEW k \in InFlight, Idle(k), Locks(k), Tagged(k),
         NEW d, d = Locked(k),
         \/ dir' = dir
         \/ \E o : dir' = [dir EXCEPT ![d] = o]
         \/ \E o : dir' = [dir EXCEPT ![d].owner = o],
         lock' = lock \/ Frees(d),
         \/ blk' = blk
         \/ \E s : Writes(d, frames[k].tag, s)
         \/ Writes(d, None, "I")
  PROVE  Footprint(k)
<1>1. d \in Entry /\ Holds(k, d) /\ lock[d] = frames[k].tag
  BY FrameFacts DEF FrameOK, Holds, Tagged
<1>2. Private(k, d)  BY <1>1 DEF Private
<1>3. \A e \in Entry \ {d} : dir'[e] = dir[e]
  BY <1>1, DirAt, OwnerAt
<1>4. \A e \in Entry \ {d} : lock'[e] = lock[e]
  BY <1>1, FreesAt
<1>5. \A e \in Entry \ {d} : blk'[e] = blk[e]
  BY <1>1, WritesAt
<1>6. lock'[d] \in {lock[d], None}  BY <1>1, FreesAt
<1>7. ASSUME NEW t \in Tag, Matches(d, t)'  PROVE Matches(d, t)
  <2>1. \/ blk'[d].state # "I" /\ blk'[d].tag = t
        \/ lock'[d] = t
    BY <1>7 DEF Matches
  <2>2. CASE lock'[d] = t
    BY <1>6, <2>2, TreeAssumption DEF Matches
  <2>3. CASE blk'[d].state # "I" /\ blk'[d].tag = t
    <3>1. CASE blk' = blk  BY <2>3, <3>1 DEF Matches
    <3>2. ASSUME NEW s, Writes(d, frames[k].tag, s)  PROVE Matches(d, t)
      <4>1. blk'[d].tag = frames[k].tag  BY <1>1, <3>2, WritesAt
      <4> QED  BY <1>1, <2>3, <4>1 DEF Matches
    <3>3. CASE Writes(d, None, "I")
      <4>1. d \in Entry  BY <1>1
      <4>2. blk'[d].state = "I"  BY ONLY IInv, <3>3, <4>1, WritesAt
      <4> QED  BY <2>3, <4>2
    <3> QED  BY <3>1, <3>2, <3>3
  <2> QED  BY <2>1, <2>2, <2>3
<1> QED  BY <1>1, <1>2, <1>3, <1>4, <1>5, <1>7 DEF Footprint, AtMost

\* What is written is there already.
LEMMA SameBlock ==
  ASSUME IInv, NEW d \in Entry, NEW t, NEW s, Writes(d, t, s), blk[d].tag = t, blk[d].state = s
  PROVE  blk' = blk
<1>1. blk \in [Entry -> [tag : Tag \cup {None}, state : State]]
  BY DEF IInv, TypeOK
<1>2. blk[d] = [tag |-> t, state |-> s]  BY <1>1
<1> QED  BY <1>1, <1>2 DEF Writes

\* Every event leaves such a footprint.
LEMMA FootprintOne ==
  ASSUME IInv, Entries, DownUpSucceeds, NEW k \in InFlight, Idle(k), Does(k)
  PROVE  Footprint(k)
<1>1. Tagged(k) /\ Current(k)  BY DEF Entries
<1>2. CASE NoEntry  BY <1>2 DEF Footprint
<1>3. ASSUME NEW e \in Entry, Gets(k, e) \/ Replaces(k, e)  PROVE Footprint(k)
  <2>1. /\ e \in Candidates(frames[k]) /\ lock[e] = None /\ frames[k].ev = "lock"
        /\ lock' = [lock EXCEPT ![e] = frames[k].tag]
    BY <1>3 DEF Gets, Replaces
  <2>2. lock'[e] = frames[k].tag /\ \A x \in Entry \ {e} : lock'[x] = lock[x]
    BY <2>1 DEF IInv, TypeOK
  <2>3. /\ \A x \in Entry \ {e} : blk'[x] = blk[x] /\ dir'[x] = dir[x]
        /\ blk'[e].state # "I" => blk'[e] = blk[e] \/ blk'[e].tag = frames[k].tag
    <3>1. CASE Gets(k, e)
      <4>1. CASE blk' = blk  BY <3>1, <4>1 DEF Gets
      <4>2. CASE Writes(e, frames[k].tag, "E")
        BY <3>1, <4>2, WritesAt DEF Gets
      <4> QED  BY <3>1, <4>1, <4>2 DEF Gets
    <3>2. CASE Replaces(k, e)
      <4>1. ClearSharers(e, None) /\ blk' = blk  BY <3>2 DEF Replaces
      <4>2. PICK o : dir' = [dir EXCEPT ![e] = o]  BY <4>1, SharersCleared
      <4> QED  BY <4>1, <4>2, DirAt
    <3> QED  BY <1>3, <3>1, <3>2
  <2>4. ASSUME NEW t \in Tag, Matches(e, t)'
        PROVE  Matches(e, t) \/ t = frames[k].tag
    BY <2>2, <2>3, <2>4 DEF Matches
  <2> QED  BY <2>1, <2>2, <2>3, <2>4 DEF Footprint, AtMost, Private
<1>4. PICK d : d = Locked(k)  OBVIOUS
<1>5. CASE \/ GivesUp(k) \/ Passes(k)
  BY <1>1, <1>4, <1>5, OwnFootprint DEF GivesUp, Passes, Footprint, NoEntry
<1>6. CASE Settles(k) \/ Fills(k)
  BY <1>1, <1>4, <1>6, OwnFootprint DEF Settles, Fills
<1>7. CASE InvalidationEnds(k)
  <2>1. Locked(k) \in Entry  BY <1>7, FrameFacts DEF InvalidationEnds, FrameOK
  <2>2. UNCHANGED <<dir, lock>> /\ blk[d].state = frames[k].state /\ blk[d].tag = frames[k].tag
    BY <1>1, <1>4, <1>7 DEF InvalidationEnds, Current
  <2>3. blk' = blk \/ (blk[d].state = "M" /\ Writes(d, frames[k].tag, "M"))
    BY <1>4, <1>7, <2>2 DEF InvalidationEnds, DownUpSucceeds
  <2>4. blk' = blk
    BY <1>4, <2>1, <2>2, <2>3, SameBlock
  <2> QED  BY <2>2, <2>4 DEF Footprint, NoEntry
<1>8. CASE Accepts(k) \/ GivesExclusive(k)
  <2>1. Locks(k)  BY <1>8 DEF Accepts, GivesExclusive, Locks
  <2> QED  BY <1>1, <1>4, <1>8, <2>1, OwnFootprint DEF Accepts, GivesExclusive
<1>9. ASSUME NEW p, EvictionFails(k, p) \/ EvictionEnds(k, p)  PROVE Footprint(k)
  <2>1. PICK s : s = Source(k)  OBVIOUS
  <2>2. /\ Returns(k, p) /\ s \in Entry /\ Holds(p, s) /\ dir' = dir /\ p \in InFlight
        /\ frames[k].kind = "evict" /\ frames[p].ev = "evicting" /\ p = frames[k].ret
        /\ k \notin InFlight'
    BY <1>9, <2>1 DEF EvictionFails, EvictionEnds, Returns
  <2>3. Private(k, s)  BY <2>1, <2>2 DEF Private
  <2>4. lock[s] = frames[p].tag  BY <2>2 DEF Entries, Tagged
  <2>5. CASE EvictionFails(k, p)
    BY <2>1, <2>2, <2>3, <2>5, FreesAt, TreeAssumption
       DEF EvictionFails, Footprint, AtMost, Matches
  <2>6. CASE EvictionEnds(k, p)
    <3>1. /\ \A e \in Entry \ {s} : blk'[e] = blk[e]
          /\ lock' = lock
          /\ blk'[s].state # "I" => blk'[s].tag = frames[p].tag
      BY <2>1, <2>6 DEF EvictionEnds
    <3>2. \A t \in Tag : Matches(s, t)' => Matches(s, t)
      BY <2>4, <3>1 DEF Matches
    <3> QED  BY <2>2, <2>3, <3>1, <3>2 DEF Footprint, AtMost
  <2> QED  BY <1>9, <2>5, <2>6
<1>10. CASE \E p : GivesBlock(k, p) \/ GivesData(k, p) \/ Yields(k, p)
  BY <1>1, <1>4, <1>10, OwnFootprint DEF GivesBlock, GivesData, Yields
<1>11. CASE Takes(k)
  <2>1. Locked(k) \in Entry  BY <1>11, FrameFacts DEF Takes, FrameOK
  <2>2. \E o : dir' = [dir EXCEPT ![d] = o]
    BY <1>4, <1>11, <2>1, SharersCleared DEF Takes
  <2> QED  BY <1>1, <1>4, <1>11, <2>2, OwnFootprint DEF Takes
<1> QED
  BY <1>2, <1>3, <1>5, <1>6, <1>7, <1>8, <1>9, <1>10, <1>11
     DEF Does, SendsDown, Refuses, Received, AsksOwner, AsksExclusive, CallsUp

\* The entries that frame j counts on keep their block and their lock.
Steady(j) ==
  \A e \in Entry : CountsOn(j, e) => blk'[e] = blk[e] /\ lock'[e] = lock[e]

\* The entries of the other frames are steady.
LEMMA SteadyOthers ==
  ASSUME IInv, Plain, NEW k, Footprint(k), NEW j \in InFlight, j # k,
         \/ j # frames[k].ret
         \/ frames[k].kind # "evict"
         \/ k \in InFlight'
  PROVE  Steady(j)
<1>1. CASE NoEntry  BY <1>1 DEF NoEntry, Steady
<1>2. ASSUME NEW d \in Entry, Private(k, d), AtMost(d)  PROVE Steady(j)
  <2>1. ~CountsOn(j, d)  BY <1>2, Untouched
  <2> QED  BY <1>2, <2>1 DEF Steady, AtMost
<1> QED  BY <1>1, <1>2 DEF Footprint

\* Frame j goes on with the entry it had, or without one.
GoesOnWith(j) ==
  LET f == frames[j]
      g == frames'[j]
  IN
  /\ j \in InFlight' /\ Like(f, g) /\ Placed(f, g)
  /\ Locks(j)' => Locks(j)
  /\ g.ev = "evicting" => f.ev = "evicting"

\* A frame that goes on has not got an entry.
LEMMA HoldsBack ==
  ASSUME IInv, IInv', NEW k, NEW p, Shape(k, p), NEW j \in InFlight, GoesOnWith(j),
         NEW e, Holds(j, e)'
  PROVE  Holds(j, e)
<1>1. Locked(j)' = Locked(j)  BY DEF GoesOnWith, Like, Placed, Locked
<1>2. CASE Locks(j)' /\ e = Locked(j)'
  BY <1>1, <1>2 DEF GoesOnWith, Holds
<1>3. CASE frames'[j].ev = "evicting" /\ e = Source(EvictKey(j))'
  <2>1. PICK c : c = EvictKey(j)  OBVIOUS
  <2>2. EvictKey(j)' = c  BY <2>1 DEF GoesOnWith, Like, EvictKey, Call
  <2>3. frames[j].ev = "evicting"  BY <1>3 DEF GoesOnWith
  <2>4. c \in InFlight  BY <2>1, <2>3, Evictor
  <2>5. c \in InFlight'
    <3>1. FrameOK(j)'  BY DEF IInv, GoesOnWith
    <3> QED  BY <1>3, <2>2, <3>1 DEF FrameOK
  <2>6. Source(c)' = Source(c)  BY <2>4, <2>5, StillLike DEF Like, Source
  <2>7. e = Source(c)
    BY <1>3, <2>2, <2>6 DEF Source
  <2> QED  BY <2>1, <2>3, <2>7 DEF Holds
<1> QED  BY <1>2, <1>3 DEF Holds

\* The lock of an entry keeps its block.
LEMMA TaggedStays ==
  ASSUME IInv, IInv', NEW k, NEW p, Shape(k, p), NEW j \in InFlight, GoesOnWith(j),
         Steady(j), Tagged(j)
  PROVE  Tagged(j)'
<1>1. Entry' = Entry  BY DEF Entry
<1>2. ASSUME NEW e \in Entry, Holds(j, e)'  PROVE lock'[e] = frames'[j].tag
  <2>1. Holds(j, e)  BY <1>2, HoldsBack
  <2>2. lock'[e] = lock[e]  BY <2>1 DEF Steady, CountsOn
  <2> QED  BY <2>1, <2>2 DEF Tagged, GoesOnWith, Like
<1> QED  BY <1>1, <1>2 DEF Tagged

\* What a frame remembers stays true when its entry is steady.
LEMMA CurrentStays ==
  ASSUME IInv, NEW j \in InFlight, GoesOnWith(j), Steady(j), Current(j),
         LET f == frames[j]
             g == frames'[j]
         IN
         /\ g.ev = "miss" => g.state = "I"
         /\ f.kind = "readUD" /\ g.ev = "finish" =>
              \/ f.state # "I"
              \/ f.ev = "finish" /\ g.shared = f.shared
         /\ f.kind = "readUD" /\ f.ev = "finish" => g.ev \in {"finish", "reply"}
         /\ f.kind = "evict" => g.reply = f.reply
  PROVE  Current(j)'
<1>1. PICK f : f = frames[j]  OBVIOUS
<1>2. PICK g : g = frames'[j]  OBVIOUS
<1>3. PICK e : e = Locked(j)  OBVIOUS
<1>4. PICK s : s = Source(j)  OBVIOUS
<1>5. Locked(j)' = e /\ Source(j)' = s
  BY <1>3, <1>4 DEF GoesOnWith, Like, Placed, Locked, Source
<1>6. /\ g.kind = f.kind /\ g.tag = f.tag /\ g.state = f.state
      /\ Locks(j)' => Locks(j)
  BY <1>1, <1>2 DEF GoesOnWith, Like, Placed
<1>7. FrameOK(j)  BY FrameFacts
<1>8. Locks(j) => e \in Entry /\ blk'[e] = blk[e]
  BY <1>3, <1>7 DEF FrameOK, Steady, CountsOn, Holds
<1>9. f.kind = "evict" => s \in Entry /\ blk'[s] = blk[s]
  BY <1>1, <1>4, <1>7 DEF FrameOK, Steady, CountsOn
<1>10. f.kind = "invalidate" => e \in Entry /\ blk'[e] = blk[e]
  BY <1>1, <1>3, <1>7 DEF FrameOK, Steady, CountsOn
<1>11. Locks(j) =>
         /\ IF f.kind = "readUD" /\ f.ev = "finish" /\ f.state = "I"
            THEN blk[e] = [tag |-> f.tag, state |-> IF f.shared THEN "S" ELSE "E"]
            ELSE blk[e].state = f.state /\ (f.state # "I" => blk[e].tag = f.tag)
  BY <1>1, <1>3 DEF Current
<1>12. f.kind = "evict" =>
         /\ blk[s].tag = f.tag /\ blk[s].state # "I"
         /\ f.reply = "ack_data" => blk[s].state \in {"M", "O"}
  BY <1>1, <1>4 DEF Current
<1>13. f.kind = "invalidate" =>
         blk[e].tag = f.tag /\ blk[e].state = f.state /\ f.state # "I"
  BY <1>1, <1>3 DEF Current
<1>14. Locks(j)' => g.ev # "reply"  BY <1>2 DEF Locks
<1>15. /\ g.ev = "miss" => g.state = "I"
       /\ f.kind = "readUD" /\ g.ev = "finish" =>
            \/ f.state # "I"
            \/ f.ev = "finish" /\ g.shared = f.shared
       /\ f.kind = "readUD" /\ f.ev = "finish" => g.ev \in {"finish", "reply"}
       /\ f.kind = "evict" => g.reply = f.reply
  BY <1>1, <1>2
<1>16. Locks(j)' =>
         /\ IF g.kind = "readUD" /\ g.ev = "finish" /\ g.state = "I"
            THEN blk'[e] = [tag |-> g.tag, state |-> IF g.shared THEN "S" ELSE "E"]
            ELSE blk'[e].state = g.state /\ (g.state # "I" => blk'[e].tag = g.tag)
         /\ g.ev = "miss" => g.state = "I"
  BY ONLY <1>6, <1>8, <1>11, <1>14, <1>15
<1>17. /\ g.kind = "evict" =>
            /\ blk'[s].tag = g.tag /\ blk'[s].state # "I"
            /\ g.reply = "ack_data" => blk'[s].state \in {"M", "O"}
       /\ g.kind = "invalidate" =>
            blk'[e].tag = g.tag /\ blk'[e].state = g.state /\ g.state # "I"
  BY ONLY <1>6, <1>9, <1>10, <1>12, <1>13, <1>15
<1> QED  BY ONLY <1>2, <1>5, <1>16, <1>17 DEF Current

\* Frames that do nothing
LEMMA SameStays ==
  ASSUME IInv, IInv', NEW k, NEW p, Shape(k, p), NEW j \in InFlight, Same(j), Steady(j),
         Tagged(j), Current(j)
  PROVE  Tagged(j)' /\ Current(j)'
<1>1. PICK f : f = frames[j]  OBVIOUS
<1>2. PICK g : g = frames'[j]  OBVIOUS
<1>3. Like(f, g) /\ Placed(f, g) /\ Results(f, g) /\ j \in InFlight'
      /\ (g.ev = f.ev \/ (f.ev = "lockWait" /\ g.ev = "lock"))
  BY <1>1, <1>2 DEF Same
<1>4. Locks(j)' <=> Locks(j)
  BY <1>1, <1>2, <1>3 DEF Locks, Like, Results
<1>5. GoesOnWith(j)  BY <1>1, <1>2, <1>3, <1>4 DEF GoesOnWith
<1>6. g.ev = "miss" => Locks(j)
  <2>1. f.kind # "invalidate" \/ f.ev = "finish"  BY <1>1, FrameFacts DEF FrameOK
  <2> QED  BY <1>1, <1>3, <2>1 DEF Locks
<1>7. g.ev = "miss" => g.state = "I"
  BY <1>1, <1>2, <1>3, <1>6 DEF Current, Placed
<1>8. Current(j)'
  BY <1>1, <1>2, <1>3, <1>5, <1>7, CurrentStays DEF Results
<1> QED  BY <1>5, <1>8, TaggedStays

Still(j) == Tagged(j)' /\ Current(j)'

\* Frame j has no entry.
WithoutEntry(j) ==
  LET g == frames'[j] IN
  g.ev \in {"lock", "lockWait", "reply", "invalid", "action"} /\ (g.ev = "action" => g.err)

\* A frame without an entry remembers nothing of one.
LEMMA NoLock ==
  ASSUME NEW j, WithoutEntry(j), frames'[j].kind \notin {"evict", "invalidate"}
  PROVE  Still(j)
<1>1. ~Locks(j)' /\ frames'[j].ev # "evicting"  BY DEF WithoutEntry, Locks
<1> QED  BY <1>1 DEF Still, Tagged, Holds, Current

\* An eviction remembers the block it evicts.
LEMMA NoLockEvict ==
  ASSUME IInv, NEW j \in InFlight, WithoutEntry(j), frames[j].kind = "evict",
         Like(frames[j], frames'[j]), frames'[j].reply = frames[j].reply,
         NEW s, s = Source(j), blk'[s] = blk[s], Current(j)
  PROVE  Still(j)
<1>1. ~Locks(j)' /\ frames'[j].ev # "evicting"  BY DEF WithoutEntry, Locks
<1>2. Source(j)' = s  BY DEF Like, Source
<1> QED  BY <1>1, <1>2 DEF Still, Tagged, Holds, Current, Like

\* New requests have no entry yet.
LEMMA NewStill ==
  ASSUME NEW k, NEW n, NewOK(n, k), frames'[n].kind \notin {"evict", "invalidate"}
  PROVE  Still(n)
<1>1. ~Locks(n)' /\ frames'[n].ev # "evicting"  BY DEF NewOK, Locks
<1> QED  BY <1>1 DEF Still, Tagged, Holds, Current

\* New frames have none.
LEMMA NewTagged ==
  ASSUME NEW k, NEW n, NewOK(n, k)
  PROVE  Tagged(n)'
<1>1. ~Locks(n)' /\ frames'[n].ev # "evicting"  BY DEF NewOK, Locks
<1> QED  BY <1>1 DEF Tagged, Holds

\* A new invalidation knows the state of its block.
LEMMA InvalidationCurrent ==
  ASSUME IInv, NEW q, NEW e \in Entry, NEW except, NEW N, Invalidates(N, q, e, except),
         blk' = blk, \A n \in DOMAIN N : frames'[n] = N[n],
         NEW n \in DOMAIN N
  PROVE  Current(n)'
<1>1. CASE IsInvalidation(N[n], q, e)
  <2>1. e = <<e[1], e[2]>>  BY EntryPair
  <2>2. Locked(n)' = e  BY <1>1, <2>1 DEF IsInvalidation, Locked
  <2>3. blk[e].state # "I"
    BY DEF Invalidates, Victims, IInv, EntryOK
  <2>4. ~Locks(n)' /\ frames'[n].kind = "invalidate"  BY <1>1 DEF Locks, IsInvalidation
  <2> QED  BY <1>1, <2>2, <2>3, <2>4 DEF IsInvalidation, Current
<1>2. ASSUME NEW i, NEW m, IsTaking(N[n], i, e, m)  PROVE Current(n)'
  BY <1>2 DEF IsTaking, Current, Locks
<1> QED  BY <1>1, <1>2 DEF Invalidates

\* A new eviction has a block to evict.
LEMMA EvictionCurrent ==
  ASSUME IInv, NEW k, NEW e \in Entry, NEW N, Evicts(N, k, e),
         blk[e].state # "I", blk' = blk, \A n \in DOMAIN N : frames'[n] = N[n],
         NEW n \in DOMAIN N
  PROVE  Current(n)'
<1>1. PICK q : q = EvictKey(k)  OBVIOUS
<1>2. PICK I : /\ Invalidates(I, q, e, None)
               /\ q \notin DOMAIN I /\ DOMAIN N = DOMAIN I \cup {q}
               /\ \A j \in DOMAIN I : N[j] = I[j]
  BY <1>1 DEF Evicts
<1>3. CASE n = q
  <2>1. e = <<e[1], e[2]>>  BY EntryPair
  <2>2. IsEviction(N[n], k, e)  BY <1>1, <1>3 DEF Evicts
  <2>3. Source(n)' = e  BY <2>1, <2>2 DEF IsEviction, Source
  <2>4. ~Locks(n)'  BY <2>2 DEF IsEviction, Locks
  <2> QED  BY <2>2, <2>3, <2>4 DEF IsEviction, Current
<1>4. CASE n # q
  <2>1. n \in DOMAIN I /\ \A j \in DOMAIN I : frames'[j] = I[j]  BY <1>2, <1>4
  <2> QED  BY <1>2, <2>1, InvalidationCurrent
<1> QED  BY <1>3, <1>4

\* New frames
LEMMA NewFrames ==
  ASSUME IInv, NEW k \in InFlight, Idle(k), Does(k), NEW p, Shape(k, p),
         NEW n \in InFlight' \ InFlight
  PROVE  Still(n)
<1>1. NewOK(n, k)  BY DEF Shape
<1>2. Tagged(n)'  BY <1>1, NewTagged
<1>3. CASE frames'[n].kind \notin {"evict", "invalidate"}
  BY <1>1, <1>3, NewStill
<1>4. CASE frames'[n].kind \in {"evict", "invalidate"}
  <2>1. ASSUME InFlight' \subseteq InFlight  PROVE FALSE
    BY <2>1
  <2>2. ~ \E v : Called(k, v, ReadUp(k)) \/ Called(k, v, WriteUp(k))
    BY <1>4 DEF Called, ReadUp, WriteUp, NewFrame
  <2>3. ~ \E v, owner, peer : Called(k, v, ReadDown(k, owner, peer))
    <3>1. SUFFICES ASSUME NEW v, NEW owner, NEW peer, Called(k, v, ReadDown(k, owner, peer))
                   PROVE  FALSE
      OBVIOUS
    <3>2. n \in DOMAIN ReadDown(k, owner, peer) /\ frames'[n] = ReadDown(k, owner, peer)[n]
      BY <3>1 DEF Called
    <3>3. frames'[n].kind = "readDU"
      BY <3>2 DEF ReadDown, NewFrame
    <3> QED  BY <1>4, <3>3
  <2>4. ASSUME NEW e \in Entry, Replaces(k, e)  PROVE Current(n)'
    <3>1. PICK N : Called(k, "evicting", N) /\ Evicts(N, k, e)
      BY <2>4 DEF Replaces
    <3>2. blk' = blk /\ blk[e].state # "I"  BY <2>4 DEF Replaces
    <3>3. n \in DOMAIN N /\ \A x \in DOMAIN N : frames'[x] = N[x]
      BY <3>1 DEF Called
    <3> QED  BY <3>1, <3>2, <3>3, EvictionCurrent
  <2>5. ASSUME Takes(k)  PROVE Current(n)'
    <3>1. PICK e \in Entry : e = Locked(k)  BY <2>5, FrameFacts DEF Takes, FrameOK
    <3>2. PICK N : Called(k, "exclusive", N) /\ Invalidates(N, k, e, frames[k].from)
      BY <2>5, <3>1 DEF Takes
    <3>3. blk' = blk /\ n \in DOMAIN N /\ \A x \in DOMAIN N : frames'[x] = N[x]
      BY <2>5, <3>2 DEF Called, Takes
    <3> QED  BY <3>2, <3>3, InvalidationCurrent
  <2>6. ~ (Looks(k) \/ GivesUp(k) \/ Settles(k) \/ InvalidationEnds(k) \/ SendsDown(k)
           \/ Accepts(k) \/ Refuses(k) \/ Received(k) \/ Passes(k) \/ Fills(k)
           \/ GivesExclusive(k) \/ \E e \in Entry : Gets(k, e))
    BY <2>1 DEF Looks, GivesUp, Settles, InvalidationEnds, SendsDown, Accepts, Refuses,
         Received, Passes, Fills, GivesExclusive, Gets, Alone, Ended, ToldError, Told
  <2>7. ~ \E x : EvictionFails(k, x) \/ EvictionEnds(k, x) \/ GivesBlock(k, x)
                 \/ GivesData(k, x) \/ Yields(k, x)
    BY <2>1 DEF EvictionFails, EvictionEnds, GivesBlock, GivesData, Yields, Returns,
         Alone, Told
  <2>8. ~ \E v : Alone(k, k) /\ Goes(k, v)
    BY <2>1 DEF Alone
  <2>9. ~AsksOwner(k) /\ ~AsksExclusive(k)
    BY <2>2, <2>3, <2>8 DEF AsksOwner, AsksExclusive, CallsUp
  <2>10. Current(n)'
    BY <2>2, <2>4, <2>5, <2>6, <2>7, <2>8, <2>9 DEF Does, CallsUp
  <2> QED  BY <1>2, <2>10 DEF Still
<1> QED  BY <1>3, <1>4

\* What dir_entry_lock changes
LEMMA LockAt ==
  ASSUME IInv, NEW d \in Entry, NEW t, lock' = [lock EXCEPT ![d] = t]
  PROVE  lock'[d] = t /\ \A e \in Entry \ {d} : lock'[e] = lock[e]
BY DEF IInv, TypeOK

\* Frames that go on with the entry they have
LEMMA GoesOnStill ==
  ASSUME IInv, IInv', NEW k, NEW p, Shape(k, p), k \in InFlight, k \in InFlight',
         Locks(k), Tagged(k), Current(k), blk' = blk, lock' = lock,
         Like(frames[k], frames'[k]), Placed(frames[k], frames'[k]),
         frames[k].kind # "evict", frames[k].ev # "finish",
         \/ frames'[k].ev \notin {"evicting", "miss", "finish"}
         \/ frames'[k].ev = "miss" /\ frames[k].state = "I"
         \/ frames'[k].ev = "finish" /\ (frames[k].kind = "readUD" => frames[k].state # "I")
  PROVE  Still(k)
<1>1. PICK f : f = frames[k]  OBVIOUS
<1>2. PICK g : g = frames'[k]  OBVIOUS
<1>3. GoesOnWith(k)  BY DEF GoesOnWith
<1>4. Steady(k)  BY DEF Steady
<1>5. /\ g.ev = "miss" => g.state = "I"
      /\ f.kind = "readUD" /\ g.ev = "finish" => f.state # "I"
      /\ f.ev # "finish" /\ f.kind # "evict"
  BY <1>1, <1>2 DEF Placed
<1>6. Current(k)'
  BY ONLY IInv, k \in InFlight, Current(k), <1>1, <1>2, <1>3, <1>4, <1>5, CurrentStays
<1> QED  BY <1>3, <1>4, <1>6, TaggedStays DEF Still

\* Frame k has just locked entry e.
LEMMA GetsStill ==
  ASSUME IInv, NEW k \in InFlight, NEW e \in Entry, Gets(k, e), Current(k)
  PROVE  Still(k)
<1>1. PICK f : f = frames[k]  OBVIOUS
<1>2. PICK g : g = frames'[k]  OBVIOUS
<1>3. /\ Like(f, g) /\ g.ev = "action" /\ Locked(k)' = e /\ f.ev = "lock"
      /\ g.reply = f.reply
      /\ g.state = blk'[e].state /\ (g.state # "I" => blk'[e].tag = f.tag)
  BY <1>1, <1>2 DEF Gets
<1>4. lock'[e] = g.tag
  <2>1. lock' = [lock EXCEPT ![e] = f.tag] /\ g.tag = f.tag
    BY <1>1, <1>3 DEF Gets, Like
  <2> QED  BY <2>1, LockAt
<1>5. Tagged(k)'  BY <1>2, <1>3, <1>4 DEF Tagged, Holds
<1>6. g.kind # "invalidate"
  BY <1>1, <1>3, FrameFacts DEF FrameOK, Like
<1>7. g.kind = "evict" =>
        LET s == Source(k)' IN
        /\ blk'[s].tag = g.tag /\ blk'[s].state # "I"
        /\ g.reply = "ack_data" => blk'[s].state \in {"M", "O"}
  <2>1. SUFFICES ASSUME g.kind = "evict"
                 PROVE  LET s == Source(k)' IN
                        /\ blk'[s].tag = g.tag /\ blk'[s].state # "I"
                        /\ g.reply = "ack_data" => blk'[s].state \in {"M", "O"}
    OBVIOUS
  <2>2. PICK s : s = Source(k)  OBVIOUS
  <2>3. Source(k)' = s /\ f.kind = "evict"  BY <1>1, <1>2, <1>3, <2>1, <2>2 DEF Like, Source
  <2>4. /\ blk[s].tag = f.tag /\ blk[s].state # "I"
        /\ f.reply = "ack_data" => blk[s].state \in {"M", "O"}
    BY <1>1, <2>2, <2>3 DEF Current
  <2>5. s \in Entry  BY <1>1, <2>2, <2>3, FrameFacts DEF FrameOK
  <2>6. blk'[s] = blk[s]
    <3>1. CASE blk' = blk  BY <3>1
    <3>2. CASE blk[e].state = "I" /\ Writes(e, f.tag, "E")
      BY <2>4, <2>5, <3>2, WritesAt
    <3> QED  BY <1>1, <3>1, <3>2 DEF Gets
  <2> QED  BY <1>3, <2>3, <2>4, <2>6 DEF Like
<1>8. Current(k)'
  BY ONLY <1>2, <1>3, <1>6, <1>7 DEF Current, Like
<1> QED  BY <1>5, <1>8 DEF Still

\* Frame k has just locked entry e to evict its block.
LEMMA ReplacesStill ==
  ASSUME IInv, NEW k \in InFlight, NEW e \in Entry, Replaces(k, e), Current(k)
  PROVE  Still(k)
<1>1. PICK f : f = frames[k]  OBVIOUS
<1>2. PICK g : g = frames'[k]  OBVIOUS
<1>3. PICK q : q = EvictKey(k)  OBVIOUS
<1>4. PICK N : Called(k, "evicting", N) /\ Evicts(N, k, e)  BY DEF Replaces
<1>5. /\ Like(f, g) /\ g.ev = "evicting" /\ g.reply = f.reply
      /\ f.ev = "lock" /\ blk' = blk
  BY <1>1, <1>2, <1>4 DEF Called, Replaces
<1>6. e = <<e[1], e[2]>>  BY EntryPair
<1>7. frames'[q] = N[q] /\ IsEviction(N[q], k, e)
  BY <1>3, <1>4 DEF Called, Evicts
<1>8. EvictKey(k)' = q  BY <1>1, <1>2, <1>3, <1>5 DEF EvictKey, Like
<1>9. Source(q)' = e  BY <1>6, <1>7 DEF IsEviction, Source
<1>10. lock'[e] = g.tag
  BY <1>1, <1>5, LockAt DEF Replaces, Like
<1>11. ~Locks(k)'  BY <1>2, <1>5 DEF Locks
<1>12. Source(EvictKey(k))' = e
  <2>1. Source(EvictKey(k))' = Source(q)'  BY <1>8 DEF Source
  <2> QED  BY <1>9, <2>1
<1>13. Tagged(k)'  BY <1>2, <1>10, <1>11, <1>12 DEF Tagged, Holds
<1>14. g.kind # "invalidate"
  BY <1>1, <1>5, FrameFacts DEF FrameOK, Like
<1>15. Source(k)' = Source(k)  BY <1>1, <1>2, <1>5 DEF Source, Like
<1>16. Current(k)'
  BY <1>1, <1>2, <1>5, <1>11, <1>14, <1>15 DEF Current, Like
<1> QED  BY <1>13, <1>16 DEF Still

\* The lower level accepts a block: the entry above does not change.
LEMMA AcceptsStill ==
  ASSUME IInv, Entries, NEW k \in InFlight, Accepts(k)
  PROVE  Still(k) /\ Source(k) \in Entry /\ blk'[Source(k)] = blk[Source(k)]
         /\ Locked(k) \in Entry /\ Locked(k) # Source(k) /\ Locked(k)[1] = Low[Source(k)[1]]
<1>1. PICK f : f = frames[k]  OBVIOUS
<1>2. PICK s : s = Source(k)  OBVIOUS
<1>3. PICK e : e = Locked(k)  OBVIOUS
<1>4. /\ f.kind = "evict" /\ f.ev = "action" /\ ~f.err /\ Goes(k, "reply") /\ Alone(k, k)
      /\ \/ blk' = blk
         \/ \E st : Writes(e, f.tag, st)
  BY <1>1, <1>3 DEF Accepts
<1>5. s \in Entry /\ e \in Entry
  BY <1>1, <1>2, <1>3, <1>4, FrameFacts DEF FrameOK, Locks
<1>6. s = <<f.from, f.src>> /\ e = <<f.at, f.way>>
  BY <1>1, <1>2, <1>3 DEF Source, Locked
<1>7. f.from \in Mod /\ f.at \in Mod /\ f.at = Low[f.from]
  <2>1. s[1] \in Mod /\ e[1] \in Mod  BY <1>5, EntryPair
  <2>2. f.at = Low[f.from]  BY <1>1, <1>4 DEF Entries, CalledFor
  <2> QED  BY <1>6, <2>1, <2>2
<1>8. f.at # f.from  BY <1>7, TreeAssumption
<1>9. e # s  BY <1>6, <1>8
<1>10. blk'[s] = blk[s]
  <2>1. CASE blk' = blk  BY <2>1
  <2>2. ASSUME NEW st, Writes(e, f.tag, st)  PROVE blk'[s] = blk[s]
    BY <1>5, <1>9, <2>2, WritesAt
  <2> QED  BY <1>4, <2>1, <2>2
<1>11. WithoutEntry(k)  BY <1>4 DEF WithoutEntry, Goes
<1>12. /\ Like(frames[k], frames'[k]) /\ frames'[k].reply = frames[k].reply
       /\ Current(k) /\ frames[k].kind = "evict"
  BY <1>1, <1>4 DEF Goes, Results, Entries
<1>13. Still(k)
  BY ONLY IInv, k \in InFlight, <1>2, <1>10, <1>11, <1>12, NoLockEvict
<1> QED  BY <1>2, <1>3, <1>5, <1>6, <1>7, <1>9, <1>10, <1>13

\* A read request has filled its entry.
LEMMA FillsStill ==
  ASSUME IInv, NEW k \in InFlight, Fills(k), Tagged(k), Current(k)
  PROVE  Still(k)
<1>1. PICK f : f = frames[k]  OBVIOUS
<1>2. PICK g : g = frames'[k]  OBVIOUS
<1>3. PICK e : e = Locked(k)  OBVIOUS
<1>4. /\ f.kind = "readUD" /\ f.ev = "miss" /\ Locks(k) /\ g.ev = "finish"
      /\ Like(f, g) /\ Placed(f, g) /\ Results(f, g) /\ lock' = lock
      /\ Writes(e, f.tag, IF f.shared THEN "S" ELSE "E")
  BY <1>1, <1>2, <1>3 DEF Fills, Goes
<1>5. e \in Entry  BY <1>3, <1>4, FrameFacts DEF FrameOK
<1>6. Locked(k)' = e  BY <1>1, <1>2, <1>3, <1>4 DEF Locked, Like, Placed
<1>7. f.state = "I"  BY <1>1, <1>4 DEF Current
<1>8. blk'[e] = [tag |-> f.tag, state |-> IF f.shared THEN "S" ELSE "E"]
  BY <1>4, <1>5, WritesAt
<1>9. lock[e] = f.tag  BY <1>1, <1>3, <1>4, <1>5 DEF Tagged, Holds
<1>10. Tagged(k)'  BY <1>2, <1>4, <1>6, <1>9 DEF Tagged, Holds, Like
<1>11. Current(k)'
  BY <1>2, <1>4, <1>6, <1>7, <1>8 DEF Current, Like, Placed, Results
<1> QED  BY <1>10, <1>11 DEF Still

\* What the frame that acts holds
LEMMA OwnFrame ==
  ASSUME IInv, IInv', Entries, NEW k \in InFlight, Idle(k), Does(k), NEW p, Shape(k, p),
         k \in InFlight'
  PROVE  Still(k)
<1>1. PICK f : f = frames[k]  OBVIOUS
<1>2. Tagged(k) /\ Current(k) /\ PlainFrame(k)  BY DEF Entries, Plain
<1>3. Like(frames[k], frames'[k])  BY DEF Shape
<1>4. f.kind = "invalidate" => f.ev = "finish"  BY <1>1, FrameFacts DEF FrameOK
<1>5. ASSUME Looks(k), f.ev = "lock", NoEntry  PROVE Still(k)
  <2>1. WithoutEntry(k)  BY <1>5 DEF Looks, WithoutEntry
  <2>2. CASE f.kind \notin {"evict", "invalidate"}
    BY <1>1, <1>3, <2>1, <2>2, NoLock DEF Like
  <2>3. CASE f.kind = "evict"
    <3>1. frames'[k].reply = frames[k].reply /\ frames[k].kind = "evict"
      BY <1>1, <1>5, <2>3 DEF Looks, AccessKind
    <3>2. PICK s : s = Source(k)  OBVIOUS
    <3>3. blk'[s] = blk[s]  BY <1>5 DEF NoEntry
    <3> QED
      BY ONLY IInv, k \in InFlight, <1>2, <1>3, <2>1, <3>1, <3>2, <3>3, NoLockEvict
  <2> QED  BY <1>4, <1>5, <2>2, <2>3
<1>6. ASSUME GivesUp(k)  PROVE Still(k)
  <2>1. Looks(k) /\ f.kind \in AccessKind  BY <1>1, <1>6 DEF GivesUp, Ended
  <2>2. WithoutEntry(k)  BY <2>1 DEF Looks, WithoutEntry
  <2> QED  BY <1>1, <1>3, <2>1, <2>2, NoLock DEF Like, AccessKind
<1>7. ASSUME NEW e \in Entry, Gets(k, e) \/ Replaces(k, e)  PROVE Still(k)
  BY <1>2, <1>7, GetsStill, ReplacesStill
<1>8. ASSUME SendsDown(k)  PROVE Still(k)
  <2>1. PICK g : g = frames'[k]  OBVIOUS
  <2>2. Source(k)' = Source(k)  BY <1>3 DEF Source, Like
  <2>3. ~Locks(k)' /\ g.ev # "evicting" /\ g.kind = "evict" /\ g.tag = f.tag /\ blk' = blk
    BY <1>1, <1>8, <2>1 DEF SendsDown, Locks, Like, NoEntry
  <2>4. blk[Source(k)].tag = f.tag /\ blk[Source(k)].state # "I"
    BY <1>1, <1>2, <1>8 DEF SendsDown, Current
  <2>5. g.reply = "ack_data" => blk[Source(k)].state \in {"M", "O"}
    BY <1>8, <2>1 DEF SendsDown
  <2> QED  BY <2>1, <2>2, <2>3, <2>4, <2>5 DEF Still, Tagged, Holds, Current
<1>9. ASSUME Refuses(k)  PROVE Still(k)
  <2>1. /\ WithoutEntry(k) /\ frames'[k].reply = frames[k].reply
        /\ frames[k].kind = "evict" /\ blk' = blk
    BY <1>9 DEF Refuses, Goes, Results, WithoutEntry, NoEntry
  <2>2. PICK s : s = Source(k)  OBVIOUS
  <2>3. blk'[s] = blk[s]  BY <2>1
  <2> QED  BY ONLY IInv, k \in InFlight, <1>2, <1>3, <2>1, <2>2, <2>3, NoLockEvict
<1>10. ASSUME NEW v, Goes(k, v) \/ \E N : Called(k, v, N),
              Locks(k), blk' = blk, lock' = lock, f.kind # "evict", f.ev # "finish",
              \/ v \notin {"evicting", "miss", "finish"}
              \/ v = "miss" /\ f.state = "I"
              \/ v = "finish" /\ (f.kind = "readUD" => f.state # "I")
       PROVE  Still(k)
  <2>1. Placed(frames[k], frames'[k]) /\ frames'[k].ev = v
    BY <1>10 DEF Goes, Called
  <2>2. \/ frames'[k].ev \notin {"evicting", "miss", "finish"}
        \/ frames'[k].ev = "miss" /\ frames[k].state = "I"
        \/ frames'[k].ev = "finish" /\ (frames[k].kind = "readUD" => frames[k].state # "I")
    BY <1>1, <1>10, <2>1
  <2> QED
    BY ONLY IInv, IInv', Shape(k, p), k \in InFlight, k \in InFlight', <1>1, <1>2, <1>3,
            <1>10, <2>1, <2>2, GoesOnStill
<1>11. ASSUME AsksOwner(k)  PROVE Still(k)
  <2>1. /\ Locks(k) /\ blk' = blk /\ lock' = lock
        /\ f.kind \in {"readUD", "readDU"} /\ f.ev = "action" /\ f.state # "I"
        /\ Goes(k, "finish") \/ \E N : Called(k, "finish", N)
    BY <1>1, <1>11 DEF AsksOwner, NoEntry
  <2> QED  BY <1>10, <2>1
<1>12. ASSUME AsksExclusive(k)  PROVE Still(k)
  <2>1. /\ Locks(k) /\ blk' = blk /\ lock' = lock
        /\ f.kind = "writeUD" /\ f.ev = "exclusive"
        /\ Goes(k, "finish") \/ \E N : Called(k, "finish", N)
    BY <1>1, <1>12 DEF AsksExclusive, CallsUp, NoEntry
  <2> QED  BY <1>10, <2>1
<1>13. ASSUME Takes(k)  PROVE Still(k)
  <2>1. /\ Locks(k) /\ blk' = blk /\ lock' = lock
        /\ f.kind \in {"writeUD", "writeDU"} /\ f.ev = "action"
        /\ \E N : Called(k, "exclusive", N)
    BY <1>1, <1>13 DEF Takes
  <2> QED  BY <1>10, <2>1
<1>14. ASSUME /\ f.kind \in {"load", "prefetch", "readUD"} /\ f.ev = "action"
              /\ f.state = "I" /\ CallsUp(k, "miss", ReadUp(k))
       PROVE  Still(k)
  <2>1. Locks(k) /\ blk' = blk /\ lock' = lock /\ \E N : Called(k, "miss", N)
    BY <1>14 DEF CallsUp, NoEntry
  <2> QED  BY <1>10, <1>14, <2>1
<1>15. ASSUME /\ f.kind = "store" /\ f.ev = "action" /\ Idle(k) /\ Locks(k)
              /\ \/ f.state \in {"M", "E"} /\ ~f.err
                    /\ Alone(k, k) /\ Goes(k, "unlock") /\ NoEntry
                 \/ CallsUp(k, "unlock", WriteUp(k))
       PROVE  Still(k)
  <2>1. /\ blk' = blk /\ lock' = lock
        /\ Goes(k, "unlock") \/ \E N : Called(k, "unlock", N)
    BY <1>15 DEF CallsUp, NoEntry
  <2> QED  BY <1>10, <1>15, <2>1
<1>16. ASSUME Goes(k, "reply"), f.kind \notin {"evict", "invalidate"}  PROVE Still(k)
  BY <1>1, <1>16, NoLock DEF Goes, Like, WithoutEntry
<1>17. ASSUME Passes(k) \/ GivesExclusive(k) \/ \E x : GivesBlock(k, x) \/ GivesData(k, x)
                                                       \/ Yields(k, x)
       PROVE  Still(k)
  <2>1. Goes(k, "reply") /\ f.kind \notin {"evict", "invalidate"}
    BY <1>1, <1>17 DEF Passes, GivesExclusive, GivesBlock, GivesData, Yields, ToldError, Told
  <2> QED  BY <1>16, <2>1
<1>18. ~(Settles(k) \/ InvalidationEnds(k) \/ Received(k)
         \/ \E x : EvictionFails(k, x) \/ EvictionEnds(k, x))
  BY DEF Settles, InvalidationEnds, Received, EvictionFails, EvictionEnds, Returns, Ended
<1> QED
  BY <1>1, <1>5, <1>6, <1>7, <1>8, <1>9, <1>11, <1>12, <1>13, <1>14, <1>15, <1>17, <1>18,
     AcceptsStill, FillsStill, <1>2 DEF Does

\* The frame that is told something goes on with what it has.
LEMMA ToldStill ==
  ASSUME IInv, IInv', Entries, NEW k \in InFlight, Idle(k), NEW q, Shape(k, q),
         NEW p, Told(k, p), p = frames[k].ret, Footprint(k),
         frames[k].kind \in {"readUD", "readDU", "writeUD", "writeDU"},
         frames[k].kind \in {"readDU", "writeDU"} => frames'[p].shared = frames[p].shared
  PROVE  Still(p)
<1>1. PICK f : f = frames[p]  OBVIOUS
<1>2. PICK g : g = frames'[p]  OBVIOUS
<1>3. /\ p \in InFlight /\ p # k /\ k \in InFlight' /\ p \in InFlight'
      /\ Like(f, g) /\ Placed(f, g) /\ g.ev = f.ev
  BY <1>1, <1>2 DEF Told, Alone
<1>4. /\ f.ev \in {"evicting", "invalid", "exclusive", "miss", "finish", "unlock",
                   "ncAction", "ncMiss"}
      /\ f.kind = "invalidate" => f.ev = "finish"
      /\ CallOK(k) /\ CalledFor(k)
      /\ Tagged(p) /\ Current(p)
  <2>1. frames[k].kind \notin AccessKind  BY DEF AccessKind
  <2> QED  BY <1>1, <1>3, <2>1, CallerWaits, FrameFacts DEF FrameOK, Entries
<1>5. GoesOnWith(p)
  BY <1>1, <1>2, <1>3, <1>4 DEF GoesOnWith, Locks, Like
<1>6. Steady(p)
  BY ONLY IInv, Entries, <1>3, Footprint(k), SteadyOthers DEF Entries
<1>7. f.kind # "evict"
  BY <1>1, <1>4 DEF CallOK, CalledFor, AccessKind
<1>8. g.ev = "miss" => g.state = "I"
  <2>1. f.ev = "miss" => Locks(p)  BY <1>1, <1>4 DEF Locks
  <2> QED  BY <1>1, <1>3, <1>4, <2>1 DEF Current, Placed
<1>9. f.kind = "readUD" /\ g.ev = "finish" => f.ev = "finish" /\ g.shared = f.shared
  <2>1. f.kind = "readUD" /\ f.ev = "finish" => frames[k].kind \in {"readDU", "writeDU"}
    BY <1>1, <1>4 DEF CallOK, CalledFor, AccessKind
  <2> QED  BY <1>1, <1>2, <1>3, <2>1
<1>10. Current(p)'
  BY ONLY IInv, <1>1, <1>2, <1>3, <1>4, <1>5, <1>6, <1>7, <1>8, <1>9, CurrentStays
<1> QED  BY <1>3, <1>4, <1>5, <1>6, <1>10, TaggedStays DEF Still

\* An eviction has failed for frame p.
LEMMA FailsStill ==
  ASSUME IInv, Entries, NEW k \in InFlight, NEW p, EvictionFails(k, p)
  PROVE  Still(p)
<1>1. /\ p \in InFlight /\ Like(frames[p], frames'[p]) /\ blk' = blk
      /\ frames'[p].reply = frames[p].reply /\ WithoutEntry(p)
      /\ frames[p].ev = "evicting" /\ Current(p)
  BY DEF EvictionFails, Returns, WithoutEntry, Entries
<1>2. frames[p].kind # "invalidate"  BY <1>1, FrameFacts DEF FrameOK
<1>3. CASE frames[p].kind = "evict"
  <2>1. PICK s : s = Source(p)  OBVIOUS
  <2>2. blk'[s] = blk[s]  BY <1>1
  <2> QED  BY ONLY IInv, <1>1, <1>3, <2>1, <2>2, NoLockEvict
<1>4. CASE frames[p].kind # "evict"
  BY <1>1, <1>2, <1>4, NoLock DEF Like
<1> QED  BY <1>3, <1>4

\* An eviction has ended for frame p.
LEMMA EndsStill ==
  ASSUME IInv, Entries, NEW k \in InFlight, NEW p, EvictionEnds(k, p)
  PROVE  Still(p)
<1>1. PICK f : f = frames[p]  OBVIOUS
<1>2. PICK g : g = frames'[p]  OBVIOUS
<1>3. PICK d : d = Source(k)  OBVIOUS
<1>4. PICK b : b = blk'[d]  OBVIOUS
<1>5. /\ p \in InFlight /\ d \in Entry /\ Holds(p, d) /\ Like(f, g) /\ f.ev = "evicting"
      /\ g.ev = "action" /\ ~g.err /\ g.reply = f.reply /\ g.state = b.state
      /\ Locked(p)' = d /\ lock' = lock /\ \A e \in Entry \ {d} : blk'[e] = blk[e]
      /\ b.state # "I" => b.tag = f.tag
  BY <1>1, <1>2, <1>3, <1>4 DEF EvictionEnds, Returns
<1>6. Tagged(p) /\ Current(p) /\ CalledFor(p)  BY <1>5 DEF Entries
<1>7. lock'[d] = g.tag  BY <1>1, <1>5, <1>6 DEF Tagged, Like
<1>8. Tagged(p)'  BY <1>2, <1>5, <1>7 DEF Tagged, Holds
<1>9. g.kind # "invalidate"  BY <1>1, <1>5, FrameFacts DEF FrameOK, Like
<1>10. g.kind = "evict" =>
         LET s == Source(p)' IN
         /\ blk'[s].tag = g.tag /\ blk'[s].state # "I"
         /\ g.reply = "ack_data" => blk'[s].state \in {"M", "O"}
  <2>1. SUFFICES ASSUME g.kind = "evict"
                 PROVE  LET s == Source(p)' IN
                        /\ blk'[s].tag = g.tag /\ blk'[s].state # "I"
                        /\ g.reply = "ack_data" => blk'[s].state \in {"M", "O"}
    OBVIOUS
  <2>2. PICK s : s = Source(p)  OBVIOUS
  <2>3. Source(p)' = s /\ f.kind = "evict"  BY <1>1, <1>2, <1>5, <2>1, <2>2 DEF Like, Source
  <2>4. PICK h : h = f.ret  OBVIOUS
  <2>5. h \in InFlight /\ Holds(h, s)  BY <1>1, <1>5, <2>2, <2>3, <2>4, CallerHolds
  <2>6. s \in Entry /\ s[1] = f.from /\ f.at = Low[f.from]
    <3>1. s \in Entry  BY <1>1, <1>5, <2>2, <2>3, FrameFacts DEF FrameOK
    <3>2. s = <<f.from, f.src>>  BY <1>1, <2>2 DEF Source
    <3> QED  BY <1>1, <1>6, <2>3, <3>1, <3>2 DEF CalledFor
  <2>7. h # p
    <3>1. SUFFICES ASSUME h = p  PROVE FALSE  OBVIOUS
    <3>2. f.from = f.at
      <4>1. CallOK(p)  BY <1>5, FrameFacts
      <4> QED  BY <1>1, <2>3, <2>4, <3>1, <4>1 DEF CallOK, AccessKind
    <3>3. f.from \in Mod  BY <2>6, EntryPair
    <3> QED  BY <2>6, <3>2, <3>3, TreeAssumption
  <2>8. s # d  BY <1>5, <2>5, <2>6, <2>7 DEF IInv, HeldOnce
  <2>9. blk'[s] = blk[s]  BY <1>5, <2>6, <2>8
  <2>10. /\ blk[s].tag = f.tag /\ blk[s].state # "I"
         /\ f.reply = "ack_data" => blk[s].state \in {"M", "O"}
    BY <1>1, <1>6, <2>2, <2>3 DEF Current
  <2> QED  BY <1>5, <2>3, <2>9, <2>10 DEF Like
<1>11. Current(p)'
  BY ONLY <1>2, <1>4, <1>5, <1>9, <1>10 DEF Current, Like
<1> QED  BY <1>8, <1>11 DEF Still

\* What the other frames hold
LEMMA OtherFrames ==
  ASSUME IInv, IInv', Entries, DownUpSucceeds, NEW k \in InFlight, Idle(k), Does(k),
         NEW p, Shape(k, p), NEW j \in InFlight, j # k
  PROVE  Still(j)
<1>1. Footprint(k)  BY FootprintOne
<1>2. Plain /\ Tagged(j) /\ Current(j)  BY DEF Entries
<1>3. ASSUME Same(j),
             \/ j # frames[k].ret
             \/ frames[k].kind # "evict"
             \/ k \in InFlight'
      PROVE  Still(j)
  <2>1. Steady(j)  BY ONLY IInv, <1>1, <1>2, <1>3, j # k, SteadyOthers
  <2> QED  BY ONLY IInv, IInv', Shape(k, p), <1>2, <1>3, <2>1, SameStays DEF Still
<1>4. ASSUME NEW x, EvictionFails(k, x) \/ EvictionEnds(k, x)  PROVE Still(j)
  <2>1. x = frames[k].ret /\ Others(k, x)  BY <1>4 DEF EvictionFails, EvictionEnds, Returns
  <2>2. CASE j = x  BY <1>4, <2>2, FailsStill, EndsStill
  <2>3. CASE j # x  BY <1>3, <2>1, <2>3 DEF Others
  <2> QED  BY <2>2, <2>3
<1>5. ASSUME NEW x, Told(k, x), x = frames[k].ret,
             frames[k].kind \in {"readUD", "readDU", "writeUD", "writeDU"},
             frames[k].kind \in {"readDU", "writeDU"} => frames'[x].shared = frames[x].shared
      PROVE  Still(j)
  <2>1. Others(k, x) /\ k \in InFlight' /\ x # k /\ x \in InFlight
    BY <1>5 DEF Told, Alone
  <2>2. CASE j # x  BY <1>3, <2>1, <2>2 DEF Others
  <2>3. CASE j = x
    BY ONLY IInv, IInv', Entries, k \in InFlight, Idle(k), Shape(k, p), <1>1, <1>5, <2>3,
            ToldStill
  <2> QED  BY <2>2, <2>3
<1>6. ASSUME Others(k, k), frames[k].kind # "evict" \/ k \in InFlight'  PROVE Still(j)
  BY <1>3, <1>6 DEF Others
<1>7. ASSUME NEW x, GivesBlock(k, x) \/ GivesData(k, x) \/ Yields(k, x)  PROVE Still(j)
  <2>1. /\ Told(k, x) /\ x = frames[k].ret
        /\ frames[k].kind \in {"readUD", "readDU", "writeUD", "writeDU"}
        /\ frames[k].kind \in {"readDU", "writeDU"} => frames'[x].shared = frames[x].shared
    BY <1>7 DEF GivesBlock, GivesData, Yields
  <2> QED  BY <1>5, <2>1
<1>8. ASSUME Passes(k)  PROVE Still(j)
  <2>1. PICK x : x = frames[k].ret  OBVIOUS
  <2>2. Told(k, x) /\ frames[k].kind \in {"readUD", "writeUD", "writeDU"} /\ frames[k].err
    BY <1>8, <2>1 DEF Passes, ToldError
  <2>3. frames[k].kind # "writeDU"  BY <2>2 DEF DownUpSucceeds
  <2> QED  BY <1>5, <2>1, <2>2, <2>3
<1>9. ASSUME Looks(k) \/ GivesUp(k) \/ Settles(k) \/ InvalidationEnds(k) \/ SendsDown(k)
             \/ Accepts(k) \/ Refuses(k) \/ Received(k) \/ AsksOwner(k) \/ Fills(k)
             \/ Takes(k) \/ AsksExclusive(k) \/ GivesExclusive(k)
             \/ (\E e \in Entry : Gets(k, e) \/ Replaces(k, e))
             \/ (\E v : Alone(k, k) /\ Goes(k, v))
             \/ (\E v, N : CallsUp(k, v, N))
      PROVE  Still(j)
  <2>1. Others(k, k)
    BY <1>9 DEF Looks, GivesUp, Settles, InvalidationEnds, SendsDown, Accepts, Refuses,
         Received, AsksOwner, Fills, Takes, AsksExclusive, GivesExclusive, Gets, Replaces,
         CallsUp, Called, Alone, Ended
  <2>2. frames[k].kind # "evict" \/ k \in InFlight'
    BY <1>9 DEF Looks, GivesUp, Settles, InvalidationEnds, SendsDown, Accepts, Refuses,
         Received, AsksOwner, Fills, Takes, AsksExclusive, GivesExclusive, Gets, Replaces,
         CallsUp, Called, Alone, AccessKind
  <2> QED  BY <1>6, <2>1, <2>2
<1> QED  BY <1>4, <1>7, <1>8, <1>9 DEF Does

\* A module has one entry for a block.
LEMMA OneEntryStep ==
  ASSUME IInv, Entries, NEW k \in InFlight, Footprint(k)
  PROVE  OneEntry'
<1>1. OneEntry  BY DEF Entries
<1>2. CASE NoEntry
  BY <1>1, <1>2 DEF NoEntry, OneEntry, Matches
<1>3. ASSUME NEW d \in Entry, AtMost(d),
             \A t \in Tag : Matches(d, t)' =>
               \/ Matches(d, t)
               \/ d \in Candidates(frames[k]) /\ t = frames[k].tag
      PROVE  OneEntry'
  <2>1. \A e \in Entry \ {d}, t \in Tag : Matches(e, t)' => Matches(e, t)
    BY <1>3 DEF AtMost, Matches
  <2>2. ASSUME NEW b \in Entry \ {d}, NEW t \in Tag, d[1] = b[1], Matches(d, t)', Matches(b, t)
        PROVE  FALSE
    <3>1. CASE Matches(d, t)  BY <1>1, <2>2, <3>1 DEF OneEntry
    <3>2. CASE d \in Candidates(frames[k]) /\ t = frames[k].tag
      <4>1. d[1] = frames[k].at  BY <3>2 DEF Candidates
      <4>2. b \in {e \in {x \in Entry : x[1] = frames[k].at} : Matches(e, frames[k].tag)}
        BY <2>2, <3>2, <4>1
      <4>3. Matches(d, t)  BY <3>2, <4>2 DEF Candidates
      <4> QED  BY <3>1, <4>3
    <3> QED  BY <1>3, <2>2, <3>1, <3>2
  <2> QED  BY <1>1, <2>1, <2>2 DEF OneEntry
<1> QED  BY <1>2, <1>3 DEF Footprint

\* No block becomes non-coherent.
LEMMA WritesPlain ==
  ASSUME IInv, Plain, NEW d \in Entry, NEW t, NEW s, Writes(d, t, s), s # "N", NEW e \in Entry
  PROVE  blk'[e].state # "N"
<1>1. blk'[d].state = s /\ \A x \in Entry \ {d} : blk'[x] = blk[x]  BY WritesAt
<1> QED  BY <1>1 DEF Plain

\* The sharers of an entry stay finitely many.
LEMMA DirPlain ==
  ASSUME IInv, Plain, NEW d \in Entry, NEW o, dir' = [dir EXCEPT ![d] = o],
         IsFiniteSet(o.sharers), NEW e \in Entry
  PROVE  IsFiniteSet(dir'[e].sharers)
<1>1. dir'[d] = o /\ \A x \in Entry \ {d} : dir'[x] = dir[x]  BY DirAt
<1> QED  BY <1>1 DEF Plain

\* The states that blocks get, and the sharers that directories get
LEMMA PlainStates ==
  ASSUME IInv, Entries, DownUpSucceeds, NEW k \in InFlight, Idle(k), Does(k), NEW e \in Entry
  PROVE  blk'[e].state # "N"
<1>1. PICK f : f = frames[k]  OBVIOUS
<1>2. Plain /\ Current(k) /\ PlainFrame(k)  BY DEF Entries, Plain
<1>3. Locks(k) => Locked(k) \in Entry  BY FrameFacts DEF FrameOK
<1>4. CASE blk' = blk  BY <1>2, <1>4 DEF Plain
<1>5. ASSUME NEW d \in Entry, NEW t, NEW s, Writes(d, t, s), s # "N"
      PROVE  blk'[e].state # "N"
  BY <1>2, <1>5, WritesPlain
<1>6. ASSUME NEW d \in Entry, Gets(k, d) \/ Replaces(k, d)  PROVE blk'[e].state # "N"
  BY <1>4, <1>5, <1>6 DEF Gets, Replaces
<1>7. ASSUME Settles(k)  PROVE blk'[e].state # "N"
  <2>1. PICK d \in Entry : d = Locked(k)  BY <1>3, <1>7 DEF Settles
  <2>2. \/ Writes(d, f.tag, IF f.shared THEN "S" ELSE "E")
        \/ Writes(d, f.tag, "M")
    BY <1>1, <1>7, <2>1 DEF Settles
  <2>3. (IF f.shared THEN "S" ELSE "E") # "N"  OBVIOUS
  <2> QED  BY <1>5, <2>2, <2>3
<1>8. ASSUME InvalidationEnds(k)  PROVE blk'[e].state # "N"
  <2>1. Locked(k) \in Entry  BY <1>8, FrameFacts DEF InvalidationEnds, FrameOK
  <2>2. f.state \in State \ {"N"} \/ f.reply # "ack_data"
    BY <1>1, <1>8 DEF DownUpSucceeds, State, InvalidationEnds
  <2>3. \/ blk' = blk
        \/ Writes(Locked(k), f.tag, "M")
    BY <1>1, <1>8, <2>2 DEF InvalidationEnds, DownUpSucceeds
  <2> QED  BY <1>4, <1>5, <2>1, <2>3
<1>9. ASSUME Accepts(k)  PROVE blk'[e].state # "N"
  <2>1. PICK d \in Entry : d = Locked(k)  BY <1>3, <1>9 DEF Accepts, Locks
  <2>2. f.state # "N" /\ ~f.nc
    <3>1. Locks(k) /\ f.kind = "evict"  BY <1>1, <1>9 DEF Accepts, Locks
    <3>2. blk[d].state = f.state  BY <1>1, <1>2, <2>1, <3>1 DEF Current
    <3> QED  BY <1>1, <1>2, <3>2 DEF Plain, PlainFrame
  <2>3. StateAfterData(f) # "N"  BY <2>2 DEF StateAfterData
  <2> QED  BY <1>1, <1>4, <1>5, <1>9, <2>1, <2>3 DEF Accepts
<1>10. ASSUME NEW p, EvictionFails(k, p) \/ EvictionEnds(k, p)  PROVE blk'[e].state # "N"
  BY <1>2, <1>10 DEF EvictionFails, EvictionEnds, Plain
<1>11. ASSUME Fills(k)  PROVE blk'[e].state # "N"
  <2>1. PICK d \in Entry : d = Locked(k)  BY <1>3, <1>11 DEF Fills
  <2>2. Writes(d, f.tag, IF f.shared THEN "S" ELSE "E")
    BY <1>1, <1>11, <2>1 DEF Fills
  <2>3. (IF f.shared THEN "S" ELSE "E") # "N"  OBVIOUS
  <2> QED  BY <1>5, <2>2, <2>3
<1>12. ASSUME NEW p, GivesData(k, p)  PROVE blk'[e].state # "N"
  <2>1. PICK d \in Entry : d = Locked(k)  BY <1>3, <1>12 DEF GivesData
  <2>2. Writes(d, f.tag, StateAfterRead(f)) /\ f.kind = "readDU"
    BY <1>1, <1>12, <2>1 DEF GivesData
  <2>3. f.reply \in {"none", "ack", "ack_data"}
    BY <1>1, <2>2, FrameFacts DEF FrameOK
  <2>4. StateAfterRead(f) # "N"
    BY <2>3 DEF StateAfterRead
  <2> QED  BY <1>5, <2>2, <2>4
<1>13. ASSUME GivesExclusive(k) \/ \E p : Yields(k, p)  PROVE blk'[e].state # "N"
  <2>1. PICK d \in Entry : d = Locked(k)  BY <1>3, <1>13 DEF GivesExclusive, Yields
  <2>2. Writes(d, f.tag, "E") \/ Writes(d, None, "I")
    BY <1>1, <1>13, <2>1 DEF GivesExclusive, Yields
  <2> QED  BY <1>5, <2>2
<1>14. ASSUME \/ Looks(k) /\ frames[k].ev = "lock" /\ NoEntry
              \/ GivesUp(k) \/ SendsDown(k) \/ Refuses(k) \/ Received(k) \/ Passes(k)
              \/ AsksOwner(k) \/ Takes(k) \/ AsksExclusive(k)
              \/ \E p : GivesBlock(k, p)
              \/ \E v, N : CallsUp(k, v, N)
              \/ NoEntry
       PROVE  blk'[e].state # "N"
  BY <1>4, <1>14 DEF NoEntry, GivesUp, SendsDown, Refuses, Received, Passes, AsksOwner,
     Takes, AsksExclusive, GivesBlock, CallsUp
<1> QED
  BY <1>6, <1>7, <1>8, <1>9, <1>10, <1>11, <1>12, <1>13, <1>14 DEF Does

\* They do in every event.
LEMMA FiniteSharers ==
  ASSUME IInv, Entries, NEW k \in InFlight, Idle(k), Does(k), NEW e \in Entry
  PROVE  IsFiniteSet(dir'[e].sharers)
<1>1. PICK f : f = frames[k]  OBVIOUS
<1>2. Plain  BY DEF Entries
<1>3. Locks(k) => Locked(k) \in Entry  BY FrameFacts DEF FrameOK
<1>4. CASE dir' = dir  BY <1>2, <1>4 DEF Plain
<1>5. ASSUME NEW d \in Entry, NEW o, dir' = [dir EXCEPT ![d] = o], IsFiniteSet(o.sharers)
      PROVE  IsFiniteSet(dir'[e].sharers)
  BY <1>2, <1>5, DirPlain
<1>6. ASSUME NEW d \in Entry, NEW except, ClearSharers(d, except)
      PROVE  IsFiniteSet(dir'[e].sharers)
  <2>0. PICK o : dir' = [dir EXCEPT ![d] = o] /\ o.sharers \subseteq dir[d].sharers
    BY <1>6, SharersCleared
  <2>1. \A x \in Entry \ {d} : dir'[x] = dir[x]  BY <2>0, DirAt
  <2>2. dir'[d].sharers \subseteq dir[d].sharers  BY <2>0, DirAt
  <2>3. IsFiniteSet(dir'[d].sharers)  BY <1>2, <2>2, FS_Subset DEF Plain
  <2> QED  BY <1>2, <2>1, <2>3 DEF Plain
<1>7. ASSUME NEW d \in Entry, Replaces(k, d)  PROVE IsFiniteSet(dir'[e].sharers)
  BY <1>6, <1>7 DEF Replaces
<1>8. ASSUME Takes(k)  PROVE IsFiniteSet(dir'[e].sharers)
  BY <1>3, <1>6, <1>8 DEF Takes
<1>9. ASSUME Accepts(k)  PROVE IsFiniteSet(dir'[e].sharers)
  <2>1. PICK d \in Entry : d = Locked(k)  BY <1>3, <1>9 DEF Accepts, Locks
  <2>2. PICK o : o = Forget(dir[d], f.from)  OBVIOUS
  <2>3. dir' = [dir EXCEPT ![d] = o]  BY <1>1, <1>9, <2>1, <2>2 DEF Accepts
  <2>4. o.sharers \subseteq dir[d].sharers  BY <2>2 DEF Forget
  <2>5. IsFiniteSet(o.sharers)  BY <1>2, <2>4, FS_Subset DEF Plain
  <2> QED  BY <1>5, <2>3, <2>5
<1>10. ASSUME NEW p, GivesBlock(k, p)  PROVE IsFiniteSet(dir'[e].sharers)
  <2>1. PICK d \in Entry : d = Locked(k)  BY <1>3, <1>10 DEF GivesBlock
  <2>2. PICK s : s = dir[d].sharers \cup {f.from}  OBVIOUS
  <2>3. \E w : dir' = [dir EXCEPT ![d] = [sharers |-> s, owner |-> w]]
    BY <1>1, <1>10, <2>1, <2>2 DEF GivesBlock
  <2>4. PICK w : dir' = [dir EXCEPT ![d] = [sharers |-> s, owner |-> w]]  BY <2>3
  <2>5. PICK o : o = [sharers |-> s, owner |-> w]  OBVIOUS
  <2>6. IsFiniteSet(o.sharers)  BY <1>2, <2>2, <2>5, FS_AddElement DEF Plain
  <2>7. dir' = [dir EXCEPT ![d] = o]  BY <2>4, <2>5
  <2> QED  BY <1>5, <2>6, <2>7
<1>11. ASSUME NEW p, GivesData(k, p)  PROVE IsFiniteSet(dir'[e].sharers)
  <2>1. PICK d \in Entry : d = Locked(k)  BY <1>3, <1>11 DEF GivesData
  <2>2. \E o : dir' = [dir EXCEPT ![d].owner = o]
    BY <1>1, <1>11, <2>1 DEF GivesData
  <2>3. PICK o : dir' = [dir EXCEPT ![d].owner = o]  BY <2>2
  <2>4. /\ dir'[d].sharers = dir[d].sharers
        /\ \A x \in Entry \ {d} : dir'[x] = dir[x]
    BY <2>3, OwnerAt
  <2> QED  BY <1>2, <2>4 DEF Plain
<1>12. ASSUME GivesExclusive(k)  PROVE IsFiniteSet(dir'[e].sharers)
  <2>1. PICK d \in Entry : d = Locked(k)  BY <1>3, <1>12 DEF GivesExclusive
  <2>2. PICK o : o = [owner |-> f.from, sharers |-> {f.from}]  OBVIOUS
  <2>3. dir' = [dir EXCEPT ![d] = o]  BY <1>1, <1>12, <2>1, <2>2 DEF GivesExclusive
  <2>4. IsFiniteSet(o.sharers)  BY <2>2, FS_Singleton
  <2> QED  BY <1>5, <2>3, <2>4
<1>13. ASSUME \/ Looks(k) /\ frames[k].ev = "lock" /\ NoEntry
              \/ GivesUp(k) \/ SendsDown(k) \/ Refuses(k) \/ Received(k) \/ Passes(k)
              \/ AsksOwner(k) \/ AsksExclusive(k) \/ Settles(k) \/ InvalidationEnds(k)
              \/ Fills(k) \/ (\E d \in Entry : Gets(k, d))
              \/ \E p : Yields(k, p) \/ EvictionFails(k, p) \/ EvictionEnds(k, p)
              \/ \E v, N : CallsUp(k, v, N)
              \/ NoEntry
       PROVE  IsFiniteSet(dir'[e].sharers)
  BY <1>4, <1>13 DEF NoEntry, GivesUp, SendsDown, Refuses, Received, Passes, AsksOwner,
     AsksExclusive, Settles, InvalidationEnds, Fills, Gets, Yields, EvictionFails,
     EvictionEnds, Returns, CallsUp
<1> QED
  BY <1>7, <1>8, <1>9, <1>10, <1>11, <1>12, <1>13 DEF Does

\* One step
LEMMA EntriesStep ==
  ASSUME IInv, IInv', Entries, DownUpSucceeds, "nc" \notin Ops, [Next]_vars
  PROVE  Entries'
<1>1. Plain  BY DEF Entries
<1>2. CASE UNCHANGED vars
  BY <1>2 DEF vars, Entries, Plain, PlainFrame, OneEntry, Matches, CalledFor, Tagged, Holds,
     Current, Locks, Locked, Source, EvictKey, InFlight
<1>3. ASSUME NEW k, Starts(k)  PROVE Entries'
  <2>1. Shape(k, k) /\ k \notin InFlight /\ NoEntry /\ InFlight' = InFlight \cup {k}
    BY <1>3, StartShape DEF Starts
  <2>2. ASSUME NEW j \in InFlight'  PROVE PlainFrame(j)' /\ CalledFor(j)'
    <3>1. Steps(k, k)  BY <2>1 DEF Steps
    <3> QED  BY <1>1, <2>1, <2>2, <3>1, PlainFrames, CalledForStep DEF Entries
  <2>3. ASSUME NEW j \in InFlight'  PROVE Still(j)
    <3>1. CASE j = k
      BY <1>3, <3>1 DEF Starts, Still, Tagged, Holds, Current, Locks, AccessKind
    <3>2. CASE j # k
      <4>1. Same(j) /\ Tagged(j) /\ Current(j) /\ j \in InFlight
        BY <1>3, <2>1, <3>2 DEF Starts, Others, Entries
      <4>2. Steady(j)  BY <2>1 DEF Steady, NoEntry
      <4> QED  BY ONLY IInv, IInv', <2>1, <4>1, <4>2, SameStays DEF Still
    <3> QED  BY <3>1, <3>2
  <2>4. Plain' /\ OneEntry'
    <3>1. OneEntry'  BY <2>1 DEF Entries, NoEntry, OneEntry, Matches
    <3> QED  BY <1>1, <2>1, <2>2, <3>1 DEF Plain, NoEntry
  <2> QED  BY <2>2, <2>3, <2>4 DEF Entries, Still
<1>4. ASSUME NEW k \in InFlight, Event(k)  PROVE Entries'
  <2>1. Idle(k) /\ Does(k)  BY <1>1, <1>4, Effects
  <2>2. PICK p : Shape(k, p)  BY <2>1, DoesShape
  <2>3. ASSUME NEW j \in InFlight'  PROVE PlainFrame(j)' /\ CalledFor(j)'
    <3>1. Steps(k, p)  BY <2>1, <2>2 DEF Steps
    <3> QED  BY <1>1, <2>2, <2>3, <3>1, PlainFrames, CalledForStep DEF Entries
  <2>4. ASSUME NEW j \in InFlight'  PROVE Still(j)
    <3>1. CASE j \notin InFlight  BY <2>1, <2>2, <2>4, <3>1, NewFrames
    <3>2. CASE j = k  BY <2>1, <2>2, <2>4, <3>2, OwnFrame
    <3>3. CASE j \in InFlight /\ j # k  BY <2>1, <2>2, <3>3, OtherFrames
    <3> QED  BY <3>1, <3>2, <3>3
  <2>5. OneEntry'  BY <2>1, FootprintOne, OneEntryStep
  <2>6. Plain'
    <3>1. \A e \in Entry : blk'[e].state # "N" /\ IsFiniteSet(dir'[e].sharers)
      BY <2>1, PlainStates, FiniteSharers
    <3> QED  BY <2>3, <3>1 DEF Plain
  <2> QED  BY <2>3, <2>4, <2>5, <2>6 DEF Entries, Still
<1> QED
  <2>1. CASE \E a \in Access, op \in Ops, t \in Tag : Start(a, op, t)
    BY <1>3, <2>1, StartEffect
  <2> QED  BY <1>2, <1>4, <2>1 DEF Next

\* At the beginning
LEMMA EntriesInit ==
  ASSUME Init  PROVE Entries
<1>1. InFlight = {}  BY DEF Init, InFlight
<1>2. \A e \in Entry : blk[e] = [tag |-> None, state |-> "I"] /\ lock[e] = None
                       /\ dir[e] = [owner |-> None, sharers |-> {}]
  BY DEF Init
<1>3. \A e \in Entry, t \in Tag : ~Matches(e, t)
  BY <1>2, TreeAssumption DEF Matches
<1> QED  BY <1>1, <1>2, <1>3, FS_EmptySet DEF Entries, Plain, OneEntry
=============================================================================
