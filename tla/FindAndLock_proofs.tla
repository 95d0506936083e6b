------------------------- MODULE FindAndLock_proofs --------------------------
(***************************************************************************)
(* FindAndLock for every number of accesses, blocks, ways and ports and    *)
(* every replacement policy: the replacement list of a set stays whole,    *)
(* directory entries are held by one access at a time, ports are neither   *)
(* lost nor shared, a block is never brought into two ways, what an access *)
(* remembers of its entry stays true, and no waiter is forgotten.          *)
(***************************************************************************)
EXTENDS FindAndLock, Integers, FiniteSetTheorems, TLAPS

-----------------------------------------------------------------------------
(***************************************************************************)
(* The replacement list of a set stays whole: every operation of Cache     *)
(* keeps it a ranking of the ways without gap, so that the set always has  *)
(* a tail to evict.                                                        *)
(***************************************************************************)
\* cache_update_waylist never loses or duplicates a block of the set: after a
\* block moved to the head, every rank is taken again.
THEOREM MoveToHeadKeepsOrder ==
  ASSUME NEW ord, IsOrder(ord), NEW w \in Way
  PROVE  IsOrder(MoveToHead(ord, w))
<1> DEFINE new == MoveToHead(ord, w)
<1>1. Assoc \in Nat \ {0}  BY AssocAssumption
<1>2. ord \in [Way -> 0 .. Assoc - 1]  BY DEF IsOrder
<1>3. new \in [Way -> 0 .. Assoc - 1]
  <2>1. SUFFICES ASSUME NEW v \in Way
                 PROVE  new[v] \in 0 .. Assoc - 1
    BY DEF MoveToHead
  <2>2. ord[v] \in 0 .. Assoc - 1 /\ ord[w] \in 0 .. Assoc - 1  BY <1>2
  <2> QED  BY <1>1, <2>2 DEF MoveToHead
<1>4. ASSUME NEW r \in 0 .. Assoc - 1
      PROVE  \E v \in Way : new[v] = r
  <2>1. CASE r = 0
    BY <2>1 DEF MoveToHead
  <2>2. CASE r # 0 /\ r <= ord[w]
    <3>1. r - 1 \in 0 .. Assoc - 1  BY <1>1, <2>2
    <3>2. PICK v \in Way : ord[v] = r - 1  BY <3>1 DEF IsOrder
    <3>3. ord[w] \in Int  BY <1>1, <1>2
    <3>4. v # w /\ ord[v] < ord[w]  BY <2>2, <3>2, <3>3
    <3>5. new[v] = r  BY <3>2, <3>4 DEF MoveToHead
    <3> QED  BY <3>5
  <2>3. CASE r > ord[w]
    <3>1. PICK v \in Way : ord[v] = r  BY DEF IsOrder
    <3>2. ord[w] \in Int  BY <1>1, <1>2
    <3>3. v # w /\ ~(ord[v] < ord[w])  BY <2>3, <3>1, <3>2
    <3>4. new[v] = r  BY <3>1, <3>3 DEF MoveToHead
    <3> QED  BY <3>4
  <2>4. ord[w] \in Int  BY <1>1, <1>2
  <2> QED  BY <2>1, <2>2, <2>3, <2>4
<1> QED  BY <1>3, <1>4 DEF IsOrder

LEMMA TailIsWay ==
  ASSUME NEW ord, IsOrder(ord)
  PROVE  TailOf(ord) \in Way
<1>1. Assoc - 1 \in 0 .. Assoc - 1  BY AssocAssumption
<1>2. \E w \in Way : ord[w] = Assoc - 1  BY <1>1 DEF IsOrder
<1> QED  BY <1>2 DEF TailOf

\* cache_replace_block returns a way of the set.
LEMMA VictimIsWay ==
  ASSUME NEW ord, IsOrder(ord)
  PROVE  Victims(ord) \subseteq Way
BY TailIsWay DEF Victims

LEMMA InitialOrderIsOrder == IsOrder(InitialOrder)
BY AssocAssumption DEF IsOrder, InitialOrder, Way

LEMMA ReplaceKeepsOrder ==
  ASSUME NEW ord, IsOrder(ord)
  PROVE  IsOrder(OrderAfterReplace(ord))
BY TailIsWay, MoveToHeadKeepsOrder DEF OrderAfterReplace

LEMMA AccessKeepsOrder ==
  ASSUME NEW ord, IsOrder(ord), NEW w \in Way, NEW isValid
  PROVE  IsOrder(OrderAfterAccess(ord, w, isValid))
BY MoveToHeadKeepsOrder DEF OrderAfterAccess

LEMMA SetKeepsOrder ==
  ASSUME NEW ord, IsOrder(ord), NEW w \in Way, NEW newTag
  PROVE  IsOrder(OrderAfterSet(ord, w, newTag))
BY MoveToHeadKeepsOrder DEF OrderAfterSet

-----------------------------------------------------------------------------
(***************************************************************************)
(* The entries, ports and blocks of a set.                                 *)
(***************************************************************************)
Holding == {"action", "evict", "finish", "locked"}

\* Which of the fields of a frame have been assigned.
FramesAssigned ==
  \A s \in Stack :
    /\ pc[s] \in Holding \cup {"lockWait"} => way[s] \in Way
    /\ pc[s] # "idle" => tag[s] \in Tag

\* The queue of an entry has the accesses that wait for it, each once.
EntryQueues ==
  \A w \in Way :
    /\ \A i \in 1 .. Len(lockQueue[w]) :
         pc[lockQueue[w][i]] = "lockWait" /\ way[lockQueue[w][i]] = w
    /\ \A i, j \in 1 .. Len(lockQueue[w]) :
         lockQueue[w][i] = lockQueue[w][j] => i = j

\* The port waiting list has the accesses that wait for a port, each once.
PortQueueOK ==
  /\ \A i \in 1 .. Len(portQueue) : pc[portQueue[i]] = "portWait"
  /\ \A i, j \in 1 .. Len(portQueue) : portQueue[i] = portQueue[j] => i = j

PortInv == PortsConsistent /\ NoIdlePort /\ PortQueueOK

EntryInv == EntryMutex /\ EntryQueues /\ FramesAssigned

IInv ==
  /\ TypeOK
  /\ PortInv
  /\ EntryInv
  /\ HeldStateCurrent
  /\ UniqueCopy

-----------------------------------------------------------------------------
(***************************************************************************)
(* Ports.                                                                  *)
(***************************************************************************)
LEMMA PortFinite == IsFiniteSet(Port) /\ Cardinality(Port) = NumPorts
<1>1. NumPorts \in Nat  BY PortsAssumption
<1> QED  BY <1>1, FS_Interval DEF Port

\* mod_unlock_port keeps the books of the ports, whether the port becomes free
\* or passes to a waiting access.
LEMMA UnlockPortKeepsPorts ==
  ASSUME TypeOK, PortInv,
         NEW s \in Stack, pc[s] \in {"port", "action"},
         NEW next \in Place \ {"port", "action", "portWait"},
         UnlockPort(s, next)
  PROVE  /\ ports' \in [Port -> Stack \cup {None}]
         /\ numLocked' \in 0 .. NumPorts
         /\ portQueue' \in Seq(Stack)
         /\ port' \in [Stack -> Port \cup {None}]
         /\ pc' \in [Stack -> Place]
         /\ pc'[s] = next
         /\ \A u \in Stack \ {s} :
              pc'[u] = pc[u] \/ (pc[u] = "portWait" /\ pc'[u] = "port")
         /\ PortInv'
<1> USE NoneAssumption
<1> DEFINE Taken == {p \in Port : ports[p] # None}
<1>1. /\ port[s] \in Port
      /\ ports[port[s]] = s
      /\ s # None
  BY DEF PortInv, PortsConsistent
<1>2. IsFiniteSet(Taken)  BY PortFinite, FS_Subset
<1>3. numLocked = Cardinality(Taken) /\ port[s] \in Taken
  BY <1>1 DEF PortInv, PortsConsistent
<1>4. numLocked \in 1 .. NumPorts
  <2>1. Cardinality(Taken) # 0  BY <1>2, <1>3, FS_EmptySet
  <2> QED  BY <1>3, <2>1, PortsAssumption DEF TypeOK
<1>5. CASE portQueue = <<>>
  <2>1. /\ ports' = [ports EXCEPT ![port[s]] = None]
        /\ numLocked' = numLocked - 1
        /\ portQueue' = portQueue
        /\ port' = [port EXCEPT ![s] = None]
        /\ pc' = [pc EXCEPT ![s] = next]
    BY <1>5 DEF UnlockPort
  <2>2. {p \in Port : ports'[p] # None} = Taken \ {port[s]}
    BY <1>1, <2>1 DEF TypeOK
  <2>3. Cardinality(Taken \ {port[s]}) = Cardinality(Taken) - 1
    BY <1>2, <1>3, FS_RemoveElement
  <2>4. numLocked' = Cardinality({p \in Port : ports'[p] # None})
    BY <1>3, <2>1, <2>2, <2>3
  <2>5. \A p \in Port : ports'[p] # None => port'[ports'[p]] = p
    BY <1>1, <2>1 DEF PortInv, PortsConsistent, TypeOK
  <2>6. \A u \in Stack : IF pc'[u] \in {"port", "action"}
                         THEN port'[u] \in Port /\ ports'[port'[u]] = u
                         ELSE port'[u] = None
    BY <1>1, <2>1 DEF PortInv, PortsConsistent, TypeOK
  <2>7. PortsConsistent'  BY <2>4, <2>5, <2>6 DEF PortsConsistent
  <2>8. NoIdlePort' /\ PortQueueOK'
    BY <1>5, <2>1 DEF NoIdlePort, PortQueueOK
  <2>9. numLocked' \in 0 .. NumPorts  BY <1>4, <2>1, PortsAssumption
  <2> QED
    BY <1>1, <2>1, <2>7, <2>8, <2>9 DEF TypeOK, PortInv
<1>6. CASE portQueue # <<>>
  <2> DEFINE u == Head(portQueue)
  <2>1. /\ ports' = [ports EXCEPT ![port[s]] = u]
        /\ numLocked' = numLocked
        /\ portQueue' = Tail(portQueue)
        /\ port' = [port EXCEPT ![s] = None, ![u] = port[s]]
        /\ pc' = [pc EXCEPT ![s] = next, ![u] = "port"]
    BY <1>6 DEF UnlockPort
  <2>2. /\ portQueue \in Seq(Stack)
        /\ Len(portQueue) \in Nat
        /\ Len(portQueue) >= 1
        /\ u = portQueue[1]
    BY <1>6 DEF TypeOK
  <2>3. u \in Stack /\ pc[u] = "portWait" /\ u # s
    BY <2>2 DEF TypeOK, PortInv, PortQueueOK
  <2>4. port[u] = None /\ u # None
    BY <2>3 DEF PortInv, PortsConsistent
  <2>5. /\ Tail(portQueue) \in Seq(Stack)
        /\ Len(Tail(portQueue)) = Len(portQueue) - 1
        /\ \A i \in 1 .. Len(Tail(portQueue)) :
             Tail(portQueue)[i] = portQueue[i + 1]
    BY <1>6, <2>2
  <2>6. {p \in Port : ports'[p] # None} = Taken
    BY <1>1, <2>1, <2>4 DEF TypeOK
  <2>7. numLocked' = Cardinality({p \in Port : ports'[p] # None})
    BY <1>3, <2>1, <2>6
  <2>8. ASSUME NEW p \in Port, ports'[p] # None
        PROVE  port'[ports'[p]] = p
    <3>1. CASE p = port[s]
      BY <1>1, <2>1, <2>3, <3>1 DEF TypeOK
    <3>2. CASE p # port[s]
      <4>1. ports'[p] = ports[p] /\ ports[p] \in Stack
        BY <2>1, <2>8, <3>2 DEF TypeOK
      <4>2. port[ports[p]] = p  BY <2>8, <4>1 DEF PortInv, PortsConsistent
      <4>3. None \notin Port  BY DEF Port
      <4>4. ports[p] # s /\ ports[p] # u
        BY <1>1, <2>4, <3>2, <4>2, <4>3
      <4> QED  BY <2>1, <4>1, <4>2, <4>4 DEF TypeOK
    <3> QED  BY <3>1, <3>2
  <2>9. \A v \in Stack : IF pc'[v] \in {"port", "action"}
                         THEN port'[v] \in Port /\ ports'[port'[v]] = v
                         ELSE port'[v] = None
    BY <1>1, <2>1, <2>3, <2>4, ZenonT(40) DEF PortInv, PortsConsistent, TypeOK
  <2>10. PortsConsistent'  BY <2>7, <2>8, <2>9 DEF PortsConsistent
  <2>11. NoIdlePort'
    BY <1>6, <2>1 DEF PortInv, NoIdlePort
  <2>12. PortQueueOK'
    <3>1. ASSUME NEW i \in 1 .. Len(portQueue')
          PROVE  /\ i + 1 \in 1 .. Len(portQueue)
                 /\ portQueue'[i] = portQueue[i + 1]
      BY <2>1, <2>2, <2>5
    <3>2. ASSUME NEW i \in 1 .. Len(portQueue')
          PROVE  pc'[portQueue'[i]] = "portWait"
      <4>1. portQueue[i + 1] # portQueue[1] /\ portQueue[i + 1] \in Stack
        BY <2>2, <3>1 DEF PortInv, PortQueueOK
      <4>2. pc[portQueue[i + 1]] = "portWait"
        BY <3>1 DEF PortInv, PortQueueOK
      <4> QED  BY <2>1, <2>2, <3>1, <4>1, <4>2 DEF TypeOK
    <3>3. ASSUME NEW i \in 1 .. Len(portQueue'), NEW j \in 1 .. Len(portQueue'),
                 portQueue'[i] = portQueue'[j]
          PROVE  i = j
      <4>1. i + 1 = j + 1  BY <3>1, <3>3 DEF PortInv, PortQueueOK
      <4> QED  BY <4>1
    <3> QED  BY <3>2, <3>3 DEF PortQueueOK
  <2> QED
    BY <1>1, <1>4, <2>1, <2>3, <2>5, <2>10, <2>11, <2>12
    DEF TypeOK, PortInv, Place
<1> QED  BY <1>5, <1>6

\* A step that neither gives nor takes a port keeps the books.
LEMMA PortFrame ==
  ASSUME TypeOK, PortInv, UNCHANGED <<portVars, port>>,
         \A u \in Stack :
           /\ pc'[u] \in {"port", "action"} <=> pc[u] \in {"port", "action"}
           /\ pc[u] = "portWait" => pc'[u] = "portWait"
  PROVE  PortInv'
<1>1. PortsConsistent' /\ NoIdlePort'
  BY DEF PortInv, PortsConsistent, NoIdlePort, portVars
<1>2. \A i \in 1 .. Len(portQueue) : portQueue[i] \in Stack
  BY DEF TypeOK
<1>3. PortQueueOK'  BY <1>2 DEF PortInv, PortQueueOK, portVars
<1> QED  BY <1>1, <1>3 DEF PortInv

-----------------------------------------------------------------------------
(***************************************************************************)
(* Entries.                                                                *)
(***************************************************************************)

\* dir_entry_unlock frees the entry it is called for and no other, and leaves
\* the queues in order.
LEMMA UnlockEntryKeepsEntries ==
  ASSUME TypeOK, EntryInv,
         NEW s \in Stack, pc[s] \in Holding,
         NEW next \in {"idle", "find"},
         UnlockEntry(s, way[s], next), UNCHANGED <<way, tag>>
  PROVE  /\ lock' = [lock EXCEPT ![way[s]] = FALSE]
         /\ lockQueue' \in [Way -> Seq(Stack)]
         /\ pc' \in [Stack -> Place]
         /\ pc'[s] = next
         /\ \A u \in Stack \ {s} :
              pc'[u] = pc[u] \/ (pc[u] = "lockWait" /\ pc'[u] = "find")
         /\ EntryInv'
<1> DEFINE w == way[s]
           q == lockQueue[w]
<1>1. w \in Way /\ HoldsEntry(s, w)
  BY DEF EntryInv, FramesAssigned, HoldsEntry, Holding
<1>2. lock' = [lock EXCEPT ![w] = FALSE]  BY DEF UnlockEntry
<1>3. q \in Seq(Stack)  BY <1>1 DEF TypeOK
<1>4. CASE q = <<>>
  <2>1. lockQueue' = lockQueue /\ pc' = [pc EXCEPT ![s] = next]
    BY <1>4 DEF UnlockEntry
  <2>2. EntryQueues'
    <3>1. ASSUME NEW v \in Way, NEW i \in 1 .. Len(lockQueue[v])
          PROVE  lockQueue[v][i] \in Stack /\ lockQueue[v][i] # s
      BY <3>1 DEF TypeOK, EntryInv, EntryQueues, Holding
    <3> QED  BY <2>1, <3>1 DEF TypeOK, EntryInv, EntryQueues
  <2>3. FramesAssigned'
    BY <2>1 DEF TypeOK, EntryInv, FramesAssigned, Holding
  <2>4. EntryMutex'
    BY <1>1, <1>2, <2>1
    DEF TypeOK, EntryInv, EntryMutex, HoldsEntry
  <2> QED
    BY <1>2, <2>1, <2>2, <2>3, <2>4 DEF TypeOK, EntryInv, Place
<1>5. CASE q # <<>>
  <2> DEFINE h == Head(q)
  <2>1. /\ lockQueue' = [lockQueue EXCEPT ![w] = Tail(@)]
        /\ pc' = [pc EXCEPT ![s] = next, ![h] = "find"]
    BY <1>5 DEF UnlockEntry
  <2>2. Len(q) \in Nat /\ Len(q) >= 1 /\ h = q[1]
    BY <1>3, <1>5
  <2>3. h \in Stack /\ pc[h] = "lockWait" /\ h # s
    BY <1>1, <1>3, <2>2 DEF EntryInv, EntryQueues, Holding
  <2>4. /\ Tail(q) \in Seq(Stack)
        /\ Len(Tail(q)) = Len(q) - 1
        /\ \A i \in 1 .. Len(Tail(q)) : Tail(q)[i] = q[i + 1]
    BY <1>3, <1>5
  <2>5. lockQueue'[w] = Tail(q)  BY <1>1, <2>1 DEF TypeOK
  <2>6. ASSUME NEW v \in Way
        PROVE  /\ \A i \in 1 .. Len(lockQueue'[v]) :
                    /\ pc'[lockQueue'[v][i]] = "lockWait"
                    /\ way'[lockQueue'[v][i]] = v
               /\ \A i, j \in 1 .. Len(lockQueue'[v]) :
                    lockQueue'[v][i] = lockQueue'[v][j] => i = j
    <3>1. CASE v = w
      <4>1. ASSUME NEW i \in 1 .. Len(lockQueue'[w])
            PROVE  /\ i + 1 \in 1 .. Len(q)
                   /\ lockQueue'[w][i] = q[i + 1]
                   /\ q[i + 1] \in Stack
                   /\ q[i + 1] # q[1]
        <5>1. i + 1 \in 1 .. Len(q) /\ lockQueue'[w][i] = q[i + 1] /\ i + 1 # 1
          BY <2>2, <2>4, <2>5
        <5> QED  BY <1>1, <1>3, <2>2, <5>1 DEF EntryInv, EntryQueues
      <4>2. ASSUME NEW i \in 1 .. Len(lockQueue'[w])
            PROVE  pc'[lockQueue'[w][i]] = "lockWait" /\ way'[lockQueue'[w][i]] = w
        <5>1. pc[q[i + 1]] = "lockWait" /\ way[q[i + 1]] = w
          BY <1>1, <4>1 DEF EntryInv, EntryQueues
        <5>2. q[i + 1] # s  BY <5>1 DEF Holding
        <5> QED  BY <2>1, <2>2, <4>1, <5>1, <5>2 DEF TypeOK
      <4>3. ASSUME NEW i \in 1 .. Len(lockQueue'[w]),
                   NEW j \in 1 .. Len(lockQueue'[w]),
                   lockQueue'[w][i] = lockQueue'[w][j]
            PROVE  i = j
        <5>1. /\ i + 1 \in 1 .. Len(q) /\ j + 1 \in 1 .. Len(q)
              /\ q[i + 1] = q[j + 1]
          BY <4>1, <4>3
        <5>2. i + 1 = j + 1  BY <1>1, <5>1 DEF EntryInv, EntryQueues
        <5> QED  BY <5>2
      <4> QED  BY <3>1, <4>2, <4>3
    <3>2. CASE v # w
      <4>1. lockQueue'[v] = lockQueue[v]  BY <2>1, <3>2 DEF TypeOK
      <4>2. ASSUME NEW i \in 1 .. Len(lockQueue[v])
            PROVE  /\ lockQueue[v][i] \in Stack
                   /\ pc[lockQueue[v][i]] = "lockWait"
                   /\ way[lockQueue[v][i]] = v
                   /\ lockQueue[v][i] # s
                   /\ lockQueue[v][i] # h
        <5>1. way[h] = w  BY <1>1, <2>2 DEF EntryInv, EntryQueues
        <5> QED  BY <3>2, <5>1 DEF TypeOK, EntryInv, EntryQueues, Holding
      <4>3. \A i \in 1 .. Len(lockQueue[v]) :
              pc'[lockQueue[v][i]] = "lockWait" /\ way'[lockQueue[v][i]] = v
        BY <2>1, <4>2 DEF TypeOK
      <4> QED  BY <4>1, <4>3 DEF EntryInv, EntryQueues
    <3> QED  BY <3>1, <3>2
  <2>7. EntryQueues'  BY <2>6 DEF EntryQueues
  <2>8. FramesAssigned'
    BY <2>1, <2>3 DEF TypeOK, EntryInv, FramesAssigned, Holding
  <2>9. EntryMutex'
    <3>1. \A u \in Stack, v \in Way :
            HoldsEntry(u, v)' <=> HoldsEntry(u, v) /\ u # s
      BY <2>1, <2>3 DEF TypeOK, HoldsEntry
    <3>2. \A v \in Way : v # w => ~HoldsEntry(s, v)
      BY DEF HoldsEntry
    <3>3. \A u \in Stack : HoldsEntry(u, w) => u = s
      BY <1>1 DEF EntryInv, EntryMutex
    <3>4. \A v \in Way : lock'[v] <=> lock[v] /\ v # w
      BY <1>1, <1>2 DEF TypeOK
    <3> QED  BY <3>1, <3>2, <3>3, <3>4 DEF EntryInv, EntryMutex
  <2>10. lockQueue' \in [Way -> Seq(Stack)]
    BY <1>1, <2>1, <2>4 DEF TypeOK
  <2> QED
    BY <1>2, <2>1, <2>3, <2>7, <2>8, <2>9, <2>10 DEF TypeOK, EntryInv, Place
<1> QED  BY <1>4, <1>5

\* A step after which the same accesses hold, and wait for, the same entries.
LEMMA EntryFrame ==
  ASSUME TypeOK, EntryInv, UNCHANGED lockVars,
         \A u \in Stack :
           /\ pc'[u] \in Holding <=> pc[u] \in Holding
           /\ pc[u] = "lockWait" <=> pc'[u] = "lockWait"
           /\ pc[u] \in Holding \cup {"lockWait"} => way'[u] = way[u]
           /\ pc'[u] # "idle" => tag'[u] \in Tag
  PROVE  EntryInv'
<1>1. EntryMutex'
  BY DEF EntryInv, EntryMutex, HoldsEntry, Holding, lockVars
<1>2. ASSUME NEW w \in Way, NEW i \in 1 .. Len(lockQueue[w])
      PROVE  lockQueue[w][i] \in Stack
  BY DEF TypeOK
<1>3. EntryQueues'
  BY <1>2 DEF EntryInv, EntryQueues, lockVars
<1>4. FramesAssigned'
  BY DEF EntryInv, FramesAssigned
<1> QED  BY <1>1, <1>3, <1>4 DEF EntryInv

\* A step that leaves the blocks, and what holders know of them, alone.  Locks
\* may only be released.
LEMMA BlockFrame ==
  ASSUME TypeOK, HeldStateCurrent, UniqueCopy, UNCHANGED blk,
         \A w \in Way : lock'[w] => lock[w],
         \A u \in Stack : pc'[u] \in Holding =>
           /\ pc[u] \in Holding
           /\ pc'[u] = "action" => pc[u] = "action"
           /\ pc'[u] \in {"finish", "locked"} =>
                \/ pc[u] \in {"finish", "locked"}
                \/ pc[u] = "action" /\ (hit[u] \/ ~state[u])
           /\ way'[u] = way[u] /\ tag'[u] = tag[u]
           /\ state'[u] = state[u] /\ hit'[u] = hit[u]
  PROVE  HeldStateCurrent' /\ UniqueCopy'
<1>1. UniqueCopy'  BY DEF UniqueCopy, HasOrGets
<1>2. ASSUME NEW u \in Stack, NEW w \in Way, HoldsEntry(u, w)'
      PROVE  /\ blk'[w].transient = tag'[u]
             /\ state'[u] = blk'[w].valid
             /\ pc'[u] = "action" /\ hit'[u] => state'[u] /\ blk'[w].tag = tag'[u]
             /\ pc'[u] \in {"finish", "locked"} /\ state'[u]
                  => blk'[w].tag = tag'[u]
  <2>1. HoldsEntry(u, w)  BY <1>2 DEF HoldsEntry, Holding
  <2>2. pc'[u] \in Holding  BY <1>2 DEF HoldsEntry, Holding
  <2> QED  BY <2>1, <2>2 DEF HeldStateCurrent
<1> QED  BY <1>1, <1>2 DEF HeldStateCurrent

-----------------------------------------------------------------------------
(***************************************************************************)
(* Every step preserves the invariant.                                     *)
(***************************************************************************)
LEMMA StartKeeps ==
  ASSUME IInv, NEW s \in Stack, NEW t \in Tag, Start(s, t)
  PROVE  IInv'
<1> USE DEF IInv
<1>1. TypeOK'
  BY DEF TypeOK, Start, cacheVars, lockVars, portVars, Place
<1>2. PortInv'
  <2>1. UNCHANGED <<portVars, port>>  BY DEF Start
  <2>2. \A u \in Stack :
          /\ pc'[u] \in {"port", "action"} <=> pc[u] \in {"port", "action"}
          /\ pc[u] = "portWait" => pc'[u] = "portWait"
    BY DEF Start, TypeOK
  <2> QED  BY <2>1, <2>2, PortFrame
<1>3. EntryInv'
  <2>1. UNCHANGED lockVars  BY DEF Start
  <2>2. \A u \in Stack :
          /\ pc'[u] \in Holding <=> pc[u] \in Holding
          /\ pc[u] = "lockWait" <=> pc'[u] = "lockWait"
          /\ pc[u] \in Holding \cup {"lockWait"} => way'[u] = way[u]
          /\ pc'[u] # "idle" => tag'[u] \in Tag
    BY DEF Start, TypeOK, Holding, EntryInv, FramesAssigned
  <2> QED  BY <2>1, <2>2, EntryFrame
<1>4. HeldStateCurrent' /\ UniqueCopy'
  <2>1. UNCHANGED blk /\ \A w \in Way : lock'[w] => lock[w]
    BY DEF Start, cacheVars, lockVars
  <2>2. \A u \in Stack : pc'[u] \in Holding =>
           /\ pc'[u] = pc[u]
           /\ way'[u] = way[u] /\ tag'[u] = tag[u]
           /\ state'[u] = state[u] /\ hit'[u] = hit[u]
    BY DEF Start, TypeOK, Holding
  <2> QED  BY <2>1, <2>2, BlockFrame
<1> QED  BY <1>1, <1>2, <1>3, <1>4

LEMMA FindAndLockKeeps ==
  ASSUME IInv, NEW s \in Stack, FindAndLock(s)
  PROVE  IInv'
<1> USE NoneAssumption, PortsAssumption DEF IInv
<1>1. pc[s] = "find"  BY DEF FindAndLock
<1>2. CASE numLocked >= NumPorts
  <2>1. /\ portQueue' = Append(portQueue, s)
        /\ pc' = [pc EXCEPT ![s] = "portWait"]
        /\ UNCHANGED <<ports, numLocked, port>>
        /\ way' = [way EXCEPT ![s] = retWay[s]]
        /\ UNCHANGED <<cacheVars, lockVars, tag, retWay, hit, state>>
    BY <1>2 DEF FindAndLock
  <2>2. TypeOK'
    BY <2>1 DEF TypeOK, cacheVars, lockVars, Place
  <2>3. portQueue \in Seq(Stack) /\ Len(portQueue) \in Nat
    BY DEF TypeOK
  <2>4. /\ Len(portQueue') = Len(portQueue) + 1
        /\ \A i \in 1 .. Len(portQueue) : portQueue'[i] = portQueue[i]
        /\ portQueue'[Len(portQueue) + 1] = s
    BY <2>1, <2>3
  <2>5. \A i \in 1 .. Len(portQueue) :
          portQueue[i] \in Stack /\ pc[portQueue[i]] = "portWait" /\ portQueue[i] # s
    BY <1>1, <2>3 DEF PortInv, PortQueueOK
  <2>6. \A i \in 1 .. Len(portQueue') : pc'[portQueue'[i]] = "portWait"
    <3>1. SUFFICES ASSUME NEW i \in 1 .. Len(portQueue')
                   PROVE  pc'[portQueue'[i]] = "portWait"
      OBVIOUS
    <3>2. CASE i = Len(portQueue) + 1
      BY <2>1, <2>4, <3>2 DEF TypeOK
    <3>3. CASE i \in 1 .. Len(portQueue)
      BY <2>1, <2>4, <2>5, <3>3 DEF TypeOK
    <3> QED  BY <2>3, <2>4, <3>2, <3>3
  <2>7. \A i, j \in 1 .. Len(portQueue') : portQueue'[i] = portQueue'[j] => i = j
    <3>1. SUFFICES ASSUME NEW i \in 1 .. Len(portQueue'),
                          NEW j \in 1 .. Len(portQueue'),
                          portQueue'[i] = portQueue'[j]
                   PROVE  i = j
      OBVIOUS
    <3>2. CASE i \in 1 .. Len(portQueue) /\ j \in 1 .. Len(portQueue)
      BY <2>4, <3>1, <3>2 DEF PortInv, PortQueueOK
    <3>3. CASE i = Len(portQueue) + 1 \/ j = Len(portQueue) + 1
      BY <2>3, <2>4, <2>5, <3>1, <3>3
    <3> QED  BY <2>3, <2>4, <3>2, <3>3
  <2>8. PortsConsistent'
    BY <1>1, <2>1 DEF PortInv, PortsConsistent, TypeOK
  <2>9. NoIdlePort'
    BY <1>2, <2>1 DEF NoIdlePort, TypeOK
  <2> QED
    <3>1. PortInv'  BY <2>6, <2>7, <2>8, <2>9 DEF PortInv, PortQueueOK
    <3>2. EntryInv'
      <4>1. \A u \in Stack :
              /\ pc'[u] \in Holding <=> pc[u] \in Holding
              /\ pc[u] = "lockWait" <=> pc'[u] = "lockWait"
              /\ pc[u] \in Holding \cup {"lockWait"} => way'[u] = way[u]
              /\ pc'[u] # "idle" => tag'[u] \in Tag
        BY <1>1, <2>1 DEF TypeOK, Holding, EntryInv, FramesAssigned
      <4> QED  BY <2>1, <4>1, EntryFrame
    <3>3. HeldStateCurrent' /\ UniqueCopy'
      <4>1. UNCHANGED blk /\ \A w \in Way : lock'[w] => lock[w]
        BY <2>1 DEF cacheVars, lockVars
      <4>2. \A u \in Stack : pc'[u] \in Holding =>
              /\ pc'[u] = pc[u]
              /\ way'[u] = way[u] /\ tag'[u] = tag[u]
              /\ state'[u] = state[u] /\ hit'[u] = hit[u]
        BY <1>1, <2>1 DEF TypeOK, Holding
      <4> QED  BY <4>1, <4>2, BlockFrame
    <3> QED  BY <2>2, <3>1, <3>2, <3>3
<1>3. CASE ~(numLocked >= NumPorts)
  <2>1. PICK p \in FreePorts :
          /\ ports' = [ports EXCEPT ![p] = s]
          /\ numLocked' = numLocked + 1
          /\ port' = [port EXCEPT ![s] = p]
          /\ pc' = [pc EXCEPT ![s] = "port"]
          /\ UNCHANGED portQueue
    BY <1>3 DEF FindAndLock
  <2>2. /\ way' = [way EXCEPT ![s] = retWay[s]]
        /\ UNCHANGED <<cacheVars, lockVars, tag, retWay, hit, state>>
    BY DEF FindAndLock
  <2>3. p \in Port /\ ports[p] = None /\ s # None /\ port[s] = None
    BY <1>1, <2>1 DEF FreePorts, PortInv, PortsConsistent
  <2>4. numLocked + 1 \in 0 .. NumPorts
    BY <1>3 DEF TypeOK
  <2>5. TypeOK'
    BY <2>1, <2>2, <2>3, <2>4 DEF TypeOK, cacheVars, lockVars, Place
  <2>6. PortsConsistent'
    <3> DEFINE Taken == {q \in Port : ports[q] # None}
    <3>1. {q \in Port : ports'[q] # None} = Taken \cup {p}
      BY <2>1, <2>3 DEF TypeOK
    <3>2. IsFiniteSet(Taken)  BY PortFinite, FS_Subset
    <3>3. Cardinality(Taken \cup {p}) = Cardinality(Taken) + 1
      BY <2>3, <3>2, FS_AddElement
    <3>4. numLocked = Cardinality(Taken)  BY DEF PortInv, PortsConsistent
    <3>5. numLocked' = Cardinality({q \in Port : ports'[q] # None})
      BY <2>1, <3>1, <3>3, <3>4
    <3>6. ASSUME NEW q \in Port, ports'[q] # None
          PROVE  port'[ports'[q]] = q
      <4>1. None \notin Port  BY DEF Port
      <4>2. CASE q = p
        BY <2>1, <2>3, <4>2 DEF TypeOK
      <4>3. CASE q # p
        <5>1. ports'[q] = ports[q] /\ ports[q] \in Stack /\ port[ports[q]] = q
          BY <2>1, <3>6, <4>3 DEF PortInv, PortsConsistent, TypeOK
        <5>2. ports[q] # s  BY <2>3, <4>1, <5>1
        <5> QED  BY <2>1, <5>1, <5>2 DEF TypeOK
      <4> QED  BY <4>2, <4>3
    <3>7. ASSUME NEW u \in Stack
          PROVE  IF pc'[u] \in {"port", "action"}
                 THEN port'[u] \in Port /\ ports'[port'[u]] = u
                 ELSE port'[u] = None
      <4>1. CASE u = s
        BY <2>1, <2>3, <4>1 DEF TypeOK
      <4>2. CASE u # s
        <5>1. pc'[u] = pc[u] /\ port'[u] = port[u]
          BY <2>1, <4>2 DEF TypeOK
        <5>2. CASE pc[u] \in {"port", "action"}
          <6>1. port[u] \in Port /\ ports[port[u]] = u /\ port[u] # p
            BY <2>3, <5>2 DEF PortInv, PortsConsistent
          <6> QED  BY <2>1, <5>1, <5>2, <6>1 DEF TypeOK
        <5>3. CASE pc[u] \notin {"port", "action"}
          BY <5>1, <5>3 DEF PortInv, PortsConsistent
        <5> QED  BY <5>2, <5>3
      <4> QED  BY <4>1, <4>2
    <3> QED  BY <3>5, <3>6, <3>7 DEF PortsConsistent
  <2>7. NoIdlePort'
    BY <1>3, <2>1 DEF PortInv, NoIdlePort, TypeOK
  <2>8. PortQueueOK'
    <3>1. \A i \in 1 .. Len(portQueue) :
            portQueue[i] \in Stack /\ pc[portQueue[i]] = "portWait" /\ portQueue[i] # s
      BY <1>1 DEF PortInv, PortQueueOK, TypeOK
    <3> QED  BY <2>1, <3>1 DEF PortInv, PortQueueOK, TypeOK
  <2>9. EntryInv'
    <3>1. \A u \in Stack :
            /\ pc'[u] \in Holding <=> pc[u] \in Holding
            /\ pc[u] = "lockWait" <=> pc'[u] = "lockWait"
            /\ pc[u] \in Holding \cup {"lockWait"} => way'[u] = way[u]
            /\ pc'[u] # "idle" => tag'[u] \in Tag
      BY <1>1, <2>1, <2>2 DEF TypeOK, Holding, EntryInv, FramesAssigned
    <3> QED  BY <2>2, <3>1, EntryFrame
  <2>10. HeldStateCurrent' /\ UniqueCopy'
    <3>1. UNCHANGED blk /\ \A w \in Way : lock'[w] => lock[w]
      BY <2>2 DEF cacheVars, lockVars
    <3>2. \A u \in Stack : pc'[u] \in Holding =>
            /\ pc'[u] = pc[u]
            /\ way'[u] = way[u] /\ tag'[u] = tag[u]
            /\ state'[u] = state[u] /\ hit'[u] = hit[u]
      BY <1>1, <2>1, <2>2 DEF TypeOK, Holding
    <3> QED  BY <3>1, <3>2, BlockFrame
  <2> QED  BY <2>5, <2>6, <2>7, <2>8, <2>9, <2>10 DEF PortInv
<1> QED  BY <1>2, <1>3

\* mod_find_block and cache_replace_block give a way of the set: the one that
\* has or gets the block on a hit.
LEMMA CandidateIsWay ==
  ASSUME IInv, NEW s \in Stack, pc[s] = "port", NEW w \in Candidates(s)
  PROVE  /\ w \in Way
         /\ Hit(tag[s]) => Matches(w, tag[s])
<1> USE DEF IInv
<1>1. tag[s] \in Tag  BY DEF EntryInv, FramesAssigned
<1>2. CASE Hit(tag[s])
  <2>1. PICK v \in Way : Matches(v, tag[s])  BY <1>2 DEF Hit
  <2>2. \A u \in Way : Matches(u, tag[s]) => v <= u
    <3>1. \A u \in Way : Matches(u, tag[s]) => u = v
      BY <1>1, <2>1 DEF UniqueCopy, HasOrGets, Matches
    <3> QED  BY <3>1 DEF Way
  <2>3. \E u \in Way : Matches(u, tag[s]) /\ \A x \in Way : Matches(x, tag[s]) => u <= x
    BY <2>1, <2>2
  <2>4. HitWay(tag[s]) \in Way /\ Matches(HitWay(tag[s]), tag[s])
    BY <2>3 DEF HitWay
  <2> QED  BY <1>2, <2>4 DEF Candidates
<1>3. CASE ~Hit(tag[s])
  BY <1>3, VictimIsWay DEF Candidates, TypeOK
<1> QED  BY <1>2, <1>3

LEMMA LookupKeepsOrder ==
  ASSUME IInv, NEW s \in Stack
  PROVE  IsOrder(OrderAfterLookup(s))
BY ReplaceKeepsOrder DEF IInv, TypeOK, OrderAfterLookup

LEMMA PortErrorKeeps ==
  ASSUME IInv, NEW s \in Stack, PortError(s)
  PROVE  IInv'
<1> USE DEF IInv
<1>1. /\ pc[s] = "port"
      /\ UnlockPort(s, "idle")
      /\ UNCHANGED <<blk, lockVars, tag, retWay, state>>
      /\ order' = OrderAfterLookup(s)
      /\ hit' = [hit EXCEPT ![s] = Hit(tag[s])]
  BY DEF PortError
<1>2. PICK w \in Candidates(s) : way' = [way EXCEPT ![s] = w]
  BY DEF PortError
<1>3. w \in Way  BY <1>1, CandidateIsWay
<1>4. /\ ports' \in [Port -> Stack \cup {None}]
      /\ numLocked' \in 0 .. NumPorts
      /\ portQueue' \in Seq(Stack)
      /\ port' \in [Stack -> Port \cup {None}]
      /\ pc' \in [Stack -> Place]
      /\ pc'[s] = "idle"
      /\ \A u \in Stack \ {s} :
           pc'[u] = pc[u] \/ (pc[u] = "portWait" /\ pc'[u] = "port")
      /\ PortInv'
  <2>1. "idle" \in Place \ {"port", "action", "portWait"}  BY DEF Place
  <2> HIDE DEF IInv
  <2> QED  BY <1>1, <2>1, UnlockPortKeepsPorts DEF IInv
<1>5. TypeOK'
  BY <1>1, <1>2, <1>3, <1>4, LookupKeepsOrder DEF TypeOK, lockVars, Hit
<1>6. EntryInv'
  <2>1. \A u \in Stack :
          /\ pc'[u] \in Holding <=> pc[u] \in Holding
          /\ pc[u] = "lockWait" <=> pc'[u] = "lockWait"
          /\ pc[u] \in Holding \cup {"lockWait"} => way'[u] = way[u]
          /\ pc'[u] # "idle" => tag'[u] \in Tag
    BY <1>1, <1>2, <1>4 DEF TypeOK, Holding, EntryInv, FramesAssigned
  <2> QED  BY <1>1, <2>1, EntryFrame
<1>7. HeldStateCurrent' /\ UniqueCopy'
  <2>1. UNCHANGED blk /\ \A v \in Way : lock'[v] => lock[v]
    BY <1>1 DEF lockVars
  <2>2. \A u \in Stack : pc'[u] \in Holding =>
          /\ pc'[u] = pc[u]
          /\ way'[u] = way[u] /\ tag'[u] = tag[u]
          /\ state'[u] = state[u] /\ hit'[u] = hit[u]
    BY <1>1, <1>2, <1>4 DEF TypeOK, Holding
  <2> QED  BY <2>1, <2>2, BlockFrame
<1> QED  BY <1>4, <1>5, <1>6, <1>7

LEMMA PortWaitKeeps ==
  ASSUME IInv, NEW s \in Stack, PortWait(s)
  PROVE  IInv'
<1> USE DEF IInv
<1>1. /\ pc[s] = "port"
      /\ UnlockPort(s, "lockWait")
      /\ UNCHANGED <<blk, lock, tag, state>>
      /\ order' = OrderAfterLookup(s)
      /\ hit' = [hit EXCEPT ![s] = Hit(tag[s])]
  BY DEF PortWait
<1>2. PICK w \in Candidates(s) :
        /\ way' = [way EXCEPT ![s] = w]
        /\ retWay' = [retWay EXCEPT ![s] = w]
        /\ lockQueue' = [lockQueue EXCEPT ![w] = Append(@, s)]
  BY DEF PortWait
<1>3. w \in Way  BY <1>1, CandidateIsWay
<1>4. /\ ports' \in [Port -> Stack \cup {None}]
      /\ numLocked' \in 0 .. NumPorts
      /\ portQueue' \in Seq(Stack)
      /\ port' \in [Stack -> Port \cup {None}]
      /\ pc' \in [Stack -> Place]
      /\ pc'[s] = "lockWait"
      /\ \A u \in Stack \ {s} :
           pc'[u] = pc[u] \/ (pc[u] = "portWait" /\ pc'[u] = "port")
      /\ PortInv'
  <2>1. "lockWait" \in Place \ {"port", "action", "portWait"}  BY DEF Place
  <2> HIDE DEF IInv
  <2> QED  BY <1>1, <2>1, UnlockPortKeepsPorts DEF IInv
<1>5. TypeOK'
  <2>1. lockQueue[w] \in Seq(Stack)  BY <1>3 DEF TypeOK
  <2>2. Append(lockQueue[w], s) \in Seq(Stack)  BY <2>1
  <2>3. lockQueue' \in [Way -> Seq(Stack)]
    BY <1>2, <1>3, <2>2 DEF TypeOK
  <2>4. hit' \in [Stack -> BOOLEAN]  BY <1>1 DEF TypeOK, Hit
  <2>5. IsOrder(order')  BY <1>1, LookupKeepsOrder
  <2>6. way' \in [Stack -> Way \cup {None}] /\ retWay' \in [Stack -> Way \cup {None}]
    BY <1>2, <1>3 DEF TypeOK
  <2> QED  BY <1>1, <1>4, <2>3, <2>4, <2>5, <2>6 DEF TypeOK
<1>6. EntryInv'
  <2>1. /\ \A u \in Stack : pc'[u] \in Holding <=> pc[u] \in Holding
        /\ \A u \in Stack \ {s} : way'[u] = way[u]
        /\ way'[s] = w
        /\ \A u \in Stack : pc[u] = "lockWait" => pc'[u] = "lockWait"
    BY <1>1, <1>2, <1>4 DEF TypeOK, Holding
  <2>2. \A u \in Stack, v \in Way : HoldsEntry(u, v)' <=> HoldsEntry(u, v)
    BY <1>1, <2>1 DEF HoldsEntry, Holding
  <2>3. EntryMutex'
    BY <1>1, <2>2 DEF EntryInv, EntryMutex
  <2>4. FramesAssigned'
    BY <1>1, <1>2, <1>3, <1>4 DEF TypeOK, EntryInv, FramesAssigned, Holding
  <2>5. ASSUME NEW v \in Way, NEW i \in 1 .. Len(lockQueue[v])
        PROVE  /\ lockQueue[v][i] \in Stack
               /\ lockQueue[v][i] # s
               /\ pc'[lockQueue[v][i]] = "lockWait"
               /\ way'[lockQueue[v][i]] = v
    <3>1. /\ lockQueue[v][i] \in Stack
          /\ pc[lockQueue[v][i]] = "lockWait"
          /\ way[lockQueue[v][i]] = v
      BY DEF TypeOK, EntryInv, EntryQueues
    <3>2. lockQueue[v][i] # s  BY <1>1, <3>1
    <3> QED  BY <2>1, <3>1, <3>2
  <2>6. ASSUME NEW v \in Way
        PROVE  /\ \A i \in 1 .. Len(lockQueue'[v]) :
                    /\ pc'[lockQueue'[v][i]] = "lockWait"
                    /\ way'[lockQueue'[v][i]] = v
               /\ \A i, j \in 1 .. Len(lockQueue'[v]) :
                    lockQueue'[v][i] = lockQueue'[v][j] => i = j
    <3>1. CASE v # w
      <4>1. lockQueue'[v] = lockQueue[v]  BY <1>2, <3>1 DEF TypeOK
      <4> QED  BY <2>5, <4>1 DEF EntryInv, EntryQueues
    <3>2. CASE v = w
      <4> DEFINE q == lockQueue[w]
      <4>1. lockQueue'[w] = Append(q, s) /\ q \in Seq(Stack) /\ Len(q) \in Nat
        BY <1>2, <1>3 DEF TypeOK
      <4>2. /\ Len(lockQueue'[w]) = Len(q) + 1
            /\ \A i \in 1 .. Len(q) : lockQueue'[w][i] = q[i]
            /\ lockQueue'[w][Len(q) + 1] = s
        BY <4>1
      <4>3. \A i \in 1 .. Len(q) + 1 : i \in 1 .. Len(q) \/ i = Len(q) + 1
        BY <4>1
      <4>4. \A i \in 1 .. Len(q) :
              q[i] # s /\ pc'[q[i]] = "lockWait" /\ way'[q[i]] = w
        BY <1>3, <2>5
      <4>5. \A i \in 1 .. Len(lockQueue'[w]) :
              pc'[lockQueue'[w][i]] = "lockWait" /\ way'[lockQueue'[w][i]] = w
        <5>1. SUFFICES ASSUME NEW i \in 1 .. Len(lockQueue'[w])
                       PROVE  /\ pc'[lockQueue'[w][i]] = "lockWait"
                              /\ way'[lockQueue'[w][i]] = w
          OBVIOUS
        <5>2. CASE i \in 1 .. Len(q)  BY <4>2, <4>4, <5>2
        <5>3. CASE i = Len(q) + 1  BY <1>4, <2>1, <4>2, <5>3
        <5> QED  BY <4>2, <4>3, <5>2, <5>3
      <4>6. \A i, j \in 1 .. Len(q) : q[i] = q[j] => i = j
        BY <1>3 DEF EntryInv, EntryQueues
      <4>7. \A i, j \in 1 .. Len(lockQueue'[w]) :
              lockQueue'[w][i] = lockQueue'[w][j] => i = j
        BY <4>2, <4>3, <4>4, <4>6
      <4> QED  BY <3>2, <4>5, <4>7
    <3> QED  BY <3>1, <3>2
  <2>7. EntryQueues'  BY <2>6 DEF EntryQueues
  <2> QED  BY <2>3, <2>4, <2>7 DEF EntryInv
<1>7. HeldStateCurrent' /\ UniqueCopy'
  <2>1. UNCHANGED blk /\ \A v \in Way : lock'[v] => lock[v]
    BY <1>1
  <2>2. \A u \in Stack : pc'[u] \in Holding =>
          /\ pc'[u] = pc[u]
          /\ way'[u] = way[u] /\ tag'[u] = tag[u]
          /\ state'[u] = state[u] /\ hit'[u] = hit[u]
    BY <1>1, <1>2, <1>4 DEF TypeOK, Holding
  <2> QED  BY <2>1, <2>2, BlockFrame
<1> QED  BY <1>4, <1>5, <1>6, <1>7

LEMMA PortLockKeeps ==
  ASSUME IInv, NEW s \in Stack, PortLock(s)
  PROVE  IInv'
<1> USE DEF IInv
<1>1. /\ pc[s] = "port"
      /\ pc' = [pc EXCEPT ![s] = "action"]
      /\ hit' = [hit EXCEPT ![s] = Hit(tag[s])]
      /\ UNCHANGED <<lockQueue, portVars, port, tag, retWay>>
  BY DEF PortLock
<1>2. PICK w \in Candidates(s) :
        /\ ~lock[w]
        /\ way' = [way EXCEPT ![s] = w]
        /\ lock' = [lock EXCEPT ![w] = TRUE]
        /\ blk' = [blk EXCEPT ![w].transient = tag[s]]
        /\ state' = [state EXCEPT ![s] = blk[w].valid]
        /\ order' = OrderAfterAccess(OrderAfterLookup(s), w, blk[w].valid)
  BY DEF PortLock
<1>3. w \in Way /\ (Hit(tag[s]) => Matches(w, tag[s]))
  BY <1>1, CandidateIsWay
<1>4. tag[s] \in Tag  BY <1>1 DEF EntryInv, FramesAssigned
<1>5. TypeOK'
  <2>1. IsOrder(order')
    BY <1>2, <1>3, LookupKeepsOrder, AccessKeepsOrder
  <2>2. blk' \in [Way -> Block] /\ state' \in [Stack -> BOOLEAN]
    BY <1>2, <1>3, <1>4 DEF TypeOK, Block
  <2>3. hit' \in [Stack -> BOOLEAN]  BY <1>1 DEF TypeOK, Hit
  <2>4. pc' \in [Stack -> Place]  BY <1>1 DEF TypeOK, Place
  <2>5. way' \in [Stack -> Way \cup {None}] /\ lock' \in [Way -> BOOLEAN]
    BY <1>2, <1>3 DEF TypeOK
  <2> QED  BY <1>1, <2>1, <2>2, <2>3, <2>4, <2>5 DEF TypeOK, portVars
<1>6. PortInv'
  <2>1. \A u \in Stack :
          /\ pc'[u] \in {"port", "action"} <=> pc[u] \in {"port", "action"}
          /\ pc[u] = "portWait" => pc'[u] = "portWait"
    BY <1>1 DEF TypeOK
  <2> QED  BY <1>1, <2>1, PortFrame
<1>7. EntryInv'
  <2>1. \A u \in Stack : u # s => pc'[u] = pc[u] /\ way'[u] = way[u]
    BY <1>1, <1>2 DEF TypeOK
  <2>2. pc'[s] = "action" /\ way'[s] = w
    BY <1>1, <1>2 DEF TypeOK
  <2>3. \A u \in Stack, v \in Way :
          HoldsEntry(u, v)' <=> HoldsEntry(u, v) \/ (u = s /\ v = w)
    BY <1>1, <2>1, <2>2 DEF HoldsEntry
  <2>4. \A v \in Way : lock'[v] <=> lock[v] \/ v = w
    BY <1>2, <1>3 DEF TypeOK
  <2>5. \A u \in Stack : ~HoldsEntry(u, w)
    BY <1>2, <1>3 DEF EntryInv, EntryMutex
  <2>6. EntryMutex'
    BY <2>3, <2>4, <2>5 DEF EntryInv, EntryMutex
  <2>7. FramesAssigned'
    BY <1>1, <1>3, <2>1, <2>2 DEF EntryInv, FramesAssigned, Holding
  <2>8. ASSUME NEW v \in Way, NEW i \in 1 .. Len(lockQueue[v])
        PROVE  lockQueue[v][i] \in Stack /\ lockQueue[v][i] # s
    BY <1>1 DEF TypeOK, EntryInv, EntryQueues
  <2>9. EntryQueues'
    BY <1>1, <2>1, <2>8 DEF EntryInv, EntryQueues
  <2> QED  BY <2>6, <2>7, <2>9 DEF EntryInv
<1>8. /\ blk'[w].transient = tag[s]
      /\ blk'[w].valid = blk[w].valid /\ blk'[w].tag = blk[w].tag
      /\ \A v \in Way : v # w => blk'[v] = blk[v] /\ lock'[v] = lock[v]
      /\ lock'[w]
  BY <1>2, <1>3 DEF TypeOK, Block
<1>9. Hit(tag[s]) => blk[w].valid /\ blk[w].tag = tag[s]
  BY <1>2, <1>3 DEF Matches
<1>10. HeldStateCurrent'
  <2>1. SUFFICES ASSUME NEW u \in Stack, NEW v \in Way, HoldsEntry(u, v)'
        PROVE  /\ blk'[v].transient = tag'[u]
               /\ state'[u] = blk'[v].valid
               /\ pc'[u] = "action" /\ hit'[u]
                    => state'[u] /\ blk'[v].tag = tag'[u]
               /\ pc'[u] \in {"finish", "locked"} /\ state'[u]
                    => blk'[v].tag = tag'[u]
    BY DEF HeldStateCurrent
  <2>2. CASE u = s
    <3>1. v = w /\ pc'[s] = "action"
      BY <1>1, <1>2, <2>1, <2>2 DEF HoldsEntry, TypeOK
    <3>2. state'[s] = blk[w].valid /\ (hit'[s] <=> Hit(tag[s]))
      BY <1>1, <1>2 DEF TypeOK
    <3> QED  BY <1>1, <1>8, <1>9, <2>2, <3>1, <3>2
  <2>3. CASE u # s
    <3>1. HoldsEntry(u, v) /\ pc'[u] = pc[u]
      BY <1>1, <1>2, <2>1, <2>3 DEF HoldsEntry, TypeOK
    <3>2. v # w  BY <1>2, <3>1 DEF EntryInv, EntryMutex
    <3>3. state'[u] = state[u] /\ hit'[u] = hit[u] /\ tag'[u] = tag[u]
      BY <1>1, <1>2, <2>3 DEF TypeOK
    <3> QED  BY <1>8, <3>1, <3>2, <3>3 DEF HeldStateCurrent
  <2> QED  BY <2>2, <2>3
<1>11. UniqueCopy'
  <2>1. SUFFICES ASSUME NEW t \in Tag, NEW u \in Way, NEW v \in Way,
                        HasOrGets(u, t)', HasOrGets(v, t)'
                 PROVE  u = v
    BY DEF UniqueCopy
  <2>2. \A x \in Way : HasOrGets(x, t)' =>
          HasOrGets(x, t) \/ (x = w /\ t = tag[s])
    BY <1>8 DEF HasOrGets
  <2>3. \A x \in Way : t = tag[s] /\ HasOrGets(x, t) => x = w
    <3>1. SUFFICES ASSUME NEW x \in Way, t = tag[s], HasOrGets(x, t)
                   PROVE  x = w
      OBVIOUS
    <3>2. Hit(tag[s])  BY <3>1 DEF Hit, Matches, HasOrGets
    <3>3. HasOrGets(w, t)  BY <1>3, <3>1, <3>2 DEF Matches, HasOrGets
    <3> QED  BY <1>3, <3>1, <3>3 DEF UniqueCopy
  <2> QED  BY <2>1, <2>2, <2>3 DEF UniqueCopy
<1> QED  BY <1>5, <1>6, <1>7, <1>10, <1>11

LEMMA ActionKeeps ==
  ASSUME IInv, NEW s \in Stack, Action(s)
  PROVE  IInv'
<1> USE DEF IInv
<1> DEFINE next == IF ~hit[s] /\ state[s] THEN "evict" ELSE "finish"
<1>1. /\ pc[s] = "action"
      /\ UnlockPort(s, next)
      /\ UNCHANGED <<cacheVars, lockVars, frameVars>>
  BY DEF Action
<1>2. /\ ports' \in [Port -> Stack \cup {None}]
      /\ numLocked' \in 0 .. NumPorts
      /\ portQueue' \in Seq(Stack)
      /\ port' \in [Stack -> Port \cup {None}]
      /\ pc' \in [Stack -> Place]
      /\ pc'[s] = next
      /\ \A u \in Stack \ {s} :
           pc'[u] = pc[u] \/ (pc[u] = "portWait" /\ pc'[u] = "port")
      /\ PortInv'
  <2>1. next \in Place \ {"port", "action", "portWait"}  BY DEF Place
  <2> HIDE DEF IInv, next
  <2> QED  BY <1>1, <2>1, UnlockPortKeepsPorts DEF IInv
<1>3. TypeOK'
  BY <1>1, <1>2 DEF TypeOK, cacheVars, lockVars, frameVars
<1>4. EntryInv'
  <2>1. \A u \in Stack :
          /\ pc'[u] \in Holding <=> pc[u] \in Holding
          /\ pc[u] = "lockWait" <=> pc'[u] = "lockWait"
          /\ pc[u] \in Holding \cup {"lockWait"} => way'[u] = way[u]
          /\ pc'[u] # "idle" => tag'[u] \in Tag
    BY <1>1, <1>2 DEF TypeOK, Holding, EntryInv, FramesAssigned, frameVars
  <2> QED  BY <1>1, <2>1, EntryFrame
<1>5. HeldStateCurrent' /\ UniqueCopy'
  <2>1. UNCHANGED blk /\ \A v \in Way : lock'[v] => lock[v]
    BY <1>1 DEF lockVars, cacheVars
  <2>2. ASSUME NEW u \in Stack, pc'[u] \in Holding
        PROVE  /\ pc[u] \in Holding
               /\ pc'[u] = "action" => pc[u] = "action"
               /\ pc'[u] \in {"finish", "locked"} =>
                    \/ pc[u] \in {"finish", "locked"}
                    \/ pc[u] = "action" /\ (hit[u] \/ ~state[u])
               /\ way'[u] = way[u] /\ tag'[u] = tag[u]
               /\ state'[u] = state[u] /\ hit'[u] = hit[u]
    BY <1>1, <1>2, <2>2 DEF Holding, frameVars
  <2> QED  BY <2>1, <2>2, BlockFrame
<1> QED  BY <1>2, <1>3, <1>4, <1>5

\* An access that unlocks its entry and changes nothing else.
LEMMA LeavingKeeps ==
  ASSUME IInv, NEW s \in Stack, pc[s] \in {"evict", "locked"},
         NEW next \in {"idle", "find"}, UnlockEntry(s, way[s], next),
         UNCHANGED <<cacheVars, portVars, port, frameVars>>
  PROVE  IInv'
<1> USE DEF IInv
<1>1. UNCHANGED <<way, tag>>  BY DEF frameVars
<1>2. pc[s] \in Holding  BY DEF Holding
<1>3. /\ lock' = [lock EXCEPT ![way[s]] = FALSE]
      /\ lockQueue' \in [Way -> Seq(Stack)]
      /\ pc' \in [Stack -> Place]
      /\ pc'[s] = next
      /\ \A u \in Stack \ {s} :
           pc'[u] = pc[u] \/ (pc[u] = "lockWait" /\ pc'[u] = "find")
      /\ EntryInv'
  <2> HIDE DEF IInv
  <2> QED  BY <1>1, <1>2, UnlockEntryKeepsEntries DEF IInv
<1>4. TypeOK'
  BY <1>3 DEF TypeOK, cacheVars, portVars, frameVars
<1>5. PortInv'
  <2>1. \A u \in Stack :
          /\ pc'[u] \in {"port", "action"} <=> pc[u] \in {"port", "action"}
          /\ pc[u] = "portWait" => pc'[u] = "portWait"
    BY <1>3
  <2> QED  BY <2>1, PortFrame
<1>6. HeldStateCurrent' /\ UniqueCopy'
  <2>1. UNCHANGED blk /\ \A v \in Way : lock'[v] => lock[v]
    BY <1>3 DEF cacheVars, TypeOK
  <2>2. \A u \in Stack : pc'[u] \in Holding =>
          /\ pc'[u] = pc[u]
          /\ way'[u] = way[u] /\ tag'[u] = tag[u]
          /\ state'[u] = state[u] /\ hit'[u] = hit[u]
    BY <1>3 DEF Holding, frameVars
  <2> QED  BY <2>1, <2>2, BlockFrame
<1> QED  BY <1>3, <1>4, <1>5, <1>6

LEMMA EvictErrorKeeps ==
  ASSUME IInv, NEW s \in Stack, EvictError(s)
  PROVE  IInv'
BY LeavingKeeps DEF EvictError

LEMMA UnlockKeeps ==
  ASSUME IInv, NEW s \in Stack, Unlock(s)
  PROVE  IInv'
BY LeavingKeeps DEF Unlock

LEMMA MissErrorKeeps ==
  ASSUME IInv, NEW s \in Stack, MissError(s)
  PROVE  IInv'
BY LeavingKeeps DEF MissError

\* The holder of an entry changes its block while it keeps the entry: to its own
\* tag, or to no valid block.
LEMMA HolderChangesBlock ==
  ASSUME IInv, NEW s \in Stack, NEW p \in {"finish", "locked"},
         NEW t \in Tag \cup {None}, NEW valid \in BOOLEAN,
         pc[s] \in {"evict", "finish", "locked"},
         pc' = [pc EXCEPT ![s] = p],
         blk' = [blk EXCEPT ![way[s]].tag = t, ![way[s]].valid = valid],
         state' = [state EXCEPT ![s] = valid],
         valid => t = tag[s],
         IsOrder(order'),
         retWay' \in [Stack -> Way \cup {None}],
         UNCHANGED <<lockVars, portVars, port, tag, way, hit>>
  PROVE  IInv'
<1> USE DEF IInv
<1> DEFINE w == way[s]
<1>1. w \in Way /\ HoldsEntry(s, w) /\ tag[s] \in Tag
  BY DEF EntryInv, FramesAssigned, HoldsEntry, Holding
<1>2. TypeOK'
  BY <1>1, ZenonT(40) DEF TypeOK, Block, Place, lockVars, portVars
<1>3. PortInv'
  <2>1. \A u \in Stack :
          /\ pc'[u] \in {"port", "action"} <=> pc[u] \in {"port", "action"}
          /\ pc[u] = "portWait" => pc'[u] = "portWait"
    BY DEF TypeOK
  <2> QED  BY <2>1, PortFrame
<1>4. EntryInv'
  <2>1. \A u \in Stack :
          /\ pc'[u] \in Holding <=> pc[u] \in Holding
          /\ pc[u] = "lockWait" <=> pc'[u] = "lockWait"
          /\ pc[u] \in Holding \cup {"lockWait"} => way'[u] = way[u]
          /\ pc'[u] # "idle" => tag'[u] \in Tag
    BY DEF TypeOK, Holding, EntryInv, FramesAssigned
  <2> QED  BY <2>1, EntryFrame
<1>5. /\ blk'[w].transient = blk[w].transient
      /\ blk'[w].valid = valid /\ blk'[w].tag = t
      /\ \A v \in Way : v # w => blk'[v] = blk[v]
  BY <1>1 DEF TypeOK, Block
<1>6. HeldStateCurrent'
  <2>1. SUFFICES ASSUME NEW u \in Stack, NEW v \in Way, HoldsEntry(u, v)'
        PROVE  /\ blk'[v].transient = tag'[u]
               /\ state'[u] = blk'[v].valid
               /\ pc'[u] = "action" /\ hit'[u]
                    => state'[u] /\ blk'[v].tag = tag'[u]
               /\ pc'[u] \in {"finish", "locked"} /\ state'[u]
                    => blk'[v].tag = tag'[u]
    BY DEF HeldStateCurrent
  <2>2. CASE u = s
    <3>1. v = w /\ pc'[s] = p /\ state'[s] = valid
      BY <2>1, <2>2 DEF HoldsEntry, TypeOK
    <3>2. blk[w].transient = tag[s]  BY <1>1 DEF HeldStateCurrent
    <3> QED  BY <1>5, <2>2, <3>1, <3>2
  <2>3. CASE u # s
    <3>1. HoldsEntry(u, v) /\ pc'[u] = pc[u] /\ state'[u] = state[u]
      BY <2>1, <2>3 DEF HoldsEntry, TypeOK
    <3>2. v # w  BY <1>1, <2>3, <3>1 DEF EntryInv, EntryMutex
    <3>3. blk'[v] = blk[v] /\ tag'[u] = tag[u] /\ hit'[u] = hit[u]
      BY <1>5, <3>2
    <3>4. /\ blk[v].transient = tag[u]
          /\ state[u] = blk[v].valid
          /\ pc[u] = "action" /\ hit[u] => state[u] /\ blk[v].tag = tag[u]
          /\ pc[u] \in {"finish", "locked"} /\ state[u] => blk[v].tag = tag[u]
      BY <3>1 DEF HeldStateCurrent
    <3> QED  BY <3>1, <3>3, <3>4
  <2> QED  BY <2>2, <2>3
<1>7. UniqueCopy'
  <2>1. lock[w] /\ blk[w].transient = tag[s]
    BY <1>1 DEF EntryInv, EntryMutex, HeldStateCurrent
  <2>2. \A x \in Way, y \in Tag : HasOrGets(x, y)' => HasOrGets(x, y)
    BY <1>5, <2>1, ZenonT(40) DEF HasOrGets, lockVars
  <2> QED  BY <2>2 DEF UniqueCopy
<1> QED  BY <1>2, <1>3, <1>4, <1>6, <1>7

LEMMA EvictDoneKeeps ==
  ASSUME IInv, NEW s \in Stack, EvictDone(s)
  PROVE  IInv'
<1>1. /\ pc[s] = "evict"
      /\ blk' = [blk EXCEPT ![way[s]].tag = None, ![way[s]].valid = FALSE]
      /\ order' = OrderAfterSet(order, way[s], blk[way[s]].tag # None)
      /\ state' = [state EXCEPT ![s] = FALSE]
      /\ pc' = [pc EXCEPT ![s] = "finish"]
      /\ UNCHANGED <<lockVars, portVars, port, tag, way, retWay, hit>>
  BY DEF EvictDone
<1>2. way[s] \in Way
  BY <1>1 DEF IInv, EntryInv, FramesAssigned, Holding
<1>3. IsOrder(order') /\ retWay' \in [Stack -> Way \cup {None}]
  BY <1>1, <1>2, SetKeepsOrder DEF IInv, TypeOK
<1> QED  BY <1>1, <1>2, <1>3, HolderChangesBlock

LEMMA FillKeeps ==
  ASSUME IInv, NEW s \in Stack, Fill(s)
  PROVE  IInv'
<1>1. /\ pc[s] = "locked"
      /\ blk' = [blk EXCEPT ![way[s]].tag = tag[s], ![way[s]].valid = TRUE]
      /\ order' = OrderAfterSet(order, way[s], blk[way[s]].tag # tag[s])
      /\ state' = [state EXCEPT ![s] = TRUE]
      /\ UNCHANGED <<lockVars, portVars, pc, port, tag, way, retWay, hit>>
  BY DEF Fill
<1>2. way[s] \in Way /\ tag[s] \in Tag
  BY <1>1 DEF IInv, EntryInv, FramesAssigned, Holding
<1>3. IsOrder(order') /\ retWay' \in [Stack -> Way \cup {None}]
  BY <1>1, <1>2, SetKeepsOrder DEF IInv, TypeOK
<1>4. pc' = [pc EXCEPT ![s] = "locked"]
  BY <1>1 DEF IInv, TypeOK
<1> QED  BY <1>1, <1>2, <1>3, <1>4, HolderChangesBlock

LEMMA FinishKeeps ==
  ASSUME IInv, NEW s \in Stack, Finish(s)
  PROVE  IInv'
<1> DEFINE w == way[s]
<1>1. /\ pc[s] = "finish"
      /\ retWay' = [retWay EXCEPT ![s] = w]
      /\ pc' = [pc EXCEPT ![s] = "locked"]
      /\ UNCHANGED <<lockVars, portVars, port, tag, way, hit>>
  BY DEF Finish
<1>2. w \in Way /\ tag[s] \in Tag /\ HoldsEntry(s, w)
  BY <1>1 DEF IInv, EntryInv, FramesAssigned, Holding, HoldsEntry
<1>3. retWay' \in [Stack -> Way \cup {None}]
  BY <1>1, <1>2 DEF IInv, TypeOK
<1>4. CASE MainMemory /\ ~state[s]
  <2>1. /\ blk' = [blk EXCEPT ![w].tag = tag[s], ![w].valid = TRUE]
        /\ order' = OrderAfterSet(order, w, blk[w].tag # tag[s])
        /\ state' = [state EXCEPT ![s] = TRUE]
    BY <1>4 DEF Finish
  <2>2. IsOrder(order')  BY <1>2, <2>1, SetKeepsOrder DEF IInv, TypeOK
  <2> QED  BY <1>1, <1>2, <1>3, <2>1, <2>2, HolderChangesBlock
<1>5. CASE ~(MainMemory /\ ~state[s])
  <2>1. UNCHANGED <<cacheVars, state>>  BY <1>5 DEF Finish
  <2>2. state[s] = blk[w].valid /\ (state[s] => blk[w].tag = tag[s])
    BY <1>1, <1>2 DEF IInv, HeldStateCurrent
  <2>3. state[s] \in BOOLEAN /\ blk[w].tag \in Tag \cup {None}
    BY <1>2 DEF IInv, TypeOK, Block
  <2>4. blk' = [blk EXCEPT ![w].tag = blk[w].tag, ![w].valid = state[s]]
    BY <1>2, <2>1, <2>2 DEF IInv, TypeOK, Block, cacheVars
  <2>5. state' = [state EXCEPT ![s] = state[s]] /\ IsOrder(order')
    BY <2>1 DEF IInv, TypeOK, cacheVars
  <2> QED  BY <1>1, <1>3, <2>2, <2>3, <2>4, <2>5, HolderChangesBlock
<1> QED  BY <1>4, <1>5

LEMMA InvalidateKeeps ==
  ASSUME IInv, NEW s \in Stack, Invalidate(s)
  PROVE  IInv'
<1> USE DEF IInv
<1> DEFINE w == way[s]
<1>1. /\ pc[s] = "locked"
      /\ blk' = [blk EXCEPT ![w].tag = None, ![w].valid = FALSE]
      /\ order' = OrderAfterSet(order, w, blk[w].tag # None)
      /\ state' = [state EXCEPT ![s] = FALSE]
      /\ UnlockEntry(s, w, "idle")
      /\ UNCHANGED <<portVars, port, tag, way, retWay, hit>>
  BY DEF Invalidate
<1>2. w \in Way /\ HoldsEntry(s, w)
  BY <1>1 DEF EntryInv, FramesAssigned, HoldsEntry, Holding
<1>3. /\ lock' = [lock EXCEPT ![w] = FALSE]
      /\ lockQueue' \in [Way -> Seq(Stack)]
      /\ pc' \in [Stack -> Place]
      /\ pc'[s] = "idle"
      /\ \A u \in Stack \ {s} :
           pc'[u] = pc[u] \/ (pc[u] = "lockWait" /\ pc'[u] = "find")
      /\ EntryInv'
  <2>1. pc[s] \in Holding /\ UNCHANGED <<way, tag>>  BY <1>1 DEF Holding
  <2> HIDE DEF IInv
  <2> QED  BY <1>1, <2>1, UnlockEntryKeepsEntries DEF IInv
<1>4. TypeOK'
  <2>1. IsOrder(order')  BY <1>1, <1>2, SetKeepsOrder DEF TypeOK
  <2>2. blk' \in [Way -> Block]  BY <1>1, <1>2, ZenonT(40) DEF TypeOK, Block
  <2> QED  BY <1>1, <1>2, <1>3, <2>1, <2>2 DEF TypeOK, portVars
<1>5. PortInv'
  <2>1. \A u \in Stack :
          /\ pc'[u] \in {"port", "action"} <=> pc[u] \in {"port", "action"}
          /\ pc[u] = "portWait" => pc'[u] = "portWait"
    BY <1>1, <1>3
  <2> QED  BY <1>1, <2>1, PortFrame
<1>6. /\ ~blk'[w].valid /\ ~lock'[w]
      /\ \A v \in Way : v # w => blk'[v] = blk[v] /\ lock'[v] = lock[v]
  BY <1>1, <1>2, <1>3 DEF TypeOK, Block
<1>7. UniqueCopy'
  <2>1. \A x \in Way, y \in Tag : HasOrGets(x, y)' => HasOrGets(x, y)
    BY <1>6 DEF HasOrGets
  <2> QED  BY <2>1 DEF UniqueCopy
<1>8. HeldStateCurrent'
  <2>1. SUFFICES ASSUME NEW u \in Stack, NEW v \in Way, HoldsEntry(u, v)'
        PROVE  /\ blk'[v].transient = tag'[u]
               /\ state'[u] = blk'[v].valid
               /\ pc'[u] = "action" /\ hit'[u]
                    => state'[u] /\ blk'[v].tag = tag'[u]
               /\ pc'[u] \in {"finish", "locked"} /\ state'[u]
                    => blk'[v].tag = tag'[u]
    BY DEF HeldStateCurrent
  <2>2. u # s  BY <1>3, <2>1 DEF HoldsEntry
  <2>3. HoldsEntry(u, v) /\ pc'[u] = pc[u]
    BY <1>1, <1>3, <2>1, <2>2 DEF HoldsEntry
  <2>4. v # w  BY <1>2, <2>2, <2>3 DEF EntryInv, EntryMutex
  <2>5. /\ blk'[v] = blk[v] /\ tag'[u] = tag[u] /\ hit'[u] = hit[u]
        /\ state'[u] = state[u]
    BY <1>1, <1>6, <2>2, <2>4 DEF TypeOK
  <2>6. /\ blk[v].transient = tag[u]
        /\ state[u] = blk[v].valid
        /\ pc[u] = "action" /\ hit[u] => state[u] /\ blk[v].tag = tag[u]
        /\ pc[u] \in {"finish", "locked"} /\ state[u] => blk[v].tag = tag[u]
    BY <2>3 DEF HeldStateCurrent
  <2> QED  BY <2>3, <2>5, <2>6
<1> QED  BY <1>3, <1>4, <1>5, <1>7, <1>8

-----------------------------------------------------------------------------
LEMMA InitIInv == Init => IInv
<1> SUFFICES ASSUME Init PROVE IInv
  OBVIOUS
<1> USE NoneAssumption, PortsAssumption DEF Init
<1>1. TypeOK
  BY InitialOrderIsOrder DEF TypeOK, Block, Place
<1>2. {p \in Port : ports[p] # None} = {}  OBVIOUS
<1>3. PortInv
  <2>1. Cardinality({p \in Port : ports[p] # None}) = 0
    BY <1>2, FS_EmptySet
  <2>2. PortsConsistent  BY <2>1 DEF PortsConsistent
  <2>3. NoIdlePort /\ PortQueueOK  BY DEF NoIdlePort, PortQueueOK
  <2> QED  BY <2>2, <2>3 DEF PortInv
<1>4. EntryInv
  BY DEF EntryInv, EntryMutex, EntryQueues, FramesAssigned, HoldsEntry, Holding
<1>5. HeldStateCurrent  BY DEF HeldStateCurrent, HoldsEntry
<1>6. UniqueCopy  BY DEF UniqueCopy, HasOrGets
<1> QED  BY <1>1, <1>3, <1>4, <1>5, <1>6 DEF IInv

LEMMA NextKeeps == IInv /\ [Next]_vars => IInv'
<1> SUFFICES ASSUME IInv, [Next]_vars PROVE IInv'
  OBVIOUS
<1>1. ASSUME NEW s \in Stack, NEW t \in Tag, Start(s, t) PROVE IInv'
  BY <1>1, StartKeeps
<1>2. ASSUME NEW s \in Stack, Event(s) PROVE IInv'
  BY <1>2, FindAndLockKeeps, PortErrorKeeps, PortWaitKeeps, PortLockKeeps,
     ActionKeeps, EvictDoneKeeps, EvictErrorKeeps, FinishKeeps, FillKeeps,
     InvalidateKeeps, UnlockKeeps, MissErrorKeeps DEF Event
<1>3. CASE UNCHANGED vars
  BY <1>3 DEF vars, cacheVars, lockVars, portVars, frameVars, IInv, TypeOK,
     PortInv, PortsConsistent, NoIdlePort, PortQueueOK, EntryInv, EntryMutex,
     EntryQueues, FramesAssigned, HoldsEntry, HeldStateCurrent, UniqueCopy,
     HasOrGets
<1> QED  BY <1>1, <1>2, <1>3 DEF Next

THEOREM Invariance == Spec => []IInv
BY InitIInv, NextKeeps, PTL DEF Spec

\* The variables keep their types; in particular the replacement list is whole.
THEOREM Typing == Spec => []TypeOK
BY Invariance, PTL DEF IInv

\* The directory entry of a block is a lock: dir_entry_lock and
\* dir_entry_unlock let one access hold it at a time, it is locked exactly
\* while somebody holds it, and every return path unlocks it.
THEOREM EntriesAreLocks == Spec => []EntryMutex
<1>1. IInv => EntryMutex  BY DEF IInv, EntryInv
<1> QED  BY <1>1, Invariance, PTL

\* Ports are neither lost nor shared, on any path of find-and-lock.
THEOREM PortsAreConserved == Spec => []PortsConsistent
<1>1. IInv => PortsConsistent  BY DEF IInv, PortInv
<1> QED  BY <1>1, Invariance, PTL

\* No access waits for a port while one is free.
THEOREM PortsAreUsed == Spec => []NoIdlePort
<1>1. IInv => NoIdlePort  BY DEF IInv, PortInv
<1> QED  BY <1>1, Invariance, PTL

\* A block is never in two ways of its set, nor brought into two.
THEOREM CopiesAreUnique == Spec => []UniqueCopy
<1>1. IInv => UniqueCopy  BY DEF IInv
<1> QED  BY <1>1, Invariance, PTL

\* What an access read of its entry when it locked it stays true until it
\* unlocks it.
THEOREM HeldStateIsCurrent == Spec => []HeldStateCurrent
<1>1. IInv => HeldStateCurrent  BY DEF IInv
<1> QED  BY <1>1, Invariance, PTL

-----------------------------------------------------------------------------
(***************************************************************************)
(* dir_entry_unlock wakes the first waiter of an entry only and leaves the *)
(* lock free.  The other waiters depend on the first one to lock the same  *)
(* entry, and to unlock it, or to queue for it again.  It does, in a       *)
(* module whose own accesses are serialised block by block, unless         *)
(* requests of higher-level modules bring blocks in as well.               *)
(***************************************************************************)
\* A module is the first level of the hierarchy for some processor, or serves
\* higher-level modules, not both.
NoMixedKinds ==
  (\E s \in Stack : Kind[s] = "access") => \A s \in Stack : Kind[s] # "updown"

Heading == {"find", "portWait", "port"}

\* Accesses of the module to one block come one after the other, and so do the
\* requests down-up for a block.
Serialised ==
  \A s, u \in Stack :
    /\ pc[s] # "idle" /\ pc[u] # "idle" /\ tag[s] = tag[u]
    /\ \/ Own(s) /\ Own(u)
       \/ Kind[s] = "downup" /\ Kind[u] = "downup"
    => s = u

\* A request down-up finds the block it was sent for.
DownUpPresent ==
  \A s \in Stack : Kind[s] = "downup" /\ pc[s] # "idle" =>
    \E w \in Way : blk[w].valid /\ blk[w].tag = tag[s]

\* The way an access keeps: where it waits, and where it goes when it is woken.
KeptWay ==
  \A s \in Stack :
    /\ pc[s] = "lockWait" => Blocking(s)
    /\ pc[s] \in {"lockWait", "locked"} => retWay[s] = way[s]
    /\ pc[s] \in {"portWait", "port"} => way[s] = retWay[s]
    /\ Blocking(s) /\ pc[s] \in Holding /\ retWay[s] # None => way[s] = retWay[s]
    /\ ~Blocking(s) /\ pc[s] \in Heading => retWay[s] = None

\* No other way has or gets the block of an access that keeps a way.
KeptWayIsRight ==
  \A s \in Stack :
    /\ Blocking(s)
    /\ pc[s] \in Heading \cup {"lockWait"}
    /\ retWay[s] # None
    => \A w \in Way : HasOrGets(w, tag[s]) => w = retWay[s]

WakeInv ==
  /\ Serialised
  /\ DownUpPresent
  /\ KeptWay
  /\ KeptWayIsRight
  /\ NoLostWakeup

\* A step that changes no block, frees no entry and moves no access to or from
\* a waiting place, except on its way to the port.
LEMMA WakeFrame ==
  ASSUME IInv, WakeInv, UNCHANGED <<blk, lock, tag, retWay>>,
         \A w \in Way : lockQueue'[w] # <<>> => lockQueue[w] # <<>>,
         \A u \in Stack :
           /\ pc'[u] # "idle" => pc[u] # "idle"
           /\ pc'[u] \in {"lockWait", "locked"} => pc[u] = pc'[u] /\ way'[u] = way[u]
           /\ pc'[u] \in {"portWait", "port"} =>
                \/ pc[u] = "find" /\ way'[u] = retWay[u]
                \/ pc[u] \in {"portWait", "port"} /\ way'[u] = way[u]
           /\ pc'[u] \in Holding => pc[u] \in Holding /\ way'[u] = way[u]
           /\ pc'[u] \in Heading => pc[u] \in Heading
           /\ pc[u] \in Heading /\ retWay[u] # None => pc'[u] \in Heading
  PROVE  WakeInv'
<1> USE DEF WakeInv
<1>1. Serialised'  BY DEF Serialised, Own
<1>2. DownUpPresent'  BY DEF DownUpPresent
<1>3. KeptWay'  BY DEF KeptWay, Blocking, Heading, Holding
<1>4. KeptWayIsRight'
  BY DEF KeptWayIsRight, Blocking, HasOrGets, Heading
<1>5. NoLostWakeup'
  <2>1. SUFFICES ASSUME NEW w \in Way, lockQueue'[w] # <<>>, ~lock'[w]
                 PROVE  \E s \in Stack : pc'[s] \in Heading /\ retWay'[s] = w
    BY DEF NoLostWakeup, Heading
  <2>2. PICK s \in Stack : pc[s] \in Heading /\ retWay[s] = w
    BY <2>1 DEF NoLostWakeup, Heading
  <2>3. w # None  BY NoneAssumption
  <2> QED  BY <2>2, <2>3
<1> QED  BY <1>1, <1>2, <1>3, <1>4, <1>5

LEMMA StartWakes ==
  ASSUME IInv, WakeInv, NEW s \in Stack, NEW t \in Tag, Start(s, t)
  PROVE  WakeInv'
<1> USE DEF WakeInv
<1>1. /\ pc[s] = "idle" /\ MayStart(s, t)
      /\ tag' = [tag EXCEPT ![s] = t]
      /\ retWay' = [retWay EXCEPT ![s] = None]
      /\ pc' = [pc EXCEPT ![s] = "find"]
      /\ UNCHANGED <<blk, lock, lockQueue, way>>
  BY DEF Start, cacheVars, lockVars
<1>2. /\ pc'[s] = "find" /\ tag'[s] = t /\ retWay'[s] = None
      /\ \A u \in Stack : u # s =>
           pc'[u] = pc[u] /\ tag'[u] = tag[u] /\ retWay'[u] = retWay[u]
  BY <1>1 DEF IInv, TypeOK
<1>3. Serialised'
  <2>1. SUFFICES ASSUME NEW u \in Stack, NEW v \in Stack,
                        pc'[u] # "idle", pc'[v] # "idle", tag'[u] = tag'[v],
                        \/ Own(u) /\ Own(v)
                        \/ Kind[u] = "downup" /\ Kind[v] = "downup"
                 PROVE  u = v
    BY DEF Serialised, Own
  <2>2. CASE u # s /\ v # s
    BY <1>2, <2>1, <2>2 DEF Serialised
  <2>3. ASSUME NEW x \in Stack, x # s, pc'[x] # "idle", tag'[x] = t,
               \/ Own(s) /\ Own(x)
               \/ Kind[s] = "downup" /\ Kind[x] = "downup"
        PROVE  FALSE
    <3>1. pc[x] # "idle" /\ tag[x] = t  BY <1>2, <2>3
    <3> QED  BY <1>1, <2>3, <3>1 DEF MayStart
  <2>4. CASE u = s /\ v # s
    <3>1. tag'[v] = t  BY <1>2, <2>1, <2>4
    <3> QED  BY <2>1, <2>3, <2>4, <3>1
  <2>5. CASE v = s /\ u # s
    <3>1. tag'[u] = t  BY <1>2, <2>1, <2>5
    <3> QED  BY <2>1, <2>3, <2>5, <3>1
  <2> QED  BY <2>2, <2>4, <2>5
<1>4. DownUpPresent'
  <2>1. Kind[s] = "downup" => \E w \in Way : blk[w].valid /\ blk[w].tag = t
    BY <1>1 DEF MayStart
  <2> QED  BY <1>1, <1>2, <2>1 DEF DownUpPresent
<1>5. KeptWay'
  BY <1>1, <1>2 DEF KeptWay, Blocking, Heading, Holding
<1>6. KeptWayIsRight'
  BY <1>1, <1>2 DEF KeptWayIsRight, Blocking, HasOrGets, Heading
<1>7. NoLostWakeup'
  <2>1. SUFFICES ASSUME NEW w \in Way, lockQueue'[w] # <<>>, ~lock'[w]
                 PROVE  \E u \in Stack : pc'[u] \in Heading /\ retWay'[u] = w
    BY DEF NoLostWakeup, Heading
  <2>2. PICK u \in Stack : pc[u] \in Heading /\ retWay[u] = w
    BY <1>1, <2>1 DEF NoLostWakeup, Heading
  <2> QED  BY <1>1, <1>2, <2>2 DEF Heading
<1> QED  BY <1>3, <1>4, <1>5, <1>6, <1>7

LEMMA FindAndLockWakes ==
  ASSUME IInv, WakeInv, NEW s \in Stack, FindAndLock(s)
  PROVE  WakeInv'
<1>1. /\ pc[s] = "find"
      /\ pc' \in {[pc EXCEPT ![s] = "port"], [pc EXCEPT ![s] = "portWait"]}
      /\ way' = [way EXCEPT ![s] = retWay[s]]
      /\ UNCHANGED <<blk, lock, lockQueue, tag, retWay>>
  BY DEF FindAndLock, cacheVars, lockVars
<1>2. \A u \in Stack :
        /\ u # s => pc'[u] = pc[u] /\ way'[u] = way[u]
        /\ pc'[s] \in {"port", "portWait"} /\ way'[s] = retWay[s]
  BY <1>1 DEF IInv, TypeOK
<1> QED  BY <1>1, <1>2, WakeFrame DEF Heading, Holding

\* What the accesses other than s do when s gives its port back.
LEMMA PortHandover ==
  ASSUME IInv, NEW s \in Stack, pc[s] \in {"port", "action"},
         NEW next \in {"idle", "lockWait", "evict", "finish"},
         UnlockPort(s, next)
  PROVE  /\ pc'[s] = next
         /\ \A u \in Stack \ {s} :
              pc'[u] = pc[u] \/ (pc[u] = "portWait" /\ pc'[u] = "port")
<1>1. next \in Place \ {"port", "action", "portWait"}  BY DEF Place
<1> QED  BY <1>1, UnlockPortKeepsPorts DEF IInv

LEMMA PortErrorWakes ==
  ASSUME IInv, WakeInv, NEW s \in Stack, PortError(s)
  PROVE  WakeInv'
<1>1. /\ pc[s] = "port" /\ ~Blocking(s)
      /\ UnlockPort(s, "idle")
      /\ UNCHANGED <<blk, lock, lockQueue, tag, retWay>>
  BY DEF PortError, lockVars
<1>2. PICK w \in Candidates(s) : way' = [way EXCEPT ![s] = w]
  BY DEF PortError
<1>3. /\ pc'[s] = "idle"
      /\ \A u \in Stack \ {s} :
           pc'[u] = pc[u] \/ (pc[u] = "portWait" /\ pc'[u] = "port")
  BY <1>1, PortHandover
<1>4. \A u \in Stack \ {s} : way'[u] = way[u]
  BY <1>2 DEF IInv, TypeOK
<1>5. retWay[s] = None
  BY <1>1 DEF WakeInv, KeptWay, Heading
<1> QED  BY <1>1, <1>3, <1>4, <1>5, WakeFrame DEF Heading, Holding

LEMMA ActionWakes ==
  ASSUME IInv, WakeInv, NEW s \in Stack, Action(s)
  PROVE  WakeInv'
<1> DEFINE next == IF ~hit[s] /\ state[s] THEN "evict" ELSE "finish"
<1>1. /\ pc[s] = "action"
      /\ UnlockPort(s, next)
      /\ UNCHANGED <<blk, lock, lockQueue, tag, retWay, way>>
  BY DEF Action, cacheVars, lockVars, frameVars
<1>2. next \in {"evict", "finish"}  OBVIOUS
<1> HIDE DEF next
<1>3. /\ pc'[s] = next
      /\ \A u \in Stack \ {s} :
           pc'[u] = pc[u] \/ (pc[u] = "portWait" /\ pc'[u] = "port")
  BY <1>1, <1>2, PortHandover
<1> QED  BY <1>1, <1>2, <1>3, WakeFrame DEF Heading, Holding

\* An access that keeps a way goes for no other one.
LEMMA KeptWayIsTaken ==
  ASSUME IInv, WakeInv, NEW s \in Stack, pc[s] = "port",
         NEW w \in Candidates(s), retWay[s] # None
  PROVE  w = retWay[s]
<1>1. way[s] = retWay[s] /\ Blocking(s)
  BY DEF WakeInv, KeptWay, Heading
<1>2. CASE Hit(tag[s])
  <2>1. w \in Way /\ HasOrGets(w, tag[s])
    BY <1>2, CandidateIsWay DEF Matches, HasOrGets
  <2> QED  BY <1>1, <2>1 DEF WakeInv, KeptWayIsRight, Heading
<1>3. CASE ~Hit(tag[s])
  BY <1>1, <1>3 DEF Candidates
<1> QED  BY <1>2, <1>3

\* After a look-up, only the way that was chosen has or gets the block.
LEMMA ChosenWayIsRight ==
  ASSUME IInv, NEW s \in Stack, pc[s] = "port", NEW w \in Candidates(s),
         NEW v \in Way, HasOrGets(v, tag[s])
  PROVE  v = w
<1>1. Hit(tag[s])  BY DEF Hit, Matches, HasOrGets
<1>2. w \in Way /\ HasOrGets(w, tag[s])
  BY <1>1, CandidateIsWay DEF Matches, HasOrGets
<1>3. tag[s] \in Tag  BY DEF IInv, EntryInv, FramesAssigned
<1> QED  BY <1>2, <1>3 DEF IInv, UniqueCopy

LEMMA PortWaitWakes ==
  ASSUME IInv, WakeInv, NEW s \in Stack, PortWait(s)
  PROVE  WakeInv'
<1> USE DEF WakeInv
<1>1. /\ pc[s] = "port" /\ Blocking(s)
      /\ UnlockPort(s, "lockWait")
      /\ UNCHANGED <<blk, lock, tag>>
  BY DEF PortWait
<1>2. PICK w \in Candidates(s) :
        /\ lock[w]
        /\ way' = [way EXCEPT ![s] = w]
        /\ retWay' = [retWay EXCEPT ![s] = w]
        /\ lockQueue' = [lockQueue EXCEPT ![w] = Append(@, s)]
  BY DEF PortWait
<1>3. w \in Way /\ w # None  BY <1>1, CandidateIsWay, NoneAssumption
<1>4. /\ pc'[s] = "lockWait"
      /\ \A u \in Stack \ {s} :
           pc'[u] = pc[u] \/ (pc[u] = "portWait" /\ pc'[u] = "port")
  BY <1>1, PortHandover
<1>5. /\ way'[s] = w /\ retWay'[s] = w
      /\ \A u \in Stack \ {s} : way'[u] = way[u] /\ retWay'[u] = retWay[u]
      /\ \A v \in Way : v # w => lockQueue'[v] = lockQueue[v]
  BY <1>2, <1>3 DEF IInv, TypeOK
<1>6. Serialised'  BY <1>1, <1>4 DEF Serialised, Own
<1>7. DownUpPresent'  BY <1>1, <1>4 DEF DownUpPresent
<1>8. KeptWay'
  BY <1>1, <1>4, <1>5 DEF KeptWay, Blocking, Heading, Holding
<1>9. KeptWayIsRight'
  <2>1. \A v \in Way : HasOrGets(v, tag[s]) => v = w
    BY <1>1, ChosenWayIsRight
  <2>2. \A v \in Way, t \in Tag : HasOrGets(v, t)' <=> HasOrGets(v, t)
    BY <1>1 DEF HasOrGets
  <2>3. ASSUME NEW u \in Stack, Blocking(u),
               pc'[u] \in Heading \cup {"lockWait"}, retWay'[u] # None,
               NEW v \in Way, HasOrGets(v, tag[u])'
        PROVE  v = retWay'[u]
    <3>1. HasOrGets(v, tag[u])  BY <1>1, <2>3 DEF HasOrGets
    <3>2. CASE u = s
      BY <1>5, <2>1, <3>1, <3>2
    <3>3. CASE u # s
      <4>1. pc[u] \in Heading \cup {"lockWait"} /\ retWay[u] # None
        BY <1>4, <1>5, <2>3, <3>3 DEF Heading
      <4> QED  BY <1>5, <2>3, <3>1, <3>3, <4>1 DEF KeptWayIsRight
    <3> QED  BY <3>2, <3>3
  <2> QED  BY <2>3 DEF KeptWayIsRight, Blocking, HasOrGets
<1>10. NoLostWakeup'
  <2>1. SUFFICES ASSUME NEW v \in Way, lockQueue'[v] # <<>>, ~lock'[v]
                 PROVE  \E u \in Stack : pc'[u] \in Heading /\ retWay'[u] = v
    BY DEF NoLostWakeup, Heading
  <2>2. v # w /\ lockQueue[v] # <<>> /\ ~lock[v]
    BY <1>1, <1>2, <1>5, <2>1
  <2>3. PICK u \in Stack : pc[u] \in Heading /\ retWay[u] = v
    BY <2>2 DEF NoLostWakeup, Heading
  <2>4. u # s
    BY <1>1, <2>2, <2>3, KeptWayIsTaken, NoneAssumption
  <2> QED  BY <1>4, <1>5, <2>3, <2>4 DEF Heading
<1> QED  BY <1>6, <1>7, <1>8, <1>9, <1>10

LEMMA PortLockWakes ==
  ASSUME NoMixedKinds, IInv, WakeInv, NEW s \in Stack, PortLock(s)
  PROVE  WakeInv'
<1> USE DEF WakeInv
<1>1. /\ pc[s] = "port"
      /\ pc' = [pc EXCEPT ![s] = "action"]
      /\ UNCHANGED <<lockQueue, tag, retWay>>
  BY DEF PortLock
<1>2. PICK w \in Candidates(s) :
        /\ ~lock[w]
        /\ way' = [way EXCEPT ![s] = w]
        /\ lock' = [lock EXCEPT ![w] = TRUE]
        /\ blk' = [blk EXCEPT ![w].transient = tag[s]]
  BY DEF PortLock
<1>3. w \in Way /\ w # None  BY <1>1, CandidateIsWay, NoneAssumption
<1>4. /\ pc'[s] = "action" /\ way'[s] = w
      /\ \A u \in Stack \ {s} : pc'[u] = pc[u] /\ way'[u] = way[u]
  BY <1>1, <1>2 DEF IInv, TypeOK
<1>5. /\ \A v \in Way : blk'[v].valid = blk[v].valid /\ blk'[v].tag = blk[v].tag
      /\ blk'[w].transient = tag[s] /\ lock'[w]
      /\ \A v \in Way : v # w => blk'[v] = blk[v] /\ lock'[v] = lock[v]
  BY <1>2, <1>3 DEF IInv, TypeOK, Block
<1>6. Serialised'  BY <1>1, <1>4 DEF Serialised, Own
<1>7. DownUpPresent'  BY <1>1, <1>4, <1>5 DEF DownUpPresent
<1>8. retWay[s] # None => w = retWay[s]
  BY <1>1, KeptWayIsTaken
<1>9. KeptWay'
  BY <1>1, <1>4, <1>8 DEF KeptWay, Blocking, Heading, Holding
<1>10. KeptWayIsRight'
  <2>1. SUFFICES ASSUME NEW u \in Stack, Blocking(u),
                        pc'[u] \in Heading \cup {"lockWait"}, retWay[u] # None,
                        NEW v \in Way, HasOrGets(v, tag[u])'
                 PROVE  v = retWay[u]
    BY <1>1 DEF KeptWayIsRight, Blocking, HasOrGets
  <2>2. u # s /\ pc[u] \in Heading \cup {"lockWait"}
    BY <1>4, <2>1 DEF Heading
  <2>3. CASE HasOrGets(v, tag[u])
    BY <2>1, <2>2, <2>3 DEF KeptWayIsRight
  <2>4. CASE ~HasOrGets(v, tag[u])
    <3>1. v = w /\ tag[u] = tag[s]
      BY <1>1, <1>5, <2>1, <2>4 DEF HasOrGets
    <3>2. pc[u] # "idle" /\ pc[s] # "idle"
      BY <1>1, <2>2 DEF Heading
    <3>3. CASE Kind[u] = "downup"
      <4>1. PICK x \in Way : blk[x].valid /\ blk[x].tag = tag[u]
        BY <3>2, <3>3 DEF DownUpPresent
      <4>2. HasOrGets(x, tag[s])  BY <3>1, <4>1 DEF HasOrGets
      <4>3. x = w  BY <1>1, <4>2, ChosenWayIsRight
      <4> QED  BY <2>4, <3>1, <4>2, <4>3
    <3>4. CASE Kind[u] = "access"
      <4>1. ~Own(s)
        BY <2>2, <3>1, <3>2, <3>4 DEF Serialised, Own
      <4>2. Kind[s] = "downup"
        BY <3>4, <4>1, KindAssumption DEF Own, NoMixedKinds
      <4>3. PICK x \in Way : blk[x].valid /\ blk[x].tag = tag[s]
        BY <3>2, <4>2 DEF DownUpPresent
      <4>4. HasOrGets(x, tag[s])  BY <4>3 DEF HasOrGets
      <4>5. x = w  BY <1>1, <4>4, ChosenWayIsRight
      <4> QED  BY <2>4, <3>1, <4>4, <4>5
    <3> QED  BY <2>1, <3>3, <3>4 DEF Blocking
  <2> QED  BY <2>3, <2>4
<1>11. NoLostWakeup'
  <2>1. SUFFICES ASSUME NEW v \in Way, lockQueue'[v] # <<>>, ~lock'[v]
                 PROVE  \E u \in Stack : pc'[u] \in Heading /\ retWay'[u] = v
    BY DEF NoLostWakeup, Heading
  <2>2. v # w /\ lockQueue[v] # <<>> /\ ~lock[v]
    BY <1>1, <1>5, <2>1
  <2>3. PICK u \in Stack : pc[u] \in Heading /\ retWay[u] = v
    BY <2>2 DEF NoLostWakeup, Heading
  <2>4. u # s
    BY <1>8, <2>2, <2>3, NoneAssumption
  <2> QED  BY <1>1, <1>4, <2>3, <2>4
<1> QED  BY <1>6, <1>7, <1>9, <1>10, <1>11

\* The holder of an entry changes its block, and keeps the entry.
LEMMA HolderWakes ==
  ASSUME IInv, WakeInv, NEW s \in Stack, NEW p \in {"finish", "locked"},
         pc[s] \in {"evict", "finish", "locked"},
         pc' = [pc EXCEPT ![s] = p],
         UNCHANGED <<lock, lockQueue, tag, way>>,
         \/ UNCHANGED retWay /\ (p = "locked" => pc[s] = "locked")
         \/ retWay' = [retWay EXCEPT ![s] = way[s]],
         \A w \in Way, t \in Tag : HasOrGets(w, t)' => HasOrGets(w, t),
         DownUpPresent'
  PROVE  WakeInv'
<1> USE DEF WakeInv
<1>1. /\ pc'[s] = p
      /\ \A u \in Stack \ {s} : pc'[u] = pc[u] /\ retWay'[u] = retWay[u]
      /\ retWay'[s] \in {retWay[s], way[s]}
      /\ p = "locked" => retWay'[s] = way[s]
  BY DEF IInv, TypeOK, KeptWay
<1>2. Serialised'  BY <1>1 DEF Serialised, Own
<1>3. KeptWay'
  BY <1>1 DEF KeptWay, Blocking, Heading, Holding
<1>4. KeptWayIsRight'
  <2>1. SUFFICES ASSUME NEW u \in Stack, Blocking(u),
                        pc'[u] \in Heading \cup {"lockWait"}, retWay'[u] # None,
                        NEW v \in Way, HasOrGets(v, tag[u])'
                 PROVE  v = retWay'[u]
    BY DEF KeptWayIsRight, Blocking, HasOrGets
  <2>2. u # s  BY <1>1, <2>1 DEF Heading
  <2>3. pc[u] \in Heading \cup {"lockWait"} /\ retWay'[u] = retWay[u]
    BY <1>1, <2>1, <2>2
  <2>4. tag[u] \in Tag
    BY <2>3 DEF IInv, EntryInv, FramesAssigned, Heading
  <2> QED  BY <2>1, <2>3, <2>4 DEF KeptWayIsRight
<1>5. NoLostWakeup'
  <2>1. SUFFICES ASSUME NEW v \in Way, lockQueue[v] # <<>>, ~lock[v]
                 PROVE  \E u \in Stack : pc'[u] \in Heading /\ retWay'[u] = v
    BY DEF NoLostWakeup, Heading
  <2>2. PICK u \in Stack : pc[u] \in Heading /\ retWay[u] = v
    BY <2>1 DEF NoLostWakeup, Heading
  <2>3. u # s  BY <2>2 DEF Heading
  <2> QED  BY <1>1, <2>2, <2>3
<1> QED  BY <1>2, <1>3, <1>4, <1>5

\* An access leaves its entry and wakes the first waiter.
LEMMA LeavingWakes ==
  ASSUME IInv, WakeInv, NEW s \in Stack, pc[s] \in {"evict", "locked"},
         NEW next \in {"idle", "find"}, next = "find" => Blocking(s),
         UnlockEntry(s, way[s], next),
         UNCHANGED <<tag, way, retWay>>,
         \A w \in Way, t \in Tag : HasOrGets(w, t)' => HasOrGets(w, t),
         DownUpPresent'
  PROVE  WakeInv'
<1> USE DEF WakeInv
<1> DEFINE w == way[s]
           q == lockQueue[w]
<1>1. w \in Way /\ HoldsEntry(s, w) /\ tag[s] \in Tag
  BY DEF IInv, EntryInv, FramesAssigned, HoldsEntry, Holding
<1>2. /\ pc'[s] = next
      /\ \A u \in Stack \ {s} :
           pc'[u] = pc[u] \/ (pc[u] = "lockWait" /\ pc'[u] = "find")
      /\ lock' = [lock EXCEPT ![w] = FALSE]
  BY UnlockEntryKeepsEntries DEF IInv, Holding
<1>3. HasOrGets(w, tag[s])
  BY <1>1 DEF IInv, EntryInv, EntryMutex, HeldStateCurrent, HasOrGets
<1>4. Serialised'  BY <1>2 DEF Serialised, Own
<1>5. KeptWay'
  BY <1>2 DEF KeptWay, Blocking, Heading, Holding
<1>6. KeptWayIsRight'
  <2>1. SUFFICES ASSUME NEW u \in Stack, Blocking(u),
                        pc'[u] \in Heading \cup {"lockWait"}, retWay[u] # None,
                        NEW v \in Way, HasOrGets(v, tag[u])'
                 PROVE  v = retWay[u]
    BY DEF KeptWayIsRight, Blocking, HasOrGets
  <2>2. tag[u] \in Tag
    BY <1>1, <1>2, <2>1 DEF IInv, EntryInv, FramesAssigned, Heading
  <2>3. HasOrGets(v, tag[u])  BY <2>1, <2>2
  <2>4. CASE u = s
    <3>1. retWay[s] = w
      BY <2>1, <2>4 DEF KeptWay, Holding
    <3> QED  BY <1>1, <1>3, <2>3, <2>4, <3>1 DEF IInv, UniqueCopy
  <2>5. CASE u # s
    <3>1. pc[u] \in Heading \cup {"lockWait"}
      BY <1>2, <2>1, <2>5 DEF Heading
    <3> QED  BY <2>1, <2>3, <3>1 DEF KeptWayIsRight
  <2> QED  BY <2>4, <2>5
<1>7. NoLostWakeup'
  <2>1. SUFFICES ASSUME NEW v \in Way, lockQueue'[v] # <<>>, ~lock'[v]
                 PROVE  \E u \in Stack : pc'[u] \in Heading /\ retWay[u] = v
    BY DEF NoLostWakeup, Heading
  <2>2. CASE v = w
    <3>1. q # <<>> /\ q \in Seq(Stack)
      BY <1>1, <2>1, <2>2 DEF UnlockEntry, IInv, TypeOK
    <3>2. Head(q) = q[1] /\ 1 \in 1 .. Len(q) /\ Head(q) \in Stack
      BY <3>1
    <3>3. pc[Head(q)] = "lockWait" /\ way[Head(q)] = w
      BY <1>1, <3>2 DEF IInv, EntryInv, EntryQueues
    <3>4. pc'[Head(q)] = "find"
      BY <3>1, <3>2, <3>3 DEF UnlockEntry, IInv, TypeOK
    <3>5. retWay[Head(q)] = w  BY <3>2, <3>3 DEF KeptWay
    <3> QED  BY <2>2, <3>2, <3>4, <3>5 DEF Heading
  <2>3. CASE v # w
    <3>1. lockQueue[v] # <<>> /\ ~lock[v]
      BY <1>1, <1>2, <2>1, <2>3 DEF UnlockEntry, IInv, TypeOK
    <3>2. PICK u \in Stack : pc[u] \in Heading /\ retWay[u] = v
      BY <3>1 DEF NoLostWakeup, Heading
    <3>3. u # s  BY <3>2 DEF Heading
    <3> QED  BY <1>2, <3>2, <3>3 DEF Heading
  <2> QED  BY <2>2, <2>3
<1> QED  BY <1>4, <1>5, <1>6, <1>7

LEMMA EvictDoneWakes ==
  ASSUME IInv, WakeInv, NEW s \in Stack, EvictDone(s)
  PROVE  WakeInv'
<1>1. /\ pc[s] = "evict"
      /\ pc' = [pc EXCEPT ![s] = "finish"]
      /\ blk' = [blk EXCEPT ![way[s]].tag = None, ![way[s]].valid = FALSE]
      /\ UNCHANGED <<lock, lockQueue, tag, way, retWay>>
  BY DEF EvictDone, lockVars
<1>2. /\ \A w \in Way : w # way[s] => blk'[w] = blk[w]
      /\ \A w \in Way : /\ blk'[w].transient = blk[w].transient
                        /\ blk'[w].valid => blk[w].valid /\ blk'[w] = blk[w]
  BY <1>1 DEF IInv, TypeOK, Block
<1>3. \A w \in Way, t \in Tag : HasOrGets(w, t)' => HasOrGets(w, t)
  BY <1>1, <1>2 DEF HasOrGets
<1>4. DownUpPresent'
  <2>1. SUFFICES ASSUME NEW u \in Stack, Kind[u] = "downup", pc'[u] # "idle"
                 PROVE  \E w \in Way : blk'[w].valid /\ blk'[w].tag = tag[u]
    BY <1>1 DEF DownUpPresent
  <2>2. pc[u] # "idle"  BY <1>1, <2>1 DEF IInv, TypeOK
  <2>3. PICK w \in Way : blk[w].valid /\ blk[w].tag = tag[u]
    BY <2>1, <2>2 DEF WakeInv, DownUpPresent
  <2>4. w # way[s]  BY <2>1, <2>2, <2>3 DEF EvictDone
  <2> QED  BY <1>2, <2>3, <2>4
<1> QED  BY <1>1, <1>3, <1>4, HolderWakes

\* The holder of an entry without a valid block brings its block in.
LEMMA BlockComesIn ==
  ASSUME IInv, WakeInv, NEW s \in Stack, pc[s] \in {"finish", "locked"}, ~state[s],
         blk' = [blk EXCEPT ![way[s]].tag = tag[s], ![way[s]].valid = TRUE],
         UNCHANGED <<lock, tag>>,
         \A u \in Stack : pc'[u] # "idle" => pc[u] # "idle"
  PROVE  /\ \A w \in Way, t \in Tag : HasOrGets(w, t)' => HasOrGets(w, t)
         /\ DownUpPresent'
<1> DEFINE w == way[s]
<1>1. /\ w \in Way /\ lock[w] /\ blk[w].transient = tag[s] /\ ~blk[w].valid
  BY DEF IInv, EntryInv, EntryMutex, FramesAssigned, HeldStateCurrent,
         HoldsEntry, Holding
<1>2. /\ \A v \in Way : v # w => blk'[v] = blk[v]
      /\ blk'[w].transient = tag[s] /\ blk'[w].tag = tag[s]
  BY <1>1 DEF IInv, TypeOK, Block
<1>3. \A v \in Way, t \in Tag : HasOrGets(v, t)' => HasOrGets(v, t)
  BY <1>1, <1>2 DEF HasOrGets
<1>4. DownUpPresent'
  <2>1. \A v \in Way : blk[v].valid => blk'[v] = blk[v]
    BY <1>1, <1>2
  <2> QED  BY <2>1, ZenonT(40) DEF WakeInv, DownUpPresent
<1> QED  BY <1>3, <1>4

LEMMA FillWakes ==
  ASSUME IInv, WakeInv, NEW s \in Stack, Fill(s)
  PROVE  WakeInv'
<1>1. /\ pc[s] = "locked" /\ ~state[s]
      /\ blk' = [blk EXCEPT ![way[s]].tag = tag[s], ![way[s]].valid = TRUE]
      /\ UNCHANGED <<lock, lockQueue, pc, tag, way, retWay>>
  BY DEF Fill, lockVars
<1>2. pc' = [pc EXCEPT ![s] = "locked"]  BY <1>1 DEF IInv, TypeOK
<1> QED  BY <1>1, <1>2, BlockComesIn, HolderWakes

LEMMA FinishWakes ==
  ASSUME IInv, WakeInv, NEW s \in Stack, Finish(s)
  PROVE  WakeInv'
<1>1. /\ pc[s] = "finish"
      /\ pc' = [pc EXCEPT ![s] = "locked"]
      /\ retWay' = [retWay EXCEPT ![s] = way[s]]
      /\ UNCHANGED <<lock, lockQueue, tag, way>>
  BY DEF Finish, lockVars
<1>2. \A u \in Stack : pc'[u] # "idle" => pc[u] # "idle"
  BY <1>1 DEF IInv, TypeOK
<1>3. CASE MainMemory /\ ~state[s]
  <2>1. blk' = [blk EXCEPT ![way[s]].tag = tag[s], ![way[s]].valid = TRUE]
    BY <1>3 DEF Finish
  <2> QED  BY <1>1, <1>2, <1>3, <2>1, BlockComesIn, HolderWakes
<1>4. CASE ~(MainMemory /\ ~state[s])
  <2>1. UNCHANGED blk  BY <1>4 DEF Finish, cacheVars
  <2>2. /\ \A w \in Way, t \in Tag : HasOrGets(w, t)' => HasOrGets(w, t)
        /\ DownUpPresent'
    BY <1>1, <1>2, <2>1 DEF WakeInv, HasOrGets, DownUpPresent
  <2> QED  BY <1>1, <2>2, HolderWakes
<1> QED  BY <1>3, <1>4

\* An access leaves its entry without having changed the block.
LEMMA LeavingUnchangedWakes ==
  ASSUME IInv, WakeInv, NEW s \in Stack, pc[s] \in {"evict", "locked"},
         NEW next \in {"idle", "find"}, next = "find" => Kind[s] = "access",
         UnlockEntry(s, way[s], next),
         UNCHANGED <<blk, tag, way, retWay>>
  PROVE  WakeInv'
<1>1. way[s] \in Way
  BY DEF IInv, EntryInv, FramesAssigned, Holding
<1>2. /\ pc'[s] = next
      /\ \A u \in Stack \ {s} :
           pc'[u] = pc[u] \/ (pc[u] = "lockWait" /\ pc'[u] = "find")
      /\ lock' = [lock EXCEPT ![way[s]] = FALSE]
  BY UnlockEntryKeepsEntries DEF IInv, Holding
<1>3. \A w \in Way, t \in Tag : HasOrGets(w, t)' => HasOrGets(w, t)
  BY <1>1, <1>2 DEF HasOrGets, IInv, TypeOK
<1>4. DownUpPresent'
  BY <1>2 DEF WakeInv, DownUpPresent
<1> QED  BY <1>3, <1>4, LeavingWakes DEF Blocking

LEMMA InvalidateWakes ==
  ASSUME IInv, WakeInv, NEW s \in Stack, Invalidate(s)
  PROVE  WakeInv'
<1>1. /\ pc[s] = "locked" /\ Kind[s] = "downup" /\ state[s]
      /\ blk' = [blk EXCEPT ![way[s]].tag = None, ![way[s]].valid = FALSE]
      /\ UnlockEntry(s, way[s], "idle")
      /\ UNCHANGED <<tag, way, retWay>>
  BY DEF Invalidate
<1>2. way[s] \in Way /\ HoldsEntry(s, way[s])
  BY <1>1 DEF IInv, EntryInv, FramesAssigned, HoldsEntry, Holding
<1>3. /\ pc'[s] = "idle"
      /\ \A u \in Stack \ {s} :
           pc'[u] = pc[u] \/ (pc[u] = "lockWait" /\ pc'[u] = "find")
      /\ lock' = [lock EXCEPT ![way[s]] = FALSE]
  BY <1>1, UnlockEntryKeepsEntries DEF IInv, Holding
<1>4. /\ ~blk'[way[s]].valid
      /\ \A w \in Way : w # way[s] => blk'[w] = blk[w] /\ lock'[w] = lock[w]
      /\ ~lock'[way[s]]
  BY <1>1, <1>2, <1>3 DEF IInv, TypeOK, Block
<1>5. \A w \in Way, t \in Tag : HasOrGets(w, t)' => HasOrGets(w, t)
  BY <1>4 DEF HasOrGets
<1>6. DownUpPresent'
  <2>1. SUFFICES ASSUME NEW u \in Stack, Kind[u] = "downup", pc'[u] # "idle"
                 PROVE  \E w \in Way : blk'[w].valid /\ blk'[w].tag = tag[u]
    BY <1>1 DEF DownUpPresent
  <2>2. u # s /\ pc[u] # "idle"  BY <1>3, <2>1
  <2>3. tag[u] # tag[s]
    BY <1>1, <2>1, <2>2 DEF WakeInv, Serialised
  <2>4. PICK w \in Way : blk[w].valid /\ blk[w].tag = tag[u]
    BY <2>1, <2>2 DEF WakeInv, DownUpPresent
  <2>5. blk[way[s]].tag = tag[s]
    BY <1>1, <1>2 DEF IInv, HeldStateCurrent
  <2> QED  BY <1>4, <2>3, <2>4, <2>5
<1> QED  BY <1>1, <1>5, <1>6, LeavingWakes

-----------------------------------------------------------------------------
LEMMA InitWakes == Init => WakeInv
BY DEF Init, WakeInv, Serialised, DownUpPresent, KeptWay, KeptWayIsRight,
       NoLostWakeup, Heading, Holding

LEMMA NextWakes == NoMixedKinds /\ IInv /\ WakeInv /\ [Next]_vars => WakeInv'
<1> SUFFICES ASSUME NoMixedKinds, IInv, WakeInv, [Next]_vars PROVE WakeInv'
  OBVIOUS
<1>1. ASSUME NEW s \in Stack, NEW t \in Tag, Start(s, t) PROVE WakeInv'
  BY <1>1, StartWakes
<1>2. ASSUME NEW s \in Stack, Event(s) PROVE WakeInv'
  <2>1. EvictError(s) \/ Unlock(s) \/ MissError(s) => WakeInv'
    BY LeavingUnchangedWakes
    DEF EvictError, Unlock, MissError, cacheVars, frameVars
  <2> QED
    BY <1>2, <2>1, FindAndLockWakes, PortErrorWakes, PortWaitWakes,
       PortLockWakes, ActionWakes, EvictDoneWakes, FinishWakes, FillWakes,
       InvalidateWakes DEF Event
<1>3. CASE UNCHANGED vars
  BY <1>3 DEF vars, cacheVars, lockVars, portVars, frameVars, WakeInv,
     Serialised, DownUpPresent, KeptWay, KeptWayIsRight, NoLostWakeup,
     HasOrGets, Heading, Holding, Blocking, Own
<1> QED  BY <1>1, <1>2, <1>3 DEF Next

\* No waiter of a directory entry is forgotten by dir_entry_unlock, in a module
\* that serves processors or higher-level modules but not both.
THEOREM WaitersAreNotForgotten == NoMixedKinds => (Spec => []NoLostWakeup)
<1> SUFFICES ASSUME NoMixedKinds PROVE Spec => []NoLostWakeup
  OBVIOUS
<1>1. Init => IInv /\ WakeInv
  BY InitIInv, InitWakes
<1>2. IInv /\ WakeInv /\ [Next]_vars => (IInv /\ WakeInv)'
  BY NextKeeps, NextWakes
<1>3. WakeInv => NoLostWakeup
  BY DEF WakeInv
<1> QED  BY <1>1, <1>2, <1>3, PTL DEF Spec
==============================================================================
