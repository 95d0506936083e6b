------------------------- MODULE AccessQueue_proofs -------------------------
(***************************************************************************)
(* AccessQueue for any number of accesses, blocks and MSHRs: accesses that *)
(* conflict are served one after the other and leave in order, nobody      *)
(* waits for a younger access, the MSHRs suffice, and every access is      *)
(* witnessed once.                                                         *)
(***************************************************************************)
EXTENDS AccessQueue, TLAPS, FiniteSetTheorems, WellFoundedInduction

\* The access list is a list: the accesses in flight are totally ordered.
ListOrder ==
  /\ \A s \in Stack : /\ older[s] \subseteq InFlight
                      /\ s \notin older[s]
                      /\ pc[s] = "idle" => older[s] = {}
  /\ \A s, u \in InFlight : s # u => s \in older[u] \/ u \in older[s]
  /\ \A s, u, t \in Stack : t \in older[u] /\ u \in older[s] => t \in older[s]

\* Accesses that are in a waiting list, and slaves and their masters.
Waiting ==
  \A s \in Stack : /\ pc[s] = "wait" => waitsFor[s] \in older[s]
                   /\ pc[s] # "wait" => waitsFor[s] = None

Masters ==
  \A s \in Stack : master[s] # None =>
    /\ pc[s] \in {"wait", "finish"} /\ op[s] # "prefetch"
    /\ pc[s] = "wait" => waitsFor[s] = master[s]
    /\ pc[s] = "finish" => pc[master[s]] = "idle"
    /\ pc[master[s]] # "idle" => master[master[s]] = None

\* The older accesses u that have to be over before s is.
Conflict(u, s) == op[u] = "store" \/ block[u] = block[s]

Clear(s) ==
  /\ op[s] = "store" => older[s] = {}
  /\ \A u \in older[s] : ~Conflict(u, s)

\* What an access has waited for stays away until it leaves; a prefetch has
\* started when nobody accessed the block.
ServedClear ==
  \A s \in Stack :
    /\ Served(s) => Clear(s)
    /\ pc[s] = "finish" /\ master[s] = None /\ op[s] # "prefetch" => Clear(s)

PrefetchClear ==
  \A s \in Stack : op[s] = "prefetch" /\ pc[s] \notin {"idle", "finish"} =>
    \A u \in older[s] : block[u] # block[s]

\* The older accesses with which a slave conflicts are older than its master,
\* its master, or slaves of its master; when the master is over, the latter.
Joined ==
  \A s \in Stack : master[s] # None =>
    LET m == master[s] IN
    /\ pc[m] # "idle" =>
         /\ block[m] = block[s]
         /\ \A u \in older[s] : Conflict(u, s) =>
              u \in older[m] \/ u = m \/ master[u] = m
    /\ pc[m] = "idle" /\ op[m] # "prefetch" =>
         \A u \in older[s] : Conflict(u, s) => master[u] = m

\* A store is witnessed when it has a port or is coalesced, others at the end.
Witnesses ==
  \A s \in InFlight :
    /\ op[s] \in Ops \cup {"prefetch"}
    /\ op[s] \notin {"store", "prefetch"} =>
         witnessPtr[s] = "access" /\ witness[s] = 0
    /\ op[s] = "store" /\ master[s] # None => witness[s] = 1
    /\ op[s] = "prefetch" => witnessPtr[s] = "none"
    /\ op[s] = "store" /\ master[s] = None =>
         /\ witness[s] = IF witnessPtr[s] = "none" THEN 1 ELSE 0
         /\ pc[s] = "find" => witnessPtr[s] # "access"
         /\ pc[s] \in {"port", "service", "finish"} => witness[s] = 1

Slaves == {s \in Stack : master[s] # None}

Counting == coalesced = Cardinality(Slaves)

IInv ==
  /\ TypeOK
  /\ ListOrder
  /\ Waiting
  /\ Masters
  /\ ServedClear
  /\ PrefetchClear
  /\ Joined
  /\ Witnesses
  /\ Counting
  /\ MshrsSuffice

-----------------------------------------------------------------------------
(***************************************************************************)
(* The first and the last access of a part of the list.                    *)
(***************************************************************************)

\* Among finite sets one is minimal.
LEMMA Minimal ==
  ASSUME NEW T \in SUBSET (SUBSET Stack), T # {}
  PROVE  \E x \in T : \A y \in T : y \subseteq x => y = x
<1>1. T \subseteq FiniteSubsetsOf(Stack)
  BY StackAssumption, FS_FiniteSubsetsOfFinite
<1>2. PICK x \in T : \A y \in T : <<y, x>> \notin StrictSubsetOrdering(Stack)
  BY <1>1, FS_StrictSubsetOrderingWellFounded, WFMin
<1>3. \A y \in T : y \subseteq x => y = x
  BY <1>2 DEF StrictSubsetOrdering
<1> QED  BY <1>3

LEMMA OldestIsFirst ==
  ASSUME TypeOK, ListOrder, NEW A \in SUBSET InFlight, A # {}
  PROVE  Oldest(A) \in A /\ older[Oldest(A)] \cap A = {}
<1> DEFINE T == {older[s] : s \in A}
<1>1. T \in SUBSET (SUBSET Stack) /\ T # {}
  BY DEF TypeOK, InFlight
<1>2. PICK x \in T : \A y \in T : y \subseteq x => y = x
  BY <1>1, Minimal
<1>3. PICK s \in A : older[s] = x  OBVIOUS
<1>4. older[s] \cap A = {}
  <2>1. SUFFICES ASSUME NEW u \in older[s] \cap A  PROVE FALSE
    OBVIOUS
  <2>2. older[u] \subseteq older[s] /\ u \notin older[u]
    BY DEF ListOrder, InFlight, TypeOK
  <2> QED  BY <1>2, <1>3, <2>1, <2>2
<1> QED  BY <1>4 DEF Oldest

LEMMA YoungestIsLast ==
  ASSUME TypeOK, ListOrder, NEW A \in SUBSET InFlight, A # {}
  PROVE  Youngest(A) \in A /\ A \ {Youngest(A)} \subseteq older[Youngest(A)]
<1> DEFINE T == {Stack \ older[s] : s \in A}
<1>1. T \in SUBSET (SUBSET Stack) /\ T # {}
  OBVIOUS
<1>2. PICK x \in T : \A y \in T : y \subseteq x => y = x
  BY <1>1, Minimal
<1>3. PICK s \in A : Stack \ older[s] = x  OBVIOUS
<1>4. A \ {s} \subseteq older[s]
  <2>1. SUFFICES ASSUME NEW u \in A \ {s}, u \notin older[s]  PROVE FALSE
    OBVIOUS
  <2>2. s \in older[u]  BY <2>1 DEF ListOrder
  <2>3. Stack \ older[u] \subseteq Stack \ older[s]
    BY <2>2 DEF ListOrder, InFlight
  <2>4. Stack \ older[u] = Stack \ older[s]  BY <1>2, <1>3, <2>3
  <2> QED  BY <2>2, <2>4 DEF ListOrder, InFlight
<1> QED  BY <1>4 DEF Youngest

-----------------------------------------------------------------------------
(***************************************************************************)
(* Coalescing and waiting.                                                 *)
(***************************************************************************)

\* A master is an access in flight that has no master, to the same block; what
\* conflicts with the new access is older than it, or one of its slaves.
LEMMA MasterIsThere ==
  ASSUME IInv, NobodyFinishing, NEW o \in Ops, NEW b \in Block,
         NEW m, m = CanCoalesce(o, b, InFlight), m # None
  PROVE  /\ m \in InFlight /\ master[m] = None /\ block[m] = b
         /\ \A u \in InFlight : op[u] = "store" \/ block[u] = b =>
              u \in older[m] \/ u = m \/ master[u] = m
<1> DEFINE reads == SameBlock(ReadTail(InFlight), b)
           tail == Youngest(InFlight)
<1> USE DEF IInv
\* r is the access at which the new one is hung, u another one in flight.
<1>1. ASSUME NEW r \in InFlight, m = MasterOf(r), block[r] = b,
             \A u \in InFlight : op[u] = "store" \/ block[u] = b =>
               u \in older[r] \/ u = r
      PROVE  /\ m \in InFlight /\ master[m] = None /\ block[m] = b
             /\ \A u \in InFlight : op[u] = "store" \/ block[u] = b =>
                  u \in older[m] \/ u = m \/ master[u] = m
  <2>1. CASE master[r] = None
    BY <1>1, <2>1 DEF MasterOf
  <2>2. CASE master[r] # None
    <3>1. m = master[r] /\ r \in Stack  BY <1>1, <2>2 DEF MasterOf, InFlight
    <3>2. m \in older[r]  BY <1>1, <2>2, <3>1 DEF NobodyFinishing
    <3>3. m \in InFlight /\ pc[m] # "idle"
      BY <3>1, <3>2 DEF ListOrder, InFlight
    <3>4. master[m] = None  BY <2>2, <3>1, <3>3 DEF Masters
    <3>5. /\ block[m] = b
          /\ \A u \in older[r] : Conflict(u, r) =>
               u \in older[m] \/ u = m \/ master[u] = m
      BY <1>1, <2>2, <3>1, <3>3 DEF Joined
    <3> QED  BY <1>1, <3>1, <3>3, <3>4, <3>5 DEF Conflict
  <2> QED  BY <2>1, <2>2
<1>2. CASE o = "load" /\ reads # {}
  <2> DEFINE r == Youngest(reads)
  <2>1. m = MasterOf(r)  BY <1>2 DEF CanCoalesce
  <2>2. reads \in SUBSET InFlight  BY DEF SameBlock, ReadTail
  <2>3. r \in reads /\ reads \ {r} \subseteq older[r]
    BY <1>2, <2>2, YoungestIsLast
  <2>4. r \in InFlight /\ block[r] = b /\ r \in ReadTail(InFlight)
    BY <2>3 DEF SameBlock, ReadTail
  <2>5. ASSUME NEW u \in InFlight, op[u] = "store" \/ block[u] = b, u # r
        PROVE  u \in older[r]
    <3>1. SUFFICES ASSUME r \in older[u]  PROVE u \in older[r]
      BY <2>4, <2>5 DEF ListOrder
    <3>2. u \in ReadTail(InFlight)
      <4>1. ASSUME NEW w \in InFlight, w = u \/ u \in older[w]
            PROVE  w \in Reads(InFlight)
        <5>1. r \in older[w]
          BY <2>4, <3>1, <4>1 DEF ListOrder, InFlight
        <5> QED  BY <2>4, <5>1 DEF ReadTail
      <4> QED  BY <4>1 DEF ReadTail
    <3>3. u \in Reads(InFlight)  BY <3>2 DEF ReadTail
    <3>4. block[u] = b  BY <2>5, <3>3 DEF Reads
    <3> QED  BY <2>3, <2>5, <3>2, <3>4 DEF SameBlock
  <2> HIDE DEF r
  <2> QED  BY <1>1, <2>1, <2>4, <2>5
<1>3. CASE ~(o = "load" /\ reads # {})
  <2>1. /\ o \in {"store", "nc"} /\ InFlight # {}
        /\ block[tail] = b /\ m = MasterOf(tail)
    BY <1>3 DEF CanCoalesce
  <2>2. tail \in InFlight /\ InFlight \ {tail} \subseteq older[tail]
    BY <2>1, YoungestIsLast
  <2> HIDE DEF tail
  <2> QED  BY <1>1, <2>1, <2>2
<1> QED  BY <1>2, <1>3

LEMMA BlockerIsOlder ==
  ASSUME IInv, NEW s \in Stack, Blocker(s) # None
  PROVE  Blocker(s) \in older[s]
<1>1. \A A \in SUBSET older[s] : A # {} => Youngest(A) \in A /\ Oldest(A) \in A
  BY YoungestIsLast, OldestIsFirst DEF IInv, ListOrder
<1>2. /\ Stores(older[s]) \subseteq older[s]
      /\ SameBlock(older[s], block[s]) \subseteq older[s]
  BY DEF Stores, SameBlock
<1> QED  BY <1>1, <1>2 DEF Blocker

LEMMA NoBlocker ==
  ASSUME IInv, NEW s \in Stack, Blocker(s) = None
  PROVE  /\ op[s] = "store" => older[s] = {}
         /\ \A u \in older[s] : op[u] # "store"
         /\ op[s] # "prefetch" => \A u \in older[s] : block[u] # block[s]
<1>1. \A A \in SUBSET older[s] : A # {} => Youngest(A) # None /\ Oldest(A) # None
  BY YoungestIsLast, OldestIsFirst, NoneAssumption
  DEF IInv, ListOrder, InFlight
<1>2. /\ Stores(older[s]) \subseteq older[s]
      /\ SameBlock(older[s], block[s]) \subseteq older[s]
  BY DEF Stores, SameBlock
<1>3. op[s] = "store" => older[s] = {}  BY <1>1 DEF Blocker
<1>4. Stores(older[s]) = {}  BY <1>1, <1>2, <1>3 DEF Blocker, Stores
<1>5. op[s] # "prefetch" => SameBlock(older[s], block[s]) = {}
  BY <1>1, <1>2, <1>3, <1>4 DEF Blocker
<1> QED  BY <1>3, <1>4, <1>5 DEF Stores, SameBlock

-----------------------------------------------------------------------------
(***************************************************************************)
(* Every step keeps the invariant.                                         *)
(***************************************************************************)
LEMMA InitIInv == Init => IInv
<1> SUFFICES ASSUME Init  PROVE IInv  OBVIOUS
<1> USE DEF Init, InFlight
<1>1. Slaves = {} /\ InFlight = {}  BY DEF Slaves
<1>2. TypeOK
  BY StackAssumption, FS_CardinalityType DEF TypeOK, Place
<1>3. ListOrder /\ Waiting /\ Masters /\ ServedClear /\ PrefetchClear
  BY DEF ListOrder, Waiting, Masters, ServedClear, PrefetchClear, Served, Clear
<1>4. Joined /\ Witnesses
  BY DEF Joined, Witnesses
<1>5. Counting
  BY <1>1, FS_EmptySet DEF Counting
<1>6. MshrsSuffice
  <2>1. {s \in InFlight : master[s] = None /\ op[s] # "prefetch"} = {}
    BY <1>1
  <2> QED  BY <2>1, FS_EmptySet, MshrAssumption DEF MshrsSuffice
<1> QED  BY <1>2, <1>3, <1>4, <1>5, <1>6 DEF IInv

\* An access that enters goes to the tail of the list.
LEMMA EnterKeepsOrder ==
  ASSUME IInv, NEW s \in Stack, NEW o, NEW b, NEW x \in Place \ {"idle"},
         Enter(s, o, b), pc' = [pc EXCEPT ![s] = x]
  PROVE  /\ s \notin InFlight /\ InFlight' = InFlight \cup {s}
         /\ older' = [older EXCEPT ![s] = InFlight]
         /\ \A u \in Stack : s \notin older[u]
         /\ \A u \in Stack : master[u] # s
         /\ ListOrder'
<1> USE DEF IInv
<1>1. s \notin InFlight /\ InFlight' = InFlight \cup {s}
  BY DEF Enter, InFlight, TypeOK
<1>2. older' = [older EXCEPT ![s] = InFlight]  BY DEF Enter, Insert
<1>3. \A u \in Stack : s \notin older[u]  BY <1>1 DEF ListOrder
<1>4. \A u \in Stack : master[u] # s
  BY NoneAssumption DEF Enter, Masters, InFlight
<1>5. ASSUME NEW u \in Stack
      PROVE  /\ older'[u] \subseteq InFlight'
             /\ u \notin older'[u]
             /\ pc'[u] = "idle" => older'[u] = {}
  BY <1>1, <1>2 DEF ListOrder, TypeOK, Place
<1>6. ASSUME NEW u \in InFlight', NEW v \in InFlight', u # v
      PROVE  u \in older'[v] \/ v \in older'[u]
  BY <1>1, <1>2, <1>6 DEF ListOrder, TypeOK, InFlight
<1>7. ASSUME NEW u \in Stack, NEW v \in Stack, NEW t \in Stack,
             t \in older'[v], v \in older'[u]
      PROVE  t \in older'[u]
  BY <1>1, <1>2, <1>3, <1>7 DEF ListOrder, TypeOK
<1>8. ListOrder'  BY <1>5, <1>6, <1>7 DEF ListOrder
<1> QED  BY <1>1, <1>2, <1>3, <1>4, <1>8

\* The slaves are counted, so the accesses that need an MSHR can be.
LEMMA AloneBound ==
  ASSUME IInv, CanAccess, MshrSize # 0
  PROVE  Cardinality({s \in InFlight : master[s] = None}) < MshrSize
<1> DEFINE Alone == {s \in InFlight : master[s] = None}
<1>1. IsFiniteSet(InFlight)  BY StackAssumption, FS_Subset DEF InFlight
<1>2. Slaves \subseteq InFlight
  BY DEF Slaves, InFlight, IInv, Masters
<1>3. Alone = InFlight \ Slaves  BY DEF Slaves, InFlight
<1>4. InFlight \cap Slaves = Slaves  BY <1>2
<1>5. Cardinality(Alone) = Cardinality(InFlight) - Cardinality(Slaves)
  BY <1>1, <1>3, <1>4, FS_Difference
<1> QED  BY <1>5 DEF CanAccess, IInv, Counting

LEMMA StartCoalescedKeeps ==
  ASSUME IInv, NEW s \in Stack, NEW o \in Ops, NEW b \in Block,
         StartCoalesced(s, o, b)
  PROVE  IInv'
<1> DEFINE m == CanCoalesce(o, b, InFlight)
<1> USE DEF IInv
<1>1. /\ o # "prefetch" /\ NobodyFinishing /\ m # None
      /\ Enter(s, o, b) /\ pc[s] = "idle"
      /\ op' = [op EXCEPT ![s] = o]
      /\ block' = [block EXCEPT ![s] = b]
      /\ portLocked' = [portLocked EXCEPT ![s] = FALSE]
      /\ pc' = [pc EXCEPT ![s] = "wait"]
      /\ waitsFor' = [waitsFor EXCEPT ![s] = m]
      /\ master' = [master EXCEPT ![s] = m]
      /\ coalesced' = coalesced + 1
      /\ witnessPtr' = [witnessPtr EXCEPT ![s] = "access"]
      /\ witness' = [witness EXCEPT ![s] = IF o = "store" THEN 1 ELSE 0]
  BY DEF StartCoalesced, Enter
<1>2. /\ m \in InFlight /\ master[m] = None /\ block[m] = b
      /\ \A u \in InFlight : op[u] = "store" \/ block[u] = b =>
           u \in older[m] \/ u = m \/ master[u] = m
  BY <1>1, MasterIsThere
<1> HIDE DEF m
<1>3. /\ s \notin InFlight /\ InFlight' = InFlight \cup {s}
      /\ older' = [older EXCEPT ![s] = InFlight]
      /\ \A u \in Stack : s \notin older[u]
      /\ \A u \in Stack : master[u] # s
      /\ ListOrder'
  <2>1. "wait" \in Place \ {"idle"}  BY DEF Place
  <2> QED  BY <1>1, <2>1, EnterKeepsOrder
<1>4. master[s] = None /\ m # s /\ m \in Stack
  BY <1>1, <1>2 DEF Masters, InFlight
<1>5. Counting' /\ coalesced' \in 0 .. Cardinality(Stack)
  <2>1. IsFiniteSet(Slaves) /\ Slaves' \in SUBSET Stack
    BY StackAssumption, FS_Subset DEF Slaves
  <2>2. Slaves' = Slaves \cup {s} /\ s \notin Slaves
    BY <1>1, <1>4 DEF Slaves, TypeOK
  <2>3. Cardinality(Slaves') = Cardinality(Slaves) + 1
    BY <2>1, <2>2, FS_AddElement
  <2>4. Cardinality(Slaves') <= Cardinality(Stack)
    BY <2>1, StackAssumption, FS_Subset
  <2>5. Cardinality(Stack) \in Nat  BY StackAssumption, FS_CardinalityType
  <2> QED  BY <1>1, <2>3, <2>4, <2>5 DEF Counting, TypeOK
<1>6. TypeOK'
  BY <1>1, <1>3, <1>4, <1>5 DEF TypeOK, Place, InFlight
<1>7. Waiting'
  BY <1>1, <1>2, <1>3 DEF Waiting, TypeOK
<1>8. Masters'
  BY <1>1, <1>2, <1>3, <1>4 DEF Masters, TypeOK, InFlight
<1>9. ServedClear' /\ PrefetchClear'
  <2>1. ASSUME NEW u \in Stack, u # s
        PROVE  /\ Clear(u) => Clear(u)'
               /\ Served(u)' = Served(u)
               /\ (\A v \in older[u] : block[v] # block[u]) =>
                    \A v \in older'[u] : block'[v] # block'[u]
    BY <1>1, <1>3, <2>1 DEF Clear, Conflict, Served, TypeOK, ListOrder
  <2>2. ~Served(s)'  BY <1>1 DEF Served, TypeOK
  <2>3. ServedClear'
    BY <1>1, <2>1, <2>2 DEF ServedClear, TypeOK
  <2>4. PrefetchClear'
    BY <1>1, <2>1 DEF PrefetchClear, TypeOK
  <2> QED  BY <2>3, <2>4
<1>10. Joined'
  <2>1. SUFFICES ASSUME NEW u \in Stack, master'[u] # None
        PROVE  /\ pc'[master'[u]] # "idle" =>
                    /\ block'[master'[u]] = block'[u]
                    /\ \A v \in older'[u] : Conflict(v, u)' =>
                         \/ v \in older'[master'[u]]
                         \/ v = master'[u] \/ master'[v] = master'[u]
               /\ pc'[master'[u]] = "idle" /\ op'[master'[u]] # "prefetch" =>
                    \A v \in older'[u] : Conflict(v, u)' =>
                      master'[v] = master'[u]
    BY DEF Joined
  <2>2. CASE u = s
    <3>1. master'[s] = m /\ older'[s] = InFlight /\ older'[m] = older[m]
      BY <1>1, <1>3, <1>4 DEF TypeOK
    <3>2. \A v \in InFlight : Conflict(v, s)' =
                                (op[v] = "store" \/ block[v] = b)
      BY <1>1, <1>3 DEF Conflict, TypeOK, InFlight
    <3>3. \A v \in InFlight : master'[v] = master[v]
      BY <1>1, <1>3 DEF TypeOK, InFlight
    <3>4. pc'[m] # "idle" /\ block'[m] = block'[s]
      BY <1>1, <1>2, <1>4 DEF TypeOK, InFlight
    <3> QED  BY <1>2, <2>2, <3>1, <3>2, <3>3, <3>4
  <2>3. CASE u # s
    <3>1. /\ master'[u] = master[u] /\ master[u] \in Stack /\ master[u] # s
          /\ older'[u] = older[u] /\ older'[master[u]] = older[master[u]]
          /\ pc'[master[u]] = pc[master[u]] /\ op'[master[u]] = op[master[u]]
          /\ block'[master[u]] = block[master[u]] /\ block'[u] = block[u]
      BY <1>1, <1>3, <2>1, <2>3 DEF TypeOK
    <3>2. \A v \in older[u] : /\ Conflict(v, u)' = Conflict(v, u)
                              /\ master'[v] = master[v]
      BY <1>1, <1>3, <2>3 DEF Conflict, TypeOK
    <3> QED  BY <2>1, <3>1, <3>2 DEF Joined
  <2> QED  BY <2>2, <2>3
<1>11. Witnesses'
  BY <1>1, <1>3 DEF Witnesses, TypeOK, InFlight
<1>12. MshrsSuffice'
  <2>1. {u \in InFlight : master[u] = None /\ op[u] # "prefetch"}' =
        {u \in InFlight : master[u] = None /\ op[u] # "prefetch"}
    BY <1>1, <1>3, <1>4 DEF InFlight, TypeOK
  <2> QED  BY <2>1 DEF MshrsSuffice
<1> QED
  BY <1>3, <1>5, <1>6, <1>7, <1>8, <1>9, <1>10, <1>11, <1>12

\* An access that has no master enters.
LEMMA StartKeeps ==
  ASSUME IInv, NEW s \in Stack, NEW o \in Ops \cup {"prefetch"},
         NEW b \in Block, Enter(s, o, b),
         NEW x \in {"lock", "finish"}, pc' = [pc EXCEPT ![s] = x],
         NEW w, witnessPtr' = [witnessPtr EXCEPT ![s] = w],
         w = IF o = "prefetch" THEN "none" ELSE "access",
         o # "prefetch" => x = "lock" /\ CanAccess,
         o = "prefetch" /\ x = "lock" =>
           \A u \in InFlight : block[u] # b,
         master' = [master EXCEPT ![s] = None],
         witness' = [witness EXCEPT ![s] = 0],
         UNCHANGED <<waitsFor, coalesced>>
  PROVE  IInv'
<1> USE DEF IInv
<1>1. /\ op' = [op EXCEPT ![s] = o]
      /\ block' = [block EXCEPT ![s] = b]
      /\ portLocked' = [portLocked EXCEPT ![s] = FALSE]
      /\ pc[s] = "idle"
  BY DEF Enter
<1>2. /\ s \notin InFlight /\ InFlight' = InFlight \cup {s}
      /\ older' = [older EXCEPT ![s] = InFlight]
      /\ \A u \in Stack : s \notin older[u]
      /\ \A u \in Stack : master[u] # s
      /\ ListOrder'
  <2>1. x \in Place \ {"idle"}  BY DEF Place
  <2> QED  BY <2>1, EnterKeepsOrder
<1>3. master' = master /\ master[s] = None
  BY <1>1 DEF Masters, TypeOK
<1>4. Counting'
  BY <1>3 DEF Counting, Slaves
<1>5. TypeOK'
  BY <1>1, <1>2, <1>3 DEF TypeOK, Place, InFlight
<1>6. Waiting'
  BY <1>1, <1>2 DEF Waiting, TypeOK
<1>7. Masters'
  BY <1>1, <1>2, <1>3 DEF Masters, TypeOK
<1>8. ServedClear' /\ PrefetchClear'
  <2>1. ASSUME NEW u \in Stack, u # s
        PROVE  /\ Clear(u) => Clear(u)'
               /\ Served(u)' = Served(u)
               /\ (\A v \in older[u] : block[v] # block[u]) =>
                    \A v \in older'[u] : block'[v] # block'[u]
    BY <1>1, <1>2, <2>1 DEF Clear, Conflict, Served, TypeOK, ListOrder
  <2>2. ~Served(s)'  BY <1>1 DEF Served, TypeOK
  <2>3. ServedClear'
    BY <1>1, <1>3, <2>1, <2>2 DEF ServedClear, TypeOK
  <2>4. op'[s] = "prefetch" /\ pc'[s] \notin {"idle", "finish"} =>
          \A u \in older'[s] : block'[u] # block'[s]
    BY <1>1, <1>2 DEF TypeOK, InFlight
  <2>5. PrefetchClear'
    BY <1>1, <2>1, <2>4 DEF PrefetchClear, TypeOK
  <2> QED  BY <2>3, <2>5
<1>9. Joined'
  <2>1. SUFFICES ASSUME NEW u \in Stack, master[u] # None
        PROVE  /\ pc'[master[u]] # "idle" =>
                    /\ block'[master[u]] = block'[u]
                    /\ \A v \in older'[u] : Conflict(v, u)' =>
                         \/ v \in older'[master[u]]
                         \/ v = master[u] \/ master[v] = master[u]
               /\ pc'[master[u]] = "idle" /\ op'[master[u]] # "prefetch" =>
                    \A v \in older'[u] : Conflict(v, u)' =>
                      master[v] = master[u]
    BY <1>3 DEF Joined
  <2>2. /\ u # s /\ master[u] \in Stack /\ master[u] # s
        /\ older'[u] = older[u] /\ older'[master[u]] = older[master[u]]
        /\ pc'[master[u]] = pc[master[u]] /\ op'[master[u]] = op[master[u]]
        /\ block'[master[u]] = block[master[u]] /\ block'[u] = block[u]
    BY <1>1, <1>2, <1>3, <2>1 DEF TypeOK
  <2>3. \A v \in older[u] : Conflict(v, u)' = Conflict(v, u)
    BY <1>1, <1>2, <2>2 DEF Conflict, TypeOK
  <2> QED  BY <2>1, <2>2, <2>3 DEF Joined
<1>10. Witnesses'
  BY <1>1, <1>2, <1>3 DEF Witnesses, TypeOK, InFlight
<1>11. MshrsSuffice'
  <2> DEFINE A == {u \in InFlight : master[u] = None /\ op[u] # "prefetch"}
  <2>1. CASE o = "prefetch"
    <3>1. A' = A  BY <1>1, <1>2, <1>3, <2>1 DEF InFlight, TypeOK
    <3> QED  BY <3>1 DEF MshrsSuffice
  <2>2. CASE o # "prefetch" /\ MshrSize # 0
    <3> DEFINE B == {u \in InFlight : master[u] = None}
    <3>1. IsFiniteSet(B)  BY StackAssumption, FS_Subset DEF InFlight
    <3>2. Cardinality(B) \in Nat /\ Cardinality(B) < MshrSize
      BY <2>2, <3>1, AloneBound, FS_CardinalityType
    <3>3. IsFiniteSet(B \cup {s}) /\ Cardinality(B \cup {s}) <= Cardinality(B) + 1
      BY <3>1, <3>2, FS_AddElement, SMTT(30)
    <3>4. A' \in SUBSET (B \cup {s})
      BY <1>2, <1>3
    <3>5. Cardinality(A') <= Cardinality(B \cup {s})
      BY <3>3, <3>4, FS_Subset
    <3>6. Cardinality(A') \in Nat /\ Cardinality(B \cup {s}) \in Nat
      BY <3>3, <3>4, FS_Subset, FS_CardinalityType
    <3>7. Cardinality(A') <= MshrSize
      BY <3>2, <3>3, <3>5, <3>6, MshrAssumption
    <3> QED  BY <3>7 DEF MshrsSuffice
  <2> QED  BY <2>1, <2>2 DEF MshrsSuffice
<1> QED
  BY <1>2, <1>4, <1>5, <1>6, <1>7, <1>8, <1>9, <1>10, <1>11

LEMMA StartAloneKeeps ==
  ASSUME IInv, NEW s \in Stack, NEW o \in Ops, NEW b \in Block,
         StartAlone(s, o, b)
  PROVE  IInv'
BY StartKeeps DEF StartAlone

LEMMA StartPrefetchKeeps ==
  ASSUME IInv, NEW s \in Stack, NEW b \in Block, StartPrefetch(s, b)
  PROVE  IInv'
<1> DEFINE x == IF SameBlock(InFlight, b) = {} THEN "lock" ELSE "finish"
<1>1. x = "lock" => \A u \in InFlight : block[u] # b  BY DEF SameBlock
<1>2. x \in {"lock", "finish"}  OBVIOUS
<1>3. /\ Enter(s, "prefetch", b) /\ pc' = [pc EXCEPT ![s] = x]
      /\ witnessPtr' = [witnessPtr EXCEPT ![s] = "none"]
      /\ master' = [master EXCEPT ![s] = None]
      /\ witness' = [witness EXCEPT ![s] = 0]
      /\ UNCHANGED <<waitsFor, coalesced>>
  BY DEF StartPrefetch
<1> HIDE DEF x
<1> QED  BY <1>1, <1>2, <1>3, StartKeeps

\* A step of an access without a master that leaves the access list alone.
LEMMA MoveKeepsList ==
  ASSUME IInv, NEW s \in Stack, pc[s] # "idle", master[s] = None,
         NEW x \in Place \ {"idle"}, pc' = [pc EXCEPT ![s] = x],
         UNCHANGED <<op, block, older, master, coalesced>>
  PROVE  /\ InFlight' = InFlight
         /\ ListOrder' /\ Joined' /\ Counting' /\ MshrsSuffice'
         /\ \A u \in Stack : /\ Clear(u)' = Clear(u)
                             /\ u # s => Served(u)' = Served(u)
<1> USE DEF IInv
<1>1. \A u \in Stack : pc'[u] = "idle" <=> pc[u] = "idle"
  BY DEF TypeOK
<1>2. InFlight' = InFlight  BY <1>1 DEF InFlight
<1>3. ListOrder'  BY <1>1, <1>2 DEF ListOrder
<1>4. Joined'
  <2>1. \A u, v \in Stack : Conflict(u, v)' = Conflict(u, v)  BY DEF Conflict
  <2>2. \A u \in Stack : master[u] # None => master[u] \in Stack
    BY DEF TypeOK
  <2>3. \A u \in Stack : older[u] \subseteq Stack  BY DEF TypeOK
  <2> QED  BY <1>1, <2>1, <2>2, <2>3 DEF Joined
<1>5. Counting'  BY DEF Counting, Slaves
<1>6. MshrsSuffice'
  <2>1. {u \in InFlight : master[u] = None /\ op[u] # "prefetch"}' =
        {u \in InFlight : master[u] = None /\ op[u] # "prefetch"}
    BY <1>2
  <2> QED  BY <2>1 DEF MshrsSuffice
<1>7. \A u \in Stack : Clear(u)' = Clear(u)  BY DEF Clear, Conflict
<1>8. \A u \in Stack : u # s => Served(u)' = Served(u)
  BY DEF Served, TypeOK
<1> QED  BY <1>2, <1>3, <1>4, <1>5, <1>6, <1>7, <1>8

LEMMA WaitKeeps ==
  ASSUME IInv, NEW s \in Stack, Wait(s)
  PROVE  IInv'
<1> USE DEF IInv
<1>1. /\ pc[s] = "lock" /\ pc' = [pc EXCEPT ![s] = "wait"]
      /\ waitsFor' = [waitsFor EXCEPT ![s] = Blocker(s)]
      /\ UNCHANGED <<op, block, older, master, portLocked, witnessPtr,
                     witness, coalesced>>
  BY DEF Wait
<1>2. Blocker(s) \in older[s]  BY BlockerIsOlder DEF Wait
<1>3. master[s] = None  BY <1>1 DEF Masters
<1>4. /\ InFlight' = InFlight
      /\ ListOrder' /\ Joined' /\ Counting' /\ MshrsSuffice'
      /\ \A u \in Stack : /\ Clear(u)' = Clear(u)
                          /\ u # s => Served(u)' = Served(u)
  <2>1. "wait" \in Place \ {"idle"}  BY DEF Place
  <2> QED  BY <1>1, <1>3, <2>1, MoveKeepsList
<1>5. TypeOK'  BY <1>1, <1>2 DEF TypeOK, Place
<1>6. Waiting'  BY <1>1, <1>2 DEF Waiting, TypeOK
<1>7. Masters'  BY <1>1, <1>3 DEF Masters, TypeOK
<1>8. ServedClear' /\ PrefetchClear'
  <2>1. ~Served(s)'  BY <1>1 DEF Served, TypeOK
  <2>2. ServedClear'  BY <1>1, <1>4, <2>1 DEF ServedClear, TypeOK
  <2>3. PrefetchClear'  BY <1>1 DEF PrefetchClear, TypeOK
  <2> QED  BY <2>2, <2>3
<1>9. Witnesses'  BY <1>1, <1>4 DEF Witnesses, TypeOK, InFlight
<1> QED  BY <1>4, <1>5, <1>6, <1>7, <1>8, <1>9

\* Find-and-lock and the protocol, between the waiting list and the end.
LEMMA ServiceKeeps ==
  ASSUME IInv, NEW s \in Stack, pc[s] \in {"lock", "find", "port", "service"},
         NEW x \in {"lock", "find", "port", "service", "finish"},
         pc' = [pc EXCEPT ![s] = x],
         pc[s] = "lock" => x = "find" /\ Blocker(s) = None,
         x = "finish" => pc[s] = "service" \/ op[s] = "prefetch",
         UNCHANGED <<op, block, older, waitsFor, master, coalesced>>,
         portLocked' \in [Stack -> BOOLEAN],
         NEW w \in {"access", "frame", "none"},
         witnessPtr' = [witnessPtr EXCEPT ![s] = w],
         NEW n \in 0 .. 1, witness' = [witness EXCEPT ![s] = n],
         op[s] # "store" => w = witnessPtr[s] /\ n = witness[s],
         op[s] = "store" =>
           /\ n = IF w = "none" THEN 1 ELSE 0
           /\ x = "find" => w # "access"
           /\ x \in {"port", "service", "finish"} => n = 1
  PROVE  IInv'
<1> USE DEF IInv
<1>1. master[s] = None  BY DEF Masters
<1>2. /\ InFlight' = InFlight
      /\ ListOrder' /\ Joined' /\ Counting' /\ MshrsSuffice'
      /\ \A u \in Stack : /\ Clear(u)' = Clear(u)
                          /\ u # s => Served(u)' = Served(u)
  <2>1. x \in Place \ {"idle"}  BY DEF Place
  <2> QED  BY <1>1, <2>1, MoveKeepsList
<1>3. TypeOK'  BY DEF TypeOK, Place
<1>4. Waiting'  BY DEF Waiting, TypeOK
<1>5. Masters'  BY <1>1 DEF Masters, TypeOK
<1>6. x # "lock" /\ ~(x = "finish" /\ op[s] = "prefetch") => Clear(s)
  <2>1. CASE pc[s] = "lock"
    <3>1. op[s] = "prefetch" => \A u \in older[s] : block[u] # block[s]
      BY <2>1 DEF PrefetchClear
    <3> QED  BY <2>1, <3>1, NoBlocker DEF Clear, Conflict
  <2>2. CASE pc[s] # "lock"
    BY <2>2 DEF ServedClear, Served
  <2> QED  BY <2>1, <2>2
<1>7. ServedClear'
  <2>1. /\ Served(s)' => Clear(s)'
        /\ pc'[s] = "finish" /\ op[s] # "prefetch" => Clear(s)'
    BY <1>2, <1>6 DEF Served, TypeOK
  <2> QED  BY <1>2, <2>1 DEF ServedClear, TypeOK
<1>8. PrefetchClear'  BY DEF PrefetchClear, TypeOK
<1>9. Witnesses'  BY <1>1, <1>2 DEF Witnesses, TypeOK, InFlight
<1> QED  BY <1>2, <1>3, <1>4, <1>5, <1>7, <1>8, <1>9

LEMMA FindAndLockKeeps ==
  ASSUME IInv, NEW s \in Stack, FindAndLock(s)
  PROVE  IInv'
<1> DEFINE w == IF op[s] = "store" /\ witnessPtr[s] = "access" THEN "frame"
                ELSE witnessPtr[s]
<1>1. /\ pc[s] = "lock" /\ Blocker(s) = None
      /\ pc' = [pc EXCEPT ![s] = "find"]
      /\ UNCHANGED <<op, block, older, waitsFor, master, portLocked, witness,
                     coalesced>>
      /\ witnessPtr' = [witnessPtr EXCEPT ![s] = w]
  BY DEF FindAndLock, PassWitness
<1>2. master[s] = None /\ s \in InFlight
  BY <1>1 DEF IInv, Masters, InFlight
<1>3. /\ w \in {"access", "frame", "none"} /\ witness[s] \in 0 .. 1
      /\ witness' = [witness EXCEPT ![s] = witness[s]]
      /\ portLocked' \in [Stack -> BOOLEAN]
  BY <1>1 DEF IInv, TypeOK
<1>4. op[s] = "store" =>
        witness[s] = (IF w = "none" THEN 1 ELSE 0) /\ w # "access"
  BY <1>2 DEF IInv, Witnesses
<1>5. op[s] # "store" => w = witnessPtr[s]  OBVIOUS
<1> HIDE DEF w
<1> QED  BY <1>1, <1>3, <1>4, <1>5, ServiceKeeps

LEMMA LockPortKeeps ==
  ASSUME IInv, NEW s \in Stack, LockPort(s)
  PROVE  IInv'
<1> DEFINE w == IF witnessPtr[s] = "frame" THEN "none" ELSE witnessPtr[s]
           n == IF witnessPtr[s] = "frame" THEN witness[s] + 1 ELSE witness[s]
<1>1. /\ pc[s] = "find" /\ pc' = [pc EXCEPT ![s] = "port"]
      /\ portLocked' = [portLocked EXCEPT ![s] = TRUE]
      /\ UNCHANGED <<op, block, older, waitsFor, master, coalesced>>
      /\ witnessPtr' = [witnessPtr EXCEPT ![s] = w]
      /\ witness' = [witness EXCEPT ![s] = n]
  BY DEF LockPort
<1>2. master[s] = None /\ s \in InFlight
  BY <1>1 DEF IInv, Masters, InFlight
<1>3. w \in {"access", "frame", "none"} /\ portLocked' \in [Stack -> BOOLEAN]
  BY <1>1 DEF IInv, TypeOK
<1>4. op[s] # "store" => w = witnessPtr[s] /\ n = witness[s]
  BY <1>2 DEF IInv, Witnesses
<1>5. op[s] = "store" => w = "none" /\ n = 1
  BY <1>1, <1>2 DEF IInv, TypeOK, Witnesses
<1>6. n \in 0 .. 1  BY <1>4, <1>5 DEF IInv, TypeOK
<1> HIDE DEF w, n
<1> QED  BY <1>1, <1>3, <1>4, <1>5, <1>6, ServiceKeeps

\* The remaining steps of a service do not touch the witness.
LEMMA EntryStepKeeps ==
  ASSUME IInv, NEW s \in Stack,
         EntryBusy(s) \/ LockEntry(s) \/ Fail(s) \/ Succeed(s)
  PROVE  IInv'
<1>1. PICK x \in {"lock", "find", "service", "finish"} :
        /\ pc[s] \in {"port", "service"} /\ pc' = [pc EXCEPT ![s] = x]
        /\ x = "finish" => pc[s] = "service" \/ op[s] = "prefetch"
  BY DEF EntryBusy, LockEntry, Fail, Succeed
<1>2. UNCHANGED <<op, block, older, waitsFor, master, witnessPtr, witness,
                  coalesced>>
  BY DEF EntryBusy, LockEntry, Fail, Succeed
<1>3. portLocked' \in [Stack -> BOOLEAN]
  BY DEF EntryBusy, LockEntry, Fail, Succeed, IInv, TypeOK
<1>4. master[s] = None /\ s \in InFlight
  BY <1>1 DEF IInv, Masters, InFlight
<1>5. op[s] = "store" => witnessPtr[s] = "none" /\ witness[s] = 1
  BY <1>1, <1>4 DEF IInv, Witnesses, TypeOK
<1>6. /\ witnessPtr[s] \in {"access", "frame", "none"} /\ witness[s] \in 0 .. 1
      /\ witnessPtr' = [witnessPtr EXCEPT ![s] = witnessPtr[s]]
      /\ witness' = [witness EXCEPT ![s] = witness[s]]
  BY <1>2 DEF IInv, TypeOK
<1> QED  BY <1>1, <1>2, <1>3, <1>5, <1>6, ServiceKeeps

\* An access leaves the list and wakes those that wait for it.
LEMMA FinishKeeps ==
  ASSUME IInv, NEW s \in Stack, Finish(s)
  PROVE  IInv'
<1> DEFINE W == Waiters(s)
<1> USE DEF IInv
<1>1. /\ pc[s] = "finish"
      /\ pc' = [u \in Stack |->
           IF u = s THEN "idle"
           ELSE IF u \notin W THEN pc[u]
           ELSE IF master[u] = None THEN "lock" ELSE "finish"]
      /\ waitsFor' = [u \in Stack |-> IF u \in W THEN None ELSE waitsFor[u]]
      /\ older' = [u \in Stack |-> IF u = s THEN {} ELSE older[u] \ {s}]
      /\ coalesced' = coalesced - Count(s)
      /\ block' = [block EXCEPT ![s] = None]
      /\ master' = [master EXCEPT ![s] = None]
      /\ witnessPtr' = [witnessPtr EXCEPT ![s] = "none"]
      /\ op' = op /\ portLocked' = portLocked
  BY DEF Finish, Woken, Uncount
<1>2. witness' = [witness EXCEPT ![s] =
        IF op[s] # "store" /\ witnessPtr[s] = "access" THEN @ + 1 ELSE @]
  BY DEF Finish
<1>3. \A u \in Stack : u \in W => pc[u] = "wait" /\ waitsFor[u] = s
  BY NoneAssumption DEF Waiters, Waiting
<1>4. s \notin W /\ s \in InFlight  BY <1>1, <1>3 DEF InFlight
<1>5. \A u \in Stack : pc'[u] = "idle" <=> pc[u] = "idle" \/ u = s
  BY <1>1, <1>3
<1>6. InFlight' = InFlight \ {s}  BY <1>5 DEF InFlight
<1>7. \A u \in Stack : master[u] = s => u \in W
  BY <1>1, NoneAssumption DEF Masters, Waiters
<1>8. \A u \in Stack : u # s => master'[u] = master[u] /\ block'[u] = block[u]
  BY <1>1 DEF TypeOK
<1>9. \A u \in W : master[u] = None \/ master[u] = s
  BY <1>3 DEF Masters, Waiters
<1> HIDE DEF W
<1>10. Counting' /\ coalesced' \in 0 .. Cardinality(Stack)
  <2>1. IsFiniteSet(Slaves) /\ Slaves' \in SUBSET Stack
    BY StackAssumption, FS_Subset DEF Slaves
  <2>2. Slaves' = Slaves \ {s}
    BY <1>1, <1>8 DEF Slaves, TypeOK
  <2>3. Cardinality(Slaves') =
          IF s \in Slaves THEN Cardinality(Slaves) - 1 ELSE Cardinality(Slaves)
    BY <2>1, <2>2, FS_RemoveElement
  <2>4. coalesced' = Cardinality(Slaves')
    BY <1>1, <2>3, FS_CardinalityType, <2>1 DEF Counting, Count, Slaves
  <2>5. Cardinality(Slaves') <= Cardinality(Stack) /\ IsFiniteSet(Slaves')
    BY <2>1, StackAssumption, FS_Subset
  <2>6. Cardinality(Stack) \in Nat /\ Cardinality(Slaves') \in Nat
    BY <2>5, StackAssumption, FS_CardinalityType
  <2> QED  BY <2>4, <2>5, <2>6 DEF Counting
<1>11. TypeOK'
  <2>1. pc' \in [Stack -> Place]  BY <1>1 DEF TypeOK, Place
  <2>2. witness' \in [Stack -> 0 .. 1]
    BY <1>2, <1>4 DEF TypeOK, Witnesses
  <2> QED  BY <1>1, <1>10, <2>1, <2>2 DEF TypeOK
<1>12. ListOrder'
  <2>1. ASSUME NEW u \in Stack
        PROVE  /\ older'[u] \subseteq InFlight'
               /\ u \notin older'[u]
               /\ pc'[u] = "idle" => older'[u] = {}
    BY <1>1, <1>5, <1>6 DEF ListOrder
  <2>2. ASSUME NEW u \in InFlight', NEW v \in InFlight', u # v
        PROVE  u \in older'[v] \/ v \in older'[u]
    BY <1>1, <1>6, <2>2 DEF ListOrder, InFlight
  <2>3. ASSUME NEW u \in Stack, NEW v \in Stack, NEW t \in Stack,
               t \in older'[v], v \in older'[u]
        PROVE  t \in older'[u]
    BY <1>1, <2>3 DEF ListOrder
  <2> QED  BY <2>1, <2>2, <2>3 DEF ListOrder
<1>13. Waiting'
  <2>1. ASSUME NEW u \in Stack
        PROVE  /\ pc'[u] = "wait" => waitsFor'[u] \in older'[u]
               /\ pc'[u] # "wait" => waitsFor'[u] = None
    BY <1>1, <1>3 DEF Waiting, Waiters, W
  <2> QED  BY <2>1 DEF Waiting
<1>14. Masters'
  <2>1. SUFFICES ASSUME NEW u \in Stack, master'[u] # None
        PROVE  /\ pc'[u] \in {"wait", "finish"} /\ op[u] # "prefetch"
               /\ pc'[u] = "wait" => waitsFor'[u] = master'[u]
               /\ pc'[u] = "finish" => pc'[master'[u]] = "idle"
               /\ pc'[master'[u]] # "idle" => master'[master'[u]] = None
    BY <1>1 DEF Masters
  <2>2. u # s /\ master'[u] = master[u] /\ master[u] \in Stack
    BY <1>1, <1>8, <2>1 DEF TypeOK
  <2>3. CASE u \in W
    BY <1>1, <1>5, <1>9, <2>1, <2>2, <2>3 DEF Masters
  <2>4. CASE u \notin W
    <3>1. master[u] # s /\ pc'[u] = pc[u] /\ waitsFor'[u] = waitsFor[u]
      BY <1>1, <1>7, <2>2, <2>4
    <3>2. pc'[master[u]] = "idle" <=> pc[master[u]] = "idle"
      BY <1>5, <2>2, <3>1
    <3>3. master'[master[u]] = master[master[u]]
      BY <1>8, <2>2, <3>1
    <3> QED  BY <2>1, <2>2, <3>1, <3>2, <3>3 DEF Masters
  <2> QED  BY <2>3, <2>4
<1>15. \A u \in Stack : u # s /\ Clear(u) => Clear(u)'
  BY <1>1, <1>8 DEF Clear, Conflict, TypeOK
<1>16. ServedClear'
  <2>1. ASSUME NEW u \in Stack, Served(u)' PROVE Clear(u)'
    BY <1>1, <1>15, <2>1 DEF ServedClear, Served
  <2>2. ASSUME NEW u \in Stack, pc'[u] = "finish", master'[u] = None,
               op[u] # "prefetch"
        PROVE  Clear(u)'
    BY <1>1, <1>8, <1>15, <2>2 DEF ServedClear
  <2> QED  BY <1>1, <2>1, <2>2 DEF ServedClear
<1>17. PrefetchClear'
  <2>1. ASSUME NEW u \in Stack, op[u] = "prefetch",
               pc'[u] \notin {"idle", "finish"}, NEW v \in older'[u]
        PROVE  block'[v] # block'[u]
    <3>1. u # s /\ v \in older[u] /\ v # s /\ v \in Stack
      BY <1>1, <2>1 DEF TypeOK
    <3>2. pc[u] \notin {"idle", "finish"}  BY <1>1, <1>3, <2>1, <3>1
    <3> QED  BY <1>8, <2>1, <3>1, <3>2 DEF PrefetchClear
  <2> QED  BY <1>1, <2>1 DEF PrefetchClear
<1>18. Joined'
  <2>1. SUFFICES ASSUME NEW u \in Stack, master'[u] # None
        PROVE  /\ pc'[master'[u]] # "idle" =>
                    /\ block'[master'[u]] = block'[u]
                    /\ \A v \in older'[u] : Conflict(v, u)' =>
                         \/ v \in older'[master'[u]]
                         \/ v = master'[u] \/ master'[v] = master'[u]
               /\ pc'[master'[u]] = "idle" /\ op'[master'[u]] # "prefetch" =>
                    \A v \in older'[u] : Conflict(v, u)' =>
                      master'[v] = master'[u]
    BY DEF Joined
  <2>2. u # s /\ master'[u] = master[u] /\ master[u] \in Stack
    BY <1>1, <1>8, <2>1 DEF TypeOK
  <2>3. \A v \in older'[u] : /\ v \in older[u] /\ v # s
                             /\ Conflict(v, u)' = Conflict(v, u)
                             /\ master'[v] = master[v]
    BY <1>1, <1>8, <2>2 DEF Conflict, TypeOK
  <2>4. CASE master[u] = s
    <3>1. pc'[s] = "idle" /\ master[s] = None
      BY <1>1, <2>1, <2>2, <2>4 DEF Masters
    <3>2. /\ block[s] = block[u]
          /\ \A v \in older[u] : Conflict(v, u) =>
               v \in older[s] \/ v = s \/ master[v] = s
      BY <1>1, <2>1, <2>2, <2>4 DEF Joined
    <3>3. op[s] # "prefetch" => \A v \in older[s] : ~Conflict(v, u)
      BY <1>1, <3>1, <3>2 DEF ServedClear, Clear, Conflict
    <3> QED  BY <1>1, <2>2, <2>3, <2>4, <3>1, <3>2, <3>3
  <2>5. CASE master[u] # s
    <3>1. /\ pc'[master[u]] = "idle" <=> pc[master[u]] = "idle"
          /\ block'[master[u]] = block[master[u]] /\ block'[u] = block[u]
          /\ older'[master[u]] = older[master[u]] \ {s}
      BY <1>1, <1>5, <1>8, <2>2, <2>5
    <3> QED  BY <1>1, <2>1, <2>2, <2>3, <3>1 DEF Joined
  <2> QED  BY <2>4, <2>5
<1>19. Witnesses'
  <2>1. ASSUME NEW u \in InFlight'
        PROVE  /\ u \in InFlight /\ u # s /\ u \in Stack
               /\ op'[u] = op[u] /\ master'[u] = master[u]
               /\ witness'[u] = witness[u] /\ witnessPtr'[u] = witnessPtr[u]
               /\ \/ pc'[u] = pc[u] \/ pc'[u] = "lock"
                  \/ pc'[u] = "finish" /\ master[u] # None
    BY <1>1, <1>2, <1>6, <1>8 DEF TypeOK, InFlight
  <2> QED  BY <2>1 DEF Witnesses
<1>20. MshrsSuffice'
  <2> DEFINE A == {u \in InFlight : master[u] = None /\ op[u] # "prefetch"}
  <2>1. A' \in SUBSET A  BY <1>1, <1>6, <1>8 DEF InFlight
  <2>2. IsFiniteSet(A)  BY StackAssumption, FS_Subset DEF InFlight
  <2>3. /\ Cardinality(A') <= Cardinality(A)
        /\ Cardinality(A') \in Nat /\ Cardinality(A) \in Nat
    BY <2>1, <2>2, FS_Subset, FS_CardinalityType
  <2>4. MshrSize # 0 => Cardinality(A') <= MshrSize
    BY <2>3, MshrAssumption DEF MshrsSuffice
  <2> QED  BY <2>4 DEF MshrsSuffice
<1> QED
  BY <1>10, <1>11, <1>12, <1>13, <1>14, <1>16, <1>17, <1>18, <1>19, <1>20

LEMMA NextKeeps == IInv /\ [Next]_vars => IInv'
<1> SUFFICES ASSUME IInv, [Next]_vars  PROVE IInv'  OBVIOUS
<1>1. CASE Next
  <2>1. PICK s \in Stack : Start(s) \/ Event(s)  BY <1>1 DEF Next
  <2>2. CASE Start(s)
    BY <2>2, StartCoalescedKeeps, StartAloneKeeps, StartPrefetchKeeps DEF Start
  <2>3. CASE Event(s)
    BY <2>3, WaitKeeps, FindAndLockKeeps, LockPortKeeps, EntryStepKeeps,
       FinishKeeps DEF Event
  <2> QED  BY <2>1, <2>2, <2>3
<1>2. CASE UNCHANGED vars
  <2>1. InFlight' = InFlight  BY <1>2 DEF vars, InFlight
  <2>2. \A s \in Stack : /\ Clear(s)' = Clear(s) /\ Served(s)' = Served(s)
    BY <1>2 DEF vars, Clear, Conflict, Served
  <2>3. \A s, u \in Stack : Conflict(s, u)' = Conflict(s, u)
    BY <1>2 DEF vars, Conflict
  <2>4. TypeOK' /\ ListOrder' /\ Waiting' /\ Masters'
    BY <1>2, <2>1 DEF vars, IInv, TypeOK, ListOrder, Waiting, Masters
  <2>5. ServedClear' /\ PrefetchClear'
    BY <1>2, <2>2 DEF vars, IInv, ServedClear, PrefetchClear
  <2>6. Joined'  BY <1>2 DEF vars, IInv, Joined, Conflict
  <2>7. Witnesses' /\ Counting'
    BY <1>2, <2>1 DEF vars, IInv, Witnesses, Counting, Slaves
  <2>8. MshrsSuffice'
    BY <1>2, <2>1 DEF vars, IInv, MshrsSuffice
  <2> QED  BY <2>4, <2>5, <2>6, <2>7, <2>8 DEF IInv
<1> QED  BY <1>1, <1>2

-----------------------------------------------------------------------------
(***************************************************************************)
(* The properties.                                                         *)
(***************************************************************************)
LEMMA Invariance == Spec => []IInv
BY InitIInv, NextKeeps, PTL DEF Spec

\* An access leaves the list only in its last event.
LEMMA LeavesByFinish ==
  ASSUME IInv, [Next]_vars, NEW s \in InFlight, pc'[s] = "idle"
  PROVE  Finish(s)
<1>1. s \in Stack /\ pc[s] \in Place /\ pc[s] # "idle"
  BY DEF InFlight, IInv, TypeOK
<1>2. PICK u \in Stack : Start(u) \/ Event(u)
  BY <1>1 DEF Next, vars
<1>3. CASE Start(u)
  BY <1>1, <1>3 DEF Start, StartCoalesced, StartAlone, StartPrefetch, IInv,
                    TypeOK
<1>4. CASE Finish(u)
  <2>1. u = s \/ pc'[s] \in {pc[s], "lock", "finish"}
    BY <1>1, <1>4 DEF Finish
  <2> QED  BY <1>1, <1>4, <2>1
<1>5. CASE Event(u) /\ ~Finish(u)
  <2>1. PICK x \in Place \ {"idle"} : pc' = [pc EXCEPT ![u] = x]
    BY <1>5 DEF Event, Wait, FindAndLock, LockPort, EntryBusy, LockEntry,
                Fail, Succeed, Place
  <2> QED  BY <1>1, <2>1 DEF IInv, TypeOK
<1> QED  BY <1>2, <1>3, <1>4, <1>5

\* Type correctness: the counter of coalesced accesses stays within their
\* number, and a witness is never incremented twice.
THEOREM Typing == Spec => []TypeOK
BY Invariance, PTL DEF IInv

\* Stores are served alone, and accesses to the same block one after the other:
\* what MayStart assumes in FindAndLock and Nmoesi.
THEOREM ConflictsAreServedApart == Spec => []ServedApart
<1>1. ASSUME IInv  PROVE ServedApart
  <2>1. SUFFICES ASSUME NEW s \in Stack, NEW u \in Stack, u \in older[s],
                        Served(s), Served(u)
                 PROVE  /\ op[s] # "store" /\ op[u] # "store"
                        /\ block[s] # block[u]
    BY <1>1 DEF ServedApart, IInv, ListOrder, Served, InFlight
  <2>2. Clear(s)  BY <1>1, <2>1 DEF IInv, ServedClear
  <2> QED  BY <2>1, <2>2 DEF Clear, Conflict
<1> QED  BY <1>1, Invariance, PTL

\* Nobody waits for a younger access, or for a coalesced one when coalesced.
THEOREM WaitersFollow == Spec => []WaitsForOlder
<1>1. ASSUME IInv  PROVE WaitsForOlder
  BY <1>1, NoneAssumption DEF IInv, WaitsForOlder, Waiting, Masters, InFlight
<1> QED  BY <1>1, Invariance, PTL

\* The accesses that are not coalesced never exceed the MSHRs.
THEOREM MshrsAreEnough == Spec => []MshrsSuffice
BY Invariance, PTL DEF IInv

\* Accesses that conflict leave in the order in which they came.
THEOREM ConflictsLeaveInOrder == Spec => LeavesInOrder
<1> DEFINE InOrder ==
      \A s \in InFlight : pc'[s] = "idle" /\ ~Prefetched(s) =>
        \A u \in older[s] : op[u] = "store" \/ block[u] = block[s] =>
          MasterOf(u) = MasterOf(s)
<1>1. ASSUME IInv, [Next]_vars  PROVE InOrder
  <2>1. SUFFICES ASSUME NEW s \in InFlight, pc'[s] = "idle", ~Prefetched(s),
                        NEW u \in older[s], Conflict(u, s)
                 PROVE  MasterOf(u) = MasterOf(s)
    BY DEF Conflict
  <2>2. s \in Stack /\ pc[s] = "finish"
    BY <1>1, <2>1, LeavesByFinish DEF Finish, InFlight
  <2>3. master[s] # None
    BY <1>1, <2>1, <2>2 DEF IInv, ServedClear, Clear, Prefetched
  <2>4. pc[master[s]] = "idle" /\ op[master[s]] # "prefetch"
    BY <1>1, <2>1, <2>2, <2>3 DEF IInv, Masters, Prefetched, MasterOf
  <2>5. master[u] = master[s]
    BY <1>1, <2>1, <2>2, <2>3, <2>4 DEF IInv, Joined
  <2> QED  BY <2>3, <2>5 DEF MasterOf
<1> QED  BY <1>1, Invariance, PTL DEF Spec, LeavesInOrder

\* The witness that the processor waits for is incremented exactly once.
THEOREM WitnessesComeOnce == Spec => WitnessedOnce
<1> DEFINE Witnessed ==
      \A s \in InFlight : pc'[s] = "idle" /\ op[s] # "prefetch" =>
        witness'[s] = 1
<1>1. ASSUME IInv, [Next]_vars  PROVE Witnessed
  <2>1. SUFFICES ASSUME NEW s \in InFlight, pc'[s] = "idle",
                        op[s] # "prefetch"
                 PROVE  witness'[s] = 1
    OBVIOUS
  <2>2. s \in Stack /\ Finish(s) /\ pc[s] = "finish"
    BY <1>1, <2>1, LeavesByFinish DEF Finish, InFlight
  <2>3. witness'[s] = IF op[s] # "store" /\ witnessPtr[s] = "access"
                      THEN witness[s] + 1 ELSE witness[s]
    BY <1>1, <2>2 DEF Finish, IInv, TypeOK
  <2> QED  BY <1>1, <2>1, <2>2, <2>3 DEF IInv, Witnesses
<1> QED  BY <1>1, Invariance, PTL DEF Spec, WitnessedOnce
=============================================================================
